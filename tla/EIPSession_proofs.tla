-------------------------- MODULE EIPSession_proofs --------------------------
(***************************************************************************)
(* Proofs about EIPSession, for any device and network: types, that the    *)
(* exchanges exclude one another, that until one is abandoned each leaves  *)
(* the stream and the session in order, and that the client implements     *)
(* ClientContract.                                                         *)
(*                                                                         *)
(* Replies to SendUnitData, when the device sends any, stay in the stream. *)
(* HInv therefore does not say that it is empty between exchanges, but     *)
(* that it is made of whole replies, one after the other, and whose.       *)
(***************************************************************************)
EXTENDS EIPSession, TLAPS

\* Who holds the mutex is inside an exchange.
Held == {"locked", "header", "body"}

LockInv == \A t \in Callers : pc[t] \in Held <=> mu = t

CallInv ==
  \A t \in Callers :
    /\ pc[t] # "idle" => call[t].res = "none"
    /\ pc[t] = "header" =>
         \/ call[t].m = "RegisterSession" /\ call[t].need = HeaderLen + RegisterLen
         \/ call[t].m \in {"ListIdentity", "SendRRData"} /\ call[t].need = HeaderLen
    /\ pc[t] = "body" => call[t].m \in {"ListIdentity", "SendRRData"}
    /\ pc[t] \in {"check", "close"} => call[t].m = "Close"

End(f) == f.at + HeaderLen + f.msg.len

\* From offset o on, the first u bytes are the replies of F, one after the other.
Tiled(F, o, u) ==
  /\ o =< u
  /\ o < u => \E f \in F : f.at = o
  /\ \A f \in F : f.at >= o /\ End(f) =< u /\ (End(f) < u => \E g \in F : g.at = End(f))
  /\ \A f, g \in F : f = g \/ End(f) =< g.at \/ End(g) =< f.at

Emptied == ~peerOpen /\ unread = 0 /\ frames = {}

\* Replies start where the next header is read, but for the goroutine that waits for a body.
Tiling ==
  /\ (\A t \in Callers : pc[t] # "body") => Tiled(frames, 0, unread)
  /\ \A t \in Callers : pc[t] = "body" => Tiled(frames, call[t].need, unread) \/ Emptied

\* t waits for the answer to this request, or for this reply.
Awaits(t, msg, id) == pc[t] = "header" /\ msg.m = call[t].m /\ id = call[t].id

\* A request that is owed an answer is the only one, none is unread, and someone waits for it.
OneAsked ==
  \A i \in 1..Len(c2s) : Owed(c2s[i]) =>
    /\ \A j \in 1..Len(c2s) : Owed(c2s[j]) => i = j
    /\ \A f \in frames : ~Owed(f.msg)
    /\ \E t \in Callers : Awaits(t, c2s[i], c2s[i].id)

\* An answer is the only one, someone waits for it, and what it says is what the device grants.
OneAnswer ==
  \A f \in frames : Owed(f.msg) =>
    /\ \A g \in frames : Owed(g.msg) => f = g
    /\ \E t \in Callers : Awaits(t, f.msg, f.msg.req)
    /\ f.msg.m = "SendRRData" /\ f.msg.status = 0 => f.msg.len >= PrefixLen
    /\ f.msg.m = "RegisterSession" /\ f.msg.status = 0 =>
         f.msg.len = RegisterLen /\ f.msg.handle = f.msg.req

\* A goroutine takes its own answer, and asks for a session only when there is none.
OwnBody ==
  \A t \in Callers :
    /\ pc[t] = "body" => call[t].of = call[t].id
    /\ pc[t] = "header" /\ call[t].m = "RegisterSession" => sessionHandle = 0

\* Sessions granted by a reply that is not read yet
Grants(f) == f.msg.m = "RegisterSession" /\ f.msg.status = 0
Granted == {f.msg.handle : f \in {g \in frames : Grants(g)}}

Agreed == peerOpen => sessions \ Unregistering = ({sessionHandle} \ {0}) \cup Granted

Names(req) == req.m \in {"SendRRData", "SendUnitData", "Unregister"}

Live ==
  \A i \in 1..Len(c2s) : Names(c2s[i]) =>
    /\ c2s[i].handle \in sessions
    /\ \A j \in 1..(i - 1) : c2s[j].m = "Unregister" => c2s[j].handle # c2s[i].handle

\* The handle of a session to come is not in use.
Fresh ==
  /\ \A t \in Callers : pc[t] \in {"lock", "locked"} /\ call[t].m = "RegisterSession" =>
       call[t].id \notin sessions
  /\ \A i \in 1..Len(c2s) : c2s[i].m = "RegisterSession" => c2s[i].id \notin sessions

InStep == Tiling /\ OneAsked /\ OneAnswer /\ OwnBody /\ Agreed /\ Live /\ Fresh

\* Calls have numbers of their own.
Ids ==
  /\ \A t \in Callers : pc[t] # "idle" => call[t].id \in 1..issued
  /\ \A s, t \in Callers : pc[s] # "idle" /\ pc[t] # "idle" /\ call[s].id = call[t].id => s = t
  /\ ~desync => sessions \subseteq 1..issued

Gone == ~peerOpen => c2s = <<>>

\* Nothing of what is on its way is owed an answer, or is one.
NoneOwed == (\A i \in 1..Len(c2s) : ~Owed(c2s[i])) /\ \A f \in frames : ~Owed(f.msg)

Base == TypeOK /\ LockInv /\ CallInv /\ Ids /\ Gone

HInv == Base /\ (~desync => InStep) /\ CleanAnswers

-----------------------------------------------------------------------------
(* Types                                                                   *)

StreamType == frames \subseteq [at : Nat, msg : Reply_t] /\ unread \in Nat

CallerType ==
  /\ mu \in Callers \cup {NoCaller}
  /\ pc \in [Callers -> {"idle", "lock", "locked", "header", "body", "check", "close"}]
  /\ call \in [Callers -> [m : Methods \cup {"none"}, id : Nat, need : Nat, of : Nat,
                           res : {"none", "ok", "error"}]]

RestType ==
  /\ sessionHandle \in Nat /\ connOpen \in BOOLEAN
  /\ issued \in Nat /\ desync \in BOOLEAN /\ peerOpen \in BOOLEAN
  /\ c2s \in Seq(Request_t) /\ sessions \subseteq Nat

LEMMA TypeParts ==
  /\ TypeOK <=> StreamType /\ CallerType /\ RestType
  /\ TypeOK' <=> StreamType' /\ CallerType' /\ RestType'
  BY DEF TypeOK, StreamType, CallerType, RestType

\* Reading n of the unread bytes leaves a well-formed stream.
LEMMA ConsumeType ==
  ASSUME StreamType, NEW n \in Nat, n <= unread, Consume(n)
  PROVE  StreamType'
<1>1. unread' \in Nat
  BY DEF StreamType, Consume
<1>2. ASSUME NEW g \in frames'
      PROVE  g \in [at : Nat, msg : Reply_t]
  <2>1. PICK f \in frames : f.at >= n /\ g = [at |-> f.at - n, msg |-> f.msg]
    BY DEF Consume
  <2>2. f \in [at : Nat, msg : Reply_t]
    BY DEF StreamType
  <2> QED
    BY <2>1, <2>2
<1> QED
  BY <1>1, <1>2 DEF StreamType

LEMMA SendType ==
  ASSUME StreamType, NEW r \in Reply_t, Send(r)
  PROVE  StreamType'
  BY ConstantsAssumption DEF StreamType, Send, Reply_t

LEMMA ReturnType ==
  ASSUME CallerType, NEW t \in Callers, NEW res \in {"ok", "error"}, Return(t, res)
  PROVE  CallerType'
  BY ZenonT(60) DEF CallerType, Return

\* A read that fails takes at most what is there.
LEMMA LostBytesBound ==
  ASSUME StreamType, CallerType, NEW t \in Callers, NEW n \in LostBytes(t)
  PROVE  n \in Nat /\ n <= unread
  BY DEF StreamType, CallerType, LostBytes

\* Every header a read may find is a well-formed one.
LEMMA NextHeadersType ==
  ASSUME StreamType, NEW h \in NextHeaders
  PROVE  h \in Reply_t
<1>1. CASE \E f \in frames : f.at = 0
  BY <1>1 DEF NextHeaders, StreamType
<1>2. CASE ~\E f \in frames : f.at = 0
  <2>1. h \in [m : Methods, status : {0, 1}, len : BodyLens \cup {RegisterLen},
               handle : JunkHandles, req : {0}]
    BY <1>2 DEF NextHeaders
  <2>2. BodyLens \cup {RegisterLen} \subseteq Nat /\ JunkHandles \subseteq Nat
    BY ConstantsAssumption
  <2>3. PICK m \in Methods, s \in {0, 1}, l \in BodyLens \cup {RegisterLen}, k \in JunkHandles :
          h = [m |-> m, status |-> s, len |-> l, handle |-> k, req |-> 0]
    BY <2>1
  <2> QED
    BY <2>2, <2>3 DEF Reply_t
<1> QED
  BY <1>1, <1>2

\* The pipe keeps its type when a request is written or taken from it.
LEMMA PutType ==
  ASSUME RestType, CallerType, NEW t \in Callers, NEW m \in Methods \cup {"Unregister"},
         NEW h \in Nat, Put(t, m, h)
  PROVE  c2s' \in Seq(Request_t)
<1>1. [m |-> m, id |-> call[t].id, handle |-> h] \in Request_t
  BY DEF CallerType, Request_t
<1>2. c2s \in Seq(Request_t)
  BY DEF RestType
<1>3. Append(c2s, [m |-> m, id |-> call[t].id, handle |-> h]) \in Seq(Request_t)
  BY <1>1, <1>2
<1> QED
  BY <1>2, <1>3 DEF Put

LEMMA TakeType ==
  ASSUME RestType, NEW m, Take(m)
  PROVE  c2s' \in Seq(Request_t) /\ Head(c2s) \in Request_t
  BY DEF RestType, Take

(***************************************************************************)
(* Each of the steps the methods share preserves TypeOK.                   *)
(***************************************************************************)

LEMMA WriteErrorType ==
  ASSUME TypeOK, NEW t \in Callers, WriteError(t)
  PROVE  TypeOK'
  BY TypeParts, ReturnType
     DEF WriteError, TypeOK, StreamType, CallerType, RestType, serverVars, streamVars

LEMMA ReturnEarlyType ==
  ASSUME TypeOK, NEW t \in Callers, NEW res \in {"ok", "error"}, ReturnEarly(t, res)
  PROVE  TypeOK'
  BY SMTT(30), TypeParts, ReturnType
     DEF ReturnEarly, TypeOK, StreamType, CallerType, RestType, serverVars, streamVars

LEMMA RequestType ==
  ASSUME TypeOK, NEW t \in Callers, call[t].m \in Methods,
         NEW h \in Nat, NEW n \in Nat, Request(t, h, n)
  PROVE  TypeOK'
<1> USE TypeParts
<1>1. CallerType'
  BY DEF CallerType, Request
<1>2. c2s' \in Seq(Request_t)
  BY PutType DEF Request
<1> QED
  BY <1>1, <1>2 DEF Request, StreamType, RestType, serverVars, streamVars

LEMMA ReadErrorType ==
  ASSUME TypeOK, NEW t \in Callers, ReadError(t)
  PROVE  TypeOK'
<1> USE TypeParts
<1>1. PICK n \in LostBytes(t) : Consume(n)
  BY DEF ReadError
<1>2. StreamType'
  BY <1>1, LostBytesBound, ConsumeType
<1>3. CallerType'
  BY ReturnType DEF ReadError
<1> QED
  BY <1>2, <1>3 DEF ReadError, RestType, serverVars

\* A header taken off the stream leaves the stream and the header well formed.
LEMMA ReadHeaderType ==
  ASSUME TypeOK, NEW t \in Callers, ReadHeader(t)
  PROVE  StreamType' /\ \A h \in NextHeaders : h \in Reply_t
<1> USE TypeParts
<1>1. call[t].need \in Nat
  BY DEF CallerType
<1> QED
  BY <1>1, ConsumeType, NextHeadersType DEF ReadHeader

LEMMA RejectHeaderType ==
  ASSUME TypeOK, NEW t \in Callers, ReadHeader(t), NEW h \in NextHeaders, RejectHeader(t, h)
  PROVE  TypeOK'
<1> USE TypeParts
<1>1. CallerType'
  BY ReturnType DEF RejectHeader
<1>2. desync' \in BOOLEAN
  BY DEF RejectHeader
<1> QED
  BY <1>1, <1>2, ReadHeaderType DEF RejectHeader, RestType, serverVars

LEMMA AcceptHeaderType ==
  ASSUME TypeOK, NEW t \in Callers, ReadHeader(t), NEW h \in NextHeaders,
         NEW n \in Nat, AcceptHeader(t, h, n)
  PROVE  TypeOK'
<1> USE TypeParts
<1>1. h.req \in Nat
  BY ReadHeaderType DEF Reply_t
<1>2. CallerType'
  BY <1>1 DEF CallerType, AcceptHeader
<1> QED
  BY <1>2, ReadHeaderType DEF AcceptHeader, RestType, serverVars

LEMMA ReadBodyType ==
  ASSUME TypeOK, NEW t \in Callers, ReadBody(t)
  PROVE  TypeOK'
<1> USE TypeParts
<1>1. call[t].need \in Nat
  BY DEF CallerType
<1>2. StreamType'
  BY <1>1, ConsumeType DEF ReadBody
<1>3. CallerType'
  BY ReturnType DEF ReadBody
<1> QED
  BY <1>2, <1>3 DEF ReadBody, RestType, serverVars

(***************************************************************************)
(* Each method, and each step of the device, preserves TypeOK.             *)
(***************************************************************************)

LEMMA MethodsType ==
  ASSUME TypeOK, NEW t \in Callers, Step(t)
  PROVE  TypeOK'
<1>1. ASSUME ReadHeader(t), NEW h \in NextHeaders
      PROVE  h.len \in Nat /\ RRBodyLen(h.len) \in Nat /\ h.handle \in Nat
  BY <1>1, ReadHeaderType, ConstantsAssumption DEF Reply_t, RRBodyLen
<1>2. /\ HeaderLen \in Nat /\ HeaderLen + RegisterLen \in Nat
      /\ sessionHandle \in Nat
  BY ConstantsAssumption DEF TypeOK
<1>3. CASE RegisterSession(t)
  <2>1. CASE pc[t] = "locked"
    BY <1>2, <1>3, <2>1, ReturnEarlyType, RequestType, WriteErrorType
       DEF RegisterSession, Methods, ReadError, ReadHeader
  <2>2. CASE ReadError(t)
    BY <2>2, ReadErrorType
  <2>3. ASSUME ReadHeader(t), NEW h \in NextHeaders, RejectHeader(t, h)
        PROVE  TypeOK'
    BY <2>3, RejectHeaderType
  <2>4. ASSUME ReadHeader(t), NEW h \in NextHeaders,
               sessionHandle' = h.handle, Return(t, "ok"),
               UNCHANGED <<connOpen, issued, desync, serverVars, c2s>>
        PROVE  TypeOK'
    <3>1. StreamType' /\ CallerType'
      BY <2>4, TypeParts, ReadHeaderType, ReturnType
    <3>2. RestType'
      BY <1>1, <2>4, TypeParts DEF RestType, serverVars
    <3> QED
      BY <3>1, <3>2, TypeParts
  <2> QED
    BY <1>3, <2>1, <2>2, <2>3, <2>4 DEF RegisterSession
<1>4. CASE ListIdentity(t)
  <2>1. CASE pc[t] = "locked"
    BY <1>2, <1>4, <2>1, RequestType, WriteErrorType
       DEF ListIdentity, Methods, ReadError, ReadHeader, ReadBody
  <2> QED
    BY <1>1, <1>4, <2>1, ReadErrorType, RejectHeaderType, AcceptHeaderType, ReadBodyType
       DEF ListIdentity
<1>5. CASE SendRRData(t)
  <2>1. CASE pc[t] = "locked"
    BY <1>2, <1>5, <2>1, ReturnEarlyType, RequestType, WriteErrorType
       DEF SendRRData, Methods, ReadError, ReadHeader, ReadBody
  <2> QED
    BY <1>1, <1>5, <2>1, ReadErrorType, RejectHeaderType, AcceptHeaderType, ReadBodyType
       DEF SendRRData
<1>6. CASE SendUnitData(t)
  <2>1. ASSUME Put(t, "SendUnitData", sessionHandle), Return(t, "ok"),
               UNCHANGED <<sessionHandle, connOpen, issued, desync, serverVars, streamVars>>
        PROVE  TypeOK'
    <3>1. CallerType'
      BY <2>1, TypeParts, ReturnType
    <3>2. c2s' \in Seq(Request_t)
      BY <1>2, <2>1, TypeParts, PutType DEF Methods
    <3> QED
      BY <2>1, <3>1, <3>2, TypeParts DEF StreamType, RestType, serverVars, streamVars
  <2> QED
    BY <1>6, <2>1, ReturnEarlyType, WriteErrorType DEF SendUnitData
<1>7. CASE CloseCheck(t)
  BY <1>7 DEF CloseCheck, TypeOK, serverVars, streamVars
<1>8. CASE unregisterSession(t)
  <2>1. CASE WriteError(t)
    BY <2>1, WriteErrorType
  <2>2. CASE Unregistered(t)
    <3>1. CallerType' /\ StreamType'
      BY <2>2, TypeParts DEF Unregistered, CallerType, StreamType, streamVars
    <3>2. ASSUME Put(t, "Unregister", sessionHandle)
          PROVE  c2s' \in Seq(Request_t)
      BY <1>2, <3>2, TypeParts, PutType
    <3> QED
      BY <1>8, <2>2, <3>1, <3>2, TypeParts, WriteErrorType
         DEF unregisterSession, Unregistered, RestType, serverVars
  <2> QED
    BY <1>8, <2>1, <2>2 DEF unregisterSession
<1>9. CASE CloseConn(t)
  BY ZenonT(60), <1>9 DEF CloseConn, TypeOK, serverVars, streamVars
<1> QED
  BY <1>3, <1>4, <1>5, <1>6, <1>7, <1>8, <1>9 DEF Step

\* A reply the device makes for the request at the head of the pipe.
LEMMA ReplyType ==
  ASSUME NEW req \in Request_t, req.m \in Methods, NEW status \in {0, 1},
         NEW len \in Nat, NEW handle \in Nat
  PROVE  Reply(req, status, len, handle) \in Reply_t
  BY DEF Reply, Reply_t, Request_t

LEMMA DeviceType ==
  ASSUME TypeOK, Serve \/ Refuse \/ Drop \/ Reset
  PROVE  TypeOK'
<1> DEFINE req == Head(c2s)
<1> USE TypeParts
<1>1. ASSUME NEW m, Take(m)
      PROVE  /\ c2s' \in Seq(Request_t)
             /\ req \in Request_t /\ req.m = m /\ req.id \in Nat /\ req.handle \in Nat
  BY <1>1, TakeType DEF Take, Request_t
<1>2. ASSUME UNCHANGED clientVars
      PROVE  CallerType' /\ (c2s' \in Seq(Request_t) /\ peerOpen' \in BOOLEAN /\ sessions' \subseteq Nat => RestType')
  BY <1>2 DEF CallerType, RestType, clientVars
<1>3. /\ RegisterLen \in Nat /\ PrefixLen \in Nat /\ BodyLens \cup {0} \subseteq Nat
      /\ peerOpen \in BOOLEAN /\ sessions \subseteq Nat
  BY ConstantsAssumption DEF RestType
<1>4. CASE ServeRegister
  <2>1. Reply(req, 0, RegisterLen, req.id) \in Reply_t
    BY <1>1, <1>3, <1>4, ReplyType DEF ServeRegister, Methods
  <2> QED
    BY <1>1, <1>2, <1>3, <1>4, <2>1, SendType DEF ServeRegister
<1>5. CASE ServeUnregister
  BY <1>1, <1>2, <1>3, <1>5 DEF ServeUnregister, StreamType, streamVars
<1>6. CASE ServeList
  <2>1. ASSUME NEW n \in BodyLens
        PROVE  Reply(req, 0, n, 0) \in Reply_t
    BY <1>1, <1>3, <1>6, <2>1, ReplyType DEF ServeList, Methods
  <2> QED
    BY <1>1, <1>2, <1>3, <1>6, <2>1, SendType DEF ServeList, serverVars
<1>7. CASE ServeRR
  <2>1. ASSUME NEW n \in BodyLens \cup {0}, NEW s \in {0, 1}
        PROVE  Reply(req, s, n, req.handle) \in Reply_t
    BY <1>1, <1>3, <1>7, <2>1, ReplyType DEF ServeRR, Methods
  <2>2. StreamType'
    BY <1>7, <2>1, SendType DEF ServeRR
  <2> QED
    BY <1>1, <1>2, <1>3, <1>7, <2>2 DEF ServeRR, serverVars
<1>8. CASE ServeUnit
  <2>1. Reply(req, 0, PrefixLen, req.handle) \in Reply_t
    BY <1>1, <1>3, <1>8, ReplyType DEF ServeUnit, Methods
  <2>2. StreamType'
    BY <1>8, <2>1, SendType DEF ServeUnit, StreamType, streamVars
  <2> QED
    BY <1>1, <1>2, <1>3, <1>8, <2>2 DEF ServeUnit, serverVars
<1>9. CASE Refuse
  <2>1. ASSUME NEW n \in BodyLens \cup {0}
        PROVE  Reply(req, 1, n, 0) \in Reply_t
    BY <1>1, <1>3, <1>9, <2>1, ReplyType DEF Refuse, Methods
  <2>2. StreamType'
    BY <1>9, <2>1, SendType DEF Refuse
  <2> QED
    BY <1>1, <1>2, <1>3, <1>9, <2>2 DEF Refuse, serverVars
<1>10. CASE Drop
  BY <1>1, <1>2, <1>3, <1>10 DEF Drop, StreamType, serverVars, streamVars
<1>11. CASE Reset
  <2>1. StreamType'
    BY <1>11 DEF Reset, StreamType, streamVars
  <2>2. c2s' = <<>> /\ peerOpen' \in BOOLEAN /\ sessions' = sessions
    BY <1>11 DEF Reset
  <2>3. UNCHANGED clientVars
    BY <1>11 DEF Reset
  <2> QED
    BY <1>2, <1>3, <2>1, <2>2, <2>3 DEF RestType
<1> QED
  BY <1>4, <1>5, <1>6, <1>7, <1>8, <1>9, <1>10, <1>11 DEF Serve

LEMMA TypeInit == Init => TypeOK
<1> SUFFICES ASSUME Init
             PROVE  TypeOK
  OBVIOUS
<1>1. NoCall \in [m : Methods \cup {"none"}, id : Nat, need : Nat, of : Nat,
                 res : {"none", "ok", "error"}]
  BY DEF NoCall
<1>2. CallerType
  BY <1>1 DEF Init, CallerType
<1>3. c2s \in Seq(Request_t)
  BY DEF Init
<1>4. StreamType /\ RestType
  BY <1>3 DEF Init, StreamType, RestType
<1> QED
  BY <1>2, <1>4, TypeParts

LEMMA TypeStep == TypeOK /\ [Next]_vars => TypeOK'
<1> SUFFICES ASSUME TypeOK, [Next]_vars
             PROVE  TypeOK'
  OBVIOUS
<1>1. ASSUME NEW t \in Callers, Call(t)
      PROVE  TypeOK'
  <2>1. PICK m \in Methods :
          /\ call' = [call EXCEPT ![t] = [NoCall EXCEPT !.m = m, !.id = issued + 1]]
          /\ pc' = [pc EXCEPT ![t] = IF m = "Close" THEN "check" ELSE "lock"]
    BY <1>1 DEF Call
  <2>2. [m |-> m, id |-> issued + 1, need |-> 0, of |-> 0, res |-> "none"]
          \in [m : Methods \cup {"none"}, id : Nat, need : Nat, of : Nat,
               res : {"none", "ok", "error"}]
    BY DEF TypeOK
  <2>3. CallerType'
    BY <1>1, <2>1, <2>2 DEF Call, TypeOK, CallerType, NoCall
  <2>4. issued' \in Nat
    BY <1>1 DEF Call, TypeOK
  <2> QED
    BY <1>1, <2>3, <2>4, TypeParts DEF Call, StreamType, RestType, serverVars, streamVars
<1>2. ASSUME NEW t \in Callers, Lock(t)
      PROVE  TypeOK'
  BY <1>2 DEF Lock, TypeOK, serverVars, streamVars
<1>3. CASE UNCHANGED vars
  BY <1>3 DEF TypeOK, vars, clientVars, serverVars, streamVars
<1> QED
  BY <1>1, <1>2, <1>3, MethodsType, DeviceType DEF Next, Quiescent

\* Under every interleaving, every fault and every length the variables of the
\* session model keep their types; no read takes more bytes than the stream
\* holds (client.go:125, 229, 311, 330, 341).
THEOREM TypeCorrect == Spec => []TypeOK
  BY TypeInit, TypeStep, PTL DEF Spec

-----------------------------------------------------------------------------
(* Mutual exclusion                                                        *)

\* What a step of a goroutine does to control: it concerns that goroutine only,
\* and it keeps the mutex, gives it up, or never had it.
LEMMA StepControl ==
  ASSUME TypeOK, NEW t \in Callers, Step(t)
  PROVE  /\ \A s \in Callers \ {t} : pc'[s] = pc[s] /\ call'[s] = call[s]
         /\ call'[t].m = call[t].m /\ call'[t].id = call[t].id
         /\ \/ pc[t] \in Held /\ pc'[t] = "idle" /\ mu' = NoCaller
            \/ /\ pc[t] = "locked" /\ pc'[t] = "close" /\ mu' = NoCaller
               /\ call'[t].res = call[t].res
            \/ pc[t] = "locked" /\ pc'[t] = "header" /\ mu' = mu /\ call'[t].res = call[t].res
            \/ pc[t] = "header" /\ pc'[t] = "body" /\ mu' = mu /\ call'[t].res = call[t].res
            \/ /\ pc[t] = "check" /\ pc'[t] \in {"lock", "close"} /\ mu' = mu
               /\ call'[t].res = call[t].res
            \/ pc[t] = "close" /\ pc'[t] = "idle" /\ mu' = mu
<1> DEFINE P == /\ \A s \in Callers \ {t} : pc'[s] = pc[s] /\ call'[s] = call[s]
                /\ call'[t].m = call[t].m /\ call'[t].id = call[t].id
<1>1. ASSUME NEW res, Return(t, res)
      PROVE  P /\ pc'[t] = "idle" /\ mu' = NoCaller
  BY <1>1 DEF Return, TypeOK
<1>2. ASSUME NEW h, NEW n, Request(t, h, n)
      PROVE  P /\ pc'[t] = "header" /\ mu' = mu /\ call'[t].res = call[t].res
  BY <1>2 DEF Request, TypeOK
<1>3. ASSUME NEW h, NEW n, AcceptHeader(t, h, n)
      PROVE  P /\ pc'[t] = "body" /\ mu' = mu /\ call'[t].res = call[t].res
  BY <1>3 DEF AcceptHeader, TypeOK
<1>4. ASSUME Unregistered(t)
      PROVE  P /\ pc'[t] = "close" /\ mu' = NoCaller /\ call'[t].res = call[t].res
  BY <1>4 DEF Unregistered, TypeOK
<1>5. CASE RegisterSession(t)
  BY <1>1, <1>2, <1>5
     DEF RegisterSession, ReturnEarly, WriteError, ReadError, ReadHeader, RejectHeader, Held
<1>6. CASE ListIdentity(t)
  BY <1>1, <1>2, <1>3, <1>6
     DEF ListIdentity, WriteError, ReadError, ReadHeader, RejectHeader, ReadBody, Held
<1>7. CASE SendRRData(t)
  BY <1>1, <1>2, <1>3, <1>7
     DEF SendRRData, ReturnEarly, WriteError, ReadError, ReadHeader, RejectHeader, ReadBody, Held
<1>8. CASE SendUnitData(t)
  BY <1>1, <1>8 DEF SendUnitData, ReturnEarly, WriteError, Held
<1>9. CASE unregisterSession(t)
  BY <1>1, <1>4, <1>9 DEF unregisterSession, WriteError, Held
<1>10. CASE CloseCheck(t)
  BY <1>10 DEF CloseCheck, TypeOK
<1>11. CASE CloseConn(t)
  BY <1>11 DEF CloseConn, TypeOK
<1> QED
  BY <1>5, <1>6, <1>7, <1>8, <1>9, <1>10, <1>11 DEF Step

LEMMA LockStep ==
  ASSUME TypeOK, LockInv, [Next]_vars
  PROVE  LockInv'
<1>1. ASSUME NEW t \in Callers, Call(t)
      PROVE  LockInv'
  BY <1>1 DEF Call, LockInv, Held, TypeOK
<1>2. ASSUME NEW t \in Callers, Lock(t)
      PROVE  LockInv'
  BY <1>2, ConstantsAssumption DEF Lock, LockInv, Held, TypeOK
<1>3. ASSUME NEW t \in Callers, Step(t)
      PROVE  LockInv'
  BY <1>3, StepControl, ConstantsAssumption DEF LockInv, Held
<1>4. ASSUME UNCHANGED clientVars
      PROVE  LockInv'
  BY <1>4 DEF LockInv, clientVars
<1>5. Serve \/ Refuse \/ Drop \/ Reset \/ UNCHANGED vars => UNCHANGED clientVars
  BY DEF Serve, ServeRegister, ServeUnregister, ServeList, ServeRR, ServeUnit, Refuse, Drop,
         Reset, vars
<1> QED
  BY <1>1, <1>2, <1>3, <1>4, <1>5 DEF Next, Quiescent

LEMMA CallStep ==
  ASSUME TypeOK, CallInv, [Next]_vars
  PROVE  CallInv'
<1>1. ASSUME NEW t \in Callers, Call(t)
      PROVE  CallInv'
  BY <1>1 DEF Call, CallInv, NoCall, TypeOK
<1>2. ASSUME NEW t \in Callers, Lock(t)
      PROVE  CallInv'
  BY <1>2 DEF Lock, CallInv, TypeOK
<1>3. ASSUME NEW t \in Callers, Step(t)
      PROVE  CallInv'
  <2>1. ASSUME pc'[t] = "header"
        PROVE  \/ call'[t].m = "RegisterSession" /\ call'[t].need = HeaderLen + RegisterLen
               \/ call'[t].m \in {"ListIdentity", "SendRRData"} /\ call'[t].need = HeaderLen
    <3>1. ASSUME NEW h, NEW n, Request(t, h, n)
          PROVE  call'[t].need = n
      BY <3>1 DEF Request, TypeOK
    <3>2. /\ ~CloseCheck(t) /\ ~CloseConn(t) /\ ~Unregistered(t)
          /\ \A res : ~Return(t, res)
          /\ \A h, n : ~AcceptHeader(t, h, n)
      BY <2>1 DEF CloseCheck, CloseConn, Unregistered, Return, AcceptHeader, TypeOK
    <3>3. call'[t].m = call[t].m
      BY <1>3, StepControl
    <3> QED
      BY <1>3, <3>1, <3>2, <3>3
         DEF Step, RegisterSession, ListIdentity, SendRRData, SendUnitData, unregisterSession,
             ReturnEarly, WriteError, ReadError, RejectHeader, ReadBody
  <2>2. ASSUME pc'[t] = "body"
        PROVE  call'[t].m \in {"ListIdentity", "SendRRData"}
    BY <1>3, <2>2, StepControl DEF CallInv, Step, RegisterSession, SendUnitData,
       ListIdentity, SendRRData, unregisterSession, CloseCheck, CloseConn, ReturnEarly, Return,
       WriteError, ReadError, RejectHeader, TypeOK
  <2>3. pc'[t] # "idle" => call'[t].res = "none"
    BY <1>3, StepControl DEF CallInv, Held
  <2>4. ASSUME pc'[t] \in {"check", "close"}
        PROVE  call'[t].m = "Close"
    BY ZenonT(60), <1>3, <2>4, StepControl DEF CallInv, Step, RegisterSession, SendUnitData,
       ListIdentity, SendRRData, unregisterSession, CloseCheck, CloseConn, ReturnEarly, Return,
       Request, WriteError, ReadError, RejectHeader, AcceptHeader, ReadBody, TypeOK
  <2> QED
    BY <1>3, <2>1, <2>2, <2>3, <2>4, StepControl DEF CallInv
<1>4. ASSUME UNCHANGED clientVars
      PROVE  CallInv'
  BY <1>4 DEF CallInv, clientVars
<1>5. Serve \/ Refuse \/ Drop \/ Reset \/ UNCHANGED vars => UNCHANGED clientVars
  BY DEF Serve, ServeRegister, ServeUnregister, ServeList, ServeRR, ServeUnit, Refuse, Drop,
         Reset, vars
<1> QED
  BY <1>1, <1>2, <1>3, <1>4, <1>5 DEF Next, Quiescent

\* The mutex admits one exchange at a time: two goroutines are never both between
\* the Lock and the Unlock of their calls (client.go:81, 153, 193, 257, 350).
THEOREM OneExchange ==
  Spec => [](\A s, t \in Callers : pc[s] \in Held /\ pc[t] \in Held => s = t)
<1> DEFINE One == \A s, t \in Callers : pc[s] \in Held /\ pc[t] \in Held => s = t
<1>1. Init => TypeOK /\ LockInv
  BY TypeInit, ConstantsAssumption DEF Init, LockInv, Held
<1>2. (TypeOK /\ LockInv) /\ [Next]_vars => (TypeOK /\ LockInv)'
  BY TypeStep, LockStep
<1>3. TypeOK /\ LockInv => One
  BY DEF LockInv
<1> QED
  BY <1>1, <1>2, <1>3, PTL DEF Spec


-----------------------------------------------------------------------------
(* Whole replies                                                           *)

Frame_t == [at : Nat, msg : Reply_t]

LEMMA EndAfter ==
  ASSUME NEW f \in Frame_t
  PROVE  End(f) \in Nat /\ f.at \in Nat /\ f.at < End(f) /\ End(f) = f.at + HeaderLen + f.msg.len
         /\ f.msg.len \in Nat /\ f.msg \in Reply_t
  BY ConstantsAssumption DEF Frame_t, Reply_t, End

\* The replies that start where n bytes have been read, seen from there
Shift(F, n) == {[at |-> f.at - n, msg |-> f.msg] : f \in F}

LEMMA TiledShift ==
  ASSUME NEW F \in SUBSET Frame_t, NEW o \in Nat, NEW n \in Nat, NEW u \in Nat, n <= o, Tiled(F, o, u)
  PROVE  Tiled(Shift(F, n), o - n, u - n)
  <1> DEFINE at(f) == [at |-> f.at - n, msg |-> f.msg]
             G == Shift(F, n)
  <1>1. \A f \in F : /\ f.at \in Nat /\ End(f) \in Nat /\ f.at >= o /\ End(f) <= u
                     /\ at(f) \in G /\ at(f).at = f.at - n /\ End(at(f)) = End(f) - n
    <2> SUFFICES ASSUME NEW f \in F
                 PROVE  /\ f.at \in Nat /\ End(f) \in Nat /\ f.at >= o /\ End(f) <= u
                        /\ at(f) \in G /\ at(f).at = f.at - n /\ End(at(f)) = End(f) - n
      OBVIOUS
    <2>1. f.at \in Nat /\ End(f) \in Nat /\ End(f) = f.at + HeaderLen + f.msg.len /\ f.msg.len \in Nat
      BY EndAfter
    <2>2. at(f) \in G /\ at(f).at = f.at - n /\ at(f).msg = f.msg
      BY DEF Shift
    <2>3. End(at(f)) = (f.at - n) + HeaderLen + f.msg.len
      BY <2>2 DEF End
    <2>4. f.at >= o /\ End(f) <= u
      BY DEF Tiled
    <2> QED BY <2>1, <2>2, <2>3, <2>4, ConstantsAssumption
  <1>2. \A g \in G : \E f \in F : g = at(f)
    BY DEF Shift
  <1> HIDE DEF G, at
  <1>3. o <= u /\ (o < u => \E f \in F : f.at = o)
    BY DEF Tiled
  <1>4. o - n < u - n => \E g \in G : g.at = o - n
    BY <1>1, <1>3
  <1>5. \A g \in G : g.at >= o - n /\ End(g) =< u - n /\ (End(g) < u - n => \E k \in G : k.at = End(g))
    <2> SUFFICES ASSUME NEW g \in G
                 PROVE  g.at >= o - n /\ End(g) =< u - n /\ (End(g) < u - n => \E k \in G : k.at = End(g))
      OBVIOUS
    <2>1. PICK f \in F : g = at(f)
      BY <1>2
    <2>2. f.at \in Nat /\ End(f) \in Nat /\ f.at >= o /\ End(f) <= u /\ g.at = f.at - n /\ End(g) = End(f) - n
      BY <1>1, <2>1
    <2>3. End(f) < u => \E k \in F : k.at = End(f)
      BY DEF Tiled
    <2>4. End(f) < u => \E k \in G : k.at = End(f) - n
      BY <1>1, <2>3
    <2> QED BY <2>2, <2>4
  <1>6. \A f, g \in G : f = g \/ End(f) =< g.at \/ End(g) =< f.at
    <2> SUFFICES ASSUME NEW f \in G, NEW g \in G PROVE f = g \/ End(f) =< g.at \/ End(g) =< f.at
      OBVIOUS
    <2>1. PICK a \in F : f = at(a)
      BY <1>2
    <2>2. PICK b \in F : g = at(b)
      BY <1>2
    <2>3. a = b \/ End(a) =< b.at \/ End(b) =< a.at
      BY DEF Tiled
    <2>4. /\ a.at \in Nat /\ End(a) \in Nat /\ f.at = a.at - n /\ End(f) = End(a) - n
          /\ b.at \in Nat /\ End(b) \in Nat /\ g.at = b.at - n /\ End(g) = End(b) - n
      BY <1>1, <2>1, <2>2
    <2> QED BY <2>1, <2>2, <2>3, <2>4
  <1>7. o - n =< u - n
    BY <1>3
  <1> QED BY <1>4, <1>5, <1>6, <1>7 DEF Tiled, G

\* Without the first reply the others still follow one another, from its end on.
LEMMA TiledFirst ==
  ASSUME NEW F \in SUBSET Frame_t, NEW u \in Nat, Tiled(F, 0, u), NEW f \in F, f.at = 0
  PROVE  Tiled(F \ {f}, End(f), u) /\ \A g \in F \ {f} : g.at >= End(f)
  <1>1. \A g \in F : g.at \in Nat /\ End(g) \in Nat /\ g.at < End(g)
    BY EndAfter
  <1>2. /\ \A g \in F : End(g) =< u /\ (End(g) < u => \E k \in F : k.at = End(g))
        /\ \A g, k \in F : g = k \/ End(g) =< k.at \/ End(k) =< g.at
    BY DEF Tiled
  <1>3. \A g \in F \ {f} : g.at >= End(f)
    BY <1>1, <1>2
  <1>4. \A g \in F : g.at > 0 => g # f
    OBVIOUS
  <1>5. End(f) < u => \E k \in F \ {f} : k.at = End(f)
    BY <1>1, <1>2, <1>4
  <1>6. \A g \in F \ {f} : End(g) =< u /\ (End(g) < u => \E k \in F \ {f} : k.at = End(g))
    BY <1>1, <1>2, <1>4
  <1> QED BY <1>2, <1>3, <1>5, <1>6 DEF Tiled

\* A reply that is sent comes after the others.
LEMMA TiledSend ==
  ASSUME NEW F \in SUBSET Frame_t, NEW o \in Nat, NEW u \in Nat, NEW r \in Reply_t, Tiled(F, o, u)
  PROVE  Tiled(F \cup {[at |-> u, msg |-> r]}, o, u + HeaderLen + r.len)
  <1> DEFINE e == [at |-> u, msg |-> r]
             G == F \cup {e}
             w == u + HeaderLen + r.len
  <1>1. e.at = u /\ End(e) = w /\ w \in Nat /\ u < w /\ e \in G /\ F \subseteq G
    <2>1. e \in Frame_t /\ e.msg.len = r.len
      BY DEF Frame_t
    <2> QED BY <2>1, EndAfter
  <1>2. \A g \in F : g.at \in Nat /\ End(g) \in Nat /\ g.at < End(g)
    BY EndAfter
  <1>3. \A g \in G : g \in F \/ g = e
    OBVIOUS
  <1> HIDE DEF e, G, w
  <1>4. /\ o =< u /\ (o < u => \E f \in F : f.at = o)
        /\ \A f \in F : f.at >= o /\ End(f) =< u /\ (End(f) < u => \E g \in F : g.at = End(f))
        /\ \A f, g \in F : f = g \/ End(f) =< g.at \/ End(g) =< f.at
    BY DEF Tiled
  <1>5. o =< w /\ \E f \in G : f.at = o
    BY <1>1, <1>4
  <1>6. \A f \in G : f.at >= o /\ End(f) =< w /\ (End(f) < w => \E g \in G : g.at = End(f))
    <2> SUFFICES ASSUME NEW f \in G
                 PROVE  f.at >= o /\ End(f) =< w /\ (End(f) < w => \E g \in G : g.at = End(f))
      OBVIOUS
    <2>1. CASE f = e
      BY <1>1, <1>4, <2>1
    <2>2. CASE f \in F
      BY <1>1, <1>2, <1>4, <2>2
    <2> QED BY <1>3, <2>1, <2>2
  <1>7. \A f, g \in G : f = g \/ End(f) =< g.at \/ End(g) =< f.at
    BY <1>1, <1>2, <1>3, <1>4
  <1>8. Tiled(G, o, w)
    BY <1>5, <1>6, <1>7 DEF Tiled
  <1> QED BY <1>8 DEF G, e, w

-----------------------------------------------------------------------------
(* Steps of a goroutine                                                    *)

LEMMA Alone ==
  ASSUME LockInv, NEW t \in Callers, pc[t] \in Held
  PROVE  \A s \in Callers \ {t} : pc[s] \notin Held
  BY DEF LockInv

\* While nobody waits for a header nothing is owed.
LEMMA NoWaiter ==
  ASSUME OneAsked, OneAnswer, \A t \in Callers : pc[t] # "header"
  PROVE  NoneOwed
  BY DEF OneAsked, OneAnswer, Awaits, NoneOwed

LEMMA NoneGranted == NoneOwed => Granted = {}
  BY DEF NoneOwed, Granted, Grants, Owed

\* A goroutine has left the mutex, and nothing is owed.
LEMMA AtRest ==
  ASSUME LockInv, InStep, NEW t \in Callers, pc[t] \in Held, pc'[t] \in {"idle", "close"},
         \A s \in Callers \ {t} : pc'[s] = pc[s] /\ call'[s] = call[s],
         NoneOwed', Tiled(frames, 0, unread)', sessions' = sessions
  PROVE  Tiling' /\ OneAsked' /\ OneAnswer' /\ OwnBody' /\ Fresh'
  <1>1. \A s \in Callers : pc'[s] \notin Held
    BY Alone DEF Held
  <1>2. Tiling' /\ OwnBody'
    BY <1>1 DEF Tiling, OwnBody, Held
  <1>3. OneAsked' /\ OneAnswer'
    BY DEF NoneOwed, OneAsked, OneAnswer
  <1>4. \A s \in Callers : pc'[s] \in {"lock", "locked"} => s # t
    OBVIOUS
  <1>5. Fresh'
    BY <1>4 DEF InStep, Fresh, NoneOwed, Owed
  <1> QED BY <1>2, <1>3, <1>5

\* A step that neither reads nor writes
LEMMA Aside ==
  ASSUME Base, InStep, NEW t \in Callers, UNCHANGED <<c2s, streamVars, sessions, peerOpen, sessionHandle>>,
         \A s \in Callers \ {t} : pc'[s] = pc[s] /\ call'[s] = call[s],
         pc[t] \notin {"header", "body"}, pc'[t] \notin {"header", "body"},
         pc'[t] \in {"lock", "locked"} /\ call'[t].m = "RegisterSession" => call'[t].id \notin sessions
  PROVE  InStep'
  <1>1. frames' = frames /\ unread' = unread
    BY DEF streamVars
  <1>2. \A s \in Callers : pc[s] \in {"header", "body"} \/ pc'[s] \in {"header", "body"} =>
                             pc'[s] = pc[s] /\ call'[s] = call[s]
    OBVIOUS
  <1>3. Tiling'
    <2>1. ASSUME NEW s \in Callers, pc'[s] = "body" PROVE Tiled(frames, call[s].need, unread)' \/ Emptied'
      BY <1>1, <1>2, <2>1 DEF InStep, Tiling, Emptied, Tiled
    <2>2. ASSUME \A s \in Callers : pc'[s] # "body" PROVE Tiled(frames, 0, unread)'
      <3>1. \A s \in Callers : pc[s] # "body"
        BY <1>2, <2>2
      <3> QED BY <1>1, <3>1 DEF InStep, Tiling, Tiled
    <2> QED BY <2>1, <2>2 DEF Tiling
  <1>4. \A s \in Callers : \A q, i : Awaits(s, q, i) => Awaits(s, q, i)'
    BY <1>2 DEF Awaits
  <1>5. OneAsked' /\ OneAnswer'
    BY <1>1, <1>2 DEF InStep, OneAsked, OneAnswer, Awaits
  <1>6. OwnBody'
    BY <1>2 DEF InStep, OwnBody
  <1>7. Agreed'
    BY <1>1 DEF InStep, Agreed, Unregistering, Granted
  <1>8. Live'
    BY DEF InStep, Live
  <1>9. Fresh'
    BY DEF InStep, Fresh
  <1> QED BY <1>3, <1>5, <1>6, <1>7, <1>8, <1>9 DEF InStep

\* A request goes to the end of the pipe, if the device is still there.
LEMMA PutShape ==
  ASSUME Base, NEW t \in Callers, NEW m, NEW h, Put(t, m, h)
  PROVE  /\ Len(c2s) \in Nat
         /\ ~peerOpen => c2s' = c2s
         /\ peerOpen => /\ Len(c2s') = Len(c2s) + 1
                        /\ c2s'[Len(c2s) + 1] = [m |-> m, id |-> call[t].id, handle |-> h]
                        /\ \A i \in 1..Len(c2s) : c2s'[i] = c2s[i]
                        /\ DOMAIN c2s' = 1..(Len(c2s) + 1) /\ DOMAIN c2s = 1..Len(c2s)
  <1>1. c2s \in Seq(Request_t)
    BY DEF Base, TypeOK
  <1> QED BY <1>1 DEF Put

\* The handle the client has, when it has one, is live.
LEMMA OwnHandle ==
  ASSUME InStep, peerOpen, sessionHandle # 0
  PROVE  sessionHandle \in sessions /\ sessionHandle \notin Unregistering
  BY DEF InStep, Agreed

LEMMA PutLive ==
  ASSUME Base, InStep, NEW t \in Callers, NEW m, NEW h, Put(t, m, h), sessions' = sessions,
         peerOpen /\ m \in {"SendRRData", "SendUnitData", "Unregister"} => h \in sessions /\ h \notin Unregistering
  PROVE  Live'
  <1>1. CASE ~peerOpen
    BY <1>1, PutShape DEF InStep, Live
  <1>2. CASE peerOpen
    <2> DEFINE n == Len(c2s)
               q == [m |-> m, id |-> call[t].id, handle |-> h]
    <2>1. /\ n \in Nat /\ Len(c2s') = n + 1 /\ c2s'[n + 1] = q /\ \A i \in 1..n : c2s'[i] = c2s[i]
          /\ DOMAIN c2s = 1..n
      BY <1>2, PutShape
    <2>2. Names(q) => h \in sessions /\ \A j \in 1..n : c2s[j].m = "Unregister" => c2s[j].handle # h
      BY <1>2, <2>1 DEF Names, Unregistering
    <2>3. q.handle = h
      OBVIOUS
    <2> HIDE DEF n, q
    <2>4. \A i \in 1..n : Names(c2s[i]) => /\ c2s[i].handle \in sessions
                                           /\ \A j \in 1..(i - 1) : c2s[j].m = "Unregister" => c2s[j].handle # c2s[i].handle
      BY DEF InStep, Live, n
    <2>5. ASSUME NEW i \in 1..(n + 1), Names(c2s'[i])
          PROVE  /\ c2s'[i].handle \in sessions
                 /\ \A j \in 1..(i - 1) : c2s'[j].m = "Unregister" => c2s'[j].handle # c2s'[i].handle
      <3>1. CASE i = n + 1
        BY <2>1, <2>2, <2>3, <2>5, <3>1
      <3>2. CASE i \in 1..n
        BY <2>1, <2>4, <2>5, <3>2
      <3> QED BY <2>1, <3>1, <3>2
    <2> QED BY <2>1, <2>5 DEF Live
  <1> QED BY <1>1, <1>2 DEF Base, TypeOK

LEMMA PutUnregistering ==
  ASSUME Base, NEW t \in Callers, NEW m, NEW h, Put(t, m, h)
  PROVE  /\ m # "Unregister" => Unregistering' = Unregistering
         /\ m = "Unregister" /\ peerOpen => Unregistering' = Unregistering \cup {h}
  <1>1. CASE ~peerOpen
    BY <1>1, PutShape DEF Unregistering
  <1>2. CASE peerOpen
    <2> DEFINE n == Len(c2s)
               q == [m |-> m, id |-> call[t].id, handle |-> h]
    <2>1. /\ n \in Nat /\ c2s'[n + 1] = q /\ \A i \in 1..n : c2s'[i] = c2s[i]
          /\ DOMAIN c2s = 1..n /\ DOMAIN c2s' = 1..(n + 1) /\ q.m = m /\ q.handle = h
      BY <1>2, PutShape
    <2> HIDE DEF n, q
    <2>2. Unregistering = {c2s[i].handle : i \in {j \in 1..n : c2s[j].m = "Unregister"}}
          /\ Unregistering' = {c2s'[i].handle : i \in {j \in 1..(n + 1) : c2s'[j].m = "Unregister"}}
      BY <2>1 DEF Unregistering
    <2>3. Unregistering \subseteq Unregistering'
      BY <2>1, <2>2
    <2>4. m = "Unregister" => h \in Unregistering'
      BY <2>1, <2>2
    <2>5. \A x \in Unregistering' : x \in Unregistering \/ (m = "Unregister" /\ x = h)
      BY <2>1, <2>2
    <2> QED BY <2>3, <2>4, <2>5
  <1> QED BY <1>1, <1>2 DEF Base, TypeOK

\* A header is read at the start of the first reply.  What is left is whole replies again,
\* after that one.
LEMMA FirstReply ==
  ASSUME Base, InStep, NEW t \in Callers, ReadHeader(t)
  PROVE  \E f \in frames :
           /\ f \in Frame_t /\ f.at = 0 /\ (\A h \in NextHeaders : h = f.msg)
           /\ frames' = Shift({g \in frames : g.at >= call[t].need}, call[t].need)
           /\ \A g \in frames' : \E k \in frames \ {f} : g.msg = k.msg
           /\ call[t].need =< End(f) => Tiled(frames', End(f) - call[t].need, unread')
  <1> DEFINE n == call[t].need
  <1>1. n \in Nat /\ n > 0 /\ unread >= n /\ Consume(n) /\ unread \in Nat /\ frames \subseteq Frame_t
    <2>1. pc[t] = "header" /\ unread >= n /\ Consume(n)
      BY DEF ReadHeader
    <2>2. n = HeaderLen + RegisterLen \/ n = HeaderLen
      BY <2>1 DEF Base, CallInv
    <2>3. unread \in Nat /\ frames \subseteq Frame_t
      BY DEF Base, TypeOK, Frame_t
    <2> HIDE DEF n
    <2> QED BY <2>1, <2>2, <2>3, ConstantsAssumption
  <1>2. Tiled(frames, 0, unread)
    <2>1. \A s \in Callers : pc[s] # "body"
      BY Alone DEF Base, ReadHeader, Held
    <2> QED BY <2>1 DEF InStep, Tiling
  <1>3. PICK f \in frames : f.at = 0
    BY <1>1, <1>2 DEF Tiled
  <1>4. /\ f \in Frame_t /\ End(f) \in Nat /\ End(f) > 0
        /\ Tiled(frames \ {f}, End(f), unread) /\ \A g \in frames \ {f} : g.at >= End(f)
    BY <1>1, <1>2, <1>3, TiledFirst, EndAfter
  <1>5. \A h \in NextHeaders : h = f.msg
    <2>1. {g \in frames : g.at = 0} = {f}
      BY <1>1, <1>3, <1>4
    <2> QED BY <1>3, <2>1 DEF NextHeaders
  <1>6. frames' = Shift({g \in frames : g.at >= n}, n) /\ unread' = unread - n
    BY <1>1 DEF Consume, Shift
  <1>7. \A g \in frames' : \E k \in frames \ {f} : g.msg = k.msg
    <2> SUFFICES ASSUME NEW g \in frames' PROVE \E k \in frames \ {f} : g.msg = k.msg
      OBVIOUS
    <2>1. PICK k \in frames : k.at >= n /\ g.msg = k.msg
      BY <1>6 DEF Shift
    <2>2. k # f
      BY <1>1, <1>3, <2>1
    <2> QED BY <2>1, <2>2
  <1>8. ASSUME n =< End(f) PROVE Tiled(frames', End(f) - n, unread')
    <2>1. {g \in frames : g.at >= n} = frames \ {f}
      <3>1. \A g \in frames \ {f} : g.at >= n
        BY <1>1, <1>4, <1>8, EndAfter
      <3>2. ~(f.at >= n)
        BY <1>1, <1>3
      <3> QED BY <3>1, <3>2
    <2>2. frames \ {f} \in SUBSET Frame_t
      BY <1>1
    <2>3. Tiled(Shift(frames \ {f}, n), End(f) - n, unread - n)
      BY <1>1, <1>4, <1>8, <2>2, TiledShift
    <2> QED BY <1>6, <2>1, <2>3
  <1> QED BY <1>3, <1>4, <1>5, <1>6, <1>7, <1>8

\* The reply whose header is read is the answer that is awaited, once it is accepted: nothing
\* else is then owed.
LEMMA OwnReply ==
  ASSUME Base, InStep, NEW t \in Callers, ReadHeader(t), UNCHANGED c2s,
         NEW h \in NextHeaders, h.m = call[t].m
  PROVE  /\ h.req = call[t].id /\ h.len \in Nat /\ h.status \in {0, 1} /\ h.handle \in Nat
         /\ h.m = "SendRRData" /\ h.status = 0 => h.len >= PrefixLen
         /\ h.m = "RegisterSession" /\ h.status = 0 => h.len = RegisterLen /\ h.handle = h.req
         /\ NoneOwed'
         /\ Granted = IF h.m = "RegisterSession" /\ h.status = 0 THEN {h.handle} ELSE {}
         /\ call[t].need =< HeaderLen + h.len =>
              Tiled(frames', (HeaderLen + h.len) - call[t].need, unread')
  <1>1. PICK f \in frames :
           /\ f \in Frame_t /\ f.at = 0 /\ (\A k \in NextHeaders : k = f.msg)
           /\ \A g \in frames' : \E k \in frames \ {f} : g.msg = k.msg
           /\ call[t].need =< End(f) => Tiled(frames', End(f) - call[t].need, unread')
    BY FirstReply
  <1>2. h = f.msg /\ End(f) = HeaderLen + h.len /\ h \in Reply_t
    BY <1>1, EndAfter, ConstantsAssumption
  <1>3. pc[t] = "header" /\ call[t].m \in {"RegisterSession", "ListIdentity", "SendRRData"}
    BY DEF ReadHeader, Base, CallInv
  <1>4. Owed(f.msg)
    BY <1>2, <1>3 DEF Owed
  <1>5. /\ \A g \in frames : Owed(g.msg) => f = g
        /\ \E s \in Callers : Awaits(s, f.msg, f.msg.req)
        /\ f.msg.m = "SendRRData" /\ f.msg.status = 0 => f.msg.len >= PrefixLen
        /\ f.msg.m = "RegisterSession" /\ f.msg.status = 0 => f.msg.len = RegisterLen /\ f.msg.handle = f.msg.req
    BY <1>1, <1>4 DEF InStep, OneAnswer
  <1>6. h.req = call[t].id
    BY <1>2, <1>3, <1>5, Alone DEF Awaits, Base, Held
  <1>7. \A i \in 1..Len(c2s) : ~Owed(c2s[i])
    BY <1>4 DEF InStep, OneAsked
  <1>8. NoneOwed'
    BY <1>1, <1>5, <1>7 DEF NoneOwed, Owed
  <1>9. Granted = IF h.m = "RegisterSession" /\ h.status = 0 THEN {h.handle} ELSE {}
    <2>1. \A g \in frames : Grants(g) => g = f
      BY <1>5 DEF Grants, Owed
    <2> QED BY <1>2, <2>1 DEF Granted, Grants
  <1>10. call[t].need =< HeaderLen + h.len => Tiled(frames', (HeaderLen + h.len) - call[t].need, unread')
    <2>1. call[t].need =< End(f) => Tiled(frames', End(f) - call[t].need, unread')
      BY <1>1
    <2>2. End(f) = HeaderLen + h.len
      BY <1>2
    <2> QED BY <2>1, <2>2
  <1>11. h.len \in Nat /\ h.status \in {0, 1} /\ h.handle \in Nat
    BY <1>2 DEF Reply_t
  <1> QED BY <1>2, <1>5, <1>6, <1>8, <1>9, <1>10, <1>11

\* The reads and early returns of every method

LEMMA AgreeReturn ==
  ASSUME Base, InStep, NEW t \in Callers, pc[t] = "locked", NEW res, ReturnEarly(t, res) \/ WriteError(t)
  PROVE  InStep'
  <1>1. /\ pc'[t] = "idle" /\ (\A s \in Callers \ {t} : pc'[s] = pc[s] /\ call'[s] = call[s])
        /\ UNCHANGED <<c2s, streamVars, sessions, peerOpen, sessionHandle>>
    BY DEF ReturnEarly, WriteError, Return, Base, TypeOK, serverVars
  <1> QED BY <1>1, Aside

LEMMA AgreeRequest ==
  ASSUME Base, InStep, NEW t \in Callers, pc[t] = "locked", NEW h, NEW n,
         call[t].m \in {"RegisterSession", "ListIdentity", "SendRRData"}, Request(t, h, n),
         call[t].m = "RegisterSession" => sessionHandle = 0,
         call[t].m = "SendRRData" => sessionHandle # 0 /\ h = sessionHandle
  PROVE  InStep'
  <1>1. /\ pc'[t] = "header" /\ call'[t].m = call[t].m /\ call'[t].id = call[t].id /\ Put(t, call[t].m, h)
        /\ \A s \in Callers \ {t} : pc'[s] = pc[s] /\ call'[s] = call[s]
        /\ frames' = frames /\ unread' = unread
        /\ UNCHANGED <<sessions, peerOpen, sessionHandle>>
    BY DEF Request, Base, TypeOK, serverVars, streamVars
  <1>2. \A s \in Callers : s # t => pc[s] \notin Held /\ pc'[s] \notin Held
    BY <1>1, Alone DEF Base, Held
  <1>3. NoneOwed
    BY <1>2, NoWaiter DEF InStep, Held
  <1>4. \A i \in 1..Len(c2s') : \/ c2s'[i] = c2s[i] /\ i \in 1..Len(c2s)
                                \/ i = Len(c2s) + 1 /\ c2s'[i].m = call[t].m /\ c2s'[i].id = call[t].id
    <2>1. Len(c2s) \in Nat
      BY DEF Base, TypeOK
    <2>2. CASE peerOpen
      <3>1. /\ Len(c2s') = Len(c2s) + 1
            /\ c2s'[Len(c2s) + 1] = [m |-> call[t].m, id |-> call[t].id, handle |-> h]
            /\ \A i \in 1..Len(c2s) : c2s'[i] = c2s[i]
        BY <1>1, <2>2, PutShape
      <3>2. c2s'[Len(c2s) + 1].m = call[t].m /\ c2s'[Len(c2s) + 1].id = call[t].id
        BY <3>1
      <3>3. \A i \in 1..Len(c2s') : i \in 1..Len(c2s) \/ i = Len(c2s) + 1
        BY <2>1, <3>1
      <3> QED BY <3>1, <3>2, <3>3
    <2>3. CASE ~peerOpen
      BY <1>1, <2>1, <2>3, PutShape
    <2> QED BY <2>2, <2>3
  <1>5. Tiling'
    BY <1>1, <1>2 DEF InStep, Tiling, Held
  <1>6. OneAsked'
    BY <1>1, <1>3, <1>4 DEF NoneOwed, OneAsked, Awaits
  <1>7. OneAnswer'
    BY <1>1, <1>3 DEF NoneOwed, OneAnswer
  <1>8. OwnBody'
    BY <1>1, <1>2 DEF OwnBody, Held
  <1>9. Agreed'
    BY <1>1, PutUnregistering DEF InStep, Agreed, Granted
  <1>10. Live'
    BY <1>1, OwnHandle, PutLive
  <1>11. Fresh'
    <2>1. call[t].m = "RegisterSession" => call[t].id \notin sessions
      BY DEF InStep, Fresh
    <2> QED BY <1>1, <1>3, <1>4, <2>1 DEF InStep, Fresh, NoneOwed, Owed
  <1> QED BY <1>5, <1>6, <1>7, <1>8, <1>9, <1>10, <1>11 DEF InStep

LEMMA AgreeReject ==
  ASSUME Base, InStep, NEW t \in Callers, ReadHeader(t), NEW h \in NextHeaders, RejectHeader(t, h), ~desync',
         h.m = call[t].m => h.status # 0 \/ h.len # RegisterLen \/ call[t].m # "RegisterSession"
  PROVE  InStep'
  <1>1. h.m = call[t].m /\ call[t].need = HeaderLen + h.len
    BY DEF RejectHeader
  <1>2. /\ pc'[t] = "idle" /\ (\A s \in Callers \ {t} : pc'[s] = pc[s] /\ call'[s] = call[s])
        /\ UNCHANGED <<c2s, sessions, peerOpen, sessionHandle>>
    BY DEF RejectHeader, Return, Base, TypeOK, serverVars
  <1>3. /\ NoneOwed' /\ h.len \in Nat
        /\ h.m = "RegisterSession" /\ h.status = 0 => h.len = RegisterLen
        /\ Granted = IF h.m = "RegisterSession" /\ h.status = 0 THEN {h.handle} ELSE {}
        /\ call[t].need =< HeaderLen + h.len => Tiled(frames', (HeaderLen + h.len) - call[t].need, unread')
    BY <1>1, <1>2, OwnReply
  <1>4. Tiled(frames', 0, unread')
    BY <1>1, <1>3, ConstantsAssumption
  <1>5. Granted = {} /\ Granted' = {}
    BY <1>1, <1>3, NoneGranted DEF NoneOwed, Granted, Grants, Owed
  <1>6. Tiling' /\ OneAsked' /\ OneAnswer' /\ OwnBody' /\ Fresh'
    <2>1. Tiled(frames, 0, unread)'
      BY <1>4 DEF Tiled
    <2> QED BY <1>2, <1>3, <2>1, AtRest DEF Base, ReadHeader, Held
  <1>7. Agreed' /\ Live'
    BY <1>2, <1>5 DEF InStep, Agreed, Unregistering, Live
  <1> QED BY <1>6, <1>7 DEF InStep

LEMMA AgreeAccept ==
  ASSUME Base, InStep, NEW t \in Callers, ReadHeader(t), call[t].m \in {"ListIdentity", "SendRRData"},
         NEW h \in NextHeaders, h.m = call[t].m, h.status = 0, NEW n, AcceptHeader(t, h, n),
         n = h.len \/ (call[t].m = "SendRRData" /\ n = RRBodyLen(h.len))
  PROVE  InStep'
  <1>1. /\ pc'[t] = "body" /\ call'[t].need = n /\ call'[t].of = h.req /\ call'[t].id = call[t].id
        /\ (\A s \in Callers \ {t} : pc'[s] = pc[s] /\ call'[s] = call[s])
        /\ UNCHANGED <<c2s, sessions, peerOpen, sessionHandle>>
    BY DEF AcceptHeader, Base, TypeOK, serverVars
  <1>2. /\ NoneOwed' /\ h.len \in Nat /\ h.req = call[t].id
        /\ h.m = "SendRRData" => h.len >= PrefixLen
        /\ Granted = {}
        /\ call[t].need =< HeaderLen + h.len => Tiled(frames', (HeaderLen + h.len) - call[t].need, unread')
    BY <1>1, OwnReply
  <1>3. call[t].need = HeaderLen
    BY DEF ReadHeader, Base, CallInv
  <1>4. n = h.len
    BY <1>2, ConstantsAssumption DEF RRBodyLen
  <1>5. Tiled(frames', n, unread')
    BY <1>2, <1>3, <1>4, ConstantsAssumption
  <1>6. \A s \in Callers : s # t => pc'[s] \notin Held
    BY <1>1, Alone DEF Base, ReadHeader, Held
  <1>7. Tiling'
    <2>1. Tiled(frames, call[t].need, unread)'
      BY <1>1, <1>5 DEF Tiled
    <2> QED BY <1>1, <1>6, <2>1 DEF Tiling, Held
  <1>8. OneAsked' /\ OneAnswer'
    BY <1>2 DEF NoneOwed, OneAsked, OneAnswer
  <1>9. OwnBody'
    BY <1>1, <1>2, <1>6 DEF OwnBody, Held
  <1>10. Agreed' /\ Live'
    <2>1. Granted' = {}
      BY <1>2 DEF NoneOwed, Granted, Grants, Owed
    <2> QED BY <1>1, <1>2, <2>1 DEF InStep, Agreed, Unregistering, Live
  <1>11. Fresh'
    BY <1>1, <1>2 DEF InStep, Fresh, NoneOwed, Owed
  <1> QED BY <1>7, <1>8, <1>9, <1>10, <1>11 DEF InStep

LEMMA AgreeBody ==
  ASSUME Base, InStep, NEW t \in Callers, ReadBody(t)
  PROVE  InStep'
  <1> DEFINE n == call[t].need
  <1>1. /\ n \in Nat /\ unread \in Nat /\ unread >= n /\ frames \in SUBSET Frame_t /\ pc[t] = "body"
        /\ unread' = unread - n /\ frames' = Shift({g \in frames : g.at >= n}, n)
    BY DEF ReadBody, Base, TypeOK, Frame_t, Consume, Shift
  <1>2. /\ pc'[t] = "idle" /\ (\A s \in Callers \ {t} : pc'[s] = pc[s] /\ call'[s] = call[s])
        /\ UNCHANGED <<c2s, sessions, peerOpen, sessionHandle>>
    BY DEF ReadBody, Return, Base, TypeOK, serverVars
  <1>3. NoneOwed
    BY <1>1, Alone, NoWaiter DEF InStep, Base, Held
  <1>4. NoneOwed'
    BY <1>1, <1>2, <1>3 DEF NoneOwed, Shift
  <1>5. Tiled(frames', 0, unread')
    <2>1. CASE Tiled(frames, n, unread)
      <3>1. {g \in frames : g.at >= n} = frames
        BY <2>1 DEF Tiled
      <3>2. Tiled(Shift(frames, n), n - n, unread - n)
        BY <1>1, <2>1, TiledShift
      <3>3. n - n = 0
        BY <1>1
      <3> QED BY <1>1, <3>1, <3>2, <3>3
    <2>2. CASE Emptied
      <3>1. unread' = 0 /\ frames' = {}
        BY <1>1, <2>2 DEF Emptied, Shift
      <3> QED BY <3>1 DEF Tiled
    <2> QED BY <1>1, <2>1, <2>2 DEF InStep, Tiling
  <1>6. Tiling' /\ OneAsked' /\ OneAnswer' /\ OwnBody' /\ Fresh'
    <2>1. Tiled(frames, 0, unread)'
      BY <1>5 DEF Tiled
    <2> QED BY <1>1, <1>2, <1>4, <2>1, AtRest DEF Base, Held
  <1>7. Agreed' /\ Live'
    <2>1. Granted = {} /\ Granted' = {}
      BY <1>3, <1>4 DEF NoneOwed, Granted, Grants, Owed
    <2> QED BY <1>2, <2>1 DEF InStep, Agreed, Unregistering, Live
  <1> QED BY <1>6, <1>7 DEF InStep

-----------------------------------------------------------------------------
(* The methods                                                             *)

\* A step of a goroutine that does not give up on a reply
LEMMA AgreeMethods ==
  ASSUME Base, InStep, NEW t \in Callers, Step(t), ~desync'
  PROVE  InStep'
  <1>1. ~ReadError(t)
    BY DEF ReadError
  <1>2. CASE RegisterSession(t)
    <2>1. CASE pc[t] = "locked"
      BY <1>1, <1>2, <2>1, AgreeReturn, AgreeRequest DEF RegisterSession, ReadHeader
    <2>2. ASSUME ReadHeader(t), NEW h \in NextHeaders, Rejected("RegisterSession", h) \/ h.len # RegisterLen,
                 RejectHeader(t, h)
          PROVE  InStep'
      BY <1>2, <2>2, AgreeReject DEF RegisterSession, Rejected
    <2>3. ASSUME ReadHeader(t), NEW h \in NextHeaders, ~Rejected("RegisterSession", h), h.len = RegisterLen,
                 sessionHandle' = h.handle, Return(t, "ok"), UNCHANGED <<connOpen, issued, desync, serverVars, c2s>>
          PROVE  InStep'
      <3>1. /\ h.m = "RegisterSession" /\ h.status = 0 /\ call[t].m = "RegisterSession"
            /\ pc[t] = "header" /\ sessionHandle = 0 /\ call[t].need = HeaderLen + RegisterLen
        BY <1>2, <2>3 DEF RegisterSession, ReadHeader, Rejected, InStep, OwnBody, Base, CallInv
      <3>2. /\ NoneOwed' /\ Granted = {h.handle} /\ h.handle = call[t].id
            /\ call[t].need =< HeaderLen + h.len => Tiled(frames', (HeaderLen + h.len) - call[t].need, unread')
        BY <2>3, <3>1, OwnReply
      <3>3. Tiled(frames', 0, unread')
        BY <2>3, <3>1, <3>2, ConstantsAssumption
      <3>4. /\ pc'[t] = "idle" /\ (\A s \in Callers \ {t} : pc'[s] = pc[s] /\ call'[s] = call[s])
            /\ UNCHANGED <<c2s, sessions, peerOpen>>
        BY <2>3 DEF Return, Base, TypeOK, serverVars
      <3>5. Tiling' /\ OneAsked' /\ OneAnswer' /\ OwnBody' /\ Fresh'
        <4>1. Tiled(frames, 0, unread)'
          BY <3>3 DEF Tiled
        <4> QED BY <3>1, <3>2, <3>4, <4>1, AtRest DEF Base, Held
      <3>6. call[t].id \in 1..issued /\ issued \in Nat
        BY <3>1 DEF Base, Ids, TypeOK
      <3>7. Granted' = {} /\ sessionHandle' # 0
        BY <2>3, <3>2, <3>6 DEF NoneOwed, Granted, Grants, Owed
      <3>8. Agreed' /\ Live'
        BY <2>3, <3>1, <3>2, <3>4, <3>7 DEF InStep, Agreed, Unregistering, Live
      <3> QED BY <3>5, <3>8 DEF InStep
    <2> QED BY <1>1, <1>2, <2>1, <2>2, <2>3 DEF RegisterSession
  <1>3. CASE ListIdentity(t)
    <2>1. CASE pc[t] = "locked"
      BY <1>1, <1>3, <2>1, AgreeReturn, AgreeRequest DEF ListIdentity, ReadHeader, ReadBody
    <2>2. ASSUME ReadHeader(t), NEW h \in NextHeaders, Rejected("ListIdentity", h), RejectHeader(t, h)
          PROVE  InStep'
      BY <1>3, <2>2, AgreeReject DEF ListIdentity
    <2>3. ASSUME ReadHeader(t), NEW h \in NextHeaders, ~Rejected("ListIdentity", h), AcceptHeader(t, h, h.len)
          PROVE  InStep'
      BY <1>3, <2>3, AgreeAccept DEF ListIdentity, Rejected
    <2> QED BY <1>1, <1>3, <2>1, <2>2, <2>3, AgreeBody DEF ListIdentity
  <1>4. CASE SendRRData(t)
    <2>1. CASE pc[t] = "locked"
      BY <1>1, <1>4, <2>1, AgreeReturn, AgreeRequest DEF SendRRData, ReadHeader, ReadBody
    <2>2. ASSUME ReadHeader(t), NEW h \in NextHeaders, Rejected("SendRRData", h), RejectHeader(t, h)
          PROVE  InStep'
      BY <1>4, <2>2, AgreeReject DEF SendRRData
    <2>3. ASSUME ReadHeader(t), NEW h \in NextHeaders, ~Rejected("SendRRData", h), AcceptHeader(t, h, RRBodyLen(h.len))
          PROVE  InStep'
      BY <1>4, <2>3, AgreeAccept DEF SendRRData, Rejected
    <2> QED BY <1>1, <1>4, <2>1, <2>2, <2>3, AgreeBody DEF SendRRData
  <1>5. ASSUME pc[t] = "locked", NEW m \in {"SendUnitData", "Unregister"}, Put(t, m, sessionHandle), sessionHandle # 0,
               pc'[t] \in {"idle", "close"}, \A s \in Callers \ {t} : pc'[s] = pc[s] /\ call'[s] = call[s],
               UNCHANGED <<streamVars, sessions, peerOpen>>,
               sessionHandle' = IF m = "Unregister" THEN 0 ELSE sessionHandle
        PROVE  InStep'
    <2>1. NoneOwed
      BY <1>5, Alone, NoWaiter DEF InStep, Base, Held
    <2>2. frames' = frames /\ unread' = unread
      BY <1>5 DEF streamVars
    <2>3. NoneOwed'
      <3>1. Len(c2s) \in Nat
        BY DEF Base, TypeOK
      <3>2. CASE ~peerOpen
        BY <1>5, <2>1, <2>2, <3>2, PutShape DEF NoneOwed
      <3>3. CASE peerOpen
        <4>1. /\ Len(c2s') = Len(c2s) + 1
              /\ c2s'[Len(c2s) + 1] = [m |-> m, id |-> call[t].id, handle |-> sessionHandle]
              /\ \A i \in 1..Len(c2s) : c2s'[i] = c2s[i]
          BY <1>5, <3>3, PutShape
        <4>2. ~Owed(c2s'[Len(c2s) + 1])
          BY <1>5, <4>1 DEF Owed
        <4>3. \A i \in 1..Len(c2s') : i \in 1..Len(c2s) \/ i = Len(c2s) + 1
          BY <3>1, <4>1
        <4>4. \A i \in 1..Len(c2s') : ~Owed(c2s'[i])
          BY <2>1, <4>1, <4>2, <4>3 DEF NoneOwed, Owed
        <4> QED BY <2>1, <2>2, <4>4 DEF NoneOwed
      <3> QED BY <3>2, <3>3 DEF Base, TypeOK
    <2>4. Tiled(frames, 0, unread)'
      <3>1. \A s \in Callers : pc[s] # "body"
        BY <1>5, Alone DEF Base, Held
      <3> QED BY <2>2, <3>1 DEF InStep, Tiling, Tiled
    <2>5. Tiling' /\ OneAsked' /\ OneAnswer' /\ OwnBody' /\ Fresh'
      BY <1>5, <2>3, <2>4, AtRest DEF Base, Held
    <2>6. Live'
      BY <1>5, OwnHandle, PutLive
    <2>7. Granted = {} /\ Granted' = {}
      BY <2>1, <2>2, NoneGranted DEF Granted
    <2>8. Agreed'
      <3> SUFFICES ASSUME peerOpen' PROVE sessions' \ Unregistering' = ({sessionHandle'} \ {0}) \cup Granted'
        BY DEF Agreed
      <3>1. peerOpen
        BY <1>5
      <3>2. sessions \ Unregistering = {sessionHandle}
        BY <1>5, <2>7, <3>1 DEF InStep, Agreed
      <3>3. m = "Unregister" => Unregistering' = Unregistering \cup {sessionHandle}
        BY <1>5, <3>1, PutUnregistering
      <3>4. m # "Unregister" => Unregistering' = Unregistering
        BY <1>5, PutUnregistering
      <3>5. CASE m = "Unregister"
        BY <1>5, <2>7, <3>2, <3>3, <3>5
      <3>6. CASE m # "Unregister"
        BY <1>5, <2>7, <3>2, <3>4, <3>6
      <3> QED BY <3>5, <3>6
    <2> QED BY <2>5, <2>6, <2>8 DEF InStep
  <1>6. CASE SendUnitData(t)
    <2>1. ASSUME Put(t, "SendUnitData", sessionHandle), Return(t, "ok"), sessionHandle # 0,
                 UNCHANGED <<sessionHandle, connOpen, issued, desync, serverVars, streamVars>>
          PROVE  InStep'
      <3>1. /\ pc[t] = "locked" /\ pc'[t] = "idle" /\ \A s \in Callers \ {t} : pc'[s] = pc[s] /\ call'[s] = call[s]
            /\ UNCHANGED <<streamVars, sessions, peerOpen>>
        BY <1>6, <2>1 DEF SendUnitData, Return, Base, TypeOK, serverVars
      <3> QED BY <1>5, <2>1, <3>1
    <2> QED BY <1>6, <2>1, AgreeReturn DEF SendUnitData
  <1>7. CASE unregisterSession(t)
    <2>1. ASSUME Unregistered(t)
          PROVE  /\ pc[t] = "locked" /\ pc'[t] = "close" /\ \A s \in Callers \ {t} : pc'[s] = pc[s] /\ call'[s] = call[s]
                 /\ UNCHANGED <<streamVars, sessions, peerOpen>>
      BY <1>7, <2>1 DEF unregisterSession, Unregistered, Base, TypeOK, serverVars
    <2>2. ASSUME Unregistered(t), UNCHANGED <<sessionHandle, c2s>> PROVE InStep'
      BY <2>1, <2>2, Aside
    <2>3. ASSUME Unregistered(t), sessionHandle # 0, Put(t, "Unregister", sessionHandle), sessionHandle' = 0
          PROVE  InStep'
      BY <1>5, <2>1, <2>3
    <2> QED BY <1>7, <2>2, <2>3, AgreeReturn DEF unregisterSession
  <1>8. CASE CloseCheck(t) \/ CloseConn(t)
    <2>1. /\ pc[t] \in {"check", "close"} /\ pc'[t] \in {"lock", "close", "idle"} /\ call'[t].m = call[t].m
          /\ \A s \in Callers \ {t} : pc'[s] = pc[s] /\ call'[s] = call[s]
          /\ UNCHANGED <<c2s, streamVars, sessions, peerOpen, sessionHandle>>
      BY <1>8 DEF CloseCheck, CloseConn, Base, TypeOK, serverVars
    <2>2. call[t].m = "Close"
      BY <2>1 DEF Base, CallInv
    <2> QED BY <2>1, <2>2, Aside
  <1> QED BY <1>2, <1>3, <1>4, <1>6, <1>7, <1>8 DEF Step

-----------------------------------------------------------------------------
(* The device                                                              *)

\* A request is taken off the front of the pipe.
LEMMA TakeShape ==
  ASSUME Base, NEW m, Take(m)
  PROVE  /\ peerOpen /\ Len(c2s) \in Nat /\ Len(c2s) > 0 /\ Head(c2s) = c2s[1] /\ c2s[1].m = m
         /\ Len(c2s') = Len(c2s) - 1 /\ \A i \in 1..Len(c2s') : c2s'[i] = c2s[i + 1]
         /\ DOMAIN c2s = 1..Len(c2s) /\ DOMAIN c2s' = 1..Len(c2s') /\ c2s[1] \in Request_t
  <1>1. c2s \in Seq(Request_t) /\ c2s # <<>> /\ Head(c2s).m = m /\ c2s' = Tail(c2s) /\ peerOpen
    BY DEF Base, TypeOK, Take
  <1>2. Len(c2s) \in Nat /\ Len(c2s) > 0 /\ Head(c2s) = c2s[1] /\ c2s[1] \in Request_t
    BY <1>1
  <1>3. Len(c2s') = Len(c2s) - 1 /\ c2s' \in Seq(Request_t)
    BY <1>1, <1>2
  <1>4. \A i \in 1..Len(c2s') : c2s'[i] = c2s[i + 1]
    BY <1>1, <1>2, <1>3
  <1> QED BY <1>1, <1>2, <1>3, <1>4

LEMMA TakeLive ==
  ASSUME Base, InStep, NEW m, Take(m),
         \A i \in 2..Len(c2s) : Names(c2s[i]) => c2s[i].handle \in sessions'
  PROVE  Live'
  <1> DEFINE n == Len(c2s')
  <1>1. n \in Nat /\ Len(c2s) = n + 1 /\ \A i \in 1..n : c2s'[i] = c2s[i + 1]
    BY TakeShape
  <1>2. \A i \in 1..(n + 1) : Names(c2s[i]) => \A j \in 1..(i - 1) : c2s[j].m = "Unregister" => c2s[j].handle # c2s[i].handle
    BY <1>1 DEF InStep, Live
  <1> HIDE DEF n
  <1>3. \A i \in 1..n : Names(c2s'[i]) => c2s'[i].handle \in sessions'
    BY <1>1
  <1>4. \A i \in 1..n : Names(c2s'[i]) => \A j \in 1..(i - 1) : c2s'[j].m = "Unregister" => c2s'[j].handle # c2s'[i].handle
    <2> SUFFICES ASSUME NEW i \in 1..n, Names(c2s'[i]), NEW j \in 1..(i - 1), c2s'[j].m = "Unregister"
                 PROVE  c2s'[j].handle # c2s'[i].handle
      OBVIOUS
    <2>1. i + 1 \in 1..(n + 1) /\ j + 1 \in 1..((i + 1) - 1) /\ j \in 1..n
      BY <1>1
    <2>2. c2s'[i] = c2s[i + 1] /\ c2s'[j] = c2s[j + 1]
      BY <1>1, <2>1
    <2> QED BY <1>2, <2>1, <2>2
  <1> QED BY <1>3, <1>4 DEF Live, n

LEMMA TakeUnregistering ==
  ASSUME Base, NEW m, Take(m)
  PROVE  /\ m # "Unregister" => Unregistering' = Unregistering
         /\ m = "Unregister" => Unregistering = Unregistering' \cup {Head(c2s).handle}
  <1> DEFINE n == Len(c2s')
  <1>1. /\ n \in Nat /\ Len(c2s) = n + 1 /\ \A i \in 1..n : c2s'[i] = c2s[i + 1]
        /\ c2s[1].m = m /\ Head(c2s) = c2s[1] /\ DOMAIN c2s = 1..(n + 1) /\ DOMAIN c2s' = 1..n
    BY TakeShape
  <1> HIDE DEF n
  <1>2. /\ Unregistering = {c2s[i].handle : i \in {j \in 1..(n + 1) : c2s[j].m = "Unregister"}}
        /\ Unregistering' = {c2s'[i].handle : i \in {j \in 1..n : c2s'[j].m = "Unregister"}}
    BY <1>1 DEF Unregistering
  <1>3. \A x \in Unregistering' : x \in Unregistering
    <2> SUFFICES ASSUME NEW i \in 1..n, c2s'[i].m = "Unregister" PROVE c2s'[i].handle \in Unregistering
      BY <1>2
    <2>1. i + 1 \in 1..(n + 1) /\ c2s'[i] = c2s[i + 1]
      BY <1>1
    <2> QED BY <1>2, <2>1
  <1>4. \A x \in Unregistering : x \in Unregistering' \/ (m = "Unregister" /\ x = c2s[1].handle)
    <2> SUFFICES ASSUME NEW i \in 1..(n + 1), c2s[i].m = "Unregister"
                 PROVE  c2s[i].handle \in Unregistering' \/ (m = "Unregister" /\ c2s[i].handle = c2s[1].handle)
      BY <1>2
    <2>1. CASE i = 1
      BY <1>1, <2>1
    <2>2. CASE i # 1
      <3>1. i - 1 \in 1..n /\ c2s'[i - 1] = c2s[i]
        BY <1>1, <2>2
      <3> QED BY <1>2, <3>1
    <2> QED BY <2>1, <2>2
  <1>5. m = "Unregister" => c2s[1].handle \in Unregistering
    <2>1. 1 \in 1..(n + 1)
      BY <1>1
    <2> QED BY <1>1, <1>2, <2>1
  <1> QED BY <1>1, <1>3, <1>4, <1>5

\* The request that is owed an answer is taken: someone waits, and nothing else is owed.
LEMMA TakeOwed ==
  ASSUME Base, InStep, NEW m \in {"RegisterSession", "ListIdentity", "SendRRData"}, Take(m)
  PROVE  /\ \A i \in 1..Len(c2s') : ~Owed(c2s'[i])
         /\ \A f \in frames : ~Owed(f.msg)
         /\ \E t \in Callers : Awaits(t, c2s[1], c2s[1].id)
  <1>1. 1 \in 1..Len(c2s) /\ Owed(c2s[1])
    BY TakeShape DEF Owed
  <1>2. \A j \in 1..Len(c2s) : Owed(c2s[j]) => 1 = j
    BY <1>1 DEF InStep, OneAsked
  <1>3. \A i \in 1..Len(c2s') : i + 1 \in 1..Len(c2s) /\ c2s'[i] = c2s[i + 1] /\ 1 # i + 1
    BY TakeShape
  <1>4. \A i \in 1..Len(c2s') : ~Owed(c2s'[i])
    BY <1>2, <1>3 DEF Owed
  <1> QED BY <1>1, <1>4 DEF InStep, OneAsked

\* A reply that is sent leaves the stream in whole replies.
LEMMA SendTiling ==
  ASSUME Base, InStep, peerOpen, call' = call, pc' = pc, NEW r \in Reply_t, UNCHANGED streamVars \/ Send(r)
  PROVE  Tiling'
  <1>1. ASSUME NEW o \in Nat, Tiled(frames, o, unread) PROVE Tiled(frames', o, unread')
    <2>1. CASE Send(r)
      <3>1. frames \in SUBSET Frame_t /\ unread \in Nat
        BY DEF Base, TypeOK, Frame_t
      <3>2. Tiled(frames \cup {[at |-> unread, msg |-> r]}, o, unread + HeaderLen + r.len)
        BY <1>1, <3>1, TiledSend
      <3>3. frames' = frames \cup {[at |-> unread, msg |-> r]} /\ unread' = unread + HeaderLen + r.len
        BY <2>1 DEF Send
      <3> QED BY <3>2, <3>3
    <2>2. CASE UNCHANGED streamVars
      <3>1. frames' = frames /\ unread' = unread
        BY <2>2 DEF streamVars
      <3> QED BY <1>1, <3>1
    <2> QED BY <2>1, <2>2
  <1>2. ~Emptied
    BY DEF Emptied
  <1>3. (\A t \in Callers : pc[t] # "body") => Tiled(frames', 0, unread')
    BY <1>1 DEF InStep, Tiling
  <1>4. ASSUME NEW t \in Callers, pc[t] = "body" PROVE Tiled(frames', call[t].need, unread')
    BY <1>1, <1>2, <1>4 DEF InStep, Tiling, Base, TypeOK
  <1>5. Tiled(frames, 0, unread)' <=> Tiled(frames', 0, unread')
    BY DEF Tiled
  <1>6. \A t \in Callers : Tiled(frames, call[t].need, unread)' <=> Tiled(frames', call[t].need, unread')
    BY DEF Tiled
  <1> QED BY <1>3, <1>4, <1>5, <1>6 DEF Tiling

LEMMA AgreeDevice ==
  ASSUME Base, InStep, Serve \/ Refuse \/ Drop \/ Reset
  PROVE  InStep' /\ \A x \in sessions' : x \in sessions \/ \E t \in Callers : pc[t] # "idle" /\ x = call[t].id
  <1>1. pc' = pc /\ call' = call /\ sessionHandle' = sessionHandle
    BY DEF Serve, ServeRegister, ServeUnregister, ServeList, ServeRR, ServeUnit, Refuse, Drop, Reset, clientVars
  <1>2. OwnBody'
    BY <1>1 DEF InStep, OwnBody
  <1>3. CASE Reset
    <2>1. /\ peerOpen' = FALSE /\ c2s' = <<>> /\ Len(c2s') = 0 /\ sessions' = sessions
          /\ (frames' = frames /\ unread' = unread) \/ (frames' = {} /\ unread' = 0)
      BY <1>3 DEF Reset, streamVars
    <2>2. Tiling'
      <3>1. CASE frames' = frames /\ unread' = unread
        <4>1. Emptied => Emptied'
          BY <2>1, <3>1 DEF Emptied
        <4> QED BY <1>1, <3>1, <4>1 DEF InStep, Tiling, Tiled
      <3>2. CASE frames' = {} /\ unread' = 0
        <4>1. Emptied' /\ Tiled(frames, 0, unread)'
          BY <2>1, <3>2 DEF Emptied, Tiled
        <4> QED BY <4>1 DEF Tiling
      <3> QED BY <2>1, <3>1, <3>2
    <2>3. OneAsked' /\ Agreed' /\ Live'
      BY <2>1 DEF OneAsked, Agreed, Live
    <2>4. OneAnswer'
      BY <1>1, <2>1 DEF InStep, OneAnswer, Awaits
    <2>5. Fresh'
      BY <1>1, <2>1 DEF InStep, Fresh
    <2> QED BY <1>2, <2>1, <2>2, <2>3, <2>4, <2>5 DEF InStep
  <1>4. ASSUME NEW m \in {"RegisterSession", "ListIdentity", "SendRRData"}, Take(m),
               NEW s \in {0, 1}, NEW n \in Nat, NEW k \in Nat,
               Send(Reply(Head(c2s), s, n, k)) \/ UNCHANGED streamVars, peerOpen' = peerOpen,
               m = "SendRRData" /\ s = 0 => n >= PrefixLen,
               m = "RegisterSession" /\ s = 0 =>
                 n = RegisterLen /\ k = Head(c2s).id /\ Send(Reply(Head(c2s), s, n, k)),
               sessions' = IF m = "RegisterSession" /\ s = 0 THEN sessions \cup {Head(c2s).id} ELSE sessions
        PROVE  InStep' /\ \A x \in sessions' : x \in sessions \/ \E t \in Callers : pc[t] # "idle" /\ x = call[t].id
    <2> DEFINE q == c2s[1]
               r == Reply(q, s, n, k)
               e == [at |-> unread, msg |-> r]
    <2>1. Head(c2s) = q /\ q.m = m /\ q \in Request_t /\ peerOpen
      BY <1>4, TakeShape
    <2>2. /\ \A i \in 1..Len(c2s') : ~Owed(c2s'[i])
          /\ \A f \in frames : ~Owed(f.msg)
          /\ \E t \in Callers : Awaits(t, q, q.id)
      BY <1>4, TakeOwed
    <2>3. PICK t \in Callers : pc[t] = "header" /\ q.m = call[t].m /\ q.id = call[t].id
      BY <2>2 DEF Awaits
    <2>4. /\ r.m = m /\ r.status = s /\ r.len = n /\ r.handle = k /\ r.req = q.id /\ r \in Reply_t
          /\ e.msg = r
      BY <1>4, <2>1 DEF Reply, Reply_t, Request_t, Methods
    <2>5. (Send(r) /\ frames' = frames \cup {e}) \/ (UNCHANGED streamVars /\ frames' = frames)
      BY <1>4, <2>1 DEF Send, streamVars
    <2>6. m = "RegisterSession" /\ s = 0 => frames' = frames \cup {e}
      BY <1>4, <2>1 DEF Send
    <2> HIDE DEF q, r, e
    <2>7. Tiling'
      BY <1>1, <2>1, <2>4, <2>5, SendTiling
    <2>8. OneAsked'
      BY <2>2 DEF OneAsked
    <2>9. \A f \in frames' : f \in frames \/ f = e
      BY <2>5
    <2>10. OneAnswer'
      BY <1>1, <1>4, <2>1, <2>2, <2>3, <2>4, <2>9 DEF OneAnswer, Awaits, Owed
    <2>11. Unregistering' = Unregistering
      BY <1>4, TakeUnregistering
    <2>12. Live'
      <3>1. \A i \in 2..Len(c2s) : Names(c2s[i]) => c2s[i].handle \in sessions
        <4>1. Len(c2s) \in Nat
          BY <1>4, TakeShape
        <4> QED BY <4>1 DEF InStep, Live
      <3>2. sessions \subseteq sessions'
        BY <1>4
      <3> QED BY <1>4, <3>1, <3>2, TakeLive
    <2>13. q.id \notin sessions \/ m # "RegisterSession"
      BY <1>4, <2>1, TakeShape DEF InStep, Fresh, q
    <2>14. Unregistering \subseteq sessions
      <3>1. DOMAIN c2s = 1..Len(c2s)
        BY <1>4, TakeShape
      <3> QED BY <3>1 DEF InStep, Live, Unregistering, Names
    <2>15. Granted = {}
      BY <2>2 DEF Granted, Grants, Owed
    <2>16. Granted' = IF m = "RegisterSession" /\ s = 0 THEN {q.id} ELSE {}
      <3>1. CASE m = "RegisterSession" /\ s = 0
        <4>1. e \in frames' /\ Grants(e) /\ e.msg.handle = q.id
          BY <1>4, <2>1, <2>4, <2>6, <3>1 DEF Grants
        <4>2. \A f \in frames' : Grants(f) => f = e
          BY <2>2, <2>9 DEF Grants, Owed
        <4>3. Granted' = {f.msg.handle : f \in {g \in frames' : Grants(g)}}
          BY DEF Granted, Grants
        <4> QED BY <3>1, <4>1, <4>2, <4>3
      <3>2. CASE ~(m = "RegisterSession" /\ s = 0)
        <4>1. \A f \in frames' : ~Grants(f)
          BY <2>2, <2>4, <2>9, <3>2 DEF Grants, Owed
        <4>2. Granted' = {f.msg.handle : f \in {g \in frames' : Grants(g)}}
          BY DEF Granted, Grants
        <4> QED BY <3>2, <4>1, <4>2
      <3> QED BY <3>1, <3>2
    <2>17. Agreed'
      <3>1. sessions \ Unregistering = {sessionHandle} \ {0}
        BY <2>1, <2>15 DEF InStep, Agreed
      <3>2. sessions' \ Unregistering = ({sessionHandle} \ {0}) \cup Granted'
        BY <1>4, <2>1, <2>13, <2>14, <2>16, <3>1
      <3> QED BY <1>1, <2>11, <3>2 DEF Agreed
    <2>18. Fresh'
      <3>1. \A u \in Callers : pc[u] \in {"lock", "locked"} => call[u].id # q.id
        BY <2>3 DEF Base, Ids
      <3>2. \A u \in Callers : pc[u] \in {"lock", "locked"} /\ call[u].m = "RegisterSession" => call[u].id \notin sessions'
        BY <1>4, <2>1, <3>1 DEF InStep, Fresh
      <3> QED BY <1>1, <2>2, <3>2 DEF Fresh, Owed
    <2>19. \A x \in sessions' : x \in sessions \/ \E u \in Callers : pc[u] # "idle" /\ x = call[u].id
      BY <1>4, <2>1, <2>3
    <2> QED BY <1>2, <2>7, <2>8, <2>10, <2>12, <2>17, <2>18, <2>19 DEF InStep
  <1>5. ASSUME NEW m \in {"SendUnitData", "Unregister"}, Take(m), NEW r \in Reply_t, r.m = "SendUnitData",
               Send(r) \/ UNCHANGED streamVars, peerOpen' = peerOpen,
               sessions' = IF m = "Unregister" THEN sessions \ {Head(c2s).handle} ELSE sessions
        PROVE  InStep' /\ \A x \in sessions' : x \in sessions
    <2> DEFINE q == c2s[1]
               e == [at |-> unread, msg |-> r]
    <2>1. Head(c2s) = q /\ q.m = m /\ peerOpen /\ Len(c2s) \in Nat /\ Len(c2s) > 0 /\ DOMAIN c2s = 1..Len(c2s)
      BY <1>5, TakeShape
    <2>2. frames' = frames \/ frames' = frames \cup {e}
      BY <1>5 DEF Send, streamVars
    <2>3. e.msg = r /\ ~Owed(r) /\ ~Grants(e)
      BY <1>5 DEF Owed, Grants
    <2>4. Tiling'
      BY <1>1, <1>5, <2>1, SendTiling
    <2> HIDE DEF q, e
    <2>5. \A f \in frames' : f \in frames \/ f = e
      BY <2>2
    <2>6. OneAsked' /\ OneAnswer'
      <3> DEFINE n == Len(c2s')
      <3>1. n \in Nat /\ Len(c2s) = n + 1 /\ \A i \in 1..n : c2s'[i] = c2s[i + 1]
        BY <1>5, TakeShape
      <3> HIDE DEF n
      <3>2. \A i \in 1..n : Owed(c2s'[i]) =>
              /\ \A j \in 1..n : Owed(c2s'[j]) => i = j
              /\ \A f \in frames' : ~Owed(f.msg)
              /\ \E t \in Callers : Awaits(t, c2s'[i], c2s'[i].id)
        <4> SUFFICES ASSUME NEW i \in 1..n, Owed(c2s'[i])
                     PROVE  /\ \A j \in 1..n : Owed(c2s'[j]) => i = j
                            /\ \A f \in frames' : ~Owed(f.msg)
                            /\ \E t \in Callers : Awaits(t, c2s'[i], c2s'[i].id)
          OBVIOUS
        <4>1. c2s'[i] = c2s[i + 1] /\ i + 1 \in 1..Len(c2s)
          BY <3>1
        <4>2. /\ \A j \in 1..Len(c2s) : Owed(c2s[j]) => i + 1 = j
              /\ \A f \in frames : ~Owed(f.msg)
              /\ \E t \in Callers : Awaits(t, c2s[i + 1], c2s[i + 1].id)
          <5>1. Owed(c2s[i + 1])
            BY <4>1
          <5> QED BY <4>1, <5>1 DEF InStep, OneAsked
        <4>3. \A j \in 1..n : Owed(c2s'[j]) => i = j
          <5> SUFFICES ASSUME NEW j \in 1..n, Owed(c2s'[j]) PROVE i = j
            OBVIOUS
          <5>1. c2s'[j] = c2s[j + 1] /\ j + 1 \in 1..Len(c2s)
            BY <3>1
          <5>2. i + 1 = j + 1
            BY <4>2, <5>1
          <5> QED BY <5>2
        <4> QED BY <2>3, <2>5, <4>1, <4>2, <4>3
      <3>3. OneAsked'
        BY <1>1, <3>2 DEF OneAsked, Awaits, Owed, n
      <3>4. OneAnswer'
        BY <1>1, <2>3, <2>5 DEF InStep, OneAnswer, Awaits
      <3> QED BY <3>3, <3>4
    <2>7. Live'
      <3>1. \A i \in 2..Len(c2s) : Names(c2s[i]) =>
              c2s[i].handle \in sessions /\ (m = "Unregister" => c2s[i].handle # q.handle)
        <4> SUFFICES ASSUME NEW i \in 2..Len(c2s), Names(c2s[i])
                     PROVE  c2s[i].handle \in sessions /\ (m = "Unregister" => c2s[i].handle # q.handle)
          OBVIOUS
        <4>1. i \in 1..Len(c2s) /\ 1 \in 1..(i - 1)
          BY <2>1
        <4> QED BY <2>1, <4>1 DEF InStep, Live, q
      <3> QED BY <1>5, <2>1, <3>1, TakeLive
    <2>8. Granted' = Granted
      <3>1. Granted' = {f.msg.handle : f \in {g \in frames' : Grants(g)}}
        BY DEF Granted, Grants
      <3>2. {g \in frames' : Grants(g)} = {g \in frames : Grants(g)}
        BY <2>2, <2>3
      <3> QED BY <3>1, <3>2 DEF Granted
    <2>9. Agreed'
      <3>1. sessions \ Unregistering = ({sessionHandle} \ {0}) \cup Granted
        BY <2>1 DEF InStep, Agreed
      <3>2. CASE m = "Unregister"
        <4>1. Unregistering = Unregistering' \cup {q.handle} /\ sessions' = sessions \ {q.handle}
          BY <1>5, <2>1, <3>2, TakeUnregistering
        <4>2. sessions' \ Unregistering' = sessions \ Unregistering
          BY <4>1
        <4> QED BY <1>1, <2>8, <3>1, <4>2 DEF Agreed
      <3>3. CASE m # "Unregister"
        <4>1. Unregistering = Unregistering' /\ sessions' = sessions
          BY <1>5, <3>3, TakeUnregistering
        <4> QED BY <1>1, <2>8, <3>1, <4>1 DEF Agreed
      <3> QED BY <3>2, <3>3
    <2>10. Fresh'
      <3>1. \A i \in 1..Len(c2s') : i + 1 \in 1..Len(c2s) /\ c2s'[i] = c2s[i + 1]
        BY <1>5, TakeShape
      <3>2. sessions' \subseteq sessions
        BY <1>5
      <3> QED BY <1>1, <3>1, <3>2 DEF InStep, Fresh
    <2>11. \A x \in sessions' : x \in sessions
      BY <1>5
    <2> QED BY <1>2, <2>4, <2>6, <2>7, <2>9, <2>10, <2>11 DEF InStep
  <1>6. ASSUME NEW m, Take(m) PROVE Head(c2s).m = m /\ Head(c2s).id \in Nat /\ Head(c2s).handle \in Nat
    BY <1>6, TakeShape DEF Request_t
  <1>7. RegisterLen \in Nat /\ PrefixLen \in Nat /\ BodyLens \cup {0} \subseteq Nat
    BY ConstantsAssumption
  <1>8. CASE ServeRegister
    BY <1>4, <1>6, <1>7, <1>8 DEF ServeRegister
  <1>9. CASE ServeList
    BY <1>4, <1>6, <1>7, <1>9 DEF ServeList, serverVars
  <1>10. CASE ServeRR
    BY <1>4, <1>6, <1>7, <1>10 DEF ServeRR, serverVars
  <1>11. CASE Refuse
    BY <1>4, <1>6, <1>7, <1>11 DEF Refuse, serverVars
  <1>12. PICK r \in Reply_t : r.m = "SendUnitData"
    <2>1. [m |-> "SendUnitData", status |-> 0, len |-> 0, handle |-> 0, req |-> 0] \in Reply_t
      BY DEF Reply_t, Methods
    <2> QED BY <2>1
  <1>13. CASE ServeUnregister
    BY <1>5, <1>12, <1>13 DEF ServeUnregister
  <1>14. CASE ServeUnit
    <2>1. ASSUME Take("SendUnitData")
          PROVE  Reply(Head(c2s), 0, PrefixLen, Head(c2s).handle) \in Reply_t
                 /\ Reply(Head(c2s), 0, PrefixLen, Head(c2s).handle).m = "SendUnitData"
      BY <1>6, <1>7, <2>1 DEF Reply, Reply_t, Methods
    <2> QED BY <1>5, <1>12, <1>14, <2>1 DEF ServeUnit, serverVars
  <1>15. CASE Drop
    <2>1. CASE Take("SendUnitData")
      BY <1>5, <1>12, <1>15, <2>1 DEF Drop, serverVars
    <2>2. ASSUME NEW m \in {"RegisterSession", "ListIdentity", "SendRRData"}, Take(m) PROVE InStep' /\ sessions' = sessions
      BY <1>4, <1>15, <2>2 DEF Drop, serverVars
    <2> QED BY <1>15, <2>1, <2>2 DEF Drop
  <1> QED BY <1>3, <1>8, <1>9, <1>10, <1>11, <1>13, <1>14, <1>15 DEF Serve


-----------------------------------------------------------------------------
(* The invariant                                                           *)

\* A call begins, or takes the mutex.
LEMMA AgreeCaller ==
  ASSUME Base, InStep, ~desync, NEW t \in Callers, Call(t) \/ Lock(t)
  PROVE  InStep'
  <1>1. /\ UNCHANGED <<c2s, streamVars, sessions, peerOpen, sessionHandle>>
        /\ \A s \in Callers \ {t} : pc'[s] = pc[s] /\ call'[s] = call[s]
        /\ pc[t] \notin {"header", "body"} /\ pc'[t] \notin {"header", "body"}
    BY DEF Call, Lock, Base, TypeOK, serverVars
  <1>2. CASE Call(t)
    <2>1. call'[t].id = issued + 1 /\ issued \in Nat
      BY ZenonT(60), <1>2 DEF Call, NoCall, Base, TypeOK
    <2>2. sessions \subseteq 1..issued
      BY DEF Base, Ids
    <2>3. call'[t].id \notin sessions
      BY <2>1, <2>2
    <2> QED BY <1>1, <2>3, Aside
  <1>3. CASE Lock(t)
    <2>1. pc[t] = "lock" /\ call'[t] = call[t]
      BY <1>3 DEF Lock
    <2>2. call[t].m = "RegisterSession" => call[t].id \notin sessions
      BY <2>1 DEF InStep, Fresh
    <2> QED BY <1>1, <2>1, <2>2, Aside
  <1> QED BY <1>2, <1>3

LEMMA AgreeStutter == InStep /\ UNCHANGED vars => InStep'
  <1> SUFFICES ASSUME InStep, UNCHANGED vars PROVE InStep'
    OBVIOUS
  <1>1. /\ pc' = pc /\ call' = call /\ sessionHandle' = sessionHandle /\ c2s' = c2s /\ frames' = frames
        /\ unread' = unread /\ sessions' = sessions /\ peerOpen' = peerOpen
    BY DEF vars, clientVars, serverVars, streamVars
  <1>2. Tiling' /\ OneAsked' /\ OneAnswer' /\ OwnBody'
    BY <1>1 DEF InStep, Tiling, Tiled, Emptied, OneAsked, OneAnswer, OwnBody, Awaits
  <1>3. Agreed' /\ Live' /\ Fresh'
    BY <1>1 DEF InStep, Agreed, Granted, Unregistering, Live, Fresh
  <1> QED BY <1>2, <1>3 DEF InStep

\* Once some exchange has been given up, the client does not get back into step.
LEMMA DesyncStays == [Next]_vars => (desync => desync')
  <1> SUFFICES ASSUME [Next]_vars, desync PROVE desync'
    OBVIOUS
  <1>1. ASSUME NEW t \in Callers, Call(t) \/ Lock(t) PROVE desync'
    BY <1>1 DEF Call, Lock
  <1>2. ASSUME NEW t \in Callers, Step(t) PROVE desync'
    BY <1>2 DEF Step, RegisterSession, ListIdentity, SendRRData, SendUnitData, CloseCheck, unregisterSession,
       CloseConn, ReturnEarly, WriteError, Request, ReadError, RejectHeader, AcceptHeader, ReadBody, Unregistered
  <1>3. CASE Serve \/ Refuse \/ Drop \/ Reset
    BY <1>3 DEF Serve, ServeRegister, ServeUnregister, ServeList, ServeRR, ServeUnit, Refuse, Drop, Reset, clientVars
  <1>4. CASE UNCHANGED vars
    BY <1>4 DEF vars, clientVars
  <1> QED BY <1>1, <1>2, <1>3, <1>4 DEF Next, Quiescent

LEMMA GoneStep == Gone /\ [Next]_vars => Gone'
  <1> SUFFICES ASSUME Gone, [Next]_vars PROVE Gone'
    OBVIOUS
  <1>1. ASSUME NEW t \in Callers, Call(t) \/ Lock(t) PROVE Gone'
    BY <1>1 DEF Call, Lock, serverVars, Gone
  <1>2. ASSUME NEW t \in Callers, Step(t) PROVE Gone'
    <2>1. peerOpen' = peerOpen
      BY <1>2 DEF Step, RegisterSession, ListIdentity, SendRRData, SendUnitData, CloseCheck, unregisterSession,
         CloseConn, ReturnEarly, WriteError, Request, ReadError, RejectHeader, AcceptHeader, ReadBody, Unregistered,
         serverVars
    <2>2. ~peerOpen => c2s' = c2s
      BY <1>2 DEF Step, RegisterSession, ListIdentity, SendRRData, SendUnitData, CloseCheck, unregisterSession,
         CloseConn, ReturnEarly, WriteError, Request, ReadError, RejectHeader, AcceptHeader, ReadBody, Unregistered,
         Put
    <2> QED BY <2>1, <2>2 DEF Gone
  <1>3. CASE Serve \/ Refuse \/ Drop \/ Reset
    BY <1>3 DEF Serve, ServeRegister, ServeUnregister, ServeList, ServeRR, ServeUnit, Refuse, Drop, Reset, Take,
       serverVars, Gone
  <1>4. CASE UNCHANGED vars
    BY <1>4 DEF vars, serverVars, Gone
  <1> QED BY <1>1, <1>2, <1>3, <1>4 DEF Next, Quiescent

LEMMA IdsStep ==
  ASSUME Base, ~desync => InStep, [Next]_vars
  PROVE  Ids'
  <1>1. /\ issued \in Nat /\ (\A t \in Callers : pc[t] # "idle" => call[t].id \in 1..issued)
        /\ \A s, t \in Callers : pc[s] # "idle" /\ pc[t] # "idle" /\ call[s].id = call[t].id => s = t
    BY DEF Base, Ids, TypeOK
  <1>2. ~desync => sessions \subseteq 1..issued
    BY DEF Base, Ids
  <1>3. ~desync' => ~desync
    BY DesyncStays
  <1>4. ASSUME NEW t \in Callers, Call(t) PROVE Ids'
    <2>1. /\ issued' = issued + 1 /\ call'[t].id = issued + 1 /\ sessions' = sessions /\ pc[t] = "idle"
          /\ \A s \in Callers \ {t} : pc'[s] = pc[s] /\ call'[s] = call[s]
      BY <1>4 DEF Call, NoCall, Base, TypeOK, serverVars
    <2>2. \A s \in Callers \ {t} : pc'[s] # "idle" => call'[s].id \in 1..issued
      BY <1>1, <2>1
    <2>3. \A s \in Callers : pc'[s] # "idle" => call'[s].id \in 1..issued'
      BY <1>1, <2>1, <2>2
    <2>4. \A s \in Callers \ {t} : pc'[s] # "idle" => call'[s].id # call'[t].id
      BY <1>1, <2>1, <2>2
    <2>5. ASSUME NEW r \in Callers, NEW s \in Callers, pc'[r] # "idle", pc'[s] # "idle", call'[r].id = call'[s].id
          PROVE  r = s
      <3>1. CASE r = t \/ s = t
        BY <2>4, <2>5, <3>1
      <3>2. CASE r # t /\ s # t
        BY <1>1, <2>1, <2>5, <3>2
      <3> QED BY <3>1, <3>2
    <2>6. ~desync' => sessions' \subseteq 1..issued'
      BY <1>1, <1>2, <1>3, <2>1
    <2> QED BY <2>3, <2>5, <2>6 DEF Ids
  <1>5. ASSUME issued' = issued, \A s \in Callers : pc'[s] # "idle" => pc[s] # "idle" /\ call'[s].id = call[s].id,
               ~desync' => sessions' \subseteq 1..issued
        PROVE  Ids'
    BY <1>1, <1>5 DEF Ids
  <1>6. ASSUME NEW t \in Callers, Lock(t) PROVE Ids'
    BY <1>2, <1>3, <1>5, <1>6 DEF Lock, Base, TypeOK, serverVars
  <1>7. ASSUME NEW t \in Callers, Step(t) PROVE Ids'
    <2>1. issued' = issued /\ sessions' = sessions
      BY <1>7 DEF Step, RegisterSession, ListIdentity, SendRRData, SendUnitData, CloseCheck, unregisterSession,
         CloseConn, ReturnEarly, WriteError, Request, ReadError, RejectHeader, AcceptHeader, ReadBody, Unregistered,
         serverVars
    <2>2. /\ \A s \in Callers \ {t} : pc'[s] = pc[s] /\ call'[s] = call[s]
          /\ call'[t].id = call[t].id /\ pc[t] # "idle"
      BY <1>7, StepControl DEF Base, Held
    <2> QED BY <1>2, <1>3, <1>5, <2>1, <2>2
  <1>8. CASE Serve \/ Refuse \/ Drop \/ Reset
    <2>1. pc' = pc /\ call' = call /\ issued' = issued
      BY <1>8 DEF Serve, ServeRegister, ServeUnregister, ServeList, ServeRR, ServeUnit, Refuse, Drop, Reset, clientVars
    <2>2. ~desync' => sessions' \subseteq 1..issued
      BY <1>1, <1>2, <1>3, <1>8, AgreeDevice
    <2> QED BY <1>5, <2>1, <2>2
  <1>9. CASE UNCHANGED vars
    BY <1>2, <1>3, <1>5, <1>9 DEF vars, clientVars, serverVars
  <1> QED BY <1>4, <1>6, <1>7, <1>8, <1>9 DEF Next, Quiescent

\* Data is returned only by a goroutine that has read the body of a reply.
LEMMA Data ==
  ASSUME Base, NEW t \in Callers, Step(t), call[t].m \in {"ListIdentity", "SendRRData"}, call'[t].res = "ok"
  PROVE  ReadBody(t)
  <1>1. pc[t] # "idle" => call[t].res # "ok"
    BY DEF Base, CallInv
  <1>2. ASSUME NEW res, Return(t, res) PROVE call'[t].res = res
    BY <1>2 DEF Return, Base, TypeOK
  <1>3. pc[t] # "idle" /\ pc[t] \notin {"check", "close"}
    BY StepControl DEF Base, Held, CallInv
  <1>4. ~ReturnEarly(t, "error") /\ ~WriteError(t) /\ ~ReadError(t) /\ \A h : ~RejectHeader(t, h)
    BY <1>2 DEF ReturnEarly, WriteError, ReadError, RejectHeader
  <1>5. \A h, n : ~Request(t, h, n) /\ ~AcceptHeader(t, h, n)
    <2>1. ASSUME NEW n, NEW h, Request(t, h, n) PROVE FALSE
      BY <1>1, <1>3, <2>1 DEF Request, Base, TypeOK
    <2>2. ASSUME NEW n, NEW h, AcceptHeader(t, h, n) PROVE FALSE
      BY <1>1, <1>3, <2>2 DEF AcceptHeader, Base, TypeOK
    <2> QED BY <2>1, <2>2
  <1> QED BY <1>3, <1>4, <1>5 DEF Step, RegisterSession, ListIdentity, SendRRData, SendUnitData, unregisterSession,
             CloseCheck, CloseConn

LEMMA AnswersStep ==
  ASSUME Base, ~desync => InStep, CleanAnswers, [Next]_vars
  PROVE  CleanAnswers'
  <1> SUFFICES ASSUME ~desync' PROVE AnswersOwnRequest'
    BY DEF CleanAnswers
  <1>1. ~desync
    BY DesyncStays
  <1>2. AnswersOwnRequest
    BY <1>1 DEF CleanAnswers
  <1>3. ASSUME NEW t \in Callers, Call(t) \/ Lock(t) PROVE AnswersOwnRequest'
    <2>1. /\ \A s \in Callers \ {t} : call'[s] = call[s]
          /\ call'[t].res = "none" \/ call'[t] = call[t]
      <3>1. CASE Call(t)
        BY <3>1 DEF Call, NoCall, Base, TypeOK
      <3>2. CASE Lock(t)
        BY <3>2 DEF Lock
      <3> QED BY <1>3, <3>1, <3>2
    <2> QED BY <1>2, <2>1 DEF AnswersOwnRequest
  <1>4. ASSUME NEW t \in Callers, Step(t) PROVE AnswersOwnRequest'
    <2>1. /\ \A s \in Callers \ {t} : call'[s] = call[s]
          /\ call'[t].m = call[t].m /\ call'[t].id = call[t].id
      BY <1>4, StepControl DEF Base
    <2>2. ReadBody(t) => call'[t].of = call[t].id
      <3>1. ReadBody(t) => pc[t] = "body" /\ call'[t].of = call[t].of
        BY DEF ReadBody, Return, Base, TypeOK
      <3> QED BY <1>1, <3>1 DEF InStep, OwnBody
    <2>3. call[t].m \in {"ListIdentity", "SendRRData"} /\ call'[t].res = "ok" => call'[t].of = call[t].id
      BY <1>4, <2>2, Data
    <2> QED BY <1>2, <2>1, <2>3 DEF AnswersOwnRequest
  <1>5. CASE Serve \/ Refuse \/ Drop \/ Reset
    <2>1. call' = call
      BY <1>5 DEF Serve, ServeRegister, ServeUnregister, ServeList, ServeRR, ServeUnit, Refuse, Drop, Reset, clientVars
    <2> QED BY <1>2, <2>1 DEF AnswersOwnRequest
  <1>6. CASE UNCHANGED vars
    BY <1>2, <1>6 DEF vars, clientVars, AnswersOwnRequest
  <1> QED BY <1>3, <1>4, <1>5, <1>6 DEF Next, Quiescent

LEMMA AgreeInit == Init => HInv
  <1> SUFFICES ASSUME Init PROVE HInv
    OBVIOUS
  <1>1. Base /\ CleanAnswers
    BY TypeInit, ConstantsAssumption DEF Init, LockInv, CallInv, CleanAnswers, AnswersOwnRequest, NoCall, Held,
       Base, Ids, Gone
  <1>2. Len(c2s) = 0 /\ \A t \in Callers : pc[t] = "idle"
    BY DEF Init
  <1>3. Tiled(frames, 0, unread)
    BY DEF Init, Tiled
  <1>4. Tiling /\ OneAsked /\ OneAnswer /\ OwnBody /\ Live /\ Fresh
    BY <1>2, <1>3 DEF Init, Tiling, OneAsked, OneAnswer, OwnBody, Live, Fresh
  <1>5. Agreed
    BY DEF Init, Agreed, Granted, Unregistering
  <1> QED BY <1>1, <1>4, <1>5 DEF HInv, InStep

LEMMA AgreeStep == HInv /\ [Next]_vars => HInv'
  <1> SUFFICES ASSUME HInv, [Next]_vars PROVE HInv'
    OBVIOUS
  <1>1. Base /\ (~desync => InStep) /\ CleanAnswers
    BY DEF HInv
  <1>2. Base'
    BY <1>1, TypeStep, LockStep, CallStep, IdsStep, GoneStep DEF Base
  <1>3. CleanAnswers'
    BY <1>1, AnswersStep
  <1>4. ASSUME ~desync' PROVE InStep'
    <2>1. ~desync /\ InStep
      BY <1>1, <1>4, DesyncStays
    <2>2. ASSUME NEW t \in Callers, Call(t) \/ Lock(t) PROVE InStep'
      BY <1>1, <2>1, <2>2, AgreeCaller
    <2>3. ASSUME NEW t \in Callers, Step(t) PROVE InStep'
      BY <1>1, <1>4, <2>1, <2>3, AgreeMethods
    <2>4. CASE Serve \/ Refuse \/ Drop \/ Reset
      BY <1>1, <2>1, <2>4, AgreeDevice
    <2>5. CASE UNCHANGED vars
      BY <2>1, <2>5, AgreeStutter
    <2> QED BY <2>2, <2>3, <2>4, <2>5 DEF Next, Quiescent
  <1> QED BY <1>2, <1>3, <1>4 DEF HInv

\* HInv is an invariant, whatever the network and the device do: until an exchange is given up the
\* reply stream is made of whole replies, at most one request is owed an answer or has one unread,
\* and device and client agree on the session (client.go:68-398).
THEOREM HInvAlways == Spec => []HInv
  <1> QED BY AgreeInit, AgreeStep, PTL DEF Spec

\* Answers belong to their requests with every device, one that answers SendUnitData included:
\* its replies are rejected by their command (client.go:217, 300), so that until a read is given
\* up no call returns another one's data.
THEOREM CleanAnswersAlways == Spec => []CleanAnswers
  <1>1. HInv => CleanAnswers
    BY DEF HInv
  <1> QED BY <1>1, HInvAlways, PTL

\* A request names a session that is live when the device serves it: no other goroutine's Close
\* gets its Unregister in before (client.go:257-279, 349-386).
THEOREM LiveHandleAlways == Spec => []LiveHandle
  <1>1. HInv => LiveHandle
    <2> SUFFICES ASSUME HInv, ~desync
                 PROVE \A i \in DOMAIN c2s : c2s[i].m \in {"SendRRData", "SendUnitData", "Unregister"} =>
                         /\ c2s[i].handle \in sessions
                         /\ \A j \in 1..(i - 1) : c2s[j].m = "Unregister" => c2s[j].handle # c2s[i].handle
      BY DEF LiveHandle
    <2>1. DOMAIN c2s = 1..Len(c2s)
      BY DEF HInv, Base, TypeOK
    <2> QED BY <2>1 DEF HInv, InStep, Live, Names
  <1> QED BY <1>1, HInvAlways, PTL

\* Between exchanges device and client agree on the session: none is leaked at the device, and the
\* client holds none the device has dropped (client.go:153-189, 349-398).
THEOREM AgreeOnSessionAlways == Spec => []AgreeOnSession
  <1>1. HInv => AgreeOnSession
    <2> SUFFICES ASSUME HInv, ~desync, mu = NoCaller, peerOpen
                 PROVE  sessions \ Unregistering = {sessionHandle} \ {0}
      BY DEF AgreeOnSession
    <2>1. \A t \in Callers : pc[t] # "header"
      BY ConstantsAssumption DEF HInv, Base, LockInv, Held
    <2>2. Granted = {}
      BY <2>1, NoWaiter, NoneGranted DEF HInv, InStep
    <2> QED BY <2>2 DEF HInv, InStep, Agreed
  <1> QED BY <1>1, HInvAlways, PTL

\* What can be read are answers, when the device sends no replies to SendUnitData.
OnlyOwed == "unitReply" \notin Faults => \A f \in frames : Owed(f.msg)

LEMMA OnlyOwedStep == OnlyOwed /\ [Next]_vars => OnlyOwed'
  <1> SUFFICES ASSUME OnlyOwed, [Next]_vars, "unitReply" \notin Faults
               PROVE  \A f \in frames' : Owed(f.msg)
    BY DEF OnlyOwed
  <1>1. \A f \in frames : Owed(f.msg)
    BY DEF OnlyOwed
  <1>2. ASSUME NEW t \in Callers, Call(t) \/ Lock(t) PROVE frames' = frames
    BY <1>2 DEF Call, Lock, streamVars
  <1>3. ASSUME NEW t \in Callers, Step(t) PROVE frames' = frames \/ \E n : Consume(n)
    BY <1>3 DEF Step, RegisterSession, ListIdentity, SendRRData, SendUnitData, CloseCheck, unregisterSession,
       CloseConn, ReturnEarly, WriteError, Request, ReadError, RejectHeader, AcceptHeader, ReadHeader,
       ReadHeaderShort, ReadBody, Unregistered, streamVars
  <1>4. ASSUME NEW n, Consume(n) PROVE \A f \in frames' : Owed(f.msg)
    <2>1. ASSUME NEW f \in frames' PROVE \E g \in frames : f.msg = g.msg
      BY <1>4 DEF Consume
    <2> QED BY <1>1, <2>1
  <1>5. CASE Serve \/ Refuse
    <2>1. PICK m \in {"RegisterSession", "ListIdentity", "SendRRData", "SendUnitData", "Unregister"} :
            /\ Take(m)
            /\ \/ UNCHANGED streamVars
               \/ Owed(Head(c2s)) /\ \E s, n, h : Send(Reply(Head(c2s), s, n, h))
      BY <1>5 DEF Serve, ServeRegister, ServeUnregister, ServeList, ServeRR, ServeUnit, Refuse, Take, Owed
    <2>2. CASE UNCHANGED streamVars
      BY <1>1, <2>2 DEF streamVars
    <2>3. ASSUME Owed(Head(c2s)), NEW s, NEW n, NEW h, Send(Reply(Head(c2s), s, n, h))
          PROVE  \A f \in frames' : Owed(f.msg)
      BY <1>1, <2>3 DEF Send, Reply, Owed
    <2> QED BY <2>1, <2>2, <2>3
  <1>6. CASE Drop \/ Reset
    BY <1>1, <1>6 DEF Drop, Reset, streamVars
  <1>7. CASE UNCHANGED vars
    BY <1>1, <1>7 DEF vars, streamVars
  <1> QED BY <1>1, <1>2, <1>3, <1>4, <1>5, <1>6, <1>7 DEF Next, Quiescent

\* With a device that answers no SendUnitData, and until an exchange is abandoned, each
\* exchange leaves nothing behind in either direction that the next one could mistake for
\* its own, for any number of goroutines, any reply lengths and any other faults (client.go:192-398).
THEOREM NothingLeftBehindHolds ==
  ASSUME "unitReply" \notin Faults
  PROVE  Spec => []NothingLeftBehind
  <1>1. Init => OnlyOwed
    BY DEF Init, OnlyOwed
  <1>2. HInv /\ OnlyOwed => NothingLeftBehind
    <2> SUFFICES ASSUME HInv, OnlyOwed, ~desync, mu = NoCaller
                 PROVE  unread = 0 /\ \A i \in DOMAIN c2s : ~Owed(c2s[i])
      BY DEF NothingLeftBehind
    <2>1. \A t \in Callers : pc[t] \notin {"header", "body"}
      BY ConstantsAssumption DEF HInv, Base, LockInv, Held
    <2>2. NoneOwed
      BY <2>1, NoWaiter DEF HInv, InStep
    <2>3. frames = {}
      BY <2>2 DEF NoneOwed, OnlyOwed
    <2>4. unread = 0
      <3>1. Tiled(frames, 0, unread)
        BY <2>1 DEF HInv, InStep, Tiling
      <3>2. unread \in Nat
        BY DEF HInv, Base, TypeOK
      <3> QED BY <2>3, <3>1, <3>2 DEF Tiled
    <2>5. DOMAIN c2s = 1..Len(c2s)
      BY DEF HInv, Base, TypeOK
    <2> QED BY <2>2, <2>4, <2>5 DEF NoneOwed
  <1> QED BY <1>1, <1>2, OnlyOwedStep, HInvAlways, PTL DEF Spec

-----------------------------------------------------------------------------
(* The contract                                                            *)

\* The session stays as it is while a call waits for a reply.
OneSession ==
  \A t \in Callers :
    /\ pc[t] = "header" /\ call[t].m = "RegisterSession" => sessionHandle = 0
    /\ pc[t] \in {"header", "body"} /\ call[t].m = "SendRRData" => sessionHandle # 0

\* Requests, replies and what was read of them belong to calls that were made.
Known ==
  /\ \A t \in Callers : /\ call[t].of \in 0..issued
                        /\ call[t].m \notin {"ListIdentity", "SendRRData"} => call[t].of = 0
  /\ \A f \in frames : f.msg.req \in 0..issued
  /\ \A i \in 1..Len(c2s) : c2s[i].id \in 0..issued

CInv == HInv /\ OneSession /\ Known

LEMMA OneSessionStep ==
  ASSUME Base, OneSession, [Next]_vars
  PROVE  OneSession'
  <1>1. ASSUME sessionHandle' = sessionHandle, \A s \in Callers : pc'[s] \in {"header", "body"} => pc'[s] = pc[s] /\ call'[s] = call[s]
        PROVE  OneSession'
    BY <1>1 DEF OneSession
  <1>2. ASSUME NEW t \in Callers, Call(t) \/ Lock(t) PROVE OneSession'
    <2>1. /\ sessionHandle' = sessionHandle
          /\ \A s \in Callers \ {t} : pc'[s] = pc[s] /\ call'[s] = call[s]
          /\ pc'[t] \notin {"header", "body"}
      BY <1>2 DEF Call, Lock, Base, TypeOK
    <2> QED BY <1>1, <2>1
  <1>3. ASSUME NEW t \in Callers, Step(t) PROVE OneSession'
    <2>1. /\ \A s \in Callers \ {t} : pc'[s] = pc[s] /\ call'[s] = call[s]
          /\ call'[t].m = call[t].m
          /\ pc'[t] = "header" => pc[t] = "locked"
          /\ pc'[t] = "body" => pc[t] = "header"
      BY <1>3, StepControl DEF Base, Held
    <2>2. CASE pc[t] \in Held
      <3>1. \A s \in Callers \ {t} : pc'[s] \notin Held
        BY <2>1, <2>2, Alone DEF Base
      <3>2. /\ pc'[t] = "header" /\ call'[t].m = "RegisterSession" => sessionHandle' = 0
            /\ pc'[t] \in {"header", "body"} /\ call'[t].m = "SendRRData" => sessionHandle' # 0
        <4>1. ASSUME pc'[t] = "header", call'[t].m = "RegisterSession" PROVE sessionHandle' = 0
          <5>1. pc[t] = "locked" /\ call[t].m = "RegisterSession"
            BY <2>1, <4>1
          <5>2. \A res : Return(t, res) => pc'[t] = "idle"
            BY DEF Return, Base, TypeOK
          <5> QED BY <1>3, <4>1, <5>1, <5>2 DEF Step, RegisterSession, ListIdentity, SendRRData, SendUnitData, CloseCheck,
                 unregisterSession, CloseConn, ReturnEarly, WriteError, Request, ReadError, ReadHeader
        <4>2. ASSUME pc'[t] \in {"header", "body"}, call'[t].m = "SendRRData" PROVE sessionHandle' # 0
          <5>1. pc[t] \in {"locked", "header"} /\ call[t].m = "SendRRData"
            BY <2>1, <4>2
          <5>2. \A res : Return(t, res) => pc'[t] = "idle"
            BY DEF Return, Base, TypeOK
          <5>3. pc[t] = "header" => sessionHandle # 0
            BY <5>1 DEF OneSession
          <5> QED BY <1>3, <4>2, <5>1, <5>2, <5>3 DEF Step, RegisterSession, ListIdentity, SendRRData, SendUnitData,
                 CloseCheck, unregisterSession, CloseConn, ReturnEarly, WriteError, Request, ReadError, ReadBody, ReadHeader,
                 AcceptHeader, RejectHeader
        <4> QED BY <4>1, <4>2
      <3> QED BY <3>1, <3>2 DEF OneSession, Held
    <2>3. CASE pc[t] \notin Held
      <3>1. pc'[t] \notin {"header", "body"}
        BY <2>1, <2>3 DEF Held
      <3>2. sessionHandle' = sessionHandle
        BY <1>3, <2>3 DEF Step, RegisterSession, ListIdentity, SendRRData, SendUnitData, CloseCheck,
                 unregisterSession, CloseConn, ReadError, ReadHeader, ReadBody, Held
      <3> QED BY <1>1, <2>1, <3>1, <3>2
    <2> QED BY <2>2, <2>3
  <1>4. CASE Serve \/ Refuse \/ Drop \/ Reset
    BY <1>1, <1>4 DEF Serve, ServeRegister, ServeUnregister, ServeList, ServeRR, ServeUnit, Refuse, Drop, Reset, clientVars
  <1>5. CASE UNCHANGED vars
    BY <1>1, <1>5 DEF vars, clientVars
  <1> QED BY <1>2, <1>3, <1>4, <1>5 DEF Next, Quiescent

\* Requests and replies have known numbers, whatever a step does to them.
LEMMA KnownCalls ==
  ASSUME Base, Known, NEW t \in Callers, Step(t)
  PROVE  /\ issued' = issued
         /\ \A f \in frames' : f.msg.req \in 0..issued
         /\ \A i \in 1..Len(c2s') : c2s'[i].id \in 0..issued
  <1>1. issued' = issued
    BY DEF Step, RegisterSession, ListIdentity, SendRRData, SendUnitData, CloseCheck, unregisterSession,
       CloseConn, ReturnEarly, WriteError, Request, ReadError, RejectHeader, AcceptHeader, ReadBody, Unregistered
  <1>2. \A f \in frames : f.msg.req \in 0..issued
    BY DEF Known
  <1>3. ASSUME NEW n, Consume(n) PROVE \A f \in frames' : f.msg.req \in 0..issued
    BY <1>2, <1>3 DEF Consume
  <1>4. \/ frames' = frames
        \/ \E n : Consume(n)
    BY DEF Step, RegisterSession, ListIdentity, SendRRData, SendUnitData, CloseCheck, unregisterSession,
       CloseConn, ReturnEarly, WriteError, Request, ReadError, ReadHeader, RejectHeader, AcceptHeader, ReadBody,
       Unregistered, streamVars
  <1>5. \/ c2s' = c2s
        \/ \E m, h : Put(t, m, h)
    BY DEF Step, RegisterSession, ListIdentity, SendRRData, SendUnitData, CloseCheck, unregisterSession,
       CloseConn, ReturnEarly, WriteError, Request, ReadError, ReadHeader, RejectHeader, AcceptHeader, ReadBody,
       Unregistered
  <1>6. call[t].id \in 0..issued
    <2>1. pc[t] # "idle"
      BY StepControl DEF Base, Held
    <2> QED BY <2>1 DEF Base, Ids, TypeOK
  <1>7. ASSUME NEW m, NEW h, Put(t, m, h) PROVE \A i \in 1..Len(c2s') : c2s'[i].id \in 0..issued
    <2>1. \A i \in 1..Len(c2s) : c2s[i].id \in 0..issued
      BY DEF Known
    <2>2. CASE ~peerOpen
      BY <1>7, <2>1, <2>2, PutShape
    <2>3. CASE peerOpen
      <3> DEFINE n == Len(c2s)
                 q == [m |-> m, id |-> call[t].id, handle |-> h]
      <3>1. n \in Nat /\ Len(c2s') = n + 1 /\ c2s'[n + 1] = q /\ \A i \in 1..n : c2s'[i] = c2s[i]
        BY <1>7, <2>3, PutShape
      <3>2. q.id = call[t].id
        OBVIOUS
      <3> HIDE DEF n, q
      <3>3. \A i \in 1..n : c2s[i].id \in 0..issued
        BY <2>1 DEF n
      <3> QED BY <1>6, <3>1, <3>2, <3>3
    <2> QED BY <2>2, <2>3 DEF Base, TypeOK
  <1> QED BY <1>1, <1>2, <1>3, <1>4, <1>5, <1>7 DEF Known

LEMMA KnownStep ==
  ASSUME Base, Known, [Next]_vars
  PROVE  Known'
  <1>1. /\ issued \in Nat
        /\ \A t \in Callers : /\ call[t].of \in 0..issued
                              /\ call[t].m \notin {"ListIdentity", "SendRRData"} => call[t].of = 0
        /\ \A f \in frames : f.msg.req \in 0..issued
        /\ \A i \in 1..Len(c2s) : c2s[i].id \in 0..issued
    BY DEF Known, Base, TypeOK
  <1>2. ASSUME NEW t \in Callers, Call(t) PROVE Known'
    <2>1. /\ \A s \in Callers \ {t} : call'[s] = call[s]
          /\ call'[t].of = 0 /\ issued' = issued + 1 /\ c2s' = c2s /\ frames' = frames
      BY <1>2 DEF Call, NoCall, Base, TypeOK, streamVars
    <2> QED BY <1>1, <2>1 DEF Known
  <1>3. ASSUME NEW t \in Callers, Lock(t) PROVE Known'
    BY <1>1, <1>3 DEF Lock, Known, streamVars
  <1>4. ASSUME NEW t \in Callers, Step(t) PROVE Known'
    <2>1. /\ issued' = issued
          /\ \A f \in frames' : f.msg.req \in 0..issued
          /\ \A i \in 1..Len(c2s') : c2s'[i].id \in 0..issued
      BY <1>4, KnownCalls
    <2>2. /\ \A s \in Callers \ {t} : call'[s] = call[s]
          /\ call'[t].m = call[t].m
      BY <1>4, StepControl DEF Base
    <2>3. /\ call'[t].of \in 0..issued
          /\ call[t].m \notin {"ListIdentity", "SendRRData"} => call'[t].of = 0
      <3>1. ASSUME NEW res, Return(t, res) PROVE call'[t].of = call[t].of
        BY <3>1 DEF Return, Base, TypeOK
      <3>2. ASSUME NEW h, NEW n, Request(t, h, n) PROVE call'[t].of = call[t].of
        BY <3>2 DEF Request, Base, TypeOK
      <3>3. ASSUME NEW h \in NextHeaders, NEW n, AcceptHeader(t, h, n) PROVE call'[t].of \in 0..issued
        <4>1. call'[t].of = h.req
          BY <3>3 DEF AcceptHeader, Base, TypeOK
        <4>2. h.req \in 0..issued
          <5>1. CASE \E f \in frames : f.at = 0
            BY <1>1, <5>1 DEF NextHeaders
          <5>2. CASE ~\E f \in frames : f.at = 0
            BY <1>1, <5>2 DEF NextHeaders
          <5> QED BY <5>1, <5>2
        <4> QED BY <4>1, <4>2
      <3>4. CASE RegisterSession(t)
        BY <1>1, <3>1, <3>2, <3>4 DEF RegisterSession, ReturnEarly, WriteError, ReadError, RejectHeader
      <3>5. CASE ListIdentity(t)
        BY <1>1, <3>1, <3>2, <3>3, <3>5 DEF ListIdentity, WriteError, ReadError, RejectHeader, ReadBody
      <3>6. CASE SendRRData(t)
        BY <1>1, <3>1, <3>2, <3>3, <3>6 DEF SendRRData, ReturnEarly, WriteError, ReadError, RejectHeader, ReadBody
      <3>7. CASE SendUnitData(t)
        BY <1>1, <3>1, <3>7 DEF SendUnitData, ReturnEarly, WriteError
      <3>8. CASE unregisterSession(t)
        BY <1>1, <3>1, <3>8 DEF unregisterSession, Unregistered, WriteError
      <3>9. CASE CloseCheck(t)
        BY <1>1, <3>9 DEF CloseCheck
      <3>10. CASE CloseConn(t)
        BY <1>1, <3>10 DEF CloseConn, Base, TypeOK
      <3> QED BY <1>4, <3>4, <3>5, <3>6, <3>7, <3>8, <3>9, <3>10 DEF Step
    <2> QED BY <1>1, <2>1, <2>2, <2>3 DEF Known
  <1>5. CASE Serve \/ Refuse \/ Drop \/ Reset
    <2>1. call' = call /\ issued' = issued
      BY <1>5 DEF Serve, ServeRegister, ServeUnregister, ServeList, ServeRR, ServeUnit, Refuse, Drop, Reset, clientVars
    <2>2. ASSUME NEW m, Take(m) PROVE \A i \in 1..Len(c2s') : c2s'[i].id \in 0..issued
      <3>1. \A i \in 1..Len(c2s') : i + 1 \in 1..Len(c2s) /\ c2s'[i] = c2s[i + 1]
        BY <2>2, TakeShape
      <3> QED BY <1>1, <3>1
    <2>3. ASSUME NEW m, Take(m), NEW s, NEW n, NEW k, Send(Reply(Head(c2s), s, n, k))
          PROVE  \A f \in frames' : f.msg.req \in 0..issued
      <3>1. 1 \in 1..Len(c2s) /\ Head(c2s) = c2s[1]
        BY <2>3, TakeShape
      <3>2. Head(c2s).id \in 0..issued
        BY <1>1, <3>1
      <3> QED BY <1>1, <2>3, <3>2 DEF Send, Reply
    <2>4. /\ \A i \in 1..Len(c2s') : c2s'[i].id \in 0..issued
          /\ \A f \in frames' : f.msg.req \in 0..issued
      <3>1. CASE Reset
        BY <1>1, <3>1 DEF Reset, streamVars
      <3>2. CASE Serve
        BY <1>1, <2>2, <2>3, <3>2 DEF Serve, ServeRegister, ServeUnregister, ServeList, ServeRR, ServeUnit, streamVars
      <3>3. CASE Refuse \/ Drop
        BY <1>1, <2>2, <2>3, <3>3 DEF Refuse, Drop, streamVars
      <3> QED BY <1>5, <3>1, <3>2, <3>3
    <2> QED BY <1>1, <2>1, <2>4 DEF Known
  <1>6. CASE UNCHANGED vars
    <2>1. call' = call /\ issued' = issued /\ c2s' = c2s /\ frames' = frames
      BY <1>6 DEF vars, clientVars, streamVars
    <2> QED BY <1>1, <2>1 DEF Known
  <1> QED BY <1>2, <1>3, <1>4, <1>5, <1>6 DEF Next, Quiescent

LEMMA ContractInv == (Init => CInv) /\ (CInv /\ [Next]_vars => CInv')
  <1>1. Init => CInv
    <2> SUFFICES ASSUME Init PROVE CInv
      OBVIOUS
    <2>1. HInv
      BY AgreeInit
    <2>2. OneSession /\ Known
      BY DEF Init, OneSession, Known, NoCall
    <2> QED BY <2>1, <2>2 DEF CInv
  <1>2. CInv /\ [Next]_vars => CInv'
    BY AgreeStep, OneSessionStep, KnownStep DEF CInv, HInv
  <1> QED BY <1>1, <1>2

\* The calls as their callers see them
View == [t \in Callers |-> Seen(t)]
View_t == [m : Methods \cup {"none"}, id : Nat, res : {"none", "ok", "error"}, busy : BOOLEAN, of : Nat]

LEMMA SeenFields ==
  \A t \in Callers : /\ View[t] = Seen(t) /\ Seen(t).m = call[t].m /\ Seen(t).id = call[t].id
                     /\ Seen(t).res = call[t].res /\ (Seen(t).busy <=> pc[t] # "idle")
                     /\ Seen(t).of = IF pc[t] = "idle" /\ call[t].res = "ok" THEN call[t].of ELSE 0
  BY DEF View, Seen

LEMMA ViewType == TypeOK => View \in [Callers -> View_t]
  <1> SUFFICES ASSUME TypeOK, NEW t \in Callers PROVE Seen(t) \in View_t
    BY DEF View
  <1> QED BY DEF Seen, View_t, TypeOK

LEMMA SameView ==
  ASSUME NEW q \in View_t, NEW r \in View_t, q.m = r.m, q.id = r.id, q.res = r.res, q.busy <=> r.busy, q.of = r.of
  PROVE  q = r
  BY DEF View_t

\* What no caller sees
LEMMA ViewSame ==
  ASSUME \A s \in Callers : (call'[s] = call[s] /\ pc'[s] = pc[s]) \/
           /\ pc[s] # "idle" /\ pc'[s] # "idle"
           /\ call'[s].m = call[s].m /\ call'[s].id = call[s].id /\ call'[s].res = call[s].res
  PROVE  View' = View
  <1>1. ASSUME NEW s \in Callers PROVE Seen(s)' = Seen(s)
    BY DEF Seen
  <1> QED BY <1>1 DEF View

\* What t's caller sees when its call returns
LEMMA ViewReturn ==
  ASSUME TypeOK, TypeOK', NEW t \in Callers, NEW res \in {"ok", "error"}, NEW of \in Nat,
         \A s \in Callers \ {t} : pc'[s] = pc[s] /\ call'[s] = call[s],
         pc'[t] = "idle", call'[t].m = call[t].m, call'[t].id = call[t].id, call'[t].res = res,
         res = "ok" => of = call'[t].of, res = "error" => of = 0
  PROVE  View' = [View EXCEPT ![t].res = res, ![t].of = of, ![t].busy = FALSE]
  <1> DEFINE Z == [View EXCEPT ![t].res = res, ![t].of = of, ![t].busy = FALSE]
  <1>1. View \in [Callers -> View_t] /\ View' \in [Callers -> View_t]
    <2>1. ASSUME NEW s \in Callers PROVE Seen(s)' \in View_t
      BY DEF Seen, View_t, TypeOK
    <2>2. View' \in [Callers -> View_t]
      BY <2>1 DEF View
    <2> QED BY <2>2, ViewType
  <1>2. \A s \in Callers \ {t} : View'[s] = View[s]
    BY DEF View, Seen
  <1>3. /\ View'[t].m = View[t].m /\ View'[t].id = View[t].id /\ View'[t].res = res
        /\ View'[t].of = of /\ (View'[t].busy <=> FALSE)
    <2>1. View[t].m = call[t].m /\ View[t].id = call[t].id
      BY SeenFields
    <2>2. View'[t].m = call'[t].m /\ View'[t].id = call'[t].id /\ View'[t].res = call'[t].res
      BY DEF View, Seen
    <2>3. View'[t].busy <=> pc'[t] # "idle"
      BY DEF View, Seen
    <2>4. View'[t].of = IF pc'[t] = "idle" /\ call'[t].res = "ok" THEN call'[t].of ELSE 0
      BY DEF View, Seen
    <2>5. View'[t].of = of
      BY <2>4
    <2> QED BY <2>1, <2>2, <2>3, <2>5
  <1>4. Z[t] \in View_t
    BY ZenonT(60), <1>1 DEF View_t
  <1>5. \A s \in Callers \ {t} : Z[s] = View[s]
    BY <1>1
  <1>6. /\ Z[t].m = View[t].m /\ Z[t].id = View[t].id /\ Z[t].res = res
        /\ Z[t].of = of
    BY <1>1 DEF View_t
  <1>7. Z[t].busy <=> FALSE
    BY <1>1 DEF View_t
  <1>8. Z = [s \in Callers |-> Z[s]]
    BY <1>1
  <1> HIDE DEF Z
  <1>9. Z[t] = View'[t]
    BY <1>1, <1>3, <1>4, <1>6, <1>7, SameView
  <1>10. \A s \in Callers : Z[s] = View'[s]
    BY <1>2, <1>5, <1>9
  <1>11. View' = Z
    BY <1>1, <1>8, <1>10
  <1> QED BY <1>11 DEF Z

LEMMA AsFail ==
  ASSUME NEW t \in Callers, pc[t] # "idle", call[t].m \in Methods \ {"Close"},
         call[t].m = "RegisterSession" => sessionHandle = 0,
         View' = [View EXCEPT ![t].res = "error", ![t].of = 0, ![t].busy = FALSE],
         UNCHANGED <<issued, sessionHandle, connOpen>>, desync \in BOOLEAN,
         desync' \in {desync, TRUE}, call[t].m = "SendUnitData" => desync' = desync
  PROVE  Contract!Next
  <1>1. Contract!Fail(t)
    BY SeenFields DEF Contract!Fail, Contract!Calls, Contract!Returns, View, Methods, Contract!Methods
  <1> QED BY <1>1 DEF Contract!Next

LEMMA AsNothing ==
  ASSUME View' = View, UNCHANGED <<issued, sessionHandle, connOpen, desync>>
  PROVE  UNCHANGED Contract!vars
  BY DEF Contract!vars, View

LEMMA AsRegister ==
  ASSUME NEW t \in Callers, pc[t] # "idle", call[t].m = "RegisterSession",
         View' = [View EXCEPT ![t].res = "ok", ![t].of = 0, ![t].busy = FALSE],
         UNCHANGED <<issued, connOpen, desync>>,
         \/ sessionHandle # 0 /\ UNCHANGED sessionHandle
         \/ sessionHandle = 0 /\ connOpen /\ sessionHandle' \in Nat /\ (~desync => sessionHandle' = call[t].id)
  PROVE  Contract!Next
  <1>1. Contract!RegisterSession(t)
    BY SeenFields DEF Contract!RegisterSession, Contract!Calls, Contract!Returns, View
  <1> QED BY <1>1 DEF Contract!Next

LEMMA AsAnswer ==
  ASSUME NEW t \in Callers, pc[t] # "idle", connOpen,
         call[t].m = "ListIdentity" \/ (call[t].m = "SendRRData" /\ sessionHandle # 0),
         NEW of \in 0..issued, ~desync => of = call[t].id,
         View' = [View EXCEPT ![t].res = "ok", ![t].of = of, ![t].busy = FALSE],
         UNCHANGED <<issued, connOpen, desync, sessionHandle>>
  PROVE  Contract!Next
  <1>1. Contract!Answer(t)
    BY SeenFields DEF Contract!Answer, Contract!Calls, Contract!Returns, View
  <1> QED BY <1>1 DEF Contract!Next

LEMMA AsSend ==
  ASSUME NEW t \in Callers, pc[t] # "idle", connOpen, call[t].m = "SendUnitData", sessionHandle # 0,
         View' = [View EXCEPT ![t].res = "ok", ![t].of = 0, ![t].busy = FALSE],
         UNCHANGED <<issued, connOpen, desync, sessionHandle>>
  PROVE  Contract!Next
  <1>1. Contract!SendUnitData(t)
    BY SeenFields DEF Contract!SendUnitData, Contract!Calls, Contract!Returns, View
  <1> QED BY <1>1 DEF Contract!Next

LEMMA AsUnregister ==
  ASSUME NEW t \in Callers, pc[t] # "idle", connOpen, call[t].m = "Close", sessionHandle # 0, sessionHandle' = 0,
         View' = View, UNCHANGED <<issued, connOpen, desync>>
  PROVE  Contract!Next
  <1>1. Contract!Unregister(t)
    BY SeenFields DEF Contract!Unregister, Contract!Calls, View
  <1> QED BY <1>1 DEF Contract!Next

LEMMA AsDisconnect ==
  ASSUME NEW t \in Callers, pc[t] # "idle", call[t].m = "Close", connOpen' = FALSE,
         View' = [View EXCEPT ![t].res = IF connOpen THEN "ok" ELSE "error", ![t].of = 0, ![t].busy = FALSE],
         UNCHANGED <<issued, desync, sessionHandle>>
  PROVE  Contract!Next
  <1>1. Contract!Disconnect(t)
    BY SeenFields DEF Contract!Disconnect, Contract!Calls, Contract!Returns, View
  <1> QED BY <1>1 DEF Contract!Next

LEMMA AsCloseFails ==
  ASSUME NEW t \in Callers, pc[t] # "idle", call[t].m = "Close", sessionHandle # 0,
         View' = [View EXCEPT ![t].res = "error", ![t].of = 0, ![t].busy = FALSE],
         UNCHANGED <<issued, connOpen, desync, sessionHandle>>
  PROVE  Contract!Next
  <1>1. Contract!CloseFails(t)
    BY SeenFields DEF Contract!CloseFails, Contract!Calls, Contract!Returns, View
  <1> QED BY <1>1 DEF Contract!Next

LEMMA AsBegin ==
  ASSUME TypeOK, NEW t \in Callers, Call(t)
  PROVE  Contract!Next
  <1>1. PICK m \in Methods :
           /\ call' = [call EXCEPT ![t] = [NoCall EXCEPT !.m = m, !.id = issued + 1]]
           /\ pc' = [pc EXCEPT ![t] = IF m = "Close" THEN "check" ELSE "lock"]
    BY DEF Call
  <1>2. pc[t] = "idle" /\ issued' = issued + 1 /\ UNCHANGED <<sessionHandle, connOpen, desync>>
    BY DEF Call
  <1>3. View' = [View EXCEPT ![t] = [m |-> m, id |-> issued', res |-> "none", of |-> 0, busy |-> TRUE]]
    <2>1. pc'[t] # "idle" /\ call'[t].m = m /\ call'[t].id = issued' /\ call'[t].res = "none"
      BY <1>1, <1>2 DEF NoCall, TypeOK
    <2>2. Seen(t)' = [m |-> m, id |-> issued', res |-> "none", of |-> 0, busy |-> TRUE]
      BY <2>1 DEF Seen
    <2>3. ASSUME NEW s \in Callers \ {t} PROVE Seen(s)' = Seen(s)
      BY <1>1 DEF Seen, TypeOK
    <2> QED BY <2>2, <2>3 DEF View
  <1>4. Contract!Begin(t)
    BY <1>1, <1>2, <1>3, SeenFields DEF Contract!Begin, View, Methods, Contract!Methods
  <1> QED BY <1>4 DEF Contract!Next

LEMMA Returned ==
  ASSUME TypeOK, TypeOK', NEW t \in Callers, NEW res \in {"ok", "error"}, Return(t, res), NEW of \in Nat,
         res = "ok" => of = call[t].of, res = "error" => of = 0
  PROVE  View' = [View EXCEPT ![t].res = res, ![t].of = of, ![t].busy = FALSE]
  <1>1. /\ \A s \in Callers \ {t} : pc'[s] = pc[s] /\ call'[s] = call[s]
        /\ pc'[t] = "idle" /\ call'[t].m = call[t].m /\ call'[t].id = call[t].id /\ call'[t].res = res
        /\ call'[t].of = call[t].of
    BY DEF Return, TypeOK
  <1>2. (res = "ok" => of = call'[t].of) /\ (res = "error" => of = 0)
    BY <1>1
  <1> QED BY <1>1, <1>2, ViewReturn

\* An error that a method returns is a failure of the contract's call.
LEMMA ErrorFails ==
  ASSUME CInv, TypeOK', NEW t \in Callers, pc[t] \in Held, call[t].m \in Methods \ {"Close"},
         call[t].m = "RegisterSession" => sessionHandle = 0,
         \/ WriteError(t) \/ ReturnEarly(t, "error")
         \/ call[t].m # "SendUnitData" /\ (ReadError(t) \/ \E h : RejectHeader(t, h))
  PROVE  Contract!Next
  <1>1. TypeOK /\ pc[t] # "idle" /\ desync \in BOOLEAN
    BY DEF CInv, HInv, Base, TypeOK, Held
  <1>2. Return(t, "error") /\ UNCHANGED <<issued, sessionHandle, connOpen>>
    BY DEF WriteError, ReturnEarly, ReadError, RejectHeader
  <1>3. View' = [View EXCEPT ![t].res = "error", ![t].of = 0, ![t].busy = FALSE]
    BY <1>1, <1>2, Returned
  <1>4. desync' \in {desync, TRUE} /\ (call[t].m = "SendUnitData" => desync' = desync)
    <2>1. CASE WriteError(t) \/ ReturnEarly(t, "error")
      BY <2>1 DEF WriteError, ReturnEarly
    <2>2. CASE call[t].m # "SendUnitData" /\ ReadError(t)
      BY <2>2 DEF ReadError
    <2>3. CASE call[t].m # "SendUnitData" /\ \E h : RejectHeader(t, h)
      <3>1. PICK h : RejectHeader(t, h)
        BY <2>3
      <3>2. desync' = (desync \/ h.m # call[t].m \/ call[t].need # HeaderLen + h.len)
        BY <3>1 DEF RejectHeader
      <3> QED BY <1>1, <2>3, <3>2
    <2> QED BY <2>1, <2>2, <2>3
  <1> QED BY <1>1, <1>2, <1>3, <1>4, AsFail

\* A step of a call that its caller does not see, and that leaves the session alone
LEMMA Unseen ==
  ASSUME NEW t \in Callers, pc[t] # "idle", pc'[t] # "idle",
         \A s \in Callers \ {t} : pc'[s] = pc[s] /\ call'[s] = call[s],
         call'[t].m = call[t].m, call'[t].id = call[t].id, call'[t].res = call[t].res,
         UNCHANGED <<issued, sessionHandle, connOpen, desync>>
  PROVE  UNCHANGED Contract!vars
  <1>1. View' = View
    BY ViewSame
  <1> QED BY <1>1, AsNothing

LEMMA WaitsOn ==
  ASSUME TypeOK, NEW t \in Callers, NEW h, NEW n, pc[t] # "idle", Request(t, h, n) \/ AcceptHeader(t, h, n)
  PROVE  UNCHANGED Contract!vars
  <1>1. /\ pc'[t] # "idle" /\ \A s \in Callers \ {t} : pc'[s] = pc[s] /\ call'[s] = call[s]
        /\ call'[t].m = call[t].m /\ call'[t].id = call[t].id /\ call'[t].res = call[t].res
    <2>1. CASE Request(t, h, n)
      BY <2>1 DEF Request, TypeOK
    <2>2. CASE AcceptHeader(t, h, n)
      BY <2>2 DEF AcceptHeader, TypeOK
    <2> QED BY <2>1, <2>2
  <1>2. UNCHANGED <<issued, sessionHandle, connOpen, desync>>
    BY DEF Request, AcceptHeader
  <1> QED BY <1>1, <1>2, Unseen

\* The body is read: the call is answered.
LEMMA BodyAnswers ==
  ASSUME CInv, TypeOK', NEW t \in Callers, ReadBody(t), call[t].m \in {"ListIdentity", "SendRRData"}
  PROVE  Contract!Next
  <1>1. TypeOK /\ pc[t] = "body" /\ connOpen /\ Return(t, "ok") /\ UNCHANGED <<issued, connOpen, desync, sessionHandle>>
    BY DEF ReadBody, CInv, HInv, Base
  <1>2. call[t].m = "SendRRData" => sessionHandle # 0
    BY <1>1 DEF CInv, OneSession
  <1>3. call[t].of \in 0..issued /\ call[t].of \in Nat
    BY <1>1 DEF CInv, Known, TypeOK
  <1>4. ~desync => call[t].of = call[t].id
    BY <1>1 DEF CInv, HInv, InStep, OwnBody
  <1>5. View' = [View EXCEPT ![t].res = "ok", ![t].of = call[t].of, ![t].busy = FALSE]
    BY <1>1, <1>3, Returned
  <1> QED BY <1>1, <1>2, <1>3, <1>4, <1>5, AsAnswer

LEMMA ContractRegister ==
  ASSUME CInv, TypeOK', NEW t \in Callers, RegisterSession(t)
  PROVE  Contract!Next \/ UNCHANGED Contract!vars
  <1>1. /\ TypeOK /\ call[t].m = "RegisterSession" /\ call[t].m \in Methods \ {"Close"}
        /\ call[t].of = 0 /\ sessionHandle' \in Nat
        /\ pc[t] = "header" => sessionHandle = 0
    BY DEF RegisterSession, CInv, HInv, Base, OneSession, Known, Methods, TypeOK
  <1>2. ASSUME Return(t, "ok") PROVE View' = [View EXCEPT ![t].res = "ok", ![t].of = 0, ![t].busy = FALSE]
    <2>1. call[t].of \in Nat
      BY <1>1
    <2>2. View' = [View EXCEPT ![t].res = "ok", ![t].of = call[t].of, ![t].busy = FALSE]
      BY <1>1, <1>2, <2>1, Returned
    <2> QED BY <1>1, <2>2
  <1>3. CASE pc[t] = "locked" /\ sessionHandle # 0 /\ ReturnEarly(t, "ok")
    BY <1>1, <1>2, <1>3, AsRegister DEF ReturnEarly
  <1>4. CASE pc[t] = "locked" /\ sessionHandle = 0 /\ Request(t, 0, HeaderLen + RegisterLen)
    BY <1>1, <1>4, WaitsOn
  <1>5. CASE pc[t] = "locked" /\ sessionHandle = 0 /\ WriteError(t)
    BY <1>1, <1>5, ErrorFails DEF Held
  <1>6. CASE ReadError(t)
    <2>1. pc[t] \in Held /\ sessionHandle = 0
      BY <1>1, <1>6 DEF ReadError, Held, CInv, HInv, Base, CallInv
    <2> QED BY <1>1, <1>6, <2>1, ErrorFails
  <1>7. ASSUME ReadHeader(t), NEW h \in NextHeaders, RejectHeader(t, h) PROVE Contract!Next
    <2>1. pc[t] \in Held /\ sessionHandle = 0
      BY <1>1, <1>7 DEF ReadHeader, Held
    <2> QED BY <1>1, <1>7, <2>1, ErrorFails
  <1>8. ASSUME ReadHeader(t), NEW h \in NextHeaders, ~Rejected("RegisterSession", h), h.len = RegisterLen,
               sessionHandle' = h.handle, Return(t, "ok"), UNCHANGED <<connOpen, issued, desync, serverVars, c2s>>
        PROVE  Contract!Next
    <2>1. pc[t] = "header" /\ connOpen /\ sessionHandle = 0 /\ h.m = "RegisterSession" /\ h.status = 0
      BY <1>1, <1>8 DEF ReadHeader, Rejected
    <2>2. ~desync => sessionHandle' = call[t].id
      <3>1. ~desync => h.req = call[t].id /\ h.handle = h.req
        BY <1>1, <1>8, <2>1, OwnReply DEF CInv, HInv
      <3> QED BY <1>8, <3>1
    <2> QED BY <1>1, <1>2, <1>8, <2>1, <2>2, AsRegister
  <1> QED BY <1>3, <1>4, <1>5, <1>6, <1>7, <1>8 DEF RegisterSession

LEMMA ContractList ==
  ASSUME CInv, TypeOK', NEW t \in Callers, ListIdentity(t)
  PROVE  Contract!Next \/ UNCHANGED Contract!vars
  <1>1. TypeOK /\ call[t].m = "ListIdentity" /\ call[t].m \in Methods \ {"Close"}
    BY DEF ListIdentity, CInv, HInv, Base, Methods
  <1>2. CASE pc[t] = "locked" /\ Request(t, 0, HeaderLen)
    BY <1>1, <1>2, WaitsOn
  <1>3. CASE pc[t] = "locked" /\ WriteError(t)
    BY <1>1, <1>3, ErrorFails DEF Held
  <1>4. CASE ReadError(t)
    BY <1>1, <1>4, ErrorFails DEF Held, ReadError
  <1>5. ASSUME ReadHeader(t), NEW h \in NextHeaders, RejectHeader(t, h) PROVE Contract!Next
    BY <1>1, <1>5, ErrorFails DEF Held, ReadHeader
  <1>6. ASSUME ReadHeader(t), NEW h \in NextHeaders, AcceptHeader(t, h, h.len) PROVE UNCHANGED Contract!vars
    <2>1. pc[t] # "idle"
      BY <1>6 DEF ReadHeader
    <2> QED BY <1>1, <1>6, <2>1, WaitsOn
  <1>7. CASE ReadBody(t)
    BY <1>1, <1>7, BodyAnswers
  <1> QED BY <1>2, <1>3, <1>4, <1>5, <1>6, <1>7 DEF ListIdentity

LEMMA ContractRR ==
  ASSUME CInv, TypeOK', NEW t \in Callers, SendRRData(t)
  PROVE  Contract!Next \/ UNCHANGED Contract!vars
  <1>1. TypeOK /\ call[t].m = "SendRRData" /\ call[t].m \in Methods \ {"Close"}
    BY DEF SendRRData, CInv, HInv, Base, Methods
  <1>2. CASE pc[t] = "locked" /\ Request(t, sessionHandle, HeaderLen)
    BY <1>1, <1>2, WaitsOn
  <1>3. CASE pc[t] = "locked" /\ (WriteError(t) \/ ReturnEarly(t, "error"))
    BY <1>1, <1>3, ErrorFails DEF Held
  <1>4. CASE ReadError(t)
    BY <1>1, <1>4, ErrorFails DEF Held, ReadError
  <1>5. ASSUME ReadHeader(t), NEW h \in NextHeaders, RejectHeader(t, h) PROVE Contract!Next
    BY <1>1, <1>5, ErrorFails DEF Held, ReadHeader
  <1>6. ASSUME ReadHeader(t), NEW h \in NextHeaders, AcceptHeader(t, h, RRBodyLen(h.len)) PROVE UNCHANGED Contract!vars
    <2>1. pc[t] # "idle"
      BY <1>6 DEF ReadHeader
    <2> QED BY <1>1, <1>6, <2>1, WaitsOn
  <1>7. CASE ReadBody(t)
    BY <1>1, <1>7, BodyAnswers
  <1> QED BY <1>2, <1>3, <1>4, <1>5, <1>6, <1>7 DEF SendRRData

LEMMA ContractUnit ==
  ASSUME CInv, TypeOK', NEW t \in Callers, SendUnitData(t)
  PROVE  Contract!Next
  <1>1. /\ TypeOK /\ call[t].m = "SendUnitData" /\ call[t].m \in Methods \ {"Close"} /\ pc[t] = "locked"
        /\ call[t].of = 0
    BY DEF SendUnitData, CInv, HInv, Base, Known, Methods
  <1>2. CASE WriteError(t) \/ ReturnEarly(t, "error")
    BY <1>1, <1>2, ErrorFails DEF Held
  <1>3. CASE /\ sessionHandle # 0 /\ Put(t, "SendUnitData", sessionHandle) /\ Return(t, "ok")
             /\ UNCHANGED <<sessionHandle, connOpen, issued, desync, serverVars, streamVars>>
    <2>1. View' = [View EXCEPT ![t].res = "ok", ![t].of = 0, ![t].busy = FALSE]
      <3>1. call[t].of \in Nat
        BY <1>1
      <3>2. View' = [View EXCEPT ![t].res = "ok", ![t].of = call[t].of, ![t].busy = FALSE]
        BY <1>1, <1>3, <3>1, Returned
      <3> QED BY <1>1, <3>2
    <2> QED BY <1>1, <1>3, <2>1, AsSend DEF Put
  <1> QED BY <1>2, <1>3 DEF SendUnitData

LEMMA ContractClose ==
  ASSUME CInv, TypeOK', NEW t \in Callers, CloseCheck(t) \/ unregisterSession(t) \/ CloseConn(t)
  PROVE  Contract!Next \/ UNCHANGED Contract!vars
  <1>1. TypeOK /\ (pc[t] = "close" => call[t].m = "Close" /\ call[t].of = 0)
        /\ (call[t].m = "Close" => call[t].of = 0)
    BY DEF CInv, HInv, Base, CallInv, Known
  <1>2. CASE CloseCheck(t)
    <2>1. pc[t] # "idle" /\ pc'[t] # "idle" /\ (\A s \in Callers \ {t} : pc'[s] = pc[s]) /\ call' = call
          /\ UNCHANGED <<issued, sessionHandle, connOpen, desync>>
      BY <1>1, <1>2 DEF CloseCheck, TypeOK
    <2> QED BY <2>1, Unseen
  <1>3. CASE unregisterSession(t)
    <2>1. call[t].m = "Close" /\ pc[t] = "locked"
      BY <1>3 DEF unregisterSession
    <2>2. ASSUME Unregistered(t)
          PROVE  /\ pc'[t] # "idle" /\ (\A s \in Callers \ {t} : pc'[s] = pc[s]) /\ call' = call
                 /\ UNCHANGED <<issued, connOpen, desync>>
      BY <1>1, <2>2 DEF Unregistered, TypeOK
    <2>3. CASE sessionHandle = 0 /\ Unregistered(t) /\ UNCHANGED <<sessionHandle, c2s>>
      BY <2>1, <2>2, <2>3, Unseen
    <2>4. CASE sessionHandle # 0 /\ Put(t, "Unregister", sessionHandle) /\ sessionHandle' = 0 /\ Unregistered(t)
      <3>1. View' = View
        BY <2>1, <2>2, <2>4, ViewSame
      <3> QED BY <2>1, <2>2, <2>4, <3>1, AsUnregister DEF Put
    <2>5. CASE sessionHandle # 0 /\ WriteError(t)
      <3>1. Return(t, "error") /\ UNCHANGED <<issued, connOpen, desync, sessionHandle>>
        BY <2>5 DEF WriteError
      <3>2. View' = [View EXCEPT ![t].res = "error", ![t].of = 0, ![t].busy = FALSE]
        BY <1>1, <3>1, Returned
      <3> QED BY <2>1, <2>5, <3>1, <3>2, AsCloseFails
    <2> QED BY <1>3, <2>3, <2>4, <2>5 DEF unregisterSession
  <1>4. CASE CloseConn(t)
    <2> DEFINE res == IF connOpen THEN "ok" ELSE "error"
    <2>1. /\ pc[t] = "close" /\ connOpen' = FALSE /\ UNCHANGED <<issued, desync, sessionHandle>>
          /\ pc'[t] = "idle" /\ call'[t].m = call[t].m /\ call'[t].id = call[t].id /\ call'[t].res = res
          /\ call'[t].of = call[t].of
          /\ \A s \in Callers \ {t} : pc'[s] = pc[s] /\ call'[s] = call[s]
      BY <1>1, <1>4 DEF CloseConn, TypeOK
    <2>2. res \in {"ok", "error"}
      OBVIOUS
    <2>3. View' = [View EXCEPT ![t].res = res, ![t].of = 0, ![t].busy = FALSE]
      <3> HIDE DEF res
      <3>1. call[t].of \in Nat /\ call[t].of = 0 /\ call'[t].of = call[t].of
        BY <1>1, <2>1
      <3>2. View' = [View EXCEPT ![t].res = res, ![t].of = call[t].of, ![t].busy = FALSE]
        BY <1>1, <2>1, <2>2, <3>1, ViewReturn
      <3> QED BY <3>1, <3>2
    <2> QED BY <1>1, <2>1, <2>3, AsDisconnect
  <1> QED BY <1>2, <1>3, <1>4

LEMMA ContractStep == CInv /\ TypeOK' /\ [Next]_vars => [Contract!Next]_(Contract!vars)
  <1> SUFFICES ASSUME CInv, TypeOK', [Next]_vars PROVE Contract!Next \/ UNCHANGED Contract!vars
    OBVIOUS
  <1>1. TypeOK
    BY DEF CInv, HInv, Base
  <1>2. ASSUME NEW t \in Callers, Lock(t) PROVE UNCHANGED Contract!vars
    <2>1. pc[t] # "idle" /\ pc'[t] # "idle" /\ (\A s \in Callers \ {t} : pc'[s] = pc[s]) /\ call' = call
          /\ UNCHANGED <<issued, sessionHandle, connOpen, desync>>
      BY <1>1, <1>2 DEF Lock, TypeOK
    <2> QED BY <2>1, Unseen
  <1>3. ASSUME UNCHANGED clientVars PROVE UNCHANGED Contract!vars
    <2>1. View' = View
      BY <1>3, ViewSame DEF clientVars
    <2> QED BY <1>3, <2>1, AsNothing DEF clientVars
  <1>4. CASE Serve \/ Refuse \/ Drop \/ Reset \/ UNCHANGED vars
    <2>1. UNCHANGED clientVars
      BY <1>4 DEF Serve, ServeRegister, ServeUnregister, ServeList, ServeRR, ServeUnit, Refuse, Drop, Reset, vars
    <2> QED BY <1>3, <2>1
  <1>5. ASSUME NEW t \in Callers, Step(t) PROVE Contract!Next \/ UNCHANGED Contract!vars
    BY <1>5, ContractRegister, ContractList, ContractRR, ContractUnit, ContractClose DEF Step
  <1>6. ASSUME NEW t \in Callers, Call(t) PROVE Contract!Next
    BY <1>1, <1>6, AsBegin
  <1> QED BY <1>2, <1>4, <1>5, <1>6 DEF Next, Quiescent

LEMMA ContractInit == Init => Contract!Init
  <1> SUFFICES ASSUME Init PROVE Contract!Init
    OBVIOUS
  <1>1. \A t \in Callers : Seen(t) = [m |-> "none", id |-> 0, res |-> "none", of |-> 0, busy |-> FALSE]
    BY DEF Init, Seen, NoCall
  <1> QED BY <1>1 DEF Init, Contract!Init

\* The client keeps its contract with every device, for any number of goroutines and calls: each call
\* takes effect at one instant, a closed client answers nothing, a session is begun once, a Close that
\* leaves the connection open has failed, and until a call gives up on its reply each answer is that
\* of its own request (client.go:68-398).
THEOREM ContractKept == Spec => KeepsContract
  <1>1. CInv => TypeOK
    BY DEF CInv, HInv, Base
  <1>2. CInv' => TypeOK'
    BY DEF CInv, HInv, Base
  <1>3. CInv /\ [Next]_vars => CInv' /\ [Contract!Next]_(Contract!vars)
    BY <1>2, ContractInv, ContractStep
  <1> QED BY <1>3, ContractInv, ContractInit, PTL DEF Spec, KeepsContract, Contract!Spec
=============================================================================
