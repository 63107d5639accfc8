----------------------------- MODULE EIPSession -----------------------------
(***************************************************************************)
(* One cpppo.Client shared by several goroutines (pkg/cpppo/client.go).    *)
(*                                                                         *)
(* Every exported method takes the mutex c.mu, writes one encapsulation    *)
(* request and, except for SendUnitData and the Unregister request of      *)
(* Close, reads one reply off the same TCP stream.  Close inspects         *)
(* c.sessionHandle and closes c.conn without the mutex.                    *)
(*                                                                         *)
(* TCP is a queue of requests towards the device (c2s) and, in the other   *)
(* direction, a count of unread bytes with the places where replies start  *)
(* (frames).  Lengths are kept, contents are not: a header read at a place *)
(* where no reply starts yields an arbitrary header.                       *)
(***************************************************************************)
EXTENDS Integers, Sequences, FiniteSets

CONSTANTS
  Callers,      \* goroutines that share the client
  NoCaller,     \* the mutex is free
  MaxCalls,     \* bound on the calls issued over a behaviour
  Faults,       \* what the network and the device may do, a subset of AllFaults
  HeaderLen,    \* 24 in the code: the encapsulation header
  RegisterLen,  \* 4: protocol version and options flags
  PrefixLen,    \* 6: interface handle and timeout before a SendRRData payload
  BodyLens,     \* body lengths of ListIdentity and SendRRData replies
  JunkHandles   \* session handles a misread header may show

\* late: a deadline may pass before the bytes arrive;  drop: a request is not
\* answered;  refuse: a reply carries an error status;  reset: the device ends
\* the connection;  unitReply: the device answers SendUnitData.
AllFaults == {"late", "drop", "refuse", "reset", "unitReply"}

ASSUME ConstantsAssumption ==
  /\ NoCaller \notin Callers
  /\ MaxCalls \in Nat
  /\ Faults \subseteq AllFaults
  /\ HeaderLen \in Nat \ {0} /\ RegisterLen \in Nat \ {0} /\ PrefixLen \in Nat \ {0}
  /\ BodyLens \subseteq Nat
  /\ JunkHandles \subseteq Nat

Methods == {"RegisterSession", "ListIdentity", "SendRRData", "SendUnitData", "Close"}

VARIABLES
  mu,            \* holder of c.mu
  sessionHandle, \* c.sessionHandle
  connOpen,      \* c.conn has not been closed by the client
  pc,            \* where each goroutine is in its call
  call,          \* its call: method, id, bytes awaited, whose reply it parsed, outcome
  issued,        \* calls issued so far: the id of the latest
  peerOpen,      \* the device still serves the connection
  c2s,           \* requests written and not yet served
  frames,        \* replies in the unread stream and the offset each starts at
  unread,        \* bytes of the reply stream that no read has consumed
  sessions,      \* handles registered at the device
  desync         \* history: some exchange ended with its reply not fully consumed

clientVars == <<mu, sessionHandle, connOpen, pc, call, issued, desync>>
serverVars == <<peerOpen, sessions>>
streamVars == <<frames, unread>>
vars == <<clientVars, serverVars, streamVars, c2s>>

NoCall == [m |-> "none", id |-> 0, need |-> 0, of |-> 0, res |-> "none"]

\* NewClient returned: the connection is dialled and no session is registered.
Init ==
  /\ mu = NoCaller /\ sessionHandle = 0 /\ connOpen = TRUE
  /\ pc = [t \in Callers |-> "idle"]
  /\ call = [t \in Callers |-> NoCall]
  /\ issued = 0 /\ desync = FALSE
  /\ peerOpen = TRUE /\ c2s = <<>> /\ sessions = {}
  /\ frames = {} /\ unread = 0

-----------------------------------------------------------------------------
(* The reply stream                                                        *)

Send(msg) ==
  /\ frames' = frames \cup {[at |-> unread, msg |-> msg]}
  /\ unread' = unread + HeaderLen + msg.len

\* io.ReadFull takes the first n unread bytes.
Consume(n) ==
  /\ unread' = unread - n
  /\ frames' = {[at |-> f.at - n, msg |-> f.msg] : f \in {g \in frames : g.at >= n}}

\* The fields of the header the next read finds.  Between reply boundaries the
\* bytes are those of another field or of a payload, so any value may show.
NextHeaders ==
  IF \E f \in frames : f.at = 0
  THEN {f.msg : f \in {g \in frames : g.at = 0}}
  ELSE [m : Methods, status : {0, 1}, len : BodyLens \cup {RegisterLen},
        handle : JunkHandles, req : {0}]

-----------------------------------------------------------------------------
(* Steps the methods share                                                 *)

\* return with the deferred Unlock
Return(t, res) ==
  /\ pc' = [pc EXCEPT ![t] = "idle"]
  /\ call' = [call EXCEPT ![t].res = res, ![t].need = 0]
  /\ mu' = NoCaller

Call(t) ==
  /\ pc[t] = "idle" /\ issued < MaxCalls
  /\ issued' = issued + 1
  /\ \E m \in Methods :
       /\ call' = [call EXCEPT ![t] = [NoCall EXCEPT !.m = m, !.id = issued + 1]]
       /\ pc' = [pc EXCEPT ![t] = IF m = "Close" THEN "check" ELSE "lock"]
  /\ UNCHANGED <<mu, sessionHandle, connOpen, desync, serverVars, streamVars, c2s>>

\* Mutant of Lock: two exchanges share the connection.
LockIgnored(t) ==
  /\ pc[t] = "lock"
  /\ mu' = t
  /\ pc' = [pc EXCEPT ![t] = "locked"]
  /\ UNCHANGED <<sessionHandle, connOpen, call, issued, desync, serverVars, streamVars, c2s>>

Lock(t) ==
  /\ pc[t] = "lock" /\ mu = NoCaller
  /\ mu' = t
  /\ pc' = [pc EXCEPT ![t] = "locked"]
  /\ UNCHANGED <<sessionHandle, connOpen, call, issued, desync, serverVars, streamVars, c2s>>

\* conn.Write of a whole request; a device that is gone swallows it.
Put(t, m, handle) ==
  /\ connOpen
  /\ c2s' = IF peerOpen
            THEN Append(c2s, [m |-> m, id |-> call[t].id, handle |-> handle])
            ELSE c2s

\* conn.Write reports an error: closed, reset, or past the write deadline.
WriteFails == ~connOpen \/ ~peerOpen \/ "late" \in Faults

WriteError(t) ==
  /\ WriteFails
  /\ Return(t, "error")
  /\ UNCHANGED <<sessionHandle, connOpen, issued, desync, serverVars, streamVars, c2s>>

\* Mutant of Request: c.mu is released between the write and the read.
RequestUnlocked(t, handle, n) ==
  /\ Put(t, call[t].m, handle)
  /\ mu' = NoCaller
  /\ pc' = [pc EXCEPT ![t] = "header"]
  /\ call' = [call EXCEPT ![t].need = n]
  /\ UNCHANGED <<sessionHandle, connOpen, issued, desync, serverVars, streamVars>>

\* The request is written; n bytes of reply are awaited.
Request(t, handle, n) ==
  /\ Put(t, call[t].m, handle)
  /\ pc' = [pc EXCEPT ![t] = "header"]
  /\ call' = [call EXCEPT ![t].need = n]
  /\ UNCHANGED <<mu, sessionHandle, connOpen, issued, desync, serverVars, streamVars>>

\* Mutant of ReadFails: no read deadline is set.
ReadFailsNoDeadline(t) ==
  \/ ~connOpen
  \/ unread < call[t].need /\ ~peerOpen

\* io.ReadFull fails: the connection ended, or the read deadline passed.  With
\* timely delivery the deadline passes only when nothing more is to come.
ReadFails(t) ==
  \/ ~connOpen
  \/ "late" \in Faults
  \/ unread < call[t].need /\ (~peerOpen \/ c2s = <<>>)

\* What a failed ReadFull has consumed is lost.
LostBytes(t) ==
  LET most == IF unread < call[t].need THEN unread ELSE call[t].need - 1
  IN  IF call[t].need = 0 THEN {0} ELSE IF "late" \in Faults THEN 0..most ELSE {most}

ReadError(t) ==
  /\ pc[t] \in {"header", "body"}
  /\ ReadFails(t)
  /\ \E n \in LostBytes(t) : Consume(n)
  /\ desync' = TRUE
  /\ Return(t, "error")
  /\ UNCHANGED <<sessionHandle, connOpen, issued, serverVars, c2s>>

\* The header is not an acceptable answer to m: wrong command or error status.
Rejected(m, h) == h.m # m \/ h.status # 0

\* Return an error after the header; whatever else belongs to the reply stays.
RejectHeader(t, h) ==
  /\ desync' = (desync \/ h.m # call[t].m \/ call[t].need # HeaderLen + h.len)
  /\ Return(t, "error")
  /\ UNCHANGED <<sessionHandle, connOpen, issued, serverVars, c2s>>

\* Mutant of ReadHeader: conn.Read, whose count is not looked at, for io.ReadFull.
ReadHeaderShort(t) == pc[t] = "header" /\ connOpen /\ unread > 0 /\ Consume(call[t].need)

ReadHeader(t) == pc[t] = "header" /\ connOpen /\ unread >= call[t].need /\ Consume(call[t].need)

\* Accept the header and wait for the body.
AcceptHeader(t, h, n) ==
  /\ pc' = [pc EXCEPT ![t] = "body"]
  /\ call' = [call EXCEPT ![t].need = n, ![t].of = h.req]
  /\ UNCHANGED <<mu, sessionHandle, connOpen, issued, desync, serverVars, c2s>>

ReadBody(t) ==
  /\ pc[t] = "body" /\ connOpen /\ unread >= call[t].need
  /\ Consume(call[t].need)
  /\ Return(t, "ok")
  /\ UNCHANGED <<sessionHandle, connOpen, issued, desync, serverVars, c2s>>

\* An early return under the lock, before anything is written.
ReturnEarly(t, res) ==
  /\ Return(t, res)
  /\ UNCHANGED <<sessionHandle, connOpen, issued, desync, serverVars, streamVars, c2s>>

-----------------------------------------------------------------------------
(* The methods                                                             *)

\* Header and body are read in one ReadFull, before the status is looked at.
RegisterSession(t) ==
  /\ call[t].m = "RegisterSession"
  /\ \/ pc[t] = "locked" /\ sessionHandle # 0 /\ ReturnEarly(t, "ok")
     \/ pc[t] = "locked" /\ sessionHandle = 0 /\ Request(t, 0, HeaderLen + RegisterLen)
     \/ pc[t] = "locked" /\ sessionHandle = 0 /\ WriteError(t)
     \/ ReadError(t)
     \/ /\ ReadHeader(t)
        /\ \E h \in NextHeaders :
             \/ /\ Rejected("RegisterSession", h) \/ h.len # RegisterLen
                /\ RejectHeader(t, h)
             \/ /\ ~Rejected("RegisterSession", h) /\ h.len = RegisterLen
                /\ sessionHandle' = h.handle
                /\ Return(t, "ok")
                /\ UNCHANGED <<connOpen, issued, desync, serverVars, c2s>>

ListIdentity(t) ==
  /\ call[t].m = "ListIdentity"
  /\ \/ pc[t] = "locked" /\ Request(t, 0, HeaderLen)
     \/ pc[t] = "locked" /\ WriteError(t)
     \/ ReadError(t)
     \/ /\ ReadHeader(t)
        /\ \E h \in NextHeaders :
             \/ Rejected("ListIdentity", h) /\ RejectHeader(t, h)
             \/ ~Rejected("ListIdentity", h) /\ AcceptHeader(t, h, h.len)
     \/ ReadBody(t)

\* Mutant of RRBodyLen: the payload after the prefix is not read.
RRPrefixOnly(len) == PrefixLen

\* The prefix is read whatever the length field says, then the rest of the
\* payload; both reads run under one deadline.
RRBodyLen(len) == IF len <= PrefixLen THEN PrefixLen ELSE len

SendRRData(t) ==
  /\ call[t].m = "SendRRData"
  /\ \/ pc[t] = "locked" /\ sessionHandle = 0 /\ ReturnEarly(t, "error")
     \/ pc[t] = "locked" /\ sessionHandle # 0 /\ Request(t, sessionHandle, HeaderLen)
     \/ pc[t] = "locked" /\ sessionHandle # 0 /\ WriteError(t)
     \/ ReadError(t)
     \/ /\ ReadHeader(t)
        /\ \E h \in NextHeaders :
             \/ Rejected("SendRRData", h) /\ RejectHeader(t, h)
             \/ ~Rejected("SendRRData", h) /\ AcceptHeader(t, h, RRBodyLen(h.len))
     \/ ReadBody(t)

SendUnitData(t) ==
  /\ call[t].m = "SendUnitData" /\ pc[t] = "locked"
  /\ \/ sessionHandle = 0 /\ ReturnEarly(t, "error")
     \/ /\ sessionHandle # 0
        /\ Put(t, "SendUnitData", sessionHandle)
        /\ Return(t, "ok")
        /\ UNCHANGED <<sessionHandle, connOpen, issued, desync, serverVars, streamVars>>
     \/ sessionHandle # 0 /\ WriteError(t)

\* Unlock and go on in Close, to conn.Close.
Unregistered(t) ==
  /\ mu' = NoCaller
  /\ pc' = [pc EXCEPT ![t] = "close"]
  /\ UNCHANGED <<connOpen, call, issued, desync, serverVars, streamVars>>

\* Mutant of unregisterSession: the handle is not checked again under the mutex.
UnregisterUnchecked(t) ==
  /\ call[t].m = "Close" /\ pc[t] = "locked"
  /\ \/ /\ Put(t, "Unregister", sessionHandle)
        /\ sessionHandle' = 0
        /\ Unregistered(t)
     \/ WriteError(t)

unregisterSession(t) ==
  /\ call[t].m = "Close" /\ pc[t] = "locked"
  /\ \/ sessionHandle = 0 /\ Unregistered(t) /\ UNCHANGED <<sessionHandle, c2s>>
     \/ /\ sessionHandle # 0
        /\ Put(t, "Unregister", sessionHandle)
        /\ sessionHandle' = 0
        /\ Unregistered(t)
     \/ sessionHandle # 0 /\ WriteError(t)

\* c.sessionHandle is read, and the connection closed, without the mutex.
CloseCheck(t) ==
  /\ pc[t] = "check"
  /\ pc' = [pc EXCEPT ![t] = IF sessionHandle # 0 THEN "lock" ELSE "close"]
  /\ UNCHANGED <<mu, sessionHandle, connOpen, call, issued, desync, serverVars, streamVars, c2s>>

CloseConn(t) ==
  /\ pc[t] = "close"
  /\ connOpen' = FALSE
  /\ pc' = [pc EXCEPT ![t] = "idle"]
  /\ call' = [call EXCEPT ![t].res = IF connOpen THEN "ok" ELSE "error"]
  /\ UNCHANGED <<mu, sessionHandle, issued, desync, serverVars, streamVars, c2s>>

-----------------------------------------------------------------------------
(* The device, as far as the client's code presumes it                     *)

Reply(req, status, len, handle) ==
  [m |-> req.m, status |-> status, len |-> len, handle |-> handle, req |-> req.id]

Take(m) == peerOpen /\ c2s # <<>> /\ Head(c2s).m = m /\ c2s' = Tail(c2s)

\* A new session; the id of the request serves as a fresh handle.
ServeRegister ==
  /\ Take("RegisterSession")
  /\ sessions' = sessions \cup {Head(c2s).id}
  /\ Send(Reply(Head(c2s), 0, RegisterLen, Head(c2s).id))
  /\ UNCHANGED <<clientVars, peerOpen>>

ServeUnregister ==
  /\ Take("Unregister")
  /\ sessions' = sessions \ {Head(c2s).handle}
  /\ UNCHANGED <<clientVars, streamVars, peerOpen>>

ServeList ==
  /\ Take("ListIdentity")
  /\ \E n \in BodyLens : Send(Reply(Head(c2s), 0, n, 0))
  /\ UNCHANGED <<clientVars, serverVars>>

ServeRR ==
  /\ Take("SendRRData")
  /\ IF Head(c2s).handle \in sessions
     THEN \E n \in BodyLens : n >= PrefixLen /\ Send(Reply(Head(c2s), 0, n, Head(c2s).handle))
     ELSE Send(Reply(Head(c2s), 1, 0, Head(c2s).handle))
  /\ UNCHANGED <<clientVars, serverVars>>

ServeUnit ==
  /\ Take("SendUnitData")
  /\ IF "unitReply" \in Faults
     THEN Send(Reply(Head(c2s), 0, PrefixLen, Head(c2s).handle))
     ELSE UNCHANGED streamVars
  /\ UNCHANGED <<clientVars, serverVars>>

\* An error reply, with or without a body.
Refuse ==
  /\ "refuse" \in Faults
  /\ \E m \in {"RegisterSession", "ListIdentity", "SendRRData"} : Take(m)
  /\ \E n \in BodyLens \cup {0} : Send(Reply(Head(c2s), 1, n, 0))
  /\ UNCHANGED <<clientVars, serverVars>>

Drop ==
  /\ "drop" \in Faults
  /\ \E m \in {"RegisterSession", "ListIdentity", "SendRRData", "SendUnitData"} : Take(m)
  /\ UNCHANGED <<clientVars, serverVars, streamVars>>

\* FIN leaves what was sent readable, RST discards it.
Reset ==
  /\ "reset" \in Faults /\ peerOpen
  /\ peerOpen' = FALSE /\ c2s' = <<>>
  /\ \/ UNCHANGED streamVars
     \/ frames' = {} /\ unread' = 0
  /\ UNCHANGED <<clientVars, sessions>>

-----------------------------------------------------------------------------

Step(t) ==
  \/ RegisterSession(t) \/ ListIdentity(t) \/ SendRRData(t) \/ SendUnitData(t)
  \/ CloseCheck(t) \/ unregisterSession(t) \/ CloseConn(t)

Serve == ServeRegister \/ ServeUnregister \/ ServeList \/ ServeRR \/ ServeUnit

\* Every call has returned and the bound is spent.
Quiescent ==
  /\ issued = MaxCalls /\ \A t \in Callers : pc[t] = "idle"
  /\ c2s = <<>>
  /\ UNCHANGED vars

Next ==
  \/ \E t \in Callers : Call(t) \/ Lock(t) \/ Step(t)
  \/ Serve \/ Refuse \/ Drop \/ Reset
  \/ Quiescent

\* Goroutines are scheduled, sync.Mutex does not starve a waiter, and a device
\* that is up serves what it received.
Fairness ==
  /\ \A t \in Callers : WF_vars(Step(t)) /\ SF_vars(Lock(t))
  /\ WF_vars(Serve)

Spec == Init /\ [][Next]_vars
FairSpec == Spec /\ Fairness

-----------------------------------------------------------------------------
(* Properties                                                              *)

Request_t == [m : Methods \cup {"Unregister"}, id : Nat, handle : Nat]
Reply_t == [m : Methods, status : {0, 1}, len : Nat, handle : Nat, req : Nat]

\* The variables stay in their types; in particular a read never takes more
\* bytes than the stream holds (io.ReadFull, client.go:125, 229, 311).
TypeOK ==
  /\ mu \in Callers \cup {NoCaller}
  /\ sessionHandle \in Nat /\ connOpen \in BOOLEAN
  /\ pc \in [Callers -> {"idle", "lock", "locked", "header", "body", "check", "close"}]
  /\ call \in [Callers -> [m : Methods \cup {"none"}, id : Nat, need : Nat, of : Nat,
                           res : {"none", "ok", "error"}]]
  /\ issued \in Nat /\ desync \in BOOLEAN /\ peerOpen \in BOOLEAN
  /\ c2s \in Seq(Request_t)
  /\ frames \subseteq [at : Nat, msg : Reply_t] /\ unread \in Nat
  /\ sessions \subseteq Nat

\* A call that returns data returns the reply to its own request.  The client
\* never checks SenderContext, so this rests on the position in the stream.
AnswersOwnRequest ==
  \A t \in Callers :
    call[t].m \in {"ListIdentity", "SendRRData"} /\ call[t].res = "ok" => call[t].of = call[t].id

\* Until an exchange is abandoned with its reply not fully read, every call that
\* returns data returns the reply to its own request, whatever the callers interleave.
CleanAnswers == ~desync => AnswersOwnRequest

Owed(req) == req.m \in {"RegisterSession", "ListIdentity", "SendRRData"}

\* Between exchanges nothing of an earlier reply is left to be read, nor still to
\* come: each exchange consumes its reply to the last byte (client.go:190-346).
NothingLeftBehind ==
  ~desync /\ mu = NoCaller => unread = 0 /\ \A i \in DOMAIN c2s : ~Owed(c2s[i])

\* A request that names a session reaches the device while that session is live:
\* its handle is registered and no earlier request in the pipe unregisters it.
LiveHandle ==
  ~desync =>
    \A i \in DOMAIN c2s : c2s[i].m \in {"SendRRData", "SendUnitData", "Unregister"} =>
      /\ c2s[i].handle \in sessions
      /\ \A j \in 1..(i - 1) : c2s[j].m = "Unregister" => c2s[j].handle # c2s[i].handle

Unregistering == {c2s[i].handle : i \in {j \in DOMAIN c2s : c2s[j].m = "Unregister"}}

\* Between exchanges client and device agree on the session: the device holds no
\* handle the client has forgotten, the client none the device has dropped.
AgreeOnSession ==
  ~desync /\ mu = NoCaller /\ peerOpen =>
    sessions \ Unregistering = {sessionHandle} \ {0}

\* Every call returns: the deadlines of client.go:109-118 and their like bound each
\* read and write, and the mutex is released on every path.
EveryCallReturns == \A t \in Callers : pc[t] # "idle" ~> pc[t] = "idle"

\* The calls as their callers see them: the answer is there when the call has returned.
Seen(t) ==
  LET c == call[t]  busy == pc[t] # "idle"
  IN  [m |-> c.m, id |-> c.id, res |-> c.res, busy |-> busy,
       of |-> IF ~busy /\ c.res = "ok" THEN c.of ELSE 0]

Contract == INSTANCE ClientContract WITH
  session <- sessionHandle, open <- connOpen, trust <- ~desync,
  call <- [t \in Callers |-> Seen(t)]

\* The client keeps the contract: whatever its goroutines interleave, and although Close looks
\* at the session and closes the connection without the mutex, each call takes effect at one
\* instant, a closed client answers nothing, a session is begun once, and a Close that leaves
\* the connection open has failed for the session it could not end (client.go:68-398).
KeepsContract == Contract!Spec
=============================================================================
