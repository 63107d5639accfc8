--------------------------- MODULE ClientContract ---------------------------
(***************************************************************************)
(* What a cpppo.Client promises to the goroutines that share it            *)
(* (pkg/cpppo/client.go): each call takes effect at one instant between    *)
(* its beginning and its return, a Close at two.  EIPSession implements    *)
(* this with a mutex, a stream of bytes and deadlines.                     *)
(*                                                                         *)
(* The promise that data is the answer to one's own request is kept as     *)
(* long as the client is trusted, which ends for good with a call that     *)
(* fails and gives up on its reply.                                        *)
(***************************************************************************)
EXTENDS Integers

CONSTANT Callers

VARIABLES
  session,  \* the session, 0 for none
  open,     \* the connection is open
  trust,    \* no call has given up on a reply
  issued,   \* calls begun so far: the id of the latest
  call      \* each goroutine's call: method, id, result, and the call its data answers

vars == <<session, open, trust, issued, call>>

Methods == {"RegisterSession", "ListIdentity", "SendRRData", "SendUnitData", "Close"}

Init ==
  /\ session = 0 /\ open = TRUE /\ trust = TRUE /\ issued = 0
  /\ call = [t \in Callers |-> [m |-> "none", id |-> 0, res |-> "none", of |-> 0, busy |-> FALSE]]

Begin(t) ==
  /\ ~call[t].busy
  /\ issued' = issued + 1
  /\ \E m \in Methods :
       call' = [call EXCEPT ![t] = [m |-> m, id |-> issued', res |-> "none", of |-> 0, busy |-> TRUE]]
  /\ UNCHANGED <<session, open, trust>>

Calls(t, m) == call[t].busy /\ call[t].m = m

Returns(t, res, of) ==
  /\ call' = [call EXCEPT ![t].res = res, ![t].of = of, ![t].busy = FALSE]
  /\ UNCHANGED issued

\* A new session is the device's answer to this call; a session there is already is kept.
RegisterSession(t) ==
  /\ Calls(t, "RegisterSession") /\ Returns(t, "ok", 0)
  /\ \/ session # 0 /\ UNCHANGED session
     \/ session = 0 /\ open /\ session' \in Nat /\ (trust => session' = call[t].id)
  /\ UNCHANGED <<open, trust>>

\* ListIdentity and SendRRData, which wants a session
Answer(t) ==
  /\ Calls(t, "ListIdentity") \/ (Calls(t, "SendRRData") /\ session # 0)
  /\ open
  /\ \E of \in 0..issued : (trust => of = call[t].id) /\ Returns(t, "ok", of)
  /\ UNCHANGED <<session, open, trust>>

SendUnitData(t) ==
  /\ Calls(t, "SendUnitData") /\ session # 0 /\ open
  /\ Returns(t, "ok", 0)
  /\ UNCHANGED <<session, open, trust>>

\* An error changes nothing, but a call that waits for a reply may give up on it.  While
\* there is a session RegisterSession does not fail.
Fail(t) ==
  /\ \E m \in Methods \ {"Close"} : Calls(t, m)
  /\ call[t].m = "RegisterSession" => session = 0
  /\ Returns(t, "error", 0)
  /\ trust' \in {trust, FALSE} /\ (call[t].m = "SendUnitData" => UNCHANGED trust)
  /\ UNCHANGED <<session, open>>

\* Close ends the session, at most,
Unregister(t) ==
  /\ Calls(t, "Close") /\ session # 0 /\ open
  /\ session' = 0
  /\ UNCHANGED <<open, trust, issued, call>>

\* and then closes the connection, whatever session another call has begun since.
Disconnect(t) ==
  /\ Calls(t, "Close") /\ open' = FALSE
  /\ Returns(t, IF open THEN "ok" ELSE "error", 0)
  /\ UNCHANGED <<session, trust>>

\* It leaves the connection open only when it could not end the session, and says so.
CloseFails(t) ==
  /\ Calls(t, "Close") /\ session # 0
  /\ Returns(t, "error", 0)
  /\ UNCHANGED <<session, open, trust>>

Next == \E t \in Callers :
  \/ Begin(t) \/ RegisterSession(t) \/ Answer(t) \/ SendUnitData(t) \/ Fail(t)
  \/ Unregister(t) \/ Disconnect(t) \/ CloseFails(t)

Spec == Init /\ [][Next]_vars
=============================================================================
