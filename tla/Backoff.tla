------------------------------- MODULE Backoff -------------------------------
(***************************************************************************)
(* ExponentialBackoff (pkg/cpppo/util.go): an operation is called again,   *)
(* after delays that double, while it fails with an error worth a retry.   *)
(*                                                                         *)
(* A time.Duration is a signed integer of Half values to each side of 0,   *)
(* 2^63 in the code; doubling one may wrap.                                *)
(***************************************************************************)
EXTENDS Integers, Sequences

CONSTANTS
  Half,          \* durations are -Half..Half-1
  InitialDelays, \* of these,
  MaxDelays,     \* and of these, the arguments are taken
  MaxRetries     \* the numbers of retries a caller asks for

ASSUME BackoffAssumption ==
  /\ Half \in Nat \ {0}
  /\ InitialDelays \subseteq 0..(Half - 1) /\ MaxDelays \subseteq 0..(Half - 1)
  /\ MaxRetries \subseteq Int

\* How an operation may end.  A net.Error is met as it is, or wrapped in an error that adds
\* a message with %w, as the methods of Client and PLCClient return it, Close apart.  "raw
\* other" neither is a timeout nor speaks of a connection.
Errors == {"raw timeout", "raw connection", "raw other", "wrapped timeout", "wrapped connection", "plain"}
Outcomes == Errors \cup {"nil"}

VARIABLES
  args,    \* the arguments: initialDelay, maxDelay and maxRetries
  pc,      \* "loop", "sleep" or "returned"
  i,       \* the loop variable
  delay,   \* what is slept next
  err,     \* the error of the last attempt
  result,  \* what is returned: nil, err as it is, or err wrapped in "operation failed"
  errs,    \* history: how each attempt ended
  slept    \* history: the delays slept

vars == <<args, pc, i, delay, err, result, errs, slept>>

Init ==
  /\ args \in [initialDelay : InitialDelays, maxDelay : MaxDelays, maxRetries : MaxRetries]
  /\ pc = "loop" /\ i = 0 /\ delay = args.initialDelay
  /\ err = "nil" /\ result = "none" /\ errs = <<>> /\ slept = <<>>

\* The type assertion sees no net.Error in an error that wraps one.
Retryable(e) == e \in {"raw timeout", "raw connection"}

\* Mutant of Remaining: one attempt more
RemainingToo == i =< args.maxRetries

Remaining == i < args.maxRetries

Returns(r) == pc' = "returned" /\ result' = r

Attempt ==
  /\ pc = "loop" /\ Remaining
  /\ \E e \in Outcomes :
       /\ err' = e /\ errs' = Append(errs, e)
       /\ CASE e = "nil"     -> Returns("nil")
            [] Retryable(e)  -> pc' = "sleep" /\ UNCHANGED result
            [] OTHER         -> Returns("error")
  /\ UNCHANGED <<args, i, delay, slept>>

Double(d) == ((2 * d + Half) % (2 * Half)) - Half

\* Mutant of NextDelay: the delay is capped before it is doubled.
NextDelayLate(d) == Double(IF d > args.maxDelay THEN args.maxDelay ELSE d)

NextDelay(d) == IF Double(d) > args.maxDelay THEN args.maxDelay ELSE Double(d)

\* Mutant of Sleep: the attempt is not counted.
SleepUncounted ==
  /\ pc = "sleep" /\ pc' = "loop"
  /\ slept' = Append(slept, delay) /\ delay' = NextDelay(delay)
  /\ UNCHANGED <<args, i, err, result, errs>>

\* time.Sleep, after the last attempt as well
Sleep ==
  /\ pc = "sleep"
  /\ slept' = Append(slept, delay)
  /\ delay' = NextDelay(delay)
  /\ i' = i + 1 /\ pc' = "loop"
  /\ UNCHANGED <<args, err, result, errs>>

\* An error that wraps err, which is nil when nothing was attempted
GiveUp ==
  /\ pc = "loop" /\ ~Remaining
  /\ Returns("failed")
  /\ UNCHANGED <<args, i, delay, err, errs, slept>>

Next == Attempt \/ Sleep \/ GiveUp

Spec == Init /\ [][Next]_vars

-----------------------------------------------------------------------------
(* Properties                                                                *)

\* The variables have these types: a delay is a duration, however large the arguments.  The
\* loop variable counts the sleeps, and err is the error of the last attempt.
TypeOK ==
  /\ args \in [initialDelay : InitialDelays, maxDelay : MaxDelays, maxRetries : MaxRetries]
  /\ pc \in {"loop", "sleep", "returned"}
  /\ i \in Nat /\ delay \in -Half..(Half - 1)
  /\ err \in Outcomes /\ result \in {"none", "nil", "error", "failed"}
  /\ errs \in Seq(Outcomes) /\ slept \in Seq(-Half..(Half - 1))
  /\ i = Len(slept) /\ (errs # <<>> => err = errs[Len(errs)])

Most(m, n) == IF m > n THEN m ELSE n

\* The result tells how the attempts went: nil after the one that succeeded, the error as it
\* is after one not worth a retry, and else, wrapped, the last of exactly maxRetries errors.
\* None is attempted after success or such an error, and there is an error, of nothing, when
\* none was asked for (util.go:16-41).
Outcome ==
  LET n == Len(errs)
  IN  /\ \A k \in 1..(n - 1) : Retryable(errs[k])
      /\ n =< Most(args.maxRetries, 0)
      /\ pc = "returned" =>
           CASE result = "nil"    -> n > 0 /\ errs[n] = "nil"
             [] result = "error"  -> n > 0 /\ errs[n] # "nil" /\ ~Retryable(errs[n])
             [] result = "failed" -> n = Most(args.maxRetries, 0) /\ (n = 0 \/ Retryable(errs[n]))

\* A number doubled n times is multiplied by this.
Doubled[n \in Nat] == IF n = 0 THEN 1 ELSE 2 * Doubled[n - 1]

\* The k-th sleep is initialDelay doubled k-1 times, and maxDelay at most; except for the
\* first, which is initialDelay even when that is more, and as long as no doubling can
\* overflow.  Every failed attempt is followed by one, the last too (util.go:27-34).
SleepsDouble ==
  /\ 2 * Most(args.initialDelay, args.maxDelay) < Half =>
       \A k \in DOMAIN slept :
         LET exact == args.initialDelay * Doubled[k - 1]
         IN  slept[k] = IF k > 1 /\ exact > args.maxDelay THEN args.maxDelay ELSE exact
  /\ \A k \in DOMAIN slept : slept[k] =< Most(args.initialDelay, args.maxDelay)
  /\ result = "failed" => Len(slept) = Len(errs)
=============================================================================
