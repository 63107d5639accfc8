---------------------------- MODULE Backoff_proofs ----------------------------
(***************************************************************************)
(* Theorems about Backoff, for every width of a duration, all arguments    *)
(* and every way the attempts may end.                                     *)
(*                                                                         *)
(* The invariant IInv counts: before an attempt there were i, and each     *)
(* was worth a retry and slept after.  That the delays double is proved    *)
(* by induction on the naturals, from their well-foundedness.              *)
(***************************************************************************)
EXTENDS Backoff, SequenceTheorems, WellFoundedInduction, TLAPS

\* All attempts but the last n were worth a retry.
RetriedBut(n) == \A k \in 1..(Len(errs) - n) : Retryable(errs[k])

Last == errs[Len(errs)]

\* Where the call is, how many attempts there were and how the last one ended
Counted ==
  /\ pc = "loop" => Len(errs) = i /\ RetriedBut(0) /\ result = "none"
  /\ pc = "sleep" => Len(errs) = i + 1 /\ i < args.maxRetries /\ RetriedBut(0) /\ result = "none"
  /\ pc = "returned" => RetriedBut(1)
  /\ pc = "returned" /\ result = "nil" => Len(errs) = i + 1 /\ i < args.maxRetries /\ Last = "nil"
  /\ pc = "returned" /\ result = "error" =>
       Len(errs) = i + 1 /\ i < args.maxRetries /\ Last # "nil" /\ ~Retryable(Last)
  /\ pc = "returned" /\ result = "failed" => Len(errs) = i /\ ~Remaining /\ RetriedBut(0)
  /\ pc = "returned" => result # "none"
  /\ i =< Most(args.maxRetries, 0)

\* The first sleep is initialDelay; a later one is twice the one before, or maxDelay when
\* that is less, as long as no doubling can overflow.  No sleep is longer than both.
SleepsFollow ==
  LET next(d) == IF 2 * d > args.maxDelay THEN args.maxDelay ELSE 2 * d
      small   == 2 * Most(args.initialDelay, args.maxDelay) < Half
      n       == Len(slept)
  IN  /\ n > 0 => slept[1] = args.initialDelay
      /\ \A k \in 1..n : slept[k] =< Most(args.initialDelay, args.maxDelay)
      /\ small => \A k \in 1..(n - 1) : slept[k + 1] = next(slept[k])

Delays ==
  LET next(d) == IF 2 * d > args.maxDelay THEN args.maxDelay ELSE 2 * d
      small   == 2 * Most(args.initialDelay, args.maxDelay) < Half
      n       == Len(slept)
  IN  /\ delay =< Most(args.initialDelay, args.maxDelay)
      /\ n = 0 => delay = args.initialDelay
      /\ small => delay >= 0 /\ (n > 0 => delay = next(slept[n]))

IInv == TypeOK /\ Counted /\ SleepsFollow /\ Delays

-----------------------------------------------------------------------------

\* A doubled delay is a duration, and what doubling is without an overflow
LEMMA Doubles ==
  ASSUME NEW d \in -Half..(Half - 1)
  PROVE  /\ Double(d) \in -Half..(Half - 1)
         /\ 0 =< d /\ 2 * d < Half => Double(d) = 2 * d
  <1>1. Half \in Nat /\ Half > 0
    BY BackoffAssumption DEF BackoffAssumption
  <1> DEFINE w == 2 * Half
             m == (2 * d + Half) % w
  <1>2. w \in Nat /\ w > 0 /\ 2 * d + Half \in Int
    BY <1>1
  <1>3. m \in 0..(w - 1)
    BY <1>2
  <1>4. ASSUME 0 =< d, 2 * d < Half PROVE m = 2 * d + Half
    <2>1. 2 * d + Half \in 0..(w - 1)
      BY <1>1, <1>4
    <2> HIDE DEF w
    <2> QED BY <1>2, <2>1
  <1> HIDE DEF m
  <1>5. Double(d) = m - Half
    BY DEF Double, m
  <1> QED BY <1>1, <1>3, <1>4, <1>5

LEMMA Appended ==
  ASSUME NEW S, NEW s \in Seq(S), NEW x \in S
  PROVE  /\ Append(s, x) \in Seq(S) /\ Len(Append(s, x)) = Len(s) + 1
         /\ Append(s, x)[Len(s) + 1] = x
         /\ \A k \in 1..Len(s) : Append(s, x)[k] = s[k]
         /\ Len(s) \in Nat /\ DOMAIN s = 1..Len(s) /\ DOMAIN Append(s, x) = 1..(Len(s) + 1)
  BY AppendProperties, LenProperties

LEMMA StartInv == Init => IInv
  <1> SUFFICES ASSUME Init PROVE IInv
    OBVIOUS
  <1>1. /\ args.maxRetries \in Int /\ args.initialDelay \in 0..(Half - 1) /\ args.maxDelay \in 0..(Half - 1)
        /\ Half \in Nat
    BY BackoffAssumption DEF BackoffAssumption, Init
  <1>2. Len(<<>>) = 0 /\ <<>> \in Seq(Outcomes) /\ <<>> \in Seq(-Half..(Half - 1)) /\ DOMAIN <<>> = {}
    OBVIOUS
  <1>3. TypeOK
    BY <1>1, <1>2 DEF Init, TypeOK, Outcomes
  <1>4. Counted
    BY <1>1, <1>2 DEF Init, Counted, RetriedBut, Most
  <1>5. SleepsFollow /\ Delays
    BY <1>1, <1>2 DEF Init, SleepsFollow, Delays, Most
  <1> QED BY <1>3, <1>4, <1>5 DEF IInv

LEMMA StepInv == IInv /\ [Next]_vars => IInv'
  <1> SUFFICES ASSUME IInv, [Next]_vars PROVE IInv'
    OBVIOUS
  <1>1. /\ args.maxRetries \in Int /\ args.initialDelay \in 0..(Half - 1) /\ args.maxDelay \in 0..(Half - 1)
        /\ Half \in Nat /\ i \in Nat /\ Half > 0
    <2>1. args \in [initialDelay : InitialDelays, maxDelay : MaxDelays, maxRetries : MaxRetries] /\ i \in Nat
      BY DEF IInv, TypeOK
    <2>2. /\ args.initialDelay \in InitialDelays
          /\ args.maxDelay \in MaxDelays /\ args.maxRetries \in MaxRetries
      BY <2>1
    <2>3. /\ Half \in Nat /\ Half > 0 /\ MaxRetries \subseteq Int
          /\ InitialDelays \subseteq 0..(Half - 1) /\ MaxDelays \subseteq 0..(Half - 1)
      BY BackoffAssumption DEF BackoffAssumption
    <2> QED BY <2>1, <2>2, <2>3
  <1>2. errs \in Seq(Outcomes) /\ slept \in Seq(-Half..(Half - 1)) /\ delay \in -Half..(Half - 1) /\ Len(errs) \in Nat
        /\ Len(slept) \in Nat
    BY LenProperties DEF IInv, TypeOK
  <1>3. CASE Attempt
    <2>1. PICK e \in Outcomes :
            /\ err' = e /\ errs' = Append(errs, e)
            /\ CASE e = "nil"     -> Returns("nil")
                 [] Retryable(e)  -> pc' = "sleep" /\ UNCHANGED result
                 [] OTHER         -> Returns("error")
      BY <1>3 DEF Attempt
    <2>2. pc = "loop" /\ Remaining /\ UNCHANGED <<args, i, delay, slept>>
      BY <1>3 DEF Attempt
    <2>3. e \in Outcomes
      BY <2>1
    <2>4. /\ errs' \in Seq(Outcomes) /\ Len(errs') = Len(errs) + 1 /\ errs'[Len(errs) + 1] = e
          /\ \A k \in 1..Len(errs) : errs'[k] = errs[k]
          /\ DOMAIN errs = 1..Len(errs) /\ DOMAIN errs' = 1..(Len(errs) + 1)
      BY <1>2, <2>1, <2>3, Appended
    <2>5. \/ e = "nil" /\ pc' = "returned" /\ result' = "nil"
          \/ e # "nil" /\ Retryable(e) /\ pc' = "sleep" /\ result' = result
          \/ e # "nil" /\ ~Retryable(e) /\ pc' = "returned" /\ result' = "error"
      <3>1. e = "nil" => ~Retryable(e)
        BY DEF Retryable
      <3>2. CASE e = "nil"
        <4>1. Returns("nil")
          BY <2>1, <3>1, <3>2, Zenon
        <4> QED BY <3>2, <4>1 DEF Returns
      <3>3. CASE e # "nil" /\ Retryable(e)
        <4>1. pc' = "sleep" /\ UNCHANGED result
          BY <2>1, <3>3, Zenon
        <4> QED BY <3>3, <4>1
      <3>4. CASE e # "nil" /\ ~Retryable(e)
        <4>1. Returns("error")
          BY <2>1, <3>4, Zenon
        <4> QED BY <3>4, <4>1 DEF Returns
      <3> QED BY <3>2, <3>3, <3>4
    <2>6. Len(errs) = i /\ result = "none" /\ \A k \in 1..Len(errs) : Retryable(errs[k])
      BY <1>2, <2>2 DEF IInv, Counted, RetriedBut
    <2>7. \A k \in 1..Len(errs) : Retryable(errs'[k])
      BY <2>4, <2>6
    <2>8. i < args.maxRetries
      BY <2>2 DEF Remaining
    <2>9. TypeOK'
      BY <1>2, <2>1, <2>2, <2>3, <2>4, <2>5 DEF IInv, TypeOK
    <2>10. Counted'
      <3>1. RetriedBut(1)'
        BY <1>2, <2>4, <2>7 DEF RetriedBut
      <3>2. Retryable(e) => RetriedBut(0)'
        BY <1>2, <2>4, <2>7 DEF RetriedBut
      <3>3. Last' = e
        BY <2>4 DEF Last
      <3>4. i' =< Most(args'.maxRetries, 0)
        BY <2>2 DEF IInv, Counted
      <3> QED BY <1>1, <1>2, <2>2, <2>4, <2>5, <2>6, <2>8, <3>1, <3>2, <3>3, <3>4 DEF Counted
    <2>11. SleepsFollow' /\ Delays'
      BY <2>2 DEF IInv, SleepsFollow, Delays
    <2> QED BY <2>9, <2>10, <2>11 DEF IInv
  <1>4. CASE Sleep
    <2>1. /\ pc = "sleep" /\ slept' = Append(slept, delay) /\ delay' = NextDelay(delay)
          /\ i' = i + 1 /\ pc' = "loop" /\ UNCHANGED <<args, err, result, errs>>
      BY <1>4 DEF Sleep
    <2>2. /\ slept' \in Seq(-Half..(Half - 1)) /\ Len(slept') = Len(slept) + 1 /\ slept'[Len(slept) + 1] = delay
          /\ \A k \in 1..Len(slept) : slept'[k] = slept[k]
      BY <1>2, <2>1, Appended
    <2>3. /\ Double(delay) \in -Half..(Half - 1)
          /\ 0 =< delay /\ 2 * delay < Half => Double(delay) = 2 * delay
      BY <1>2, Doubles
    <2>4. delay' \in -Half..(Half - 1) /\ delay' =< args.maxDelay
      BY <1>1, <2>1, <2>3 DEF NextDelay
    <2>5. Len(errs) = i + 1 /\ i < args.maxRetries /\ RetriedBut(0) /\ result = "none"
      BY <2>1 DEF IInv, Counted
    <2>6. TypeOK'
      BY <1>1, <2>1, <2>2, <2>4 DEF IInv, TypeOK
    <2>7. Counted'
      BY <1>1, <2>1, <2>5 DEF IInv, Counted, RetriedBut, Most
    <2> DEFINE small == 2 * Most(args.initialDelay, args.maxDelay) < Half
               next(d) == IF 2 * d > args.maxDelay THEN args.maxDelay ELSE 2 * d
    <2>8. delay =< Most(args.initialDelay, args.maxDelay) /\ (Len(slept) = 0 => delay = args.initialDelay)
          /\ (small => delay >= 0 /\ (Len(slept) > 0 => delay = next(slept[Len(slept)])))
      BY DEF IInv, Delays
    <2>9. small => delay' = next(delay) /\ delay' >= 0
      BY <1>1, <1>2, <2>1, <2>3, <2>8 DEF NextDelay, Most
    <2>10. Delays'
      BY <1>1, <1>2, <2>1, <2>2, <2>4, <2>9 DEF Delays, Most
    <2>11. SleepsFollow'
      <3>1. Len(slept') > 0 => slept'[1] = args.initialDelay
        <4>1. Len(slept) > 0 => slept[1] = args.initialDelay
          BY DEF IInv, SleepsFollow
        <4> QED BY <1>2, <2>2, <2>8, <4>1
      <3>2. \A k \in 1..Len(slept') : slept'[k] =< Most(args.initialDelay, args.maxDelay)
        <4>1. \A k \in 1..Len(slept) : slept[k] =< Most(args.initialDelay, args.maxDelay)
          BY DEF IInv, SleepsFollow
        <4> QED BY <1>2, <2>2, <2>8, <4>1
      <3>3. small => \A k \in 1..(Len(slept') - 1) : slept'[k + 1] = next(slept'[k])
        <4>1. small => \A k \in 1..(Len(slept) - 1) : slept[k + 1] = next(slept[k])
          BY DEF IInv, SleepsFollow
        <4> QED BY <1>2, <2>2, <2>8, <4>1
      <3> QED BY <2>1, <3>1, <3>2, <3>3 DEF SleepsFollow
    <2> QED BY <2>6, <2>7, <2>10, <2>11 DEF IInv
  <1>5. CASE GiveUp
    <2>1. pc = "loop" /\ ~Remaining /\ pc' = "returned" /\ result' = "failed" /\ UNCHANGED <<args, i, delay, err, errs, slept>>
      BY <1>5 DEF GiveUp, Returns
    <2>2. TypeOK' /\ SleepsFollow' /\ Delays'
      BY <2>1 DEF IInv, TypeOK, SleepsFollow, Delays
    <2>3. Counted'
      BY <1>1, <1>2, <2>1 DEF IInv, Counted, Remaining, RetriedBut
    <2> QED BY <2>2, <2>3 DEF IInv
  <1>6. CASE UNCHANGED vars
    BY <1>6 DEF vars, IInv, TypeOK, Counted, SleepsFollow, Delays, RetriedBut, Last, Remaining
  <1> QED BY <1>3, <1>4, <1>5, <1>6 DEF Next

LEMMA OutcomeMeans == IInv => Outcome
  <1> SUFFICES ASSUME IInv PROVE Outcome
    OBVIOUS
  <1>1. i \in Nat /\ Len(errs) \in Nat /\ args.maxRetries \in Int /\ pc \in {"loop", "sleep", "returned"}
        /\ result \in {"none", "nil", "error", "failed"}
    BY LenProperties, BackoffAssumption DEF BackoffAssumption, IInv, TypeOK
  <1>2. \A k \in 1..(Len(errs) - 1) : Retryable(errs[k])
    BY <1>1 DEF IInv, Counted, RetriedBut
  <1>3. Len(errs) =< Most(args.maxRetries, 0)
    BY <1>1 DEF IInv, Counted, Most, Remaining
  <1>4. ASSUME pc = "returned", result = "failed"
        PROVE  Len(errs) = Most(args.maxRetries, 0) /\ (Len(errs) = 0 \/ Retryable(errs[Len(errs)]))
    BY <1>1, <1>3, <1>4 DEF IInv, Counted, Most, Remaining, RetriedBut
  <1>5. ASSUME pc = "returned", result = "nil" PROVE Len(errs) > 0 /\ errs[Len(errs)] = "nil"
    BY <1>1, <1>5 DEF IInv, Counted, Last
  <1>6. ASSUME pc = "returned", result = "error"
        PROVE  Len(errs) > 0 /\ errs[Len(errs)] # "nil" /\ ~Retryable(errs[Len(errs)])
    BY <1>1, <1>6 DEF IInv, Counted, Last
  <1>7. pc = "returned" => result \in {"nil", "error", "failed"}
    BY <1>1 DEF IInv, Counted
  <1>8. pc = "returned" =>
          CASE result = "nil"    -> Len(errs) > 0 /\ errs[Len(errs)] = "nil"
            [] result = "error"  -> Len(errs) > 0 /\ errs[Len(errs)] # "nil" /\ ~Retryable(errs[Len(errs)])
            [] result = "failed" -> Len(errs) = Most(args.maxRetries, 0) /\ (Len(errs) = 0 \/ Retryable(errs[Len(errs)]))
    BY <1>4, <1>5, <1>6, <1>7
  <1> QED BY <1>2, <1>3, <1>8 DEF Outcome

-----------------------------------------------------------------------------
(* The powers of two                                                       *)

\* A set with 0 and, with each number, the next has all: otherwise there were a least one
\* that it lacks.
LEMMA Induction ==
  ASSUME NEW S \in SUBSET Nat, 0 \in S, \A n \in S : n + 1 \in S
  PROVE  S = Nat
  <1> SUFFICES ASSUME Nat \ S # {} PROVE FALSE
    OBVIOUS
  <1> DEFINE lacks == Nat \ S
             less  == OpToRel(<, Nat)
  <1>1. IsWellFoundedOn(less, Nat)
    BY NatLessThanWellFounded
  <1>2. PICK x \in lacks : \A y \in lacks : ~(<<y, x>> \in less)
    <2> HIDE DEF less
    <2> QED BY <1>1, WFMin
  <1>3. \A y \in lacks : ~(y < x)
    BY <1>2 DEF OpToRel
  <1>4. x \in Nat /\ x # 0 /\ x - 1 \in Nat
    OBVIOUS
  <1>5. x - 1 \in S
    BY <1>3, <1>4
  <1> QED BY <1>4, <1>5

\* f is Doubled, as far as m.
IsDoubled(f, m) == f \in [0..m -> Nat] /\ f[0] = 1 /\ \A k \in 1..m : f[k] = 2 * f[k - 1]

LEMMA DoublesExist == \A m \in Nat : \E f : IsDoubled(f, m)
  <1> DEFINE S == {m \in Nat : \E f : IsDoubled(f, m)}
  <1>1. 0 \in S
    <2>1. IsDoubled([k \in 0..0 |-> 1], 0)
      BY DEF IsDoubled
    <2> QED BY <2>1
  <1>2. ASSUME NEW m \in S PROVE m + 1 \in S
    <2>1. PICK f : IsDoubled(f, m)
      OBVIOUS
    <2> DEFINE g == [k \in 0..(m + 1) |-> IF k = m + 1 THEN 2 * f[m] ELSE f[k]]
    <2>2. f \in [0..m -> Nat] /\ f[0] = 1 /\ \A k \in 1..m : f[k] = 2 * f[k - 1]
      BY <2>1 DEF IsDoubled
    <2>3. g \in [0..(m + 1) -> Nat] /\ g[0] = 1
      BY <2>2
    <2>4. ASSUME NEW k \in 1..(m + 1) PROVE g[k] = 2 * g[k - 1]
      BY <2>2
    <2>5. IsDoubled(g, m + 1)
      BY <2>3, <2>4 DEF IsDoubled
    <2> QED BY <2>5
  <1> HIDE DEF S
  <1>3. S = Nat
    <2>1. S \in SUBSET Nat
      BY DEF S
    <2> QED BY <1>1, <1>2, <2>1, Induction
  <1> QED BY <1>3 DEF S

LEMMA DoublesAgree ==
  ASSUME NEW f, NEW g, NEW m \in Nat, NEW n \in Nat, IsDoubled(f, m), IsDoubled(g, n)
  PROVE  \A k \in Nat : k =< m /\ k =< n => f[k] = g[k]
  <1> DEFINE S == {k \in Nat : k =< m /\ k =< n => f[k] = g[k]}
  <1>1. 0 \in S
    BY DEF IsDoubled
  <1>2. ASSUME NEW k \in S PROVE k + 1 \in S
    <2> SUFFICES ASSUME k + 1 =< m, k + 1 =< n PROVE f[k + 1] = g[k + 1]
      OBVIOUS
    <2>1. f[k] = g[k] /\ k + 1 \in 1..m /\ k + 1 \in 1..n /\ (k + 1) - 1 = k
      OBVIOUS
    <2> QED BY <2>1 DEF IsDoubled
  <1> HIDE DEF S
  <1>3. S = Nat
    <2>1. S \in SUBSET Nat
      BY DEF S
    <2> QED BY <1>1, <1>2, <2>1, Induction
  <1> QED BY <1>3 DEF S

\* Doubled has the values that its definition asks for.
LEMMA DoubledIs ==
  /\ Doubled \in [Nat -> Nat] /\ Doubled[0] = 1
  /\ \A n \in Nat : Doubled[n + 1] = 2 * Doubled[n]
  <1> DEFINE Is(f) == f = [n \in Nat |-> IF n = 0 THEN 1 ELSE 2 * f[n - 1]]
             upTo(n) == CHOOSE f : IsDoubled(f, n)
             F == [n \in Nat |-> upTo(n)[n]]
  <1>1. \A n \in Nat : IsDoubled(upTo(n), n)
    BY DoublesExist
  <1>2. \A n \in Nat : F[n] = upTo(n)[n]
    OBVIOUS
  <1> HIDE DEF upTo
  <1>3. F[0] = 1
    BY <1>1, <1>2 DEF IsDoubled
  <1>4. ASSUME NEW n \in Nat, n # 0 PROVE F[n] = 2 * F[n - 1]
    <2>1. n - 1 \in Nat /\ n - 1 =< n /\ n \in 1..n
      BY <1>4
    <2>2. upTo(n)[n - 1] = upTo(n - 1)[n - 1]
      BY <1>1, <2>1, DoublesAgree
    <2>3. upTo(n)[n] = 2 * upTo(n)[n - 1]
      BY <1>1, <2>1 DEF IsDoubled
    <2> QED BY <1>2, <2>1, <2>2, <2>3
  <1>5. Is(F)
    <2>1. \A n \in Nat : F[n] = IF n = 0 THEN 1 ELSE 2 * F[n - 1]
      BY <1>3, <1>4
    <2> QED BY <2>1
  <1> HIDE DEF F
  <1>6. Is(Doubled)
    BY <1>5 DEF Doubled
  <1> HIDE DEF Is
  <1>7. \A n \in Nat : Doubled[n] = IF n = 0 THEN 1 ELSE 2 * Doubled[n - 1]
    BY <1>6 DEF Is
  <1>8. Doubled[0] = 1
    BY <1>7
  <1>9. \A n \in Nat : Doubled[n + 1] = 2 * Doubled[n]
    <2> TAKE n \in Nat
    <2>1. n + 1 \in Nat /\ n + 1 # 0 /\ (n + 1) - 1 = n
      OBVIOUS
    <2> QED BY <1>7, <2>1
  <1>10. DOMAIN Doubled = Nat /\ Doubled = [n \in Nat |-> Doubled[n]]
    BY <1>6 DEF Is
  <1>11. \A n \in Nat : Doubled[n] \in Nat
    <2> DEFINE S == {n \in Nat : Doubled[n] \in Nat}
    <2>1. 0 \in S
      BY <1>8
    <2>2. \A n \in S : n + 1 \in S
      BY <1>9
    <2>3. S \in SUBSET Nat
      OBVIOUS
    <2> HIDE DEF S
    <2>4. S = Nat
      BY <2>1, <2>2, <2>3, Induction
    <2> QED BY <2>4 DEF S
  <1> QED BY <1>8, <1>9, <1>10, <1>11

\* What is slept is what doubling gives, or maxDelay when that is less: the one follows from
\* the other, sleep by sleep.
LEMMA DoublesMeans == IInv => SleepsDouble
  <1> SUFFICES ASSUME IInv PROVE SleepsDouble
    OBVIOUS
  <1> DEFINE d0 == args.initialDelay
             max == args.maxDelay
             n == Len(slept)
             exact(k) == d0 * Doubled[k - 1]
             is(k) == slept[k] = IF k > 1 /\ exact(k) > max THEN max ELSE exact(k)
             small == 2 * Most(d0, max) < Half
  <1>1. /\ n \in Nat /\ DOMAIN slept = 1..n /\ d0 \in Nat /\ max \in Nat /\ i = n /\ i \in Nat
    <2>1. slept \in Seq(-Half..(Half - 1)) /\ i = n
      BY DEF IInv, TypeOK
    <2>2. d0 \in InitialDelays /\ max \in MaxDelays
      BY DEF IInv, TypeOK
    <2>3. InitialDelays \subseteq Nat /\ MaxDelays \subseteq Nat
      <3>1. 0..(Half - 1) \subseteq Nat
        BY BackoffAssumption
      <3> QED BY <3>1, BackoffAssumption
    <2> QED BY <2>1, <2>2, <2>3, LenProperties
  <1>2. /\ n > 0 => slept[1] = d0
        /\ \A k \in 1..n : slept[k] =< Most(d0, max)
        /\ small => \A k \in 1..(n - 1) : slept[k + 1] = IF 2 * slept[k] > max THEN max ELSE 2 * slept[k]
    BY DEF IInv, SleepsFollow
  <1>3. result = "failed" => n = Len(errs)
    BY <1>1 DEF IInv, Counted, TypeOK
  <1>4. ASSUME NEW k \in Nat PROVE exact(k + 1) \in Nat /\ exact(k + 2) = 2 * exact(k + 1)
    <2>1. Doubled[k] \in Nat /\ Doubled[k + 1] = 2 * Doubled[k]
      BY DoubledIs
    <2>2. (k + 1) - 1 = k /\ (k + 2) - 1 = k + 1
      OBVIOUS
    <2>3. \A x, y \in Nat : x * y \in Nat /\ x * (2 * y) = 2 * (x * y)
      OBVIOUS
    <2> QED BY <1>1, <2>1, <2>2, <2>3
  <1>5. n > 0 => is(1)
    <2>1. exact(1) = d0
      <3>1. 1 - 1 = 0 /\ Doubled[0] = 1
        BY DoubledIs
      <3> QED BY <1>1, <3>1
    <2> QED BY <1>2, <2>1
  <1> HIDE DEF exact
  <1>6. ASSUME small, NEW k \in Nat, k + 2 =< n, is(k + 1) PROVE is(k + 2)
    <2>1. slept[k + 2] = IF 2 * slept[k + 1] > max THEN max ELSE 2 * slept[k + 1]
      <3>1. k + 1 \in 1..(n - 1) /\ (k + 1) + 1 = k + 2
        BY <1>1, <1>6
      <3> QED BY <1>2, <1>6, <3>1
    <2>2. slept[k + 1] = IF k + 1 > 1 /\ exact(k + 1) > max THEN max ELSE exact(k + 1)
      BY <1>6
    <2>3. k + 2 > 1 /\ exact(k + 1) \in Nat /\ exact(k + 2) = 2 * exact(k + 1)
      BY <1>4
    <2> QED BY <1>1, <2>1, <2>2, <2>3
  <1>7. ASSUME small PROVE \A k \in 1..n : is(k)
    <2> DEFINE S == {k \in Nat : k + 1 =< n => is(k + 1)}
    <2>1. 0 \in S
      BY <1>1, <1>5
    <2>2. ASSUME NEW k \in S PROVE k + 1 \in S
      <3>1. k + 2 =< n => is(k + 1)
        BY <1>1
      <3>2. k + 2 =< n => is(k + 2)
        BY <1>6, <1>7, <3>1
      <3>3. (k + 1) + 1 = k + 2
        OBVIOUS
      <3> QED BY <3>2, <3>3
    <2>3. S \in SUBSET Nat
      OBVIOUS
    <2> HIDE DEF S
    <2>4. S = Nat
      BY <2>1, <2>2, <2>3, Induction
    <2>5. ASSUME NEW k \in 1..n PROVE is(k)
      <3>1. k - 1 \in Nat /\ (k - 1) + 1 = k /\ k =< n
        BY <1>1
      <3>2. k - 1 \in S
        BY <2>4, <3>1
      <3>3. (k - 1) + 1 =< n => is((k - 1) + 1)
        BY <3>2 DEF S
      <3> QED BY <3>1, <3>3
    <2> QED BY <2>5
  <1> QED BY <1>1, <1>2, <1>3, <1>7 DEF SleepsDouble, exact

-----------------------------------------------------------------------------

\* The invariant is inductive (util.go:16-41).
THEOREM Always == Spec => []IInv
  BY StartInv, StepInv, PTL DEF Spec

\* The variables keep their types: a delay that overflows is still a duration, and the loop
\* variable counts the sleeps (util.go:16-41).
THEOREM TypeCorrect == Spec => []TypeOK
  <1>1. IInv => TypeOK
    BY DEF IInv
  <1> QED BY <1>1, Always, PTL

\* What is returned tells how the attempts went, of which there are never more than
\* maxRetries, also when that is negative (util.go:16-41).
THEOREM OutcomeAlways == Spec => []Outcome
  BY OutcomeMeans, Always, PTL

\* The delays double up to maxDelay as long as no doubling can overflow, and none exceeds
\* both arguments (util.go:27-34).
THEOREM DelaysFollow == Spec => []SleepsFollow
  <1>1. IInv => SleepsFollow
    BY DEF IInv
  <1> QED BY <1>1, Always, PTL

\* The k-th sleep is initialDelay doubled k-1 times, and maxDelay at most, as long as no
\* doubling can overflow; none is longer than both in any case (util.go:27-34).
THEOREM DelaysDouble == Spec => []SleepsDouble
  BY DoublesMeans, Always, PTL
=============================================================================
