---------------------------- MODULE Retry_proof ----------------------------
(***************************************************************************)
(* Proofs about Retry for every set of configs: any number of attempts,    *)
(* any delays and any jitter.                                              *)
(*                                                                         *)
(* HonestOutcome says something only once Do has returned.  What makes it  *)
(* so is known on the way: every failure that was followed by another      *)
(* attempt, or by a back-off, was retryable (Retried), and a back-off is   *)
(* begun only if an attempt is left (AttemptLeft).                         *)
(***************************************************************************)
EXTENDS Retry, WellFoundedInduction, TLAPS

\* Induction over the naturals, for a set instead of a predicate.
LEMMA SetInduction ==
    ASSUME NEW S, 0 \in S, \A n \in Nat : n \in S => n + 1 \in S
    PROVE  Nat \subseteq S
  <1> DEFINE R == OpToRel(<, Nat)
             T == Nat \ S
  <1>1. SUFFICES ASSUME T # {} PROVE FALSE
    OBVIOUS
  <1>2. IsWellFoundedOn(R, Nat)
    BY NatLessThanWellFounded
  <1>3. T \subseteq Nat
    OBVIOUS
  <1>4. \A x, y \in Nat : x < y => <<x, y>> \in R
    BY DEF OpToRel
  <1> HIDE DEF R, T
  <1>5. PICK x \in T : \A y \in T : ~(<<y, x>> \in R)
    BY <1>1, <1>2, <1>3, WFMin
  <1> USE DEF T
  <1>6. x \in Nat /\ x # 0
    BY <1>5
  <1>7. x - 1 \in Nat /\ x - 1 < x /\ (x - 1) + 1 = x
    BY <1>6
  <1>8. x - 1 \notin T
    BY <1>4, <1>5, <1>6, <1>7
  <1>9. QED
    BY <1>5, <1>7, <1>8

-----------------------------------------------------------------------------
\* f is an initial piece of the powers of two, up to the m-th.
Doubles(f, m) ==
    /\ f \in [0..m -> Nat]
    /\ \A n \in 0..m : f[n] = IF n = 0 THEN 1 ELSE 2 * f[n - 1]

\* There are such pieces of any length ...
LEMMA DoublesExist == \A m \in Nat : \E f : Doubles(f, m)
  <1> DEFINE S == {m \in Nat : \E f : Doubles(f, m)}
  <1>1. 0 \in S
    <2> DEFINE f == [n \in 0..0 |-> 1]
    <2>1. Doubles(f, 0)
      BY DEF Doubles
    <2>2. QED
      BY <2>1
  <1>2. ASSUME NEW m \in Nat, m \in S PROVE m + 1 \in S
    <2>1. PICK f : Doubles(f, m)
      BY <1>2
    <2> DEFINE g == [n \in 0..(m + 1) |-> IF n = m + 1 THEN 2 * f[m] ELSE f[n]]
    <2>2. g \in [0..(m + 1) -> Nat]
      BY <2>1 DEF Doubles
    <2>3. ASSUME NEW n \in 0..(m + 1) PROVE g[n] = IF n = 0 THEN 1 ELSE 2 * g[n - 1]
      BY <2>1 DEF Doubles
    <2>4. Doubles(g, m + 1)
      BY <2>2, <2>3 DEF Doubles
    <2>5. QED
      BY <2>4
  <1> HIDE DEF S
  <1>3. Nat \subseteq S
    BY <1>1, <1>2, SetInduction
  <1>4. QED
    BY <1>3 DEF S

\* ... which agree where both are defined ...
LEMMA DoublesAgree ==
    ASSUME NEW m \in Nat, NEW k \in Nat, NEW f, NEW g, Doubles(f, m), Doubles(g, k)
    PROVE  \A n \in Nat : n <= m /\ n <= k => f[n] = g[n]
  <1> DEFINE S == {n \in Nat : n <= m /\ n <= k => f[n] = g[n]}
  <1>1. 0 \in S
    BY DEF Doubles
  <1>2. ASSUME NEW n \in Nat, n \in S PROVE n + 1 \in S
    <2> SUFFICES ASSUME n + 1 <= m, n + 1 <= k PROVE f[n + 1] = g[n + 1]
      OBVIOUS
    <2>1. f[n] = g[n]
      BY <1>2
    <2>2. f[n + 1] = 2 * f[n] /\ g[n + 1] = 2 * g[n]
      BY DEF Doubles
    <2>3. QED
      BY <2>1, <2>2
  <1> HIDE DEF S
  <1>3. Nat \subseteq S
    BY <1>1, <1>2, SetInduction
  <1>4. QED
    BY <1>3 DEF S

\* ... so that the recursion of Pow2 (math.Pow in backoff.go:16) has a solution.
LEMMA Pow2Unfolds == Pow2 = [n \in Nat |-> IF n = 0 THEN 1 ELSE 2 * Pow2[n - 1]]
  <1> DEFINE G(n) == CHOOSE f : Doubles(f, n)
             H == [n \in Nat |-> G(n)[n]]
  <1>1. \A n \in Nat : Doubles(G(n), n)
    BY DoublesExist
  <1>2. ASSUME NEW n \in Nat PROVE H[n] = IF n = 0 THEN 1 ELSE 2 * H[n - 1]
    <2>1. CASE n = 0
      <3>1. Doubles(G(n), n) /\ H[n] = G(n)[n]
        BY <1>1
      <3> HIDE DEF G, H
      <3>2. QED
        BY <2>1, <3>1 DEF Doubles
    <2>2. CASE n # 0
      <3>1. n - 1 \in Nat
        BY <2>2
      <3>2. G(n)[n] = 2 * G(n)[n - 1]
        <4>1. Doubles(G(n), n)
          BY <1>1
        <4> HIDE DEF G
        <4>2. QED
          BY <2>2, <4>1 DEF Doubles
      <3>3. G(n)[n - 1] = G(n - 1)[n - 1]
        <4>1. Doubles(G(n), n) /\ Doubles(G(n - 1), n - 1)
          BY <1>1, <3>1
        <4> HIDE DEF G
        <4>2. QED
          BY <3>1, <4>1, DoublesAgree
      <3>4. H[n] = G(n)[n] /\ H[n - 1] = G(n - 1)[n - 1]
        BY <3>1
      <3> HIDE DEF G, H
      <3>5. QED
        BY <2>2, <3>2, <3>3, <3>4
    <2>3. QED
      BY <2>1, <2>2
  <1>3. H = [n \in Nat |-> IF n = 0 THEN 1 ELSE 2 * H[n - 1]]
    <2>1. \A n \in Nat : H[n] = IF n = 0 THEN 1 ELSE 2 * H[n - 1]
      BY <1>2
    <2>2. H = [n \in Nat |-> H[n]]
      OBVIOUS
    <2> HIDE DEF H
    <2>3. QED
      BY <2>1, <2>2
  <1> HIDE DEF H
  <1>4. \E f : f = [n \in Nat |-> IF n = 0 THEN 1 ELSE 2 * f[n - 1]]
    BY <1>3
  <1>5. QED
    BY <1>4, Zenon DEF Pow2

\* A power of two is a natural number.
LEMMA Pow2Nat == \A n \in Nat : Pow2[n] \in Nat
  <1> DEFINE S == {n \in Nat : Pow2[n] \in Nat}
  <1>1. 0 \in S
    <2>1. Pow2[0] = 1
      BY Pow2Unfolds
    <2>2. QED
      BY <2>1
  <1>2. ASSUME NEW n \in Nat, n \in S PROVE n + 1 \in S
    <2>1. Pow2[n + 1] = 2 * Pow2[(n + 1) - 1]
      BY Pow2Unfolds
    <2>2. Pow2[n + 1] = 2 * Pow2[n]
      BY <2>1
    <2>3. QED
      BY <1>2, <2>2
  <1> HIDE DEF S
  <1>3. Nat \subseteq S
    BY <1>1, <1>2, SetInduction
  <1>4. QED
    BY <1>3 DEF S

-----------------------------------------------------------------------------
\* Whatever was followed by another attempt or by a back-off was retryable.
Retried ==
    \A k \in 1..Len(results) :
        k < Len(results) \/ at \in {"fn", "select"} => results[k] \in cfg.RetryCodes

\* What fn has just failed with is an error.
FailedWithError == at = "failed" => Err \in Errors

\* Do sleeps only if it is going to try again.
AttemptLeft == at = "select" => i + 1 < cfg.MaxAttempts

IInv ==
    /\ TypeOK
    /\ Retried
    /\ FailedWithError
    /\ AttemptLeft
    /\ HonestOutcome

\* Before the first attempt nothing has happened yet.
LEMMA InitInv == Init => IInv
  BY DEF Init, IInv, TypeOK, Retried, FailedWithError, AttemptLeft, HonestOutcome

\* What backoff (backoff.go:15-28) returns is the capped delay within the jitter.
LEMMA BackoffBounded ==
    ASSUME cfg \in Configs, NEW n \in Nat, NEW d \in backoff(n)
    PROVE  /\ d \in Nat
           /\ \E delay \in {cfg.MaxDelay, cfg.BaseDelay * Pow2[n]} :
                 /\ delay <= cfg.MaxDelay /\ delay <= cfg.BaseDelay * Pow2[n]
                 /\ 10 * d <= delay * (10 + cfg.Jitter)
                 /\ 10 * (d + 1) > delay * (10 - cfg.Jitter)
  <1> DEFINE full == cfg.BaseDelay * Pow2[n]
             delay == Cap(full)
             low == delay * (10 - cfg.Jitter)
             high == delay * (10 + cfg.Jitter)
  <1>1. /\ cfg.BaseDelay \in Nat /\ cfg.MaxDelay \in Nat /\ cfg.Jitter \in Nat
        /\ Pow2[n] \in Nat
    BY ConfigsAreTyped, Pow2Nat
  <1>2. full \in Nat
    BY <1>1
  <1> HIDE DEF full
  <1>3. /\ delay \in Nat /\ delay <= cfg.MaxDelay /\ delay <= full
        /\ delay \in {cfg.MaxDelay, full}
    BY <1>1, <1>2 DEF Cap
  <1>4. PICK t \in low..high : d = (IF t < 0 THEN 0 ELSE t) \div 10
    BY DEF backoff, full
  <1> HIDE DEF delay
  <1>5. low \in Int /\ high \in Nat
    BY <1>1, <1>3
  <1> HIDE DEF low, high
  <1>6. d \in Nat /\ 10 * d <= high /\ 10 * (d + 1) > low
    BY <1>4, <1>5
  <1>7. QED
    BY <1>3, <1>6 DEF full, low, high

\* A call of fn that succeeds (retry.go:45-48) ends Do with "ok".
LEMMA FnSucceedsInv == ASSUME IInv, FnSucceeds PROVE IInv'
  <1>1. /\ at = "fn" /\ at' = "returned" /\ returned' = "ok" /\ "ok" \notin Errors
        /\ results' = Append(results, "ok")
        /\ UNCHANGED <<cfg, i, timer, ctxDone>>
    BY ErrorsAreApart DEF FnSucceeds, Return, Errors
  <1>2. /\ Len(results') = Len(results) + 1 /\ results'[Len(results')] = "ok"
        /\ \A k \in 1..Len(results) : results'[k] = results[k]
    BY <1>1 DEF IInv, TypeOK
  <1>3. TypeOK'
    BY <1>1, <1>2 DEF IInv, TypeOK
  <1>4. Retried' /\ FailedWithError' /\ AttemptLeft'
    BY <1>1, <1>2 DEF IInv, TypeOK, Retried, FailedWithError, AttemptLeft
  <1>5. HonestOutcome'
    BY <1>1, <1>2, <1>4 DEF IInv, TypeOK, HonestOutcome, Last, Retried
  <1>6. QED
    BY <1>3, <1>4, <1>5 DEF IInv

\* A call of fn that fails (retry.go:45-46).
LEMMA FnFailsInv == ASSUME IInv, NEW e \in Errors, FnFails(e) PROVE IInv'
  <1>1. /\ at = "fn" /\ at' = "failed"
        /\ results' = Append(results, e)
        /\ UNCHANGED <<cfg, i, timer, ctxDone, returned>>
    BY DEF FnFails
  <1>2. /\ Len(results') = Len(results) + 1 /\ results'[Len(results')] = e
        /\ \A k \in 1..Len(results) : results'[k] = results[k]
    BY <1>1 DEF IInv, TypeOK
  <1>3. TypeOK'
    BY <1>1, <1>2 DEF IInv, TypeOK
  <1>4. Retried' /\ FailedWithError'
    BY <1>1, <1>2 DEF IInv, TypeOK, Retried, FailedWithError, Err
  <1>5. AttemptLeft' /\ HonestOutcome'
    BY <1>1 DEF AttemptLeft, HonestOutcome
  <1>6. QED
    BY <1>3, <1>4, <1>5 DEF IInv

\* Do gives up (retry.go:51-58): after the last attempt, or on an error that is not
\* to be retried.
LEMMA GiveUpInv == ASSUME IInv, GiveUp PROVE IInv'
  <1>1. /\ at = "failed" /\ at' = "returned" /\ returned' = Err /\ Err \in Errors
        /\ UNCHANGED <<cfg, i, timer, ctxDone, results>>
    BY DEF GiveUp, Return, IInv, FailedWithError
  <1>2. Len(results) = i + 1 /\ Err = results[Len(results)]
    BY <1>1 DEF IInv, TypeOK, Err
  <1>3. Err \in cfg.RetryCodes => Len(results) >= cfg.MaxAttempts
    <2>1. cfg.MaxAttempts \in Int
      BY ConfigsAreTyped DEF IInv, TypeOK
    <2>2. QED
      BY <1>2, <2>1 DEF GiveUp, Retryable, attempts, IInv, TypeOK
  <1>4. TypeOK'
    BY <1>1 DEF IInv, TypeOK
  <1>5. Retried' /\ FailedWithError' /\ AttemptLeft'
    BY <1>1 DEF IInv, Retried, FailedWithError, AttemptLeft
  <1>6. HonestOutcome'
    BY <1>1, <1>2, <1>3, <1>5 DEF IInv, TypeOK, HonestOutcome, Last, Retried
  <1>7. QED
    BY <1>4, <1>5, <1>6 DEF IInv

\* The delay is chosen (retry.go:61); an attempt is left by then.
LEMMA BackOffInv == ASSUME IInv, BackOff PROVE IInv'
  <1>1. /\ at = "failed" /\ at' = "select" /\ timer' \in backoff(i)
        /\ Err \in cfg.RetryCodes /\ i # attempts - 1
        /\ UNCHANGED <<cfg, i, ctxDone, returned, results>>
    BY DEF BackOff, Retryable
  <1>2. cfg \in Configs /\ i \in Nat /\ cfg.MaxAttempts \in Int
    BY ConfigsAreTyped DEF IInv, TypeOK
  <1>3. timer' \in Nat
    BY <1>1, <1>2, BackoffBounded
  <1>4. TypeOK'
    BY <1>1, <1>3 DEF IInv, TypeOK
  <1>5. AttemptLeft'
    BY <1>1, <1>2 DEF IInv, TypeOK, AttemptLeft, attempts
  <1>6. Retried' /\ FailedWithError' /\ HonestOutcome'
    BY <1>1 DEF IInv, TypeOK, Retried, FailedWithError, HonestOutcome, Err
  <1>7. QED
    BY <1>4, <1>5, <1>6 DEF IInv

\* The context is done during the back-off (retry.go:64-66).
LEMMA CtxCaseInv == ASSUME IInv, CtxCase PROVE IInv'
  <1>1. /\ at = "select" /\ at' = "returned" /\ returned' = "ctx" /\ ctxDone
        /\ UNCHANGED <<cfg, i, timer, ctxDone, results>>
    BY DEF CtxCase, Return, Done
  <1>2. TypeOK'
    BY <1>1 DEF IInv, TypeOK
  <1>3. Retried' /\ FailedWithError' /\ AttemptLeft'
    BY <1>1 DEF IInv, Retried, FailedWithError, AttemptLeft
  <1>4. HonestOutcome'
    BY <1>1 DEF IInv, TypeOK, HonestOutcome, Last, Retried, AttemptLeft
  <1>5. QED
    BY <1>2, <1>3, <1>4 DEF IInv

\* The timer fires (retry.go:67) and the next attempt begins.
LEMMA TimerCaseInv == ASSUME IInv, TimerCase PROVE IInv'
  <1>1. /\ at = "select" /\ at' = "fn" /\ i' = i + 1
        /\ UNCHANGED <<cfg, timer, ctxDone, returned, results>>
    BY DEF TimerCase
  <1>2. TypeOK'
    BY <1>1 DEF IInv, TypeOK, AttemptLeft
  <1>3. Retried' /\ FailedWithError' /\ AttemptLeft' /\ HonestOutcome'
    BY <1>1 DEF IInv, Retried, FailedWithError, AttemptLeft, HonestOutcome
  <1>4. QED
    BY <1>2, <1>3 DEF IInv

\* Time passes.
LEMMA TickInv == ASSUME IInv, Tick PROVE IInv'
  BY DEF IInv, TypeOK, Retried, FailedWithError, AttemptLeft, HonestOutcome, Err, Last, Tick

\* The context ends.
LEMMA CancelInv == ASSUME IInv, Cancel PROVE IInv'
  BY DEF IInv, TypeOK, Retried, FailedWithError, AttemptLeft, HonestOutcome,
         Err, Last, Cancel

\* Every step of Do, of fn and of the clock preserves the invariant.
LEMMA StepInv == IInv /\ [Next]_vars => IInv'
  <1> SUFFICES ASSUME IInv, [Next]_vars PROVE IInv'
    OBVIOUS
  <1>1. CASE UNCHANGED vars
    BY <1>1 DEF vars, IInv, TypeOK, Retried, FailedWithError, AttemptLeft, HonestOutcome, Err, Last
  <1>2. QED
    BY <1>1, FnSucceedsInv, FnFailsInv, GiveUpInv, BackOffInv, CtxCaseInv, TimerCaseInv,
       TickInv, CancelInv DEF Next, Fn, Do

\* The inductive invariant holds throughout.
LEMMA InvHolds == Spec => []IInv
  BY InitInv, StepInv, PTL DEF Spec

\* For every config, the attempts (retry.go:44-69) are counted right and stay within
\* MaxAttempts.
THEOREM TypeCorrect == Spec => []TypeOK
  BY InvHolds, PTL DEF IInv

\* For every config, and however long fn keeps failing, Do (retry.go:40-72) returns
\* what the last call of fn returned, or that the context is done, and neither stops
\* short of MaxAttempts on a retryable error nor goes on after another one.
THEOREM HonestOutcomeHolds == Spec => []HonestOutcome
  BY InvHolds, PTL DEF IInv

\* For every config and every attempt, the back-off (backoff.go:15-28) is
\* BaseDelay * 2^i, capped at MaxDelay, within the jitter on both sides.
THEOREM DelayBoundedHolds == Spec => DelayBounded
  <1> DEFINE Bounded ==
               at = "failed" /\ at' = "select" =>
                 \E delay \in {cfg.MaxDelay, cfg.BaseDelay * Pow2[i]} :
                    /\ delay <= cfg.MaxDelay /\ delay <= cfg.BaseDelay * Pow2[i]
                    /\ 10 * timer' <= delay * (10 + cfg.Jitter)
                    /\ 10 * (timer' + 1) > delay * (10 - cfg.Jitter)
  <1>1. IInv /\ [Next]_vars => [Bounded]_vars
    <2> SUFFICES ASSUME IInv, Next, at = "failed", at' = "select" PROVE Bounded
      OBVIOUS
    <2>1. BackOff
      BY DEF Next, Fn, FnSucceeds, FnFails, Do, GiveUp, CtxCase, TimerCase, Return, Tick, Cancel
    <2>2. timer' \in backoff(i) /\ cfg \in Configs /\ i \in Nat
      BY <2>1 DEF BackOff, IInv, TypeOK
    <2>3. QED
      BY <2>2, BackoffBounded
  <1>2. QED
    BY <1>1, InvHolds, PTL DEF Spec, DelayBounded

=============================================================================
