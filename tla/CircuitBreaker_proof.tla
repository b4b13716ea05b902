------------------------ MODULE CircuitBreaker_proof ------------------------
(***************************************************************************)
(* Proofs about CircuitBreaker for every set of callers and every Config.  *)
(*                                                                         *)
(* The Config is part of the state, chosen by New and never changed.       *)
(*                                                                         *)
(* TypeOK alone is not inductive: that failures stays within 0..TripPoint  *)
(* needs the fact that a closed breaker is strictly below its threshold,   *)
(* which is part of CountersMatchState.  The two are proved together.      *)
(***************************************************************************)
EXTENDS CircuitBreaker, TLAPS

IInv == TypeOK /\ CountersMatchState

USE DEF Closed, Open, HalfOpen

\* The derived bounds are natural numbers, whatever the Config holds.
LEMMA Bounds ==
  ASSUME TypeOK PROVE
    /\ FailureThreshold \in Int /\ OpenTimeout \in Int /\ HalfOpenMaxSuccess \in Int
    /\ Saturation \in Nat
    /\ TripPoint \in Nat /\ TripPoint >= 1 /\ TripPoint >= FailureThreshold
    /\ ProbeGoal \in Nat /\ ProbeGoal >= 1 /\ ProbeGoal >= HalfOpenMaxSuccess
    /\ FailureThreshold >= 1 => TripPoint = FailureThreshold
    /\ HalfOpenMaxSuccess >= 1 => ProbeGoal = HalfOpenMaxSuccess
    /\ FailureThreshold < 1 => TripPoint = 1
    /\ HalfOpenMaxSuccess < 1 => ProbeGoal = 1
  BY DEF TypeOK, Config, Saturation, TripPoint, ProbeGoal,
         FailureThreshold, OpenTimeout, HalfOpenMaxSuccess

\* The Config is the one New was given, and so are the bounds derived from it.
LEMMA ConfigStays ==
  ASSUME [Next]_vars PROVE
    /\ cfg' = cfg
    /\ Saturation' = Saturation /\ TripPoint' = TripPoint /\ ProbeGoal' = ProbeGoal
    /\ HalfOpenMaxSuccess' = HalfOpenMaxSuccess
  <1>1. cfg' = cfg
    BY DEF Next, State, Tick, Allow, OnSuccess, OnFailure, vars
  <1>2. QED
    BY <1>1 DEF Saturation, TripPoint, ProbeGoal,
                FailureThreshold, OpenTimeout, HalfOpenMaxSuccess

\* Who is outstanding keeps its type however a request is settled.
LEMMA SettleType ==
    ASSUME TypeOK, NEW c, NEW how \in {"none", "normal", "probe", "stale"},
           Settle(c, how)
    PROVE  pending' \in [Callers -> {"none", "normal", "probe", "stale"}]
  BY DEF TypeOK, Settle, Aged

\* The probe history stays in the natural numbers.
LEMMA CountType ==
    ASSUME TypeOK, NEW admitted, NEW won, Count(admitted, won)
    PROVE  probes' \in Nat /\ probeWins' \in Nat
  BY DEF TypeOK, Count

\* checkOpenTimeout leaves the counters consistent with the state.
LEMMA TimeoutStep ==
    ASSUME IInv, [Next]_vars, checkOpenTimeout, UNCHANGED <<failures, sinceOpened>>
    PROVE  /\ state' \in {Closed, Open, HalfOpen}
           /\ failures' \in 0..TripPoint
           /\ successes' \in 0..(ProbeGoal - 1)
           /\ sinceOpened' \in 0..Saturation
           /\ CountersMatchState'
  BY Bounds, ConfigStays
     DEF IInv, TypeOK, CountersMatchState, checkOpenTimeout

\* The breaker that New (breaker.go:53-59) returns satisfies the invariant.
LEMMA InitInv == Init => IInv
  BY ConfigAssumption
     DEF Init, IInv, TypeOK, CountersMatchState, Config,
         Saturation, TripPoint, ProbeGoal,
         FailureThreshold, OpenTimeout, HalfOpenMaxSuccess

\* Every method and the clock preserve the invariant.
LEMMA StepInv == IInv /\ [Next]_vars => IInv'
  <1> SUFFICES ASSUME IInv, [Next]_vars PROVE IInv'
    OBVIOUS
  <1>a. TypeOK
    BY DEF IInv
  <1> USE <1>a, Bounds, ConfigStays
  <1>b. cfg' \in Config
    BY DEF TypeOK
  <1>1. CASE State
    <2>1. pending' \in [Callers -> {"none", "normal", "probe", "stale"}]
      BY <1>1 DEF State, Aged, IInv, TypeOK
    <2>2. probes' \in Nat /\ probeWins' \in Nat
      BY <1>1, CountType DEF State, IInv
    <2>3. QED
      BY <1>b, <1>1, <2>1, <2>2, TimeoutStep DEF State, IInv, TypeOK
  <1>2. CASE Tick
    BY <1>2 DEF Tick, IInv, TypeOK, CountersMatchState
  <1>3. ASSUME NEW c \in Callers, Allow(c) PROVE IInv'
    <2>1. pending' \in [Callers -> {"none", "normal", "probe", "stale"}]
      BY <1>3, SettleType DEF Allow, IInv
    <2>2. probes' \in Nat /\ probeWins' \in Nat
      BY <1>3, CountType DEF Allow, IInv
    <2>3. QED
      BY <1>b, <1>3, <2>1, <2>2, TimeoutStep DEF Allow, IInv, TypeOK
  <1>4. ASSUME NEW c \in Callers, OnSuccess(c) PROVE IInv'
    <2>1. pending' \in [Callers -> {"none", "normal", "probe", "stale"}]
      BY <1>4, SettleType DEF OnSuccess, IInv
    <2>2. probes' \in Nat /\ probeWins' \in Nat
      BY <1>4, CountType DEF OnSuccess
    <2>3. /\ state' \in {Closed, Open, HalfOpen}
          /\ failures' \in 0..TripPoint
          /\ successes' \in 0..(ProbeGoal - 1)
          /\ sinceOpened' \in 0..Saturation
      BY <1>4 DEF OnSuccess, GoalReached, CloseAndReset, IInv, TypeOK
    <2>4. CountersMatchState'
      BY <1>4 DEF OnSuccess, GoalReached, CloseAndReset, IInv, TypeOK, CountersMatchState
    <2>5. QED
      BY <1>b, <2>1, <2>2, <2>3, <2>4 DEF IInv, TypeOK
  <1>5. ASSUME NEW c \in Callers, OnFailure(c) PROVE IInv'
    <2>1. pending' \in [Callers -> {"none", "normal", "probe", "stale"}]
      BY <1>5, SettleType DEF OnFailure, IInv
    <2>2. /\ state' \in {Closed, Open, HalfOpen}
          /\ failures' \in 0..TripPoint
          /\ successes' \in 0..(ProbeGoal - 1)
          /\ sinceOpened' \in 0..Saturation
      BY <1>5 DEF OnFailure, toOpen, DropWhenOpen, breaker, IInv, TypeOK, CountersMatchState
    <2>3. CountersMatchState'
      BY <1>5 DEF OnFailure, toOpen, DropWhenOpen, breaker, IInv, TypeOK, CountersMatchState
    <2>4. probes' \in Nat /\ probeWins' \in Nat
      BY <1>5, CountType DEF OnFailure
    <2>5. QED
      BY <1>b, <2>1, <2>2, <2>3, <2>4 DEF IInv, TypeOK
  <1>6. CASE UNCHANGED vars
    BY <1>6 DEF vars, IInv, TypeOK, CountersMatchState
  <1>7. QED
    BY <1>1, <1>2, <1>3, <1>4, <1>5, <1>6 DEF Next

\* The inductive invariant holds throughout.
LEMMA InvHolds == Spec => []IInv
  BY InitInv, StepInv, PTL DEF Spec

\* For every Config the breaker's counters stay within the bounds at which
\* OnSuccess and OnFailure act on them.
THEOREM TypeCorrect == Spec => []TypeOK
  BY InvHolds, PTL DEF IInv

\* For every Config and any number of goroutines the counters always belong
\* to the breaker's state (breaker.go:94-120).
THEOREM CountersCorrect == Spec => []CountersMatchState
  BY InvHolds, PTL DEF IInv

-----------------------------------------------------------------------------
\* An open breaker is left only for HalfOpen, only after OpenTimeout, and no
\* report that arrives while it is open restarts its timeout.
THEOREM OpenHolds == Spec => OpenHoldsForTimeout
  <1>1. IInv /\ [Next]_vars =>
          [state = Open =>
             \/ state' = Open /\ sinceOpened' >= sinceOpened
             \/ state' = HalfOpen /\ sinceOpened >= OpenTimeout]_vars
    <2> SUFFICES ASSUME IInv, Next, state = Open
                 PROVE  \/ state' = Open /\ sinceOpened' >= sinceOpened
                        \/ state' = HalfOpen /\ sinceOpened >= OpenTimeout
      OBVIOUS
    <2> sinceOpened \in Int
      BY Bounds DEF IInv, TypeOK
    <2>1. CASE State
      BY <2>1 DEF State, checkOpenTimeout
    <2>2. CASE Tick
      BY <2>2 DEF Tick
    <2>3. ASSUME NEW c \in Callers, Allow(c) \/ OnSuccess(c) \/ OnFailure(c)
          PROVE  \/ state' = Open /\ sinceOpened' >= sinceOpened
                 \/ state' = HalfOpen /\ sinceOpened >= OpenTimeout
      <3>1. CASE Allow(c)
        BY <3>1 DEF Allow, checkOpenTimeout, Count
      <3>2. CASE OnSuccess(c)
        BY <3>2 DEF OnSuccess, Count
      <3>3. CASE OnFailure(c)
        BY <3>3 DEF OnFailure, DropWhenOpen, breaker, Count
      <3>4. QED
        BY <2>3, <3>1, <3>2, <3>3
    <2>4. QED
      BY <2>1, <2>2, <2>3 DEF Next
  <1>2. QED
    BY <1>1, InvHolds, PTL DEF Spec, OpenHoldsForTimeout

\* A Config that leaves HalfOpenMaxSuccess at zero or below: once a tripped
\* breaker has no older request outstanding, it never closes again.
THEOREM ZeroGoalStays == Spec => ZeroGoalStrands
  <1> DEFINE Idle == \A c \in Callers : pending[c] = "none"
             Stays == HalfOpenMaxSuccess <= 0 /\ state # Closed /\ Idle =>
                        state' # Closed /\ (\A c \in Callers : pending'[c] = "none")
  <1>1. IInv /\ [Next]_vars => [Stays]_vars
    <2> SUFFICES ASSUME IInv, Next, HalfOpenMaxSuccess <= 0, state # Closed, Idle
                 PROVE  state' # Closed /\ (\A c \in Callers : pending'[c] = "none")
      OBVIOUS
    <2>1. CASE State
      BY <2>1 DEF State, checkOpenTimeout, Aged
    <2>2. CASE Tick
      BY <2>2 DEF Tick
    <2>3. ASSUME NEW c \in Callers, Allow(c)
          PROVE  state' # Closed /\ (\A d \in Callers : pending'[d] = "none")
      <3>1. state' # Closed
        BY <2>3 DEF Allow, checkOpenTimeout
      <3>2. ~ProbeSlot
        BY <2>3, Bounds DEF Allow, checkOpenTimeout, ProbeSlot, IInv, TypeOK
      <3>3. Settle(c, "none")
        BY <2>3, <3>1, <3>2 DEF Allow
      <3>4. QED
        BY <3>1, <3>3 DEF Settle, Aged
    <2>4. ASSUME NEW c \in Callers, OnSuccess(c) \/ OnFailure(c) PROVE FALSE
      BY <2>4 DEF OnSuccess, OnFailure
    <2>5. QED
      BY <2>1, <2>2, <2>3, <2>4 DEF Next
  <1>2. QED
    BY <1>1, InvHolds, PTL DEF Spec, ZeroGoalStrands

=============================================================================
