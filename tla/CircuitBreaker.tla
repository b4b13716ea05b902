--------------------------- MODULE CircuitBreaker ---------------------------
(***************************************************************************)
(* breaker/breaker.go: one *Breaker shared by several goroutines.          *)
(*                                                                         *)
(* Every exported method holds b.mu from its first to its last line, so    *)
(* each call is one step.  A caller asks Allow(), performs its request if  *)
(* it was admitted, and later reports OnSuccess() or OnFailure(); between  *)
(* the admission and the report any other caller, and the clock, may move. *)
(*                                                                         *)
(* time.Time is abstracted to the only thing the code asks of it:          *)
(* sinceOpened is now() - openedAt in clock ticks, saturated at            *)
(* OpenTimeout, because checkOpenTimeout compares it with OpenTimeout and  *)
(* nothing else reads it.  The model therefore needs no bound on time.     *)
(***************************************************************************)
EXTENDS Integers

CONSTANTS
    Callers,   \* the goroutines that share the breaker
    Configs    \* the Configs that New is called with

\* OpenTimeout is in ticks of the clock.
Config == [FailureThreshold: Int, OpenTimeout: Int, HalfOpenMaxSuccess: Int]

ASSUME ConfigAssumption == Configs \subseteq Config

Closed   == "Closed"
Open     == "Open"
HalfOpen == "HalfOpen"

VARIABLES
    cfg,          \* Breaker.cfg
    state,        \* Breaker.state
    failures,     \* Breaker.failures
    successes,    \* Breaker.successes
    sinceOpened,  \* now() - Breaker.openedAt, saturated
    pending,      \* pending[c]: the request c has outstanding, by how it was
                  \* admitted; "stale" once the breaker has since changed state
    probes,       \* history: the requests admitted in the latest HalfOpen period
    probeWins     \* history: those of them that reported success in that period

breaker == <<state, failures, successes, sinceOpened>>
vars    == <<cfg, state, failures, successes, sinceOpened, pending, probes, probeWins>>

FailureThreshold   == cfg.FailureThreshold
OpenTimeout        == cfg.OpenTimeout
HalfOpenMaxSuccess == cfg.HalfOpenMaxSuccess

Saturation == IF OpenTimeout > 0 THEN OpenTimeout ELSE 0
TripPoint  == IF FailureThreshold > 1 THEN FailureThreshold ELSE 1
ProbeGoal  == IF HalfOpenMaxSuccess > 1 THEN HalfOpenMaxSuccess ELSE 1

-----------------------------------------------------------------------------
\* New stores any Config as it is; Closed, and openedAt is the zero time, longer ago than any timeout.
Init ==
    /\ cfg \in Configs
    /\ state = Closed
    /\ failures = 0
    /\ successes = 0
    /\ sinceOpened = Saturation
    /\ pending = [c \in Callers |-> "none"]
    /\ probes = 0
    /\ probeWins = 0

\* Outstanding requests outlive the period they were admitted in.
Aged(d) == IF state' # state /\ pending[d] # "none" THEN "stale" ELSE pending[d]

\* c's request ends (or is refused); everybody else's only ages.
Settle(c, how) == pending' = [d \in Callers |-> IF d = c THEN how ELSE Aged(d)]

checkOpenTimeout ==
    IF state = Open /\ sinceOpened >= OpenTimeout
    THEN state' = HalfOpen /\ successes' = 0
    ELSE UNCHANGED <<state, successes>>

toOpen ==
    /\ state' = Open
    /\ sinceOpened' = 0
    /\ successes' = 0

\* The history of a HalfOpen period is counted from its first step on.
Count(admitted, won) ==
    LET Sofar(n) == IF state # HalfOpen /\ state' = HalfOpen THEN 0 ELSE n
    IN  /\ probes' = Sofar(probes) + (IF admitted THEN 1 ELSE 0)
        /\ probeWins' = Sofar(probeWins) + (IF won THEN 1 ELSE 0)

-----------------------------------------------------------------------------
\* State(): reading the state may move it.
State ==
    /\ checkOpenTimeout
    /\ pending' = [d \in Callers |-> Aged(d)]
    /\ Count(FALSE, FALSE)
    /\ UNCHANGED <<cfg, failures, sinceOpened>>

\* Mutant: the remaining slots are compared with <=.
ProbeSlotOrOneMore == successes' <= HalfOpenMaxSuccess

ProbeSlot == successes' < HalfOpenMaxSuccess

\* Allow(): the cases of its switch, on the state checkOpenTimeout leaves.
Allow(c) ==
    /\ pending[c] = "none"
    /\ checkOpenTimeout
    /\ \/ /\ state' = Closed
          /\ Settle(c, "normal")
       \/ /\ state' = HalfOpen
          /\ ProbeSlot
          /\ Settle(c, "probe")
       \/ /\ state' = Open \/ (state' = HalfOpen /\ ~ProbeSlot)
          /\ Settle(c, "none")
    /\ Count(pending'[c] = "probe", FALSE)
    /\ UNCHANGED <<cfg, failures, sinceOpened>>

\* Mutant: one success more than asked for is needed.
GoalExceeded == successes + 1 > HalfOpenMaxSuccess

GoalReached == successes + 1 >= HalfOpenMaxSuccess

\* Mutant: closing forgets to clear the failures that tripped the breaker.
CloseOnly == state' = Closed /\ successes' = 0 /\ UNCHANGED failures

CloseAndReset == state' = Closed /\ failures' = 0 /\ successes' = 0

\* OnSuccess(): a report that finds the breaker Open falls through the switch.
OnSuccess(c) ==
    /\ pending[c] # "none"
    /\ \/ /\ state = Closed
          /\ failures' = 0
          /\ UNCHANGED <<state, successes>>
       \/ /\ state = HalfOpen
          /\ GoalReached
          /\ CloseAndReset
       \/ /\ state = HalfOpen
          /\ ~GoalReached
          /\ successes' = successes + 1
          /\ UNCHANGED <<state, failures>>
       \/ /\ state = Open
          /\ UNCHANGED <<state, failures, successes>>
    /\ Settle(c, "none")
    /\ Count(FALSE, pending[c] = "probe")
    /\ UNCHANGED <<cfg, sinceOpened>>

\* Mutant: a failure reported to an open breaker trips it again.
RearmWhenOpen == toOpen /\ UNCHANGED failures

\* The switch of OnFailure has no case for Open: the report is dropped.
DropWhenOpen == UNCHANGED breaker

OnFailure(c) ==
    /\ pending[c] # "none"
    /\ \/ /\ state = Closed
          /\ failures' = failures + 1
          /\ failures + 1 >= FailureThreshold
          /\ toOpen
       \/ /\ state = Closed
          /\ failures' = failures + 1
          /\ failures + 1 < FailureThreshold
          /\ UNCHANGED <<state, successes, sinceOpened>>
       \/ /\ state = HalfOpen
          /\ toOpen
          /\ UNCHANGED failures
       \/ /\ state = Open
          /\ DropWhenOpen
    /\ Settle(c, "none")
    /\ Count(FALSE, FALSE)
    /\ UNCHANGED cfg

\* The clock b.now() reads.
Tick ==
    /\ sinceOpened < Saturation
    /\ sinceOpened' = sinceOpened + 1
    /\ UNCHANGED <<cfg, state, failures, successes, pending, probes, probeWins>>

Next ==
    \/ State
    \/ Tick
    \/ \E c \in Callers : Allow(c) \/ OnSuccess(c) \/ OnFailure(c)

Spec == Init /\ [][Next]_vars

\* Time passes, every caller keeps coming back with requests, and every
\* admitted request ends and is reported.  None of this is fairness of the
\* breaker itself, which takes no step of its own.
Fairness ==
    /\ WF_vars(Tick)
    /\ \A c \in Callers :
          /\ WF_vars(Allow(c))
          /\ WF_vars(OnSuccess(c) \/ OnFailure(c))

FairSpec == Spec /\ Fairness

-----------------------------------------------------------------------------
(***************************************************************************)
(*                              Properties                                 *)
(***************************************************************************)

\* The variables have their types, and no counter runs past the value at
\* which its method acts on it.
TypeOK ==
    /\ cfg \in Config
    /\ state \in {Closed, Open, HalfOpen}
    /\ failures \in 0..TripPoint
    /\ successes \in 0..(ProbeGoal - 1)
    /\ sinceOpened \in 0..Saturation
    /\ pending \in [Callers -> {"none", "normal", "probe", "stale"}]
    /\ probes \in Nat
    /\ probeWins \in Nat

\* The counters always belong to the state.  A closed breaker is below its
\* threshold (it trips on the very failure that reaches it) and carries no
\* probe successes over; a breaker that is not closed still holds the full
\* count that tripped it, because toOpen does not clear it and late reports
\* do not touch it, so only closing may clear it.
CountersMatchState ==
    /\ state = Closed => failures < TripPoint /\ successes = 0
    /\ state # Closed => failures = TripPoint
    /\ state = Open => successes = 0

\* An open breaker stays open for the whole timeout: reports that arrive late,
\* from requests admitted before it tripped, neither close it, nor restart its
\* timeout, and it is left only for HalfOpen.
OpenHoldsForTimeout ==
    [][state = Open =>
         \/ state' = Open /\ sinceOpened' >= sinceOpened
         \/ state' = HalfOpen /\ sinceOpened >= OpenTimeout]_vars

\* With HalfOpenMaxSuccess <= 0 (the zero Config) a tripped breaker admits
\* no probe, so once no older request is outstanding it never closes again.
ZeroGoalStrands ==
    [][HalfOpenMaxSuccess <= 0 /\ state # Closed /\ (\A c \in Callers : pending[c] = "none") =>
         state' # Closed /\ (\A c \in Callers : pending'[c] = "none")]_vars

\* If at least one success is asked for: once requests stop failing the breaker
\* ends up closed for good, whatever state it was in and whatever older requests
\* still report.
HealsWithDependency ==
    HalfOpenMaxSuccess >= 1 /\ <>[][\A c \in Callers : ~OnFailure(c)]_vars
      => <>[](state = Closed)

\* breaker.go:6-7, "a limited number of probe requests are allowed through; if
\* all succeed the breaker closes", and :71, "remaining probe slots": a HalfOpen
\* period admits at most HalfOpenMaxSuccess requests, and what closes the breaker
\* is that all of them have succeeded.  The code keeps neither half: Allow
\* compares the successes reported so far, not the requests let through, and
\* OnSuccess counts the report of a request from before the trip as a probe's.
OnlyProbesDecide ==
    [][/\ state' = HalfOpen => probes' <= HalfOpenMaxSuccess
       /\ state = HalfOpen /\ state' = Closed => probeWins' = probes]_vars

=============================================================================
