-------------------------- MODULE MCCircuitBreaker --------------------------
(***************************************************************************)
(* Finite instances of CircuitBreaker for TLC.                             *)
(***************************************************************************)
EXTENDS CircuitBreaker

Cfg(threshold, timeout, goal) ==
    [FailureThreshold |-> threshold, OpenTimeout |-> timeout, HalfOpenMaxSuccess |-> goal]

\* An ordinary Config, one that differs from it in every comparison, one at the
\* smallest sensible values, one that asks for no success and the zero Config.
MCConfigs == {Cfg(3, 2, 3), Cfg(2, 3, 2), Cfg(1, 1, 1), Cfg(2, 1, 0), Cfg(0, 0, 0)}

=============================================================================
