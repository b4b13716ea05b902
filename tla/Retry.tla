------------------------------- MODULE Retry -------------------------------
(***************************************************************************)
(* retry/retry.go and retry/backoff.go: one Do with its attempts, the      *)
(* back-off between them and a context that may be cancelled (or run out)  *)
(* at any moment.  Calls of Do share nothing, so one is enough.            *)
(*                                                                         *)
(* fn is the caller's: it returns when and what it likes.  An error is its *)
(* status code, or NoStatus where status.FromError finds none.  Delays are *)
(* whole ticks of the clock; time.Duration(delay) truncates.  Jitter is in *)
(* tenths.                                                                 *)
(***************************************************************************)
EXTENDS Integers, Sequences

CONSTANTS
    Codes,      \* gRPC status codes of errors
    NoStatus,   \* an error without a status
    Configs     \* the Configs Do may be called with

ASSUME ErrorsAreApart == NoStatus \notin Codes /\ "ok" \notin Codes \cup {NoStatus}

ASSUME ConfigsAreTyped ==
    Configs \subseteq [MaxAttempts : Int, BaseDelay : Nat, MaxDelay : Nat, Jitter : Nat,
                       RetryCodes : SUBSET Codes]

VARIABLES
    cfg,
    at,         \* where Do is: "fn", "failed", "select", or "returned"
    i,          \* the loop variable
    timer,      \* what is left of the back-off delay
    ctxDone,    \* ctx.Done() is closed
    returned,   \* what Do has returned: "ok", an error of fn, or "ctx"
    results     \* history: what the calls of fn have returned

vars == <<cfg, at, i, timer, ctxDone, returned, results>>

Errors == Codes \cup {NoStatus}

Init ==
    /\ cfg \in Configs
    /\ at = "fn" /\ i = 0 /\ timer = 0
    /\ ctxDone \in BOOLEAN
    /\ returned = "nothing"
    /\ results = <<>>

-----------------------------------------------------------------------------
\* Mutant: values below 1 are not corrected.
AttemptsAsGiven == cfg.MaxAttempts

attempts == IF cfg.MaxAttempts > 1 THEN cfg.MaxAttempts ELSE 1

Return(x) ==
    /\ at' = "returned" /\ returned' = x
    /\ UNCHANGED <<cfg, i, timer, ctxDone>>

\* fn(ctx) returns.
FnSucceeds ==
    /\ at = "fn"
    /\ results' = Append(results, "ok")
    /\ Return("ok")

FnFails(e) ==
    /\ at = "fn"
    /\ results' = Append(results, e)
    /\ at' = "failed"
    /\ UNCHANGED <<cfg, i, timer, ctxDone, returned>>

Err == results[Len(results)]

\* Mutant: the code of the error does not matter.
RetriesAnything(e) == TRUE

Retryable(e) == e \in cfg.RetryCodes

GiveUp ==
    /\ at = "failed"
    /\ i = attempts - 1 \/ ~Retryable(Err)
    /\ Return(Err)
    /\ UNCHANGED results

\* Mutant: MaxDelay is not applied.
Uncapped(delay) == delay

Cap(delay) == IF delay > cfg.MaxDelay THEN cfg.MaxDelay ELSE delay

\* math.Pow(2, n).
Pow2[n \in Nat] == IF n = 0 THEN 1 ELSE 2 * Pow2[n - 1]

\* backoff: the delays it may return.  With jitter the capped delay is moved by
\* any amount up to that many tenths of it (rounding included), and never below
\* zero.
backoff(attempt) ==
    LET delay == Cap(cfg.BaseDelay * Pow2[attempt])
        low == delay * (10 - cfg.Jitter)
        high == delay * (10 + cfg.Jitter)
    IN  {(IF t < 0 THEN 0 ELSE t) \div 10 : t \in low..high}

BackOff ==
    /\ at = "failed"
    /\ i # attempts - 1 /\ Retryable(Err)
    /\ timer' \in backoff(i)
    /\ at' = "select"
    /\ UNCHANGED <<cfg, i, ctxDone, returned, results>>

\* Mutant: the timer case is forgotten.
NeverFired == FALSE

Fired == timer = 0

\* Mutant: the context is looked at only once the timer has fired.
DoneAfterTimer == ctxDone /\ Fired

Done == ctxDone

\* The two cases of the select; when both are ready, it takes either.
CtxCase ==
    /\ at = "select"
    /\ Done
    /\ Return("ctx")
    /\ UNCHANGED results

TimerCase ==
    /\ at = "select"
    /\ Fired
    /\ at' = "fn"
    /\ i' = i + 1
    /\ UNCHANGED <<cfg, timer, ctxDone, returned, results>>

Tick ==
    /\ at = "select" /\ timer > 0
    /\ timer' = timer - 1
    /\ UNCHANGED <<cfg, at, i, ctxDone, returned, results>>

\* The caller cancels the context, or its deadline passes.
Cancel ==
    /\ ~ctxDone
    /\ ctxDone' = TRUE
    /\ UNCHANGED <<cfg, at, i, timer, returned, results>>

Fn == FnSucceeds \/ \E e \in Errors : FnFails(e)
Do == GiveUp \/ BackOff \/ CtxCase \/ TimerCase

Next == Fn \/ Do \/ Tick \/ Cancel

Spec == Init /\ [][Next]_vars

\* fn returns and the goroutine of Do is scheduled; whether the clock goes on is
\* left open.
FairSpec == Spec /\ WF_vars(Fn) /\ WF_vars(Do)

-----------------------------------------------------------------------------
(***************************************************************************)
(*                              Properties                                 *)
(***************************************************************************)

\* The types of the state, and what its parts have to do with each other: attempt i
\* is the call of fn after i failures (retry/retry.go:44-69), no attempt beyond
\* MaxAttempts is begun.
TypeOK ==
    /\ cfg \in Configs
    /\ at \in {"fn", "failed", "select", "returned"}
    /\ i \in Nat /\ timer \in Nat
    /\ ctxDone \in BOOLEAN
    /\ results \in Seq(Errors \cup {"ok"})
    /\ returned \in Errors \cup {"ok", "ctx", "nothing"}
    /\ Len(results) = IF at = "fn" THEN i ELSE i + 1
    /\ i = 0 \/ i < cfg.MaxAttempts

Last == Len(results)

\* retry/retry.go:34-39: Do passes on the result of the last call of fn, or the
\* context's error when the context is done; whatever came before was retryable;
\* it gives up only on an error that is not, or after MaxAttempts calls.
HonestOutcome ==
    at = "returned" =>
        /\ \A k \in 1..(Last - 1) : results[k] \in cfg.RetryCodes
        /\ \/ returned = "ok" /\ results[Last] = "ok"
           \/ /\ returned = results[Last] /\ returned \in Errors
              /\ returned \in cfg.RetryCodes => Last >= cfg.MaxAttempts
           \/ /\ returned = "ctx" /\ ctxDone
              /\ results[Last] \in cfg.RetryCodes /\ Last < cfg.MaxAttempts

\* retry/retry.go:17-26: the back-off before retry i + 1 is BaseDelay * 2^i, capped
\* at MaxDelay, moved by no more than the jitter in either direction: without
\* jitter it is exactly that delay, with any jitter it never falls short of it or
\* exceeds it by more (time.Duration truncates to a whole tick).
DelayBounded ==
    [][at = "failed" /\ at' = "select" =>
         \E delay \in {cfg.MaxDelay, cfg.BaseDelay * Pow2[i]} :
            /\ delay <= cfg.MaxDelay /\ delay <= cfg.BaseDelay * Pow2[i]
            /\ 10 * timer' <= delay * (10 + cfg.Jitter)
            /\ 10 * (timer' + 1) > delay * (10 - cfg.Jitter)]_vars

\* retry/retry.go:60-68: a cancellation ends Do even if the back-off timer never
\* fires, and however often the select prefers a timer that has.
CancelEndsDo == ctxDone ~> at = "returned"

\* retry/retry.go:34-36: with a clock that goes on, Do returns.
EveryDoReturns == WF_vars(Tick) => <>(at = "returned")

=============================================================================
