------------------------------ MODULE Pipeline ------------------------------
(***************************************************************************)
(* The life of a server: NewServer (module Assembly), then calls that run  *)
(* through the interceptor chain (interceptors/*.go, tracing) to the       *)
(* handler and back.                                                       *)
(*                                                                         *)
(* A call at position i of phase "down" has been handed to interceptor i   *)
(* (to the handler if i is one past the end of the chain); in phase "up"   *)
(* control has come back to interceptor i with the result out, or with a   *)
(* panic that unwinds the stack.  ChainUnary and ChainStream nest the      *)
(* interceptors, so what interceptor i calls is i + 1 and what it returns  *)
(* goes to i - 1.                                                          *)
(*                                                                         *)
(* User code (AuthFunc, custom interceptors, the handler) may return what  *)
(* it likes, or panic; so may the tracer the caller has configured.        *)
(* A slot of Reqs serves one call after another.                           *)
(***************************************************************************)
EXTENDS Assembly

CONSTANT Reqs    \* slots for concurrent calls

VARIABLES
    req,      \* the calls
    crashed   \* a panic has reached the top of a goroutine's stack

requestVars == <<req, crashed>>
vars == <<cfg, chain, built, req, crashed>>

\* Errors with a gRPC status, by code; "Error" stands for those of user code, and
\* for its plain errors, which are Unknown to everyone.
Codes == {"OK", "PermissionDenied", "ResourceExhausted", "Unauthenticated",
          "Internal", "Error"}

Panics == {"Panic", "TracerPanic"}

\* What may be on its way up: "ContextError" is an error of the context that user
\* code returns as it is, without a status.
Outs == Codes \cup {"ContextError"} \cup Panics

\* What the handler or a custom interceptor comes back with.
UserOuts == {"OK", "Error", "ContextError", "Panic"}

Idle == [phase |-> "idle", method |-> "unary", blocked |-> FALSE, at |-> 0,
         out |-> "OK", ctx |-> {}, seen |-> {}, denied |-> FALSE,
         handled |-> FALSE, open |-> 0, recorded |-> "none"]

PipelineInit ==
    /\ Init
    /\ req = [r \in Reqs |-> Idle]
    /\ crashed = FALSE

-----------------------------------------------------------------------------
Chain(r) == chain[req[r].method]

\* Control is with an interceptor of kind k, on the way down / on the way up.
Entering(r, k) ==
    /\ ~crashed
    /\ req[r].phase = "down" /\ req[r].at \in DOMAIN Chain(r)
    /\ Chain(r)[req[r].at].kind = k

Leaving(r, ks) ==
    /\ ~crashed
    /\ req[r].phase = "up" /\ req[r].at \in DOMAIN Chain(r)
    /\ Chain(r)[req[r].at].kind \in ks

\* The interceptor has run; it calls its handler argument ...
Saw(q, e) == [q EXCEPT !.seen = @ \cup {e}]
Calls(q) == [q EXCEPT !.at = @ + 1]
\* ... or returns (or panics) without.
Returns(q, code) == [q EXCEPT !.phase = "up", !.at = @ - 1, !.out = code]
Denies(q, code) == [Returns(q, code) EXCEPT !.denied = TRUE]

Seen(r) == Saw(req[r], Chain(r)[req[r].at])
Become(r, q) == req' = [req EXCEPT ![r] = q]
Enrich(q, x) == [q EXCEPT !.ctx = @ \cup {x}]

\* Mutant: the composed chain starts with its second interceptor.
FirstSkipped(m) == IF Len(chain[m]) > 1 THEN 2 ELSE 1

\* interceptors[0] is called first; an empty chain leaves the handler.
First(m) == 1

\* A client calls method m.  blocked: an installed IPBlocker will refuse it.
Arrive(r, m, blocked) ==
    /\ built /\ ~crashed
    /\ req[r].phase \in {"idle", "done"}
    /\ blocked => \E i \in DOMAIN chain[m] : chain[m][i].kind = "IPBlock"
    /\ Become(r, [Idle EXCEPT !.phase = "down", !.method = m, !.at = First(m), !.blocked = blocked])
    /\ UNCHANGED <<cfg, chain, built, crashed>>

Passes(r, q) == Become(r, q) /\ UNCHANGED <<cfg, chain, built, crashed>>

\* tracing: start a span; the unary context and the wrapped stream carry it.  The
\* caller's propagator or tracer may panic; a span that was started is ended by
\* the deferred End.
TracingEnter(r) ==
    /\ Entering(r, "Tracing")
    /\ \/ Passes(r, Calls(Enrich([Seen(r) EXCEPT !.open = @ + 1], "span")))
       \/ Passes(r, Returns(Seen(r), "TracerPanic"))

\* recovery: defer the recover and go on.
RecoveryEnter(r) ==
    /\ Entering(r, "Recovery")
    /\ Passes(r, Calls(Seen(r)))

IPBlockEnter(r) ==
    /\ Entering(r, "IPBlock")
    /\ Passes(r, IF req[r].blocked THEN Denies(Seen(r), "PermissionDenied")
                                   ELSE Calls(Seen(r)))

\* ratelimit: whether Limiter.Allow finds a token is up to module RateLimit.
RateLimitEnter(r) ==
    /\ Entering(r, "RateLimit")
    /\ \/ Passes(r, Calls(Seen(r)))
       \/ Passes(r, Denies(Seen(r), "ResourceExhausted"))

\* Mutant: the handler is called with the old context.
AuthContextDropped(q) == q

\* AuthUnary hands on the context that fn returned (fn adds the identity to the
\* one it was given); AuthStream drops it.
AuthContext(q) == IF q.method = "unary" THEN Enrich(q, "identity") ELSE q

\* auth: fn accepts; or fails with a status error, which is forwarded, or with
\* another error, which becomes Unauthenticated; or panics.
AuthEnter(r) ==
    /\ Entering(r, "Auth")
    /\ \/ Passes(r, Calls(AuthContext(Seen(r))))
       \/ \E code \in {"Error", "Unauthenticated"} : Passes(r, Denies(Seen(r), code))
       \/ Passes(r, Returns(Seen(r), "Panic"))

\* requestid: RequestIDStream only hands on.
RequestIDEnter(r) ==
    /\ Entering(r, "RequestID")
    /\ Passes(r, IF req[r].method = "unary" THEN Calls(Enrich(Seen(r), "requestID"))
                                            ELSE Calls(Seen(r)))

Custom == {"UnaryInterceptor", "StreamInterceptor"}

\* A custom interceptor goes on (once, with the context it was given), answers
\* itself, or panics.
CustomEnter(r) ==
    \E k \in Custom :
        /\ Entering(r, k)
        /\ \/ Passes(r, Calls(Seen(r)))
           \/ \E out \in UserOuts : Passes(r, Returns(Seen(r), out))

\* The handler is entered and returns or panics.
Handler(r, out) ==
    /\ ~crashed
    /\ req[r].phase = "down" /\ req[r].at = Len(Chain(r)) + 1
    /\ Passes(r, Returns([req[r] EXCEPT !.handled = TRUE], out))

\* status.FromError: an error without a status is Unknown.
SpanCode(out) == IF out = "ContextError" THEN "Unknown" ELSE out

\* Mutant: nothing is recorded of a call that failed.
RecordsSuccess(q) == [q EXCEPT !.recorded = IF q.out = "OK" THEN "OK" ELSE @]

\* recordStatus, which is not reached when the handler panics.
Records(q) == [q EXCEPT !.recorded = IF q.out \in Panics THEN @ ELSE SpanCode(q.out)]

\* Mutant: span.End is not deferred.
SpanEndsUnlessPanic(q) == IF q.out \in Panics THEN q ELSE [q EXCEPT !.open = @ - 1]

\* Mutant: the span is ended twice.
SpanEndsTwice(q) == [q EXCEPT !.open = @ - 2]

\* The deferred End runs whatever happens.
SpanEnds(q) == [q EXCEPT !.open = @ - 1]

\* The span may panic, before or after it has taken the code.
TracingLeave(r) ==
    /\ Leaving(r, {"Tracing"})
    /\ \/ Passes(r, Returns(SpanEnds(Records(req[r])), req[r].out))
       \/ \E q \in {req[r], Records(req[r])} :
             Passes(r, Returns(SpanEnds(q), "TracerPanic"))

\* Mutant: the deferred function does not call recover.
RecoveredNothing(out) == out

\* The deferred recover.
Recovered(out) == IF out \in Panics THEN "Internal" ELSE out

RecoveryLeave(r) ==
    /\ Leaving(r, {"Recovery"})
    /\ Passes(r, Returns(req[r], Recovered(req[r].out)))

\* A custom interceptor may change the result; it may panic too.
CustomLeave(r) ==
    /\ Leaving(r, Custom)
    /\ \/ \E out \in UserOuts : Passes(r, Returns(req[r], out))
       \/ Passes(r, Returns(req[r], req[r].out))

\* The others return what they were given.
PlainLeave(r) ==
    /\ Leaving(r, {"IPBlock", "RateLimit", "Auth", "RequestID"})
    /\ Passes(r, Returns(req[r], req[r].out))

\* grpc: status.FromError, and FromContextError if there is no status.
ClientCode(out) == IF out = "ContextError" THEN "Canceled" ELSE out

\* grpc: the outermost interceptor has returned and the client is answered;
\* a panic that gets here ends the process.  Of the call only what became of
\* it is kept.
Reply(r) ==
    /\ ~crashed
    /\ req[r].phase = "up" /\ req[r].at = 0
    /\ Become(r, [Idle EXCEPT !.phase = "done", !.method = req[r].method,
                              !.out = ClientCode(req[r].out),
                              !.recorded = req[r].recorded])
    /\ crashed' = (req[r].out \in Panics)
    /\ UNCHANGED <<cfg, chain, built>>

Down(r) ==
    \/ TracingEnter(r) \/ RecoveryEnter(r) \/ IPBlockEnter(r) \/ RateLimitEnter(r)
    \/ AuthEnter(r) \/ RequestIDEnter(r) \/ CustomEnter(r)
    \/ \E out \in UserOuts : Handler(r, out)

Up(r) == TracingLeave(r) \/ RecoveryLeave(r) \/ CustomLeave(r) \/ PlainLeave(r) \/ Reply(r)

Assemble == ~crashed /\ AssemblyNext /\ UNCHANGED requestVars

Next ==
    \/ Assemble
    \/ \E r \in Reqs : Down(r) \/ Up(r)
    \/ \E r \in Reqs, m \in Methods, blocked \in BOOLEAN : Arrive(r, m, blocked)

Spec == PipelineInit /\ [][Next]_vars

\* A call that is being served goes on: goroutines are scheduled, and user code
\* comes back.  Nobody has to call.
Fairness == \A r \in Reqs : WF_vars(Down(r) \/ Up(r))

FairSpec == Spec /\ Fairness

-----------------------------------------------------------------------------
(***************************************************************************)
(*                              Properties                                 *)
(***************************************************************************)

Request ==
    [phase: {"idle", "down", "up", "done"}, method: Methods, blocked: BOOLEAN, at: Nat,
     out: Outs \cup {"Canceled"}, ctx: SUBSET {"span", "identity", "requestID"},
     seen: SUBSET Entry, denied: BOOLEAN, handled: BOOLEAN, open: Nat,
     recorded: Codes \cup {"Unknown", "none"}]

\* The state has the shape of the code's; no span is ended that is not open and
\* no call returns to nowhere.
TypeOK ==
    /\ AssemblyTypeOK
    /\ req \in [Reqs -> Request]
    /\ crashed \in BOOLEAN

Installed(k) == \E i \in DOMAIN cfg.entries : cfg.entries[i].kind = k
SeenKinds(r) == {e.kind : e \in req[r].seen}

\* A handler runs only for a call that has been through every interceptor
\* installed for its kind of call, and that none of the gates has denied.
HandlerBehindGates ==
    \A r \in Reqs : req[r].handled =>
        /\ \A i \in DOMAIN Chain(r) : Chain(r)[i] \in req[r].seen
        /\ ~req[r].denied

\* docs/security.md:178-179, "blocked IPs are rejected before consuming
\* rate-limit tokens": with an IP blocker installed, a blocked call reaches no
\* limiter, no authentication, no custom interceptor and no handler.
BlockedCostsNothing ==
    \A r \in Reqs : Installed("IPBlock") /\ req[r].blocked =>
        /\ SeenKinds(r) \subseteq {"Tracing", "Recovery", "IPBlock"}
        /\ ~req[r].handled

\* docs/architecture.md:134, "Apply rate limits before authentication": the
\* AuthFunc only ever runs for calls to which every limiter gave a token.
AuthBehindLimiters ==
    \A r \in Reqs : "Auth" \in SeenKinds(r) =>
        \A i \in DOMAIN Chain(r) : Chain(r)[i].kind = "RateLimit" => Chain(r)[i] \in req[r].seen

\* options.go:44-46, "a panic inside a handler returns codes.Internal instead of
\* crashing the process"; the same for a panic of the AuthFunc or of a custom
\* interceptor.  A panic of the caller's tracer is not among them: tracing runs
\* outside of recovery.
PanicContained ==
    Installed("Recovery") => \A r \in Reqs : req[r].phase = "done" => req[r].out # "Panic"

\* The open spans of a call are those of the tracing interceptors it is inside
\* of: every span that is started is ended, by whatever way the call leaves.
SpansBalanced ==
    \A r \in Reqs :
        req[r].open = Cardinality({i \in DOMAIN Chain(r) :
            /\ Chain(r)[i].kind = "Tracing"
            /\ \/ req[r].phase = "down" /\ i < req[r].at
               \/ req[r].phase = "up" /\ i <= req[r].at})

\* options.go:194-196, "create a server span [...] and record [...] the gRPC
\* status code": when a call is answered its span carries the code that the
\* client gets, also after a panic that recovery, further in, has turned into
\* Internal.  The exception is a context error without a status: Canceled (or
\* DeadlineExceeded) for the client, Unknown in the span.
SpanTellsOutcome ==
    \A r \in Reqs :
        req[r].phase = "done" /\ Installed("Tracing") /\ req[r].out \notin Panics =>
            req[r].recorded = IF req[r].out = "Canceled" THEN "Unknown" ELSE req[r].out

\* In a unary call the handler's context has what the installed interceptors
\* add to it: span, identity and request ID.
UnaryContextComplete ==
    \A r \in Reqs : req[r].method = "unary" /\ req[r].handled =>
        /\ Installed("Tracing") => "span" \in req[r].ctx
        /\ Installed("Auth") => "identity" \in req[r].ctx
        /\ Installed("RequestID") => "requestID" \in req[r].ctx

\* With recovery installed every call is answered, with a code and not with a
\* panic, whatever the other calls do in the meantime: no panic of user code
\* takes the process down with this or another call unanswered.  Only a panic
\* of the caller's tracer does.
EveryCallAnswered ==
    \A r \in Reqs :
        (req[r].phase = "down" /\ Installed("Recovery"))
            ~> \/ req[r].phase = "done" /\ req[r].out \notin Panics
               \/ \E q \in Reqs : req[q].phase = "done" /\ req[q].out = "TracerPanic"

\* docs/security.md:23-24, the AuthFunc may "return an enriched context to
\* propagate identity downstream".  Does not hold: AuthStream drops it.
IdentityReachesHandler ==
    \A r \in Reqs : req[r].handled /\ Installed("Auth") =>
        "identity" \in req[r].ctx

=============================================================================
