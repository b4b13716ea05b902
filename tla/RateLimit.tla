----------------------------- MODULE RateLimit -----------------------------
(***************************************************************************)
(* interceptors/ratelimit.go and ratelimit/limiter.go: the global limiter, *)
(* the per-group limiters that are created when the first call needs them, *)
(* and the calls that compete for their tokens.                            *)
(*                                                                         *)
(* golang.org/x/time/rate is external: a bucket that starts with burst     *)
(* tokens, gains limit tokens per second up to burst, and gives one token  *)
(* to an Allow that finds one.  Tokens are counted in units of 1/cost, so  *)
(* that the rate Rate/Window stays an integer: a tick of the clock brings  *)
(* Rate units and a token costs Window.                                    *)
(*                                                                         *)
(* groupLimiter resolves the method a second time, for the name; the       *)
(* groups do not change, so the result of the first Resolve stands for     *)
(* both.  A nil resolver behaves like one without groups.                  *)
(***************************************************************************)
EXTENDS Policy

CONSTANTS
    Names,         \* group names
    GlobalRate,    \* rps of the global limiter
    GlobalBurst,   \* burst of the global limiter
    Span           \* how many ticks the history goes back

\* RateLimitUnary and RateLimitStream make a rateLimitState each.
Kinds == {"unary", "stream"}

\* Resolvers made by Group, Exact, Prefix, Regex and Policy.  Windows are
\* positive: Rate / 0 is an infinite rate, which the bucket here does not have.
Limits == [Rate : Nat, Window : Nat \ {0}]
Groups == [name : Names, rules : Seq(Rules), limit : Limits \cup {None}]

ASSUME ResolverAssumption == \A gs \in Resolvers : gs \in Seq(Groups)

ASSUME LimitAssumption == GlobalRate \in Nat /\ GlobalBurst \in Nat /\ Span \in Nat

\* What a rate.Limiter consists of.
Buckets == [cost : Nat \ {0}, gain : Nat, cap : Nat, units : Nat]

ASSUME NoneAssumption == None \notin Nat \cup Names \cup Limits \cup Buckets

VARIABLES
    call,       \* call[r]: the call in slot r
    limiters,   \* the buckets: the global one and rateLimitState.groups
    since       \* history: since[t][a], calls of target t admitted in a ticks

vars == <<groups, look, call, limiters, since>>

Global == <<"global", None>>
BucketIds == {Global} \cup (Kinds \X Names)

\* The calls the history tells apart: per kind of rateLimitState, those of each
\* group; and together all those without a limit of their own.
Targets(gs) == {Global} \cup (Kinds \X DOMAIN gs)

\* rate.NewLimiter(gain/cost, cap/cost): a full bucket.
Bucket(cost, gain, cap) == [cost |-> cost, gain |-> gain, cap |-> cap, units |-> cap]

NewGroupLimiter(rl) == Bucket(rl.Window, rl.Rate, rl.Rate * rl.Window)

NoCall == [at |-> "idle", kind |-> None, limiter |-> None]

Init ==
    /\ PolicyInit
    /\ call = [r \in Reqs |-> NoCall]
    /\ limiters = [b \in BucketIds |->
                     IF b = Global THEN Bucket(1, GlobalRate, GlobalBurst) ELSE None]
    /\ since = [t \in Targets(groups) |-> [a \in 0..Span |-> 0]]

-----------------------------------------------------------------------------
\* The interceptor is called; limiterFor starts to resolve the method.
Arrive(r, kind, m) ==
    /\ call[r].at = "idle"
    /\ Resolve(r, m)
    /\ call' = [call EXCEPT ![r] = [NoCall EXCEPT !.at = "resolve", !.kind = kind]]
    /\ UNCHANGED <<limiters, since>>

Resolving(r) == Looking(r) /\ UNCHANGED <<call, limiters, since>>

RuleFor(r) == IF look[r].best = None THEN None ELSE groups[look[r].best].limit

\* limiterFor and groupLimiter are done: r goes on to Allow.
Found(r, b) ==
    /\ call[r].at = "resolve" /\ look[r].at = "resolved"
    /\ call' = [call EXCEPT ![r].at = "allow", ![r].limiter = b]
    /\ UNCHANGED <<groups, look, since>>

\* No group, or a group without a RateLimit.
UseGlobal(r) ==
    /\ RuleFor(r) = None
    /\ Found(r, Global)
    /\ UNCHANGED limiters

\* Mutant: the limiters are not told apart by the name of the group.
KeyWithoutName(r) == <<call[r].kind, CHOOSE n \in Names : TRUE>>

KeyOf(r) == <<call[r].kind, groups[look[r].best].name>>

\* Mutant: the map is not consulted.
AlwaysAbsent(b) == TRUE

\* Mutant: what the map returns is used without asking whether it was there.
NeverAbsent(b) == FALSE

Absent(b) == limiters[b] = None

UseGroup(r) ==
    /\ RuleFor(r) # None
    /\ ~Absent(KeyOf(r))
    /\ Found(r, KeyOf(r))
    /\ UNCHANGED limiters

CreateGroup(r) ==
    /\ RuleFor(r) # None
    /\ Absent(KeyOf(r))
    /\ limiters' = [limiters EXCEPT ![KeyOf(r)] = NewGroupLimiter(RuleFor(r))]
    /\ Found(r, KeyOf(r))

TargetOf(r) == IF RuleFor(r) = None THEN Global ELSE <<call[r].kind, look[r].best>>

\* The interceptor is done with r: the handler runs, or errRateLimited is returned.
Done(r) ==
    /\ call' = [call EXCEPT ![r] = NoCall]
    /\ look' = [look EXCEPT ![r] = NoLook]

\* Allow: a token is taken, or there is none.
Affordable(b) == b.units >= b.cost

Admit(r) ==
    LET b == call[r].limiter IN
    /\ call[r].at = "allow"
    /\ Affordable(limiters[b])
    /\ limiters' = [limiters EXCEPT ![b].units = @ - limiters[b].cost]
    /\ Done(r)
    /\ since' = [since EXCEPT ![TargetOf(r)] = [a \in 0..Span |-> @[a] + 1]]
    /\ UNCHANGED groups

Refuse(r) ==
    /\ call[r].at = "allow"
    /\ ~Affordable(limiters[call[r].limiter])
    /\ Done(r)
    /\ UNCHANGED <<groups, limiters, since>>

Refill(b) ==
    [b EXCEPT !.units = IF b.units + b.gain < b.cap THEN b.units + b.gain ELSE b.cap]

Tick ==
    /\ limiters' = [b \in BucketIds |->
                      IF limiters[b] = None THEN None ELSE Refill(limiters[b])]
    /\ since' = [t \in Targets(groups) |->
                   [a \in 0..Span |-> IF a = 0 THEN 0 ELSE since[t][a - 1]]]
    /\ UNCHANGED <<groups, look, call>>

Next ==
    \/ \E r \in Reqs :
          \/ \E kind \in Kinds, m \in FullMethods : Arrive(r, kind, m)
          \/ Resolving(r)
          \/ UseGlobal(r) \/ UseGroup(r) \/ CreateGroup(r)
          \/ Admit(r) \/ Refuse(r)
    \/ Tick

Spec == Init /\ [][Next]_vars

-----------------------------------------------------------------------------
(***************************************************************************)
(*                              Properties                                 *)
(***************************************************************************)

\* The types of the state; a limiter that a call goes on with exists, and no bucket
\* (ratelimit/limiter.go:15-22) holds more than its burst.
TypeOK ==
    /\ groups \in Resolvers
    /\ \A r \in Reqs :
         /\ call[r].at \in {"idle", "resolve", "allow"}
         /\ call[r].kind \in Kinds \cup {None}
         /\ look[r].at \in {"idle", "looking", "resolved"}
         /\ look[r].best \in DOMAIN groups \cup {None}
         /\ call[r].at = "allow" => /\ call[r].limiter \in BucketIds
                                    /\ limiters[call[r].limiter] # None
    /\ \A b \in BucketIds : limiters[b] # None =>
         limiters[b] \in Buckets /\ limiters[b].units <= limiters[b].cap
    /\ since \in [Targets(groups) -> [0..Span -> Nat]]

\* Resolve returns the group of the rule that policy/resolver.go:14-22 ranks first.
ResolvesToBest ==
    \A r \in Reqs : look[r].at = "resolved" => IsBest(look[r].best, look[r].method)

\* The groups of a resolver share limiters when they share a name
\* (interceptors/ratelimit.go:41-54).
OwnName(g) == \A h \in DOMAIN groups \ {g} : groups[h].name # groups[g].name

\* The limit of a target.
Limited(t) == t # Global => OwnName(t[2]) /\ groups[t[2]].limit # None

Budget(t) ==
    IF t = Global THEN [cost |-> 1, gain |-> GlobalRate, cap |-> GlobalBurst]
    ELSE LET rl == groups[t[2]].limit
         IN  [cost |-> rl.Window, gain |-> rl.Rate, cap |-> rl.Rate * rl.Window]

\* interceptors/ratelimit.go:39-54: however the first calls of a group race for its
\* limiter, each of the two rateLimitStates admits in any stretch of a ticks no more
\* of the group's calls than one burst and what the rate brings in a ticks; and
\* likewise for the calls that share the global limiter.  This is what the code
\* holds on to; DocumentedRate below is what policy/group.go promises.
WithinBudget ==
    \A t \in Targets(groups) : Limited(t) => \A a \in 0..Span :
        Budget(t).cost * since[t][a] <= Budget(t).cap + a * Budget(t).gain

\* The calls admitted in the last a ticks that fall under the limit of t, whichever
\* kind they are of.
Admitted(t, a) ==
    IF t = Global THEN since[t][a]
    ELSE since[<<"unary", t[2]>>][a] + since[<<"stream", t[2]>>][a]

\* interceptors/ratelimit.go:56-59: a call is refused only when the limit that applies
\* to its own method is used up: in the last a ticks, where a is what an empty
\* bucket takes to fill, a whole burst of calls under that limit has been
\* admitted.  What other groups do never gets a call refused.
RefusedOnlyWhenSpent ==
    [][\A r \in Reqs : Refuse(r) /\ Limited(TargetOf(r)) =>
         LET b == Budget(TargetOf(r)) IN
         \A a \in 0..Span :
            a * b.gain >= b.cap => b.cost * (Admitted(TargetOf(r), a) + 1) > b.cap]_vars

\* policy/group.go:10, "Rate is the maximum number of requests allowed within Window"
\* for the methods of a group: no Window ticks in a row see more of its calls
\* admitted than Rate.  Does not hold: the bucket starts with Rate tokens and refills
\* while they are spent, and unary and streaming calls have a bucket each.
DocumentedRate ==
    \A t \in Targets(groups) \ {Global} : Limited(t) =>
        LET rl == groups[t[2]].limit IN
        \A a \in 0..Span : a < rl.Window => Admitted(t, a) <= rl.Rate

=============================================================================
