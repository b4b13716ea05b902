------------------------------ MODULE Assembly ------------------------------
(***************************************************************************)
(* NewServer (server.go): the functional options are applied one after the *)
(* other to a config (options.go, config.go); MiddlewareBuilder.Build      *)
(* (internal/core/middleware.go) then sorts what they registered and       *)
(* splits it into the unary and the stream chain.                          *)
(*                                                                         *)
(* A middleware entry is the pair of interceptors that one Add registers.  *)
(* It is identified by the kind of the interceptor and by nth, its place   *)
(* among the entries of that kind (a second WithAuth registers another     *)
(* interceptor), and carries the one thing it captures from the config     *)
(* when its option runs: the policy resolver of the rate limiter.          *)
(***************************************************************************)
EXTENDS Naturals, Sequences, FiniteSets

CONSTANTS
    Supported,   \* names of the options the caller may pass
    MaxSame,     \* bound: entries of one kind
    MaxConfig    \* bound: entries, resolver and cache layers in all

Kinds == {"Tracing", "Recovery", "IPBlock", "RateLimit", "Auth", "RequestID",
          "UnaryInterceptor", "StreamInterceptor"}

Methods == {"unary", "stream"}

ASSUME BoundsAssumption == MaxSame \in Nat /\ MaxConfig \in Nat

VARIABLES
    cfg,      \* config: entries, resolver, l1, l2, cache
    chain,    \* the two interceptor slices handed to grpc.NewServer
    built     \* NewServer has returned

assemblyVars == <<cfg, chain, built>>

Entry == [kind: Kinds, nth: Nat \ {0}, resolver: BOOLEAN]

-----------------------------------------------------------------------------
\* options.go, the order constants.  Mutants: another tier.
orderTracing == 5

orderRecoveryInside == 29
orderRecovery == 10

orderIPBlockLate == 26
orderIPBlock == 20

orderRateLimitLate == 29
orderRateLimit == 25

orderAuth == 28
orderRequestID == 30
orderInterceptor == 100

Order(e) ==
    CASE e.kind = "Tracing"   -> orderTracing
      [] e.kind = "Recovery"  -> orderRecovery
      [] e.kind = "IPBlock"   -> orderIPBlock
      [] e.kind = "RateLimit" -> orderRateLimit
      [] e.kind = "Auth"      -> orderAuth
      [] e.kind = "RequestID" -> orderRequestID
      [] OTHER                -> orderInterceptor

\* Whether the entry has an interceptor for this kind of call (non-nil).
Serves(e, m) ==
    /\ e.kind = "UnaryInterceptor" => m = "unary"
    /\ e.kind = "StreamInterceptor" => m = "stream"

\* Mutant: equal orders are not kept in the order they were added.
PrecedesReversed(es, i, j) ==
    \/ Order(es[i]) < Order(es[j])
    \/ Order(es[i]) = Order(es[j]) /\ i > j

\* cmp.Compare on Order; among equals a stable sort keeps the given order.
Precedes(es, i, j) ==
    \/ Order(es[i]) < Order(es[j])
    \/ Order(es[i]) = Order(es[j]) /\ i < j

\* slices.SortStableFunc on the entries with index in I: entry i ends up
\* behind exactly those that precede it.
Rank(es, I, i) == Cardinality({j \in I : Precedes(es, j, i)}) + 1

SortStable(es, I) ==
    [k \in 1..Cardinality(I) |-> es[CHOOSE i \in I : Rank(es, I, i) = k]]

\* Build: the sorted entries that have an interceptor for m.
Build(es, m) == SortStable(es, {i \in DOMAIN es : Serves(es[i], m)})

-----------------------------------------------------------------------------
Init ==
    /\ cfg = [entries |-> <<>>, resolver |-> FALSE, l1 |-> FALSE, l2 |-> FALSE,
              cache |-> "nil"]
    /\ chain = [m \in Methods |-> <<>>]
    /\ built = FALSE

Count(es, k) == Cardinality({i \in DOMAIN es : es[i].kind = k})

\* MiddlewareBuilder.Add
Add(es, k, res) ==
    Append(es, [kind |-> k, nth |-> Count(es, k) + 1, resolver |-> res])

\* How much of the bound on the configuration is used up.
Used(c) ==
    Len(c.entries) + (IF c.resolver THEN 1 ELSE 0) + (IF c.l1 THEN 1 ELSE 0)
                   + (IF c.l2 THEN 1 ELSE 0)

\* The option called name is passed next, and registers n entries of kind k.
Passing(name, k, n) ==
    /\ ~built
    /\ name \in Supported
    /\ Count(cfg.entries, k) < MaxSame
    /\ Used(cfg) + n <= MaxConfig
    /\ UNCHANGED <<chain, built>>

\* An option whose only effect is one entry (they capture no resolver).
Register(name, k) ==
    /\ Passing(name, k, 1)
    /\ cfg' = [cfg EXCEPT !.entries = Add(@, k, FALSE)]

WithOpenTelemetry == Register("WithOpenTelemetry", "Tracing")
WithIPBlocker == Register("WithIPBlocker", "IPBlock")
WithAuth == Register("WithAuth", "Auth")
WithUnaryInterceptor == Register("WithUnaryInterceptor", "UnaryInterceptor")
WithStreamInterceptor == Register("WithStreamInterceptor", "StreamInterceptor")

WithRecovery ==
    /\ Passing("WithRecovery", "Recovery", 2)
    /\ cfg' = [cfg EXCEPT !.entries = Add(Add(@, "Recovery", FALSE), "RequestID", FALSE)]

\* c.resolver is read here, when the option runs.
WithRateLimitGlobal ==
    /\ Passing("WithRateLimitGlobal", "RateLimit", 1)
    /\ cfg' = [cfg EXCEPT !.entries = Add(@, "RateLimit", cfg.resolver)]

\* An option that sets fields of the config only.
Setting(name) ==
    /\ ~built
    /\ name \in Supported
    /\ Used(cfg) < MaxConfig
    /\ UNCHANGED <<chain, built>>

WithResolver ==
    /\ Setting("WithResolver")
    /\ cfg' = [cfg EXCEPT !.resolver = TRUE]

\* If ristretto refuses maxEntries the option panics, and no server comes about.
WithCacheL1 ==
    /\ Setting("WithCacheL1")
    /\ cfg' = [cfg EXCEPT !.l1 = TRUE, !.cache = "L1"]

WithCacheRedis ==
    /\ Setting("WithCacheRedis")
    /\ cfg' = [cfg EXCEPT !.l2 = TRUE]

\* Mutant: one layer is enough for NewTiered.
AssembledFromEither(c) == IF c.l1 \/ c.l2 THEN "Tiered" ELSE c.cache

\* server.go:48-51
Assembled(c) == IF c.l1 /\ c.l2 THEN "Tiered" ELSE c.cache

\* NewServer once all options have run.  Build sorts b.entries in place.
NewServer ==
    /\ ~built
    /\ built' = TRUE
    /\ chain' = [m \in Methods |-> Build(cfg.entries, m)]
    /\ cfg' = [cfg EXCEPT !.entries = SortStable(@, DOMAIN @),
                          !.cache = Assembled(cfg)]

Option ==
    \/ WithOpenTelemetry \/ WithRecovery \/ WithIPBlocker \/ WithRateLimitGlobal
    \/ WithAuth \/ WithUnaryInterceptor \/ WithStreamInterceptor
    \/ WithResolver \/ WithCacheL1 \/ WithCacheRedis

AssemblyNext == Option \/ NewServer

AssemblySpec == Init /\ [][AssemblyNext]_assemblyVars

-----------------------------------------------------------------------------
(***************************************************************************)
(*                              Properties                                 *)
(***************************************************************************)

\* The config and the chains have the shape of config.go and of Build's result.
AssemblyTypeOK ==
    /\ cfg \in [entries: Seq(Entry), resolver: BOOLEAN, l1: BOOLEAN, l2: BOOLEAN,
                cache: {"nil", "L1", "Tiered"}]
    /\ chain \in [Methods -> Seq(Entry)]
    /\ built \in BOOLEAN

\* The documented order, from the outside in (README.md:105-112,
\* docs/architecture.md:130-137, docs/security.md:170-175).  Tracing is in none
\* of the tables.
Documented ==
    [Recovery |-> 1, IPBlock |-> 2, RateLimit |-> 3, Auth |-> 4, RequestID |-> 5,
     UnaryInterceptor |-> 6, StreamInterceptor |-> 6]

\* Interceptor a may run outside of b: its tier is not further in, and of two
\* of the same kind it is the one whose option was passed first.
MayEnclose(a, b) ==
    /\ a.kind # "Tracing" /\ b.kind # "Tracing" => Documented[a.kind] <= Documented[b.kind]
    /\ a.kind = b.kind => a.nth < b.nth

\* docs/architecture.md:141-147, "Option call order is irrelevant [...] the
\* runtime chain is identical", and within a tier interceptors "execute in the
\* order the caller supplied them": each chain has every registered interceptor
\* for its kind of call, once, in the documented order.  Left open are the place
\* of tracing, which is not documented, and the resolver a limiter has captured,
\* which does depend on the order of the options (LimiterKnowsResolver).
OptionOrderIrrelevant ==
    built => \A m \in Methods :
        LET Mine == {i \in DOMAIN cfg.entries : Serves(cfg.entries[i], m)}
        IN  /\ Len(chain[m]) = Cardinality(Mine)
            /\ \A i \in Mine : \E j \in DOMAIN chain[m] : chain[m][j] = cfg.entries[i]
            /\ \A i, j \in DOMAIN chain[m] : i < j => MayEnclose(chain[m][i], chain[m][j])

\* options.go:125-126, "When combined with WithCacheRedis the two layers are
\* merged into a tiered cache", in whichever order the two options are passed;
\* with L1 alone the server's cache is L1.  What it is with Redis alone is left
\* open: nil in the code, "a raw L2" in docs/architecture.md:272.
CacheFollowsOptions ==
    built => /\ cfg.l1 /\ cfg.l2 <=> cfg.cache = "Tiered"
             /\ cfg.l1 /\ ~cfg.l2 <=> cfg.cache = "L1"

\* options.go:103-105, "When a policy.Resolver has been configured via
\* WithResolver and a method matches a group with a RateLimit rule, the per-group
\* limit is used": every limiter knows the resolver.  Does not hold: the
\* resolver is captured when WithRateLimitGlobal runs (line 115).
LimiterKnowsResolver ==
    built /\ cfg.resolver =>
        \A i \in DOMAIN cfg.entries :
            cfg.entries[i].kind = "RateLimit" => cfg.entries[i].resolver

=============================================================================
