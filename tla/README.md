# TLA+ models of goRawrSquirrel

goRawrSquirrel is a Go library around `grpc.Server`: functional options select
middleware, which is sorted into a fixed order and wrapped around every call;
beside it the library offers caches with single-flight loading, a circuit
breaker, a retry helper, per-method policies and an IP blocker. This directory
holds TLA+ models of its stateful core, the TLC runs that check them and proofs
that TLAPS checks. Source paths below are relative to the repository.

## 1. Inventory

| Component | State | Operations | What is hard about it |
|---|---|---|---|
| Circuit breaker, `breaker/breaker.go` | state, two counters, time of the last trip; one mutex | `State`, `Allow`, `OnSuccess`, `OnFailure` | reports arrive long after the admission, in other states; `State` and `Allow` move the breaker by themselves; nothing else does |
| L1 cache, `cache/l1.go` | ristretto store, `loads` map of calls in flight, a mutex | `Get`, `Set`, `GetOrSet` | lookup outside the lock, followers on a wait group, loader is user code that may fail or panic, writes may be dropped |
| Tiered cache, `cache/tiered.go`, `cache/redis.go` | an L1, a Redis client, a second `loads` map | `Get`, `Set`, `GetOrSet` | as L1, and promotion between layers that fail independently and silently |
| Server assembly, `server.go`, `options.go`, `config.go`, `internal/core/*.go` | the `config` the options write to; the sorted chains | eleven `With...` options, `NewServer` | any subset of options in any order, repeated; options that read what other options write |
| Interceptors, `interceptors/*.go`, `tracing/interceptors.go` | per call: position, context, result; shared: token buckets | one unary and one stream interceptor each for tracing, recovery, IP block, rate limit, auth, request ID; the chain | two hand-written variants of everything; early returns; panics that unwind through the chain; one call's panic against all other calls |
| Rate limiting, `ratelimit/limiter.go`, `interceptors/ratelimit.go` | global bucket, lazily created buckets per group | `Allow`, `limiterFor` | lazy creation under concurrency, separate maps for unary and stream |
| Retry, `retry/*.go` | attempt number, timer | `Do`, `backoff` | timer against cancellation; cap and jitter |
| Policies, `policy/*.go` | immutable after construction | `Resolve`, `match` | pure: priority and tie-breaking |
| IP blocker, `security/*.go` | immutable after construction | `Evaluate`, `resolveClientAddr` | pure: header priority, trusted proxies |
| Ping, `ping/ping.go`; FunMode options | one `rand.Rand` shared by all calls | `Ping` | a data race on the random source |
| `contextx`, `auth`, metrics endpoint, examples | none | accessors, a type, a library handler | nothing |

**Interactions.** `NewServer` runs the options on one `config`; each option adds
interceptor pairs to `MiddlewareBuilder` and may capture other fields of the
config. `Build` sorts once; `ChainUnary` / `ChainStream` nest the result;
gRPC runs each call in a goroutine of its own through the nested interceptors to
the user's handler and back. The caches, the breaker and the retry helper are
objects user code calls from those goroutines. A panic of user code unwinds
through the same chain: through the deferred `span.End`, to the first deferred
`recover`, or to the end of the process. That is why the panic of a cache loader
matters twice: recovery keeps the process alive and so keeps what the panic left
behind.

**What makes each part correct.**

* Breaker: the counters always belong to the state; an open breaker holds for
  its timeout and late reports do not change that; it heals.
* L1: at most one loader per key at a time; a caller gets a result of its own
  key; every caller returns.
* Tiered: the same promise to callers as L1, whatever Redis does; the layers
  agree unless operations overlapped or a write was lost.
* Assembly: the chains are the documented ones in whatever order the options
  were passed; the cache follows from which layers were configured.
* Pipeline: no handler behind a gate that refused; blocked calls cost nothing;
  the AuthFunc is shielded by the limiters; panics are contained; spans are
  balanced and truthful; contexts are complete; every call is answered.
* Rate limiting: a method is resolved to the group its best rule is in; a group
  gets its burst and its rate, no more (however its first calls race) and no less.
  Its documentation promises a stricter bound, which the code does not keep.
* IP blocker: the verdict is the one the documentation describes, for whatever
  mixture of lists, proxies and headers.
* Retry: an honest outcome, bounded delays, an end.

## 2. Modules

| Module | Models | Extends |
|---|---|---|
| `CircuitBreaker` | `breaker/breaker.go` | |
| `MCCircuitBreaker` | the Configs of the runs | `CircuitBreaker` |
| `CircuitBreaker_proof` | proofs | `CircuitBreaker` |
| `L1Cache` | `cache/l1.go` | |
| `L1Cache_proof` | proofs | `L1Cache` |
| `SharedLoad` | the contract of `cache.Cache`: what `Get` and `GetOrSet` promise | |
| `TieredCache` | `cache/tiered.go` over `cache/redis.go` | |
| `TieredCache_proof` | proofs | `TieredCache` |
| `Assembly` | `options.go`, `server.go`, `config.go`, `internal/core` | |
| `Assembly_proof` | proofs | `Assembly` |
| `Pipeline` | `interceptors`, `tracing`; calls on an assembled server | `Assembly` |
| `Pipeline_proof` | proofs | `Pipeline`, `Assembly_proof` |
| `Policy` | `policy/*.go` | |
| `RateLimit` | `interceptors/ratelimit.go`, `ratelimit/limiter.go` | `Policy` |
| `MCRateLimit` | the methods and groups of the run | `RateLimit` |
| `RateLimit_proof` | proofs | `RateLimit` |
| `IPBlock` | `security/*.go` | |
| `MCIPBlock` | the configurations and headers of the run | `IPBlock` |
| `IPBlock_proof` | proofs | `IPBlock` |
| `Retry` | `retry/*.go` | |
| `MCRetry` | the configurations of the run | `Retry` |
| `Retry_proof` | proofs | `Retry` |

`L1Cache` and `TieredCache` both implement `SharedLoad` (`KeepsPromise`, through
`Promise == INSTANCE SharedLoad WITH ...`).

Definitions with a comment `Mutant:` are deliberate mistakes. Nothing uses them;
each stands before the definition it is a wrong version of, and replacing that
definition by it makes TLC report the property listed in `PROJECT.json`. So no
property here holds merely because of the shape of the model.

### CircuitBreaker

One variable per field of `Breaker`; every exported method holds `b.mu`
throughout and is one action. `sinceOpened` is `now() - openedAt`, saturated at
`OpenTimeout`, since the code only ever compares the two; time needs no bound.
The Config is chosen in `Init` from `Configs` and never changes; `New` rejects
no value, so the proofs assume nothing about its numbers but that they are
integers. `pending[c]` is what caller `c` has outstanding and how it was
admitted. It becomes `"stale"` when the breaker changes state meanwhile.
`probes` and `probeWins` are history, for the property about probes: how many
requests the latest HalfOpen period has admitted, and how many of them have
succeeded in it. They stay bounded without a bound in the guards, because a
caller has at most one request outstanding and few reports end the period.

### L1Cache

A goroutine in `GetOrSet` is at one of eight points (`pc`), between which others
can interfere: the lookup, the critical section that joins or registers a load,
the loader's return, the store, `wg.Done`, the critical section that deletes the
entry. `rcSet` lets ristretto drop a write (of a new entry that is not admitted, or
any with a negative TTL) and `Evict` lets it forget an entry at any time (which is
what TTLs and a full cache do). `Calls` is storage for `*call`
objects, reused once unreferenced, so the number of loads is unbounded.
User loaders may panic; `panicked` is the history of the keys for which one has.
`ret` is what the latest `GetOrSet` of a goroutine returned.

### SharedLoad

What callers of a `cache.Cache` may rely on, without stores, locks and wait groups:
a call is answered from a store with a payload of its key, or takes part in a load
of its key, of which there is at most one open at a time, and gets the outcome the
leader of that load got. A follower may join a load whose outcome is already
known and may return after the next load of the key has begun. A load whose
leader panics stays open for ever, because that is what the code does. The
refinement mapping reads `open` and `result` off the `loads` map, `outcome` off the
call a goroutine holds, and the role off its `pc`.

### TieredCache

`Get`, `Set` and `GetOrSet` are split wherever another goroutine can come between:
after the lookup in L1, after the answer of Redis, between the two writes, and
at the points of the single-flight block, which repeats that of L1. `l1` is an L1 of
which only `Get` and `Set` are used. `l2Get` may miss an entry that is there and
`l2Set` may lose a write (`cache/redis.go` discards every error), entries expire
(`EvictL1`, `ExpireL2`), and Redis is written by others (`Elsewhere`, which is also a
write of this client that arrives late). `tainted` is history: the keys for which
operations overlapped, a write was lost or somebody else wrote, until the next
undisturbed `Set`. Outside it, `LayersAgree` holds; inside it the code makes no
promise and none is stated.

### Assembly

`cfg` is the `config`, `chain` the two slices of interceptors. Every option is an
action; `NewServer` is the one that sorts and builds. An entry is the pair of
interceptors one `Add` registers, identified by kind and place among its kind,
with the resolver the limiter captured. `SortStable` states what
`slices.SortStableFunc` promises (entry `i` ends behind exactly those that
precede it), not how it does it. The option loop is cut at `MaxSame` entries per
kind and `MaxConfig` entries, resolver and cache layers in all; the proofs hold for
every value of both.
`WithCacheL1` panics if ristretto refuses its argument; then there is no server,
and nothing to say about it.

### Pipeline

Extends `Assembly`, so every server that the options can build is served from.
A call is a record: phase (`down` the chain, `up` again, `done`), position, the
result travelling up (`out`), what its context carries, which interceptors it has
seen, whether a gate denied it, its open spans and the status they recorded. Each
interceptor has an `Enter` action, and a `Leave` action for what it does when
control returns; early returns and panics turn the call around. Recovery is a
`Leave` step that turns a panic into `Internal`; a panic that reaches gRPC ends the
process (`crashed`). User code is adversarial in what it returns and in panicking,
but calls its continuation at most once and passes a context derived from the one
it got. The caller's tracer and propagator may panic too (`"TracerPanic"`); they run
outside of recovery.

`out` is a gRPC code, a panic, or `"ContextError"`: an error of the context that
user code returns as it is. Two conversions read it, and they differ: `SpanCode`
(`status.FromError` in `recordStatus`) makes it Unknown, `ClientCode` (gRPC's
`FromContextError`) makes it Canceled, which stands for DeadlineExceeded as well.

The IP blocker's verdict is an input of `Arrive` and whether a limiter has a token
a choice of `RateLimitEnter`: `IPBlock` and `RateLimit` have what decides them.

### Policy and RateLimit

`Policy` has the builder as operators on records (they build the groups of
`MCRateLimit`) and the two nested loops of `Resolve` as steps of the call that
resolves: `VisitRule`, `NextGroup`, `Resolved`. A method name is a sequence of parts,
a regular expression the length it finds in each name. `RateLimit` continues the
call: global limiter, existing or new group limiter (`CreateGroup` is the critical
section of `groupLimiter`), then `Allow`. Resolving and `Allow` of several calls
interleave. A bucket counts units of `1/Window` tokens, so `Rate/Window` tokens per
tick are `Rate` units. `since[t][a]` is history: how many calls of target `t` were
admitted in the last `a` ticks, where a target is a group and a kind of call, or
everything without a limit, and not the bucket the code happened to use. The
code keeps a `rateLimitState` per kind; the documents speak of a group's calls as a
whole, for which `Admitted` adds both kinds up. `Rules`, `Groups` and `Limits` are what
the builder can make of any patterns, expressions and limits.

### IPBlock

`NewIPBlocker` parses the configured lists or fails; an Evaluate then goes from the
peer to the headers to the client to the verdict, one turn of the header loops
per step. `VerdictIsRight` is stated on the configuration, not on the parsed
blocker, so that parsing is part of what is checked.

### Retry

One `Do`: `fn` returns anything, the error is looked at, the timer started with any
delay `backoff` may return, and the `select` takes a ready case, either one if both
are. `results` is the history of what `fn` returned.

## 3. Runs

Run by hand with `tlc -config <cfg> <module>`.

| Run | cfg | Result | Distinct states |
|---|---|---|---|
| `breaker` | `CircuitBreaker.cfg` | passes | 2,234 |
| `breaker_probes` | `CircuitBreakerProbes.cfg` | `OnlyProbesDecide` violated | |
| `l1` | `L1Cache.cfg` | passes | 190,170 |
| `l1_panic` | `L1CachePanic.cfg` | `EveryCallReturnsAnyway` violated | |
| `tiered` | `TieredCache.cfg` | passes | 166,280 |
| `assembly_resolver` | `AssemblyResolver.cfg` | `LimiterKnowsResolver` violated | |
| `pipeline` | `Pipeline.cfg` | passes | 728,751 |
| `pipeline_stream_auth` | `PipelineStreamAuth.cfg` | `IdentityReachesHandler` violated | |
| `ratelimit` | `RateLimit.cfg` | passes | 1,116,425 |
| `ratelimit_documented` | `RateLimitDocumented.cfg` | `DocumentedRate` violated | |
| `ipblock` | `IPBlock.cfg` | passes | 59,652 |
| `retry` | `Retry.cfg` | passes | 13,563 |

**Passing runs.**

* `breaker`: three goroutines, five Configs, from `(3, 2, 3)` to the zero Config.
  `CountersMatchState` and `OpenHoldsForTimeout` say that late reports, of
  requests admitted in an earlier state, do no damage to an open breaker.
  `ZeroGoalStrands`: with `HalfOpenMaxSuccess <= 0` no probe is admitted and a tripped
  breaker is stuck. `HealsWithDependency`: otherwise, if requests stop failing, the
  breaker ends up closed. Three callers suffice to trip a breaker while one old
  request is still out and another probes.
* `l1`: two goroutines on two keys, everything may fail, panics included. Either
  goroutine is leader, follower or caught between its miss and the lock, and,
  because it comes back with another call, also the one that starts the next load
  while the other still holds the old call, for which there are three calls.
  Two keys let a payload end up under the wrong one. The run with three
  goroutines is `l1_panic`; the safety properties are proved for any number.
  `EveryCallReturns` and `NobodyWaitsInVain` except callers of a key for which a
  loader has panicked; `l1_panic` shows why.
* `tiered`: two goroutines, one key, two values (so that layers can disagree) and
  two calls. Two goroutines are enough for every overlap of two operations.
  That one load of a key is open at a time and that callers get payloads of their
  own key is part of `KeepsPromise`. `LayersAgree` is about keys on which operations
  did not overlap: it says that no path forgets a layer, and nothing about
  races, for which no document makes a promise.
* `pipeline`: ten options in every order, at most two entries of a kind and three
  entries, resolvers and cache layers in all, and two calls at a time.
  `OptionOrderIrrelevant` compares the chains with the documented tables, not with
  the constants in `options.go`; `CacheFollowsOptions` covers both orders of the two
  cache options. Three entries have every pair of options in both orders, the
  stability of the sort, recovery around or beside any one other interceptor
  (it brings a request ID with it), and two calls let the panic of one take the
  other down. Longer chains are covered by the proofs of all its safety
  properties, which have any number of calls and options. `EveryCallAnswered`:
  behind recovery every call is answered with a code, whatever panics in it or in
  the other one; only a panic of the caller's tracer gets through.
* `ratelimit`: two calls at a time, two methods, six sets of groups: exact
  against prefix against regex, ties, two groups with one name, two limited groups
  of which one has a `Rate` of 0, a burst of two, and no group. `WithinBudget` bounds
  what one `rateLimitState` admits in any stretch of up to two ticks, which covers
  the longest window used; that is what the code holds on to, not what its
  documentation says (`DocumentedRate`). `RefusedOnlyWhenSpent` is the converse, for a
  group's calls of both kinds: nobody is refused before a whole burst of them
  has passed, whatever other groups do. It fits the documented limit per group as
  well as the code's limiter per group and kind.
* `ipblock`: three addresses, 144 configurations (each mode and an invalid one,
  bare addresses, prefixes, empty lists, entries that do not parse; default,
  reversed and shortened header priority), every peer and none, up to two
  parts in one header and one in the other. Three addresses are a proxy, a client
  and somebody else.
* `retry`: 216 configurations; up to four attempts let the doubled delay meet the
  cap at once, later and never. `DelayBounded` is two-sided: the delay is
  `BaseDelay * 2^i`, capped, and off by no more than the jitter, as
  `retry/retry.go:17-26` has it.

**Deadlock** is checked for the breaker and the rate limiter. It is not checked
where the system may stop for good: a server that has crashed, an assembly that
is finished, a cache whose loader has panicked, a configuration that
`NewIPBlocker` refuses, and a `Do` that has returned.

**Violations.** Each of these runs states what the repository says and shows a
behaviour of the code that contradicts it.

* `OnlyProbesDecide` (`breaker/breaker.go:6-7`, `:71`, and
  `breaker/breaker_test.go:148`, "HalfOpen allows up to HalfOpenMaxSuccess
  probes"): `Allow` compares successes and counts nothing on admission, so any
  number of concurrent probes passes. The trace shows two where one success
  is asked for. The property's second half, that the breaker closes only when all
  its probes have succeeded, fails as well: the success of a request admitted
  before the trip counts as a probe's.
* `EveryCallReturnsAnyway` (`cache/l1.go:60-62`): `Done` and the delete are not
  deferred; after a panic of its loader the key is dead.
* `LimiterKnowsResolver` (`options.go:103-105`): `WithResolver` after
  `WithRateLimitGlobal` is not seen.
* `DocumentedRate` (`policy/group.go:10`): the trace has a unary and a streaming call
  of a group with `Rate` 1 in one window. One kind suffices when `Rate` is 2 or
  more: the bucket starts full and is refilled while it is emptied.
* `IdentityReachesHandler` (`docs/security.md:23-24`): `AuthStream` drops the
  context of its AuthFunc.

Seen while modelling, and visible in the definitions, but without a run:

* recovery is not outermost when tracing is installed (`README.md:114`,
  `docs/architecture.md:132`, `docs/security.md:178` against `options.go:18-19`;
  see `orderTracing`), so that a panic of the tracer is not recovered
  (`TracingEnter`, `TracingLeave`);
* for a context error without a status the span says Unknown and the client gets
  Canceled or DeadlineExceeded (`options.go:194-196`; see `SpanTellsOutcome`, which
  names the exception);
* `WithCacheRedis` alone yields no cache (`docs/architecture.md:272`; see
  `Assembled`);
* streaming calls get no request ID (`README.md:68`; see `RequestIDEnter`);
* `GetOrSet` does not look again under the lock, so a caller that missed may load
  once more right after a load of the key has finished (`docs/usage.md:409`,
  "exactly once"; see `Lead`: `InFlight` is all it asks);
* Redis errors are swallowed (`docs/architecture.md:235`, "operations return
  errors"; see `l2Get`, `l2Set`);
* `Timeout` and `AuthRequired` of a policy are read by nothing
  (`policy/group.go:16-19`);
* jitter is added after the cap, so a delay may exceed `MaxDelay`
  (`retry/backoff.go:13-14`, "The returned duration is capped at cfg.MaxDelay"; but
  `retry/retry.go:22-26` has the computed delay capped and the jitter around
  it, which is what `DelayBounded` states and the code does);
* `Do` may call `fn` once more although the context is done, if the timer has fired
  too (`retry/retry.go:38-39`, "returns immediately"; see `TimerCase`).

## 4. Fairness

* `CircuitBreaker`: time passes (`Tick`), callers keep asking, and an admitted
  request is reported sooner or later. The breaker itself takes no steps.
  `HealsWithDependency` assumes in addition that failures stop, in its
  statement.
* `L1Cache`: weak fairness of each goroutine's own steps inside `GetOrSet`. The Go
  scheduler runs runnable goroutines, `l.mu` is held only over a few statements
  that do not block, and loaders are taken to end. Nobody has to call, and
  ristretto has to do nothing.
* `TieredCache`: the same; Redis calls end because the client times out.
* `Retry`: `fn` returns and `Do` is scheduled. The clock is not assumed to go on:
  `CancelEndsDo` holds without; `EveryDoReturns` names it as its hypothesis.
* `Pipeline`: weak fairness of every call in progress; user code is taken to
  come back, by return or by panic. No call has to arrive.

## 5. Proofs

`tlapm <module>_proof.tla` checks them. They hold for every value of the
constants (any number of goroutines, calls, keys, options, groups and rules, any
configuration), under the assumptions named in the modules, which TLC evaluates
on the instances of the runs:

| Assumption | Module | Says |
|---|---|---|
| `ConfigAssumption` | `CircuitBreaker` | Configs hold integers |
| `ConstantsAssumption` | `L1Cache`, `TieredCache` | `None`, `Err`, `Panic` and `Miss` are told apart from payloads, calls and keys |
| `BoundsAssumption` | `Assembly` | the bounds are naturals |
| `ResolverAssumption` | `RateLimit` | resolvers hold groups that the builder can make, with rates of at least zero and positive windows |
| `LimitAssumption` | `RateLimit` | the global rate and burst, and how far the history goes back, are naturals |
| `NoneAssumption` | `RateLimit` | `None` is no group, name, limit or bucket |
| `AddressesAreNoJunk`, `HeadersAreKnown`, `ConfigsAreTyped` | `IPBlock` | what parses is told apart from what does not; headers are sequences of parts, configs have their fields |
| `ErrorsAreApart`, `ConfigsAreTyped` | `Retry` | a success is no error; delays and jitter are not negative (`MaxAttempts` may be) |

Every proof has the same shape: an invariant that holds initially, that every
action preserves (one lemma per action), and that implies the property. What the
properties lack to be inductive is the interesting part:

* **`CircuitBreaker_proof`**: `TypeCorrect`, `CountersCorrect`, `OpenHolds`,
  `ZeroGoalStays`. The inductive invariant is the conjunction of the two: that `failures` never passes its
  threshold needs that a closed breaker is strictly below it. The two action
  properties follow from it step by step.
* **`L1Cache_proof`**: `TypeCorrect`, `SingleFlightHolds`, `ReturnsOwnKeyHolds`,
  `LoadsOwnedHolds`, `NobodyWaitsInVainHolds`, `L1KeepsPromise`, with
  panics allowed. `SingleFlight` is not inductive. The invariant adds that a leader's call is registered under its key and belongs to it alone
  (bookkeeping that `Lead` establishes and only `Cleanup` gives up), that a call a
  goroutine refers to is for that goroutine's key, that the store holds only
  payloads of the right key, and that a released call has a result. The last
  fact is why a follower that joins between `Done` and the delete is safe. A
  second invariant, proved on top of the first, says that every registered or
  awaited call has its leader unless its key has panicked, and that results
  are there exactly from the loader's return on; with it every step maps to a
  step of `SharedLoad` or changes nothing there.
* **`TieredCache_proof`**: `TypeCorrect`, `LayersAgreeHolds`, `TieredKeepsPromise`. `Book` is
  the bookkeeping of leaders, followers and calls, as for L1; with it every step
  maps to a step of `SharedLoad` or to none, whatever Redis does. `Stored` says that
  what a layer holds, or an operation carries to one, was made for that key: L2's
  answer is used two steps after it was read. `Agreement` is what `LayersAgree`
  lacks: on an untainted key at most one operation is under way, what it carries
  to L1 is what L2 holds (or L2 has forgotten it), and a `Get` or `GetOrSet` that is
  still to write to L1 found and leaves nothing there. Only between the two writes
  of a `Set` may the layers differ, and then its second write is still to come.
* **`Assembly_proof`**: `SortStableSorts` (the ranks of a stable sort are a
  bijection, hence its result is sorted, holds exactly the selected entries and
  keeps equal ones in their order; by cardinality, without induction),
  `AssemblyTypeCorrect`, `OptionOrderIsIrrelevant`, `CacheAlwaysFollowsOptions`. For the
  last two the invariant says of a config that is still being filled that its
  entries are numbered by kind in the order they were added and that its cache
  is L1 or nil, and of a built server that its chains are sorted by the order
  constants (`TiersInOrder`). `OrderIsDocumented` connects the constants with the
  documented tables: whoever precedes in the one may enclose in the other
  (`PrecedesEncloses`). That `Build` also sorts the entries in place takes nothing
  away (`SortKeepsServing`).
* **`Pipeline_proof`**: the eight invariants of the run that are about calls, for
  any number of concurrent calls, any bounds and any chain the options can build.
  `ServerAssembles`: a behaviour of `Pipeline` is one of `Assembly`, so what is proved
  of the chains there holds here. The invariant
  `PInv` says where each call is on its walk (`Walk`: what it has seen is a prefix
  of its chain, a denial or the handler ends the way down, a panic of user code is travelling
  only outside the handler and inside every recovery, open spans are the tracing
  interceptors around it, what the spans recorded is `SpanCode` of what is travelling up), that
  nothing runs before the server is built, and that only an uncontained panic
  ends the process. `Walk` is a statement about one call and one chain; one
  lemma per way of moving (enter, deny, panic, reach the handler, return)
  preserves it. The properties about order then follow because the chain is
  sorted (`TiersInOrder`) and complete (`ChainsComplete`).

* **`RateLimit_proof`**: `TypeCorrect`, `ResolvesToBestHolds`, `WithinBudgetHolds`,
  `RefusedOnlyWhenSpentHolds`. `LooksSound` is the invariant of the two loops of
  `Resolve`: the best rule so far outranks every matching rule already visited,
  and there is none only if none matched. `Served`: a call that goes on to `Allow`
  does so with the bucket of its group and kind, or with the global one, and
  that bucket exists. That is what the test under the lock in `groupLimiter` is for.
  `Balanced` is the double-entry bookkeeping behind both budget properties: for every
  stretch of time, what its calls took and what is left in the bucket is at most
  a burst and the refills, and at least the burst or the refills. `WithinBudget`
  is the upper half, `RefusedOnlyWhenSpent` the lower one; neither is inductive
  without the units in the bucket. Groups that share a name share a bucket and
  are excepted, in the statements, from both.
* **`IPBlock_proof`**: `VerdictIsRightHolds`. The blocker says what the config as written
  says (`Built`, which is about parsing), and everything the header loops have
  passed was junk (`Visited`).
* **`Retry_proof`**: `TypeCorrect`, `HonestOutcomeHolds`, `DelayBoundedHolds`. Everything `fn`
  returned before the latest result was retryable; the delay was computed for
  the attempt that is current. Doubling is a recursive function on the naturals,
  and that it yields naturals is proved by induction, from the least element of
  the set of counterexamples.

**Only model-checked:** the liveness properties `HealsWithDependency`, `EveryCallReturns`,
`EveryCallAnswered`, `CancelEndsDo` and `EveryDoReturns`, because fairness and `ENABLED`
are out of the prover's reach. All invariants, action properties and refinements
of the passing runs are proved. The five runs that show violations have
nothing to prove.

## 6. What is not modelled

* The Ping service with its FunMode options: random texts and a codec for two
  strings. The one thing that can go wrong, the unsynchronised random source,
  has no effect any property here could tell apart.
* Rate limits with a `Window` of zero: the rate is then infinite or NaN, and what
  follows is up to `golang.org/x/time/rate`.
* Contexts of cache callers: a follower waits whatever its own context says.
* Span attributes, trace propagation, ID generation, error texts, JSON and
  protobuf encoding: data without control.
* ristretto, `golang.org/x/time/rate`, gRPC, OpenTelemetry: external; modelled as
  far as the code depends on them (dropped writes, eviction, refilling, dispatch).
* Byte copies (`bytes.Clone`): payloads are values here, so aliasing cannot occur.
* `contextx`, `auth`, the metrics endpoint and the examples: no state.

## 7. Plan

Done, in this order: breaker; L1; assembly; pipeline on top of assembly; their
type and safety theorems; the contract of the caches and the proof that L1
implements it; tiered cache; policies and rate limiting; IP blocker; retry; the
safety theorems of these four and the proof that the tiered cache implements the
contract; the theorems about the order of options and the choice of the cache.

Next: facts that follow from the invariants at hand and no run states yet.

1. `Pipeline`: what a call's context carries on the streaming side, the counterpart
   of `UnaryContextComplete`.
2. `RateLimit`: that a group's limiter is never replaced once created, as an action
   property.
3. `CircuitBreaker`: that a trip needs as many failures since the last reset as the
   Config says.
