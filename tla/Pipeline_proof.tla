--------------------------- MODULE Pipeline_proof ---------------------------
(***************************************************************************)
(* The guarantees of the interceptor order, for every sequence of options  *)
(* and any number of concurrent calls.                                     *)
(*                                                                         *)
(* Walk(q, c) is what is known of a call q on its chain c.  It mentions no *)
(* variable, so each way of moving along the chain is one lemma about      *)
(* records; the chain being sorted (TiersInOrder, proved of the assembly)  *)
(* then turns positions into guarantees.                                   *)
(***************************************************************************)
EXTENDS Pipeline, Assembly_proof

Sorted(c) ==
    \A i, j \in DOMAIN c : i < j => Order(c[i]) <= Order(c[j])

\* What is true of a call q that interceptor e has passed on.
Admits(e, q) ==
    /\ e.kind = "IPBlock" => ~q.blocked
    /\ e.kind = "Tracing" => "span" \in q.ctx
    /\ e.kind = "Auth" /\ q.method = "unary" => "identity" \in q.ctx
    /\ e.kind = "RequestID" /\ q.method = "unary" => "requestID" \in q.ctx

\* Position: a call on its way down is at an interceptor or at the handler,
\* with nothing denied yet; on its way up it may also be past the outermost,
\* where it ends.  An unused slot has no history.
Placed(q, c) ==
    /\ q.phase = "down" => q.at \in 1..(Len(c) + 1) /\ ~q.denied /\ ~q.handled
    /\ q.phase = "up" => q.at \in 0..Len(c) /\ q.out \in Outs
    /\ q.phase = "done" => q.at = 0
    /\ q.phase = "idle" => ~q.blocked /\ ~q.handled

\* The interceptors above a call on its way down have seen and admitted it.
Walked(q, c) ==
    q.phase = "down" =>
        \A i \in DOMAIN c : i < q.at => c[i] \in q.seen /\ Admits(c[i], q)

\* What has seen the call is an interceptor of the chain, and everything
\* above it has seen and admitted the call too.
SeenFromOutside(q, c) ==
    \A e \in q.seen : \E i \in DOMAIN c :
        /\ c[i] = e
        /\ \A j \in DOMAIN c : j < i => c[j] \in q.seen /\ Admits(c[j], q)

HandledLast(q, c) ==
    q.handled => /\ ~q.denied
                 /\ \A i \in DOMAIN c : c[i] \in q.seen /\ Admits(c[i], q)

\* A panic on its way up is still inside every recovery interceptor.
PanicInside(q, c) ==
    q.phase = "up" /\ q.out = "Panic" =>
        \A i \in DOMAIN c : c[i].kind = "Recovery" => i <= q.at

\* The tracing interceptors among the first n of the chain.
TracingUpTo(c, n) == {i \in DOMAIN c : c[i].kind = "Tracing" /\ i <= n}

\* Spans are open in the tracing interceptors that are still running.
Balanced(q, c) ==
    /\ q.phase = "down" => q.open = Cardinality(TracingUpTo(c, q.at - 1))
    /\ q.phase = "up" => q.open = Cardinality(TracingUpTo(c, q.at))
    /\ q.phase \in {"idle", "done"} => q.open = 0

\* Once a tracing interceptor has returned, the span's code is that of the result;
\* when the call has been answered, it is known against the client's.
Told(q, c) ==
    (\E i \in DOMAIN c : c[i].kind = "Tracing" /\ i > q.at) /\ q.out \notin Panics =>
        /\ q.phase = "up" => q.recorded = SpanCode(q.out)
        /\ q.phase = "done" =>
              q.recorded = IF q.out = "Canceled" THEN "Unknown" ELSE q.out

Walk(q, c) ==
    /\ Placed(q, c) /\ Walked(q, c) /\ SeenFromOutside(q, c)
    /\ HandledLast(q, c) /\ PanicInside(q, c) /\ Balanced(q, c) /\ Told(q, c)

SpanOf(e) == IF e.kind = "Tracing" THEN 1 ELSE 0

\* Moving over one interceptor adds its span, if it has one.
LEMMA TracingCount ==
    ASSUME NEW c \in Seq(Entry)
    PROVE  /\ Cardinality(TracingUpTo(c, 0)) = 0
           /\ \A n \in 0..Len(c) : Cardinality(TracingUpTo(c, n)) \in Nat
           /\ \A n \in DOMAIN c : Cardinality(TracingUpTo(c, n))
                                   = Cardinality(TracingUpTo(c, n - 1)) + SpanOf(c[n])
  <1>1. DOMAIN c = 1..Len(c) /\ Len(c) \in Nat /\ IsFiniteSet(DOMAIN c)
    BY FS_Interval
  <1>2. \A n \in Nat : IsFiniteSet(TracingUpTo(c, n))
    BY <1>1, FS_Subset DEF TracingUpTo
  <1>3. TracingUpTo(c, 0) = {}
    BY <1>1 DEF TracingUpTo
  <1>4. ASSUME NEW n \in DOMAIN c
        PROVE  Cardinality(TracingUpTo(c, n))
               = Cardinality(TracingUpTo(c, n - 1)) + SpanOf(c[n])
    <2>1. n \in Nat /\ n - 1 \in Nat
      BY <1>1
    <2>2. n \notin TracingUpTo(c, n - 1) /\ IsFiniteSet(TracingUpTo(c, n - 1))
      BY <1>2, <2>1 DEF TracingUpTo
    <2>3. Cardinality(TracingUpTo(c, n - 1)) \in Nat
      BY <2>2, FS_CardinalityType
    <2>4. CASE c[n].kind = "Tracing"
      <3>1. TracingUpTo(c, n) = TracingUpTo(c, n - 1) \cup {n}
        BY <1>1, <2>1, <2>4 DEF TracingUpTo
      <3>2. Cardinality(TracingUpTo(c, n)) = Cardinality(TracingUpTo(c, n - 1)) + 1
        BY <3>1, <2>2, FS_AddElement
      <3>3. QED
        BY <3>2, <2>4 DEF SpanOf
    <2>5. CASE c[n].kind # "Tracing"
      <3>1. TracingUpTo(c, n) = TracingUpTo(c, n - 1)
        BY <1>1, <2>1, <2>5 DEF TracingUpTo
      <3>2. QED
        BY <3>1, <2>3, <2>5 DEF SpanOf
    <2>6. QED
      BY <2>4, <2>5
  <1>5. QED
    BY <1>2, <1>3, <1>4, FS_EmptySet, FS_CardinalityType

\* A fresh slot, on any chain.
LEMMA WalkIdle == ASSUME NEW c PROVE Walk(Idle, c)
  BY DEF Walk, Placed, Walked, SeenFromOutside, HandledLast, PanicInside, Balanced, Told, Idle

\* A call that has just arrived, on any chain.
LEMMA WalkStart ==
    ASSUME NEW c \in Seq(Entry), NEW q, q.phase = "down", q.at = 1, q.seen = {},
           ~q.denied, ~q.handled, q.open = 0
    PROVE  Walk(q, c)
  <1>1. Balanced(q, c)
    BY TracingCount DEF Balanced
  <1>2. QED
    BY <1>1 DEF Walk, Placed, Walked, SeenFromOutside, HandledLast, PanicInside, Told

\* What a step leaves alone: p still is the call that q was.
Follows(p, q) ==
    /\ p.method = q.method /\ p.blocked = q.blocked
    /\ q.ctx \subseteq p.ctx /\ q.seen \subseteq p.seen

\* What an interceptor has admitted stays admitted.
LEMMA AdmitsStays ==
    ASSUME NEW p, NEW q, Follows(p, q), NEW e, Admits(e, q)
    PROVE  Admits(e, p)
  BY DEF Follows, Admits

\* Seeing one more interceptor, the next one from outside, keeps the order.
LEMMA SeesNext ==
    ASSUME NEW c \in Seq(Entry), NEW q, NEW p, Walk(q, c), Follows(p, q),
           q.phase = "down", q.at \in DOMAIN c, p.seen = q.seen \cup {c[q.at]}
    PROVE  SeenFromOutside(p, c)
  <1> SUFFICES ASSUME NEW e \in p.seen
               PROVE  \E i \in DOMAIN c :
                        /\ c[i] = e
                        /\ \A j \in DOMAIN c : j < i => c[j] \in p.seen /\ Admits(c[j], p)
    BY DEF SeenFromOutside
  <1>1. CASE e \in q.seen
    BY <1>1, AdmitsStays DEF Walk, SeenFromOutside
  <1>2. CASE e = c[q.at]
    BY <1>2, AdmitsStays DEF Walk, Walked
  <1>3. QED
    BY <1>1, <1>2

\* An interceptor that calls on.
LEMMA WalkCalls ==
    ASSUME NEW c \in Seq(Entry), NEW q, NEW p, Walk(q, c), Follows(p, q),
           q.phase = "down", q.at \in DOMAIN c, Admits(c[q.at], p),
           p.phase = "down", p.at = q.at + 1, p.seen = q.seen \cup {c[q.at]},
           p.denied = q.denied, p.handled = q.handled,
           p.open = q.open + SpanOf(c[q.at])
    PROVE  Walk(p, c)
  <1>1. q.at \in 1..Len(c) /\ Len(c) \in Nat /\ DOMAIN c = 1..Len(c) /\ p.at - 1 = q.at
    OBVIOUS
  <1>2. Placed(p, c) /\ HandledLast(p, c) /\ PanicInside(p, c) /\ Told(p, c)
    BY <1>1 DEF Walk, Placed, HandledLast, PanicInside, Told
  <1>3. Walked(p, c)
    BY <1>1, AdmitsStays DEF Walk, Walked
  <1>4. SeenFromOutside(p, c)
    BY SeesNext
  <1>5. Balanced(p, c)
    BY <1>1, TracingCount DEF Walk, Balanced
  <1>6. QED
    BY <1>2, <1>3, <1>4, <1>5 DEF Walk

\* Only these interceptors run user code on the way down.
MayPanic == {"Auth"} \cup Custom

\* In a sorted chain a recovery is further out than whatever runs user code,
\* and tracing is further out than anything else.
LEMMA SortedPlaces ==
    ASSUME NEW c \in Seq(Entry), Sorted(c), NEW i \in DOMAIN c, NEW j \in DOMAIN c
    PROVE  /\ c[i].kind = "Recovery" /\ c[j].kind \in MayPanic => i < j
           /\ c[i].kind = "Tracing" /\ c[j].kind # "Tracing" => i < j
  <1>1. i \in Nat /\ j \in Nat
    OBVIOUS
  <1>2. Order(c[i]) < Order(c[j]) => i < j
    BY <1>1, OrderIsNat DEF Sorted
  <1>3. c[j].kind \in MayPanic /\ c[i].kind = "Recovery" => Order(c[i]) < Order(c[j])
    BY DEF Order, MayPanic, Custom, orderRecovery, orderAuth, orderInterceptor
  <1>4. c[i].kind = "Tracing" /\ c[j].kind # "Tracing" => Order(c[i]) < Order(c[j])
    BY DEF Order, orderTracing, orderRecovery, orderIPBlock, orderRateLimit,
           orderAuth, orderRequestID, orderInterceptor
  <1>5. QED
    BY <1>2, <1>3, <1>4

\* An interceptor that returns or panics without calling on.
LEMMA WalkReturns ==
    ASSUME NEW c \in Seq(Entry), Sorted(c), NEW q, NEW p, Walk(q, c), Follows(p, q),
           q.phase = "down", q.at \in DOMAIN c, p.out \in Outs,
           c[q.at].kind # "Tracing" \/ p.out \in Panics,
           p.phase = "up", p.at = q.at - 1, p.seen = q.seen \cup {c[q.at]},
           p.handled = q.handled, p.open = q.open,
           p.out = "Panic" => c[q.at].kind \in MayPanic
    PROVE  Walk(p, c)
  <1>1. q.at \in 1..Len(c) /\ Len(c) \in Nat /\ DOMAIN c = 1..Len(c)
    OBVIOUS
  <1>2. Placed(p, c) /\ HandledLast(p, c) /\ Walked(p, c) /\ Balanced(p, c)
    BY <1>1 DEF Walk, Placed, HandledLast, Walked, Balanced
  <1>3. SeenFromOutside(p, c)
    BY SeesNext
  <1>4. PanicInside(p, c)
    BY <1>1, SortedPlaces DEF PanicInside
  <1>5. Told(p, c)
    BY <1>1, SortedPlaces DEF Told
  <1>6. QED
    BY <1>2, <1>3, <1>4, <1>5 DEF Walk

\* The handler returns or panics.
LEMMA WalkHandler ==
    ASSUME NEW c \in Seq(Entry), NEW q, NEW p, Walk(q, c), Follows(p, q),
           q.phase = "down", q.at = Len(c) + 1,
           p.phase = "up", p.at = q.at - 1, p.seen = q.seen, p.denied = q.denied,
           p.open = q.open, p.out \in Outs
    PROVE  Walk(p, c)
  <1>1. Len(c) \in Nat /\ DOMAIN c = 1..Len(c) /\ p.at = Len(c) /\ q.at - 1 = Len(c)
    OBVIOUS
  <1>2. Placed(p, c) /\ Walked(p, c) /\ PanicInside(p, c) /\ Balanced(p, c) /\ Told(p, c)
    BY <1>1 DEF Walk, Placed, Walked, PanicInside, Balanced, Told
  <1>3. SeenFromOutside(p, c)
    BY AdmitsStays DEF Walk, SeenFromOutside
  <1>4. HandledLast(p, c)
    BY <1>1, AdmitsStays DEF Walk, HandledLast, Walked, Placed
  <1>5. QED
    BY <1>2, <1>3, <1>4 DEF Walk

\* What the call has been through is kept when nothing new sees it.
LEMMA HistoryStays ==
    ASSUME NEW c, NEW q, NEW p, Walk(q, c), Follows(p, q), p.seen = q.seen,
           p.denied = q.denied, p.handled = q.handled
    PROVE  SeenFromOutside(p, c) /\ HandledLast(p, c)
  <1>1. SeenFromOutside(p, c)
    BY AdmitsStays DEF Walk, SeenFromOutside
  <1>2. HandledLast(p, c)
    BY AdmitsStays DEF Walk, HandledLast
  <1>3. QED
    BY <1>1, <1>2

\* An interceptor that returns after its call: a panic goes on upwards, or
\* starts in a custom interceptor, but does not get past a recovery; the
\* result changes in tracing interceptors least of all, and they record it.
LEMMA WalkLeaves ==
    ASSUME NEW c \in Seq(Entry), Sorted(c), NEW q, NEW p, Walk(q, c), Follows(p, q),
           q.phase = "up", q.at \in DOMAIN c,
           p.phase = "up", p.at = q.at - 1, p.seen = q.seen,
           p.denied = q.denied, p.handled = q.handled, p.out \in Outs,
           p.open = q.open - SpanOf(c[q.at]),
           p.out = "Panic" => \/ q.out = "Panic" /\ c[q.at].kind # "Recovery"
                              \/ c[q.at].kind \in Custom,
           c[q.at].kind = "Tracing" /\ p.out \notin Panics => p.recorded = SpanCode(p.out)
    PROVE  Walk(p, c)
  <1>1. q.at \in 1..Len(c) /\ Len(c) \in Nat /\ DOMAIN c = 1..Len(c)
    OBVIOUS
  <1>2. Placed(p, c) /\ Walked(p, c)
    BY <1>1 DEF Walk, Placed, Walked
  <1>3. SeenFromOutside(p, c) /\ HandledLast(p, c)
    BY HistoryStays
  <1>4. PanicInside(p, c)
    <2> SUFFICES ASSUME p.out = "Panic", NEW i \in DOMAIN c, c[i].kind = "Recovery"
                 PROVE  i <= p.at
      BY DEF PanicInside
    <2>1. CASE q.out = "Panic" /\ c[q.at].kind # "Recovery"
      BY <2>1, <1>1 DEF Walk, PanicInside
    <2>2. CASE c[q.at].kind \in Custom
      BY <2>2, <1>1, SortedPlaces DEF MayPanic
    <2>3. QED
      BY <2>1, <2>2
  <1>5. Balanced(p, c)
    <2>1. /\ Cardinality(TracingUpTo(c, q.at)) \in Nat
          /\ Cardinality(TracingUpTo(c, q.at - 1)) \in Nat
          /\ Cardinality(TracingUpTo(c, q.at))
             = Cardinality(TracingUpTo(c, q.at - 1)) + SpanOf(c[q.at])
      BY <1>1, TracingCount
    <2>2. SpanOf(c[q.at]) \in {0, 1}
      BY DEF SpanOf
    <2>3. QED
      BY <2>1, <2>2 DEF Walk, Balanced
  <1>6. Told(p, c)
    <2> SUFFICES ASSUME p.out \notin Panics, NEW i \in DOMAIN c, c[i].kind = "Tracing", i > p.at
                 PROVE  p.recorded = SpanCode(p.out)
      BY DEF Told
    <2>1. c[q.at].kind = "Tracing"
      BY <1>1, SortedPlaces
    <2>2. QED
      BY <2>1
  <1>7. QED
    BY <1>2, <1>3, <1>4, <1>5, <1>6 DEF Walk

\* The answered call: what is kept of it is its result and its span's code.
LEMMA WalkReply ==
    ASSUME NEW c \in Seq(Entry), NEW q, NEW p, Walk(q, c), q.phase = "up", q.at = 0,
           p.phase = "done", p.at = 0, p.seen = {}, ~p.handled, p.open = 0,
           p.out = ClientCode(q.out), p.recorded = q.recorded
    PROVE  Walk(p, c)
  <1>1. Placed(p, c) /\ Walked(p, c) /\ PanicInside(p, c) /\ Balanced(p, c)
    BY DEF Placed, Walked, PanicInside, Balanced
  <1>2. SeenFromOutside(p, c) /\ HandledLast(p, c)
    BY DEF SeenFromOutside, HandledLast
  <1>3. q.out \in Outs /\ (p.out \notin Panics => q.out \notin Panics)
    BY DEF Walk, Placed, ClientCode, Panics
  <1>4. SpanCode(q.out) = IF p.out = "Canceled" THEN "Unknown" ELSE p.out
    BY <1>3 DEF SpanCode, ClientCode, Outs, Codes, Panics
  <1>5. Told(p, c)
    BY <1>3, <1>4 DEF Walk, Told
  <1>6. QED
    BY <1>1, <1>2, <1>5 DEF Walk

-----------------------------------------------------------------------------
\* The inductive invariant: the calls walk their chains, and nothing is served
\* before NewServer has returned.
CallsWalk == \A r \in Reqs : Walk(req[r], Chain(r))
NothingBeforeBuilt == ~built => ~crashed /\ \A r \in Reqs : req[r] = Idle

PInv ==
    /\ AssemblyInv /\ TypeOK /\ CallsWalk /\ NothingBeforeBuilt
    /\ PanicContained

\* What the invariant says of one call.
LEMMA CallFacts ==
    ASSUME PInv, NEW r \in Reqs
    PROVE  /\ req[r] \in Request /\ Chain(r) \in Seq(Entry) /\ Sorted(Chain(r))
           /\ Walk(req[r], Chain(r)) /\ chain[req[r].method] = Chain(r)
           /\ req[r].phase # "idle" => built
  <1>1. req[r] \in Request /\ req[r].method \in Methods
    BY DEF PInv, TypeOK, Request
  <1>2. Chain(r) \in Seq(Entry) /\ Sorted(Chain(r))
    BY <1>1 DEF PInv, AssemblyInv, AssemblyTypeOK, TiersInOrder, Sorted, Chain
  <1>3. req[r].phase # "idle" => built
    BY DEF PInv, NothingBeforeBuilt, Idle
  <1>4. QED
    BY <1>1, <1>2, <1>3 DEF PInv, CallsWalk, Chain

\* A step of one call keeps the invariant if the call still walks its chain.
LEMMA CallStep ==
    ASSUME PInv, NEW r \in Reqs, NEW p \in Request, Become(r, p), built,
           UNCHANGED <<cfg, chain, built>>, crashed' \in BOOLEAN,
           Walk(p, chain[p.method]),
           Installed("Recovery") /\ p.phase = "done" => p.out # "Panic"
    PROVE  PInv'
  <1>1. /\ req' \in [Reqs -> Request] /\ req'[r] = p
        /\ \A x \in Reqs \ {r} : req'[x] = req[x]
    BY DEF PInv, TypeOK, Become
  <1>2. AssemblyInv'
    BY DEF PInv, AssemblyInv, AssemblyTypeOK, TiersInOrder, ChainsComplete
  <1>3. TypeOK'
    BY <1>1, <1>2 DEF TypeOK, AssemblyInv
  <1>4. CallsWalk'
    BY <1>1 DEF PInv, CallsWalk, Chain
  <1>5. NothingBeforeBuilt' /\ PanicContained'
    BY <1>1 DEF PInv, NothingBeforeBuilt, PanicContained, Installed
  <1>6. QED
    BY <1>2, <1>3, <1>4, <1>5 DEF PInv

\* The usual case: the process is not affected.
LEMMA PassStep ==
    ASSUME PInv, NEW r \in Reqs, NEW p \in Request, Passes(r, p), built,
           Walk(p, chain[p.method]), p.phase # "done"
    PROVE  PInv'
  <1>1. Become(r, p) /\ UNCHANGED <<cfg, chain, built>> /\ crashed' \in BOOLEAN
    BY DEF Passes, PInv, TypeOK
  <1>2. QED
    BY <1>1, CallStep

\* Arrivals.
LEMMA ArriveInv ==
    ASSUME PInv, NEW r \in Reqs, NEW m \in Methods, NEW b \in BOOLEAN, Arrive(r, m, b)
    PROVE  PInv'
  <1> DEFINE p == [Idle EXCEPT !.phase = "down", !.method = m, !.at = First(m),
                               !.blocked = b]
  <1>1. p \in Request /\ p.method = m /\ p.phase = "down" /\ p.at = 1 /\ p.seen = {}
        /\ ~p.denied /\ ~p.handled /\ p.open = 0
    BY DEF Idle, Request, First, Outs, Codes
  <1>2. Passes(r, p) /\ built
    BY DEF Arrive, Passes
  <1>3. chain[m] \in Seq(Entry)
    BY DEF PInv, AssemblyInv, AssemblyTypeOK
  <1> HIDE DEF p
  <1>4. Walk(p, chain[p.method])
    BY <1>1, <1>3, WalkStart
  <1>5. QED
    BY <1>1, <1>2, <1>4, PassStep

\* What changes in a call when an interceptor has seen it ...
LEMMA SawFields ==
    ASSUME NEW q \in Request, NEW e \in Entry
    PROVE  /\ Saw(q, e) \in Request
           /\ Saw(q, e).seen = q.seen \cup {e}
           /\ Saw(q, e).phase = q.phase /\ Saw(q, e).method = q.method /\ Saw(q, e).blocked = q.blocked
           /\ Saw(q, e).at = q.at /\ Saw(q, e).out = q.out
           /\ Saw(q, e).ctx = q.ctx /\ Saw(q, e).denied = q.denied /\ Saw(q, e).handled = q.handled
           /\ Saw(q, e).open = q.open /\ Saw(q, e).recorded = q.recorded
  BY DEF Request, Saw

\* ... when its context is enriched ...
LEMMA EnrichFields ==
    ASSUME NEW q \in Request,
           NEW x \in {"span", "identity", "requestID"}
    PROVE  /\ Enrich(q, x) \in Request
           /\ Enrich(q, x).ctx = q.ctx \cup {x}
           /\ Enrich(q, x).phase = q.phase /\ Enrich(q, x).method = q.method /\ Enrich(q, x).blocked = q.blocked
           /\ Enrich(q, x).at = q.at /\ Enrich(q, x).out = q.out
           /\ Enrich(q, x).seen = q.seen /\ Enrich(q, x).denied = q.denied /\ Enrich(q, x).handled = q.handled
           /\ Enrich(q, x).open = q.open /\ Enrich(q, x).recorded = q.recorded
  BY DEF Request, Enrich

\* ... when the next interceptor is called ...
LEMMA CallsFields ==
    ASSUME NEW q \in Request
    PROVE  /\ Calls(q) \in Request
           /\ Calls(q).at = q.at + 1
           /\ Calls(q).phase = q.phase /\ Calls(q).method = q.method /\ Calls(q).blocked = q.blocked
           /\ Calls(q).out = q.out /\ Calls(q).ctx = q.ctx
           /\ Calls(q).seen = q.seen /\ Calls(q).denied = q.denied /\ Calls(q).handled = q.handled
           /\ Calls(q).open = q.open /\ Calls(q).recorded = q.recorded
  BY DEF Request, Calls

\* ... when control goes back to the one before ...
LEMMA ReturnsFields ==
    ASSUME NEW q \in Request,
           q.at # 0, NEW code \in Outs
    PROVE  /\ Returns(q, code) \in Request
           /\ Returns(q, code).phase = "up" /\ Returns(q, code).at = q.at - 1
           /\ Returns(q, code).out = code
           /\ Returns(q, code).method = q.method /\ Returns(q, code).blocked = q.blocked
           /\ Returns(q, code).ctx = q.ctx /\ Returns(q, code).seen = q.seen /\ Returns(q, code).denied = q.denied
           /\ Returns(q, code).handled = q.handled /\ Returns(q, code).open = q.open /\ Returns(q, code).recorded = q.recorded
  <1>1. q.at \in Nat /\ q.at - 1 \in Nat
    BY DEF Request
  <1>2. /\ Returns(q, code).phase = "up" /\ Returns(q, code).at = q.at - 1
        /\ Returns(q, code).out = code
        /\ Returns(q, code).method = q.method /\ Returns(q, code).blocked = q.blocked
        /\ Returns(q, code).ctx = q.ctx /\ Returns(q, code).seen = q.seen /\ Returns(q, code).denied = q.denied
        /\ Returns(q, code).handled = q.handled /\ Returns(q, code).open = q.open /\ Returns(q, code).recorded = q.recorded
    BY <1>1 DEF Request, Returns
  <1>3. Returns(q, code) \in Request
    BY <1>1 DEF Request, Returns
  <1>4. QED
    BY <1>2, <1>3

\* ... and when a gate denies it.
LEMMA DeniesFields ==
    ASSUME NEW q \in Request,
           q.at # 0, NEW code \in Outs
    PROVE  /\ Denies(q, code) \in Request
           /\ Denies(q, code).phase = "up" /\ Denies(q, code).at = q.at - 1
           /\ Denies(q, code).out = code /\ Denies(q, code).denied = TRUE
           /\ Denies(q, code).method = q.method /\ Denies(q, code).blocked = q.blocked
           /\ Denies(q, code).ctx = q.ctx /\ Denies(q, code).seen = q.seen /\ Denies(q, code).handled = q.handled
           /\ Denies(q, code).open = q.open /\ Denies(q, code).recorded = q.recorded
  <1> DEFINE s == Returns(q, code)
  <1>1. s \in Request
    BY ReturnsFields
  <1>2. /\ [s EXCEPT !.denied = TRUE] \in Request /\ [s EXCEPT !.denied = TRUE].denied = TRUE
        /\ [s EXCEPT !.denied = TRUE].phase = s.phase /\ [s EXCEPT !.denied = TRUE].at = s.at
        /\ [s EXCEPT !.denied = TRUE].out = s.out /\ [s EXCEPT !.denied = TRUE].method = s.method
        /\ [s EXCEPT !.denied = TRUE].blocked = s.blocked
        /\ [s EXCEPT !.denied = TRUE].ctx = s.ctx /\ [s EXCEPT !.denied = TRUE].seen = s.seen
        /\ [s EXCEPT !.denied = TRUE].handled = s.handled
        /\ [s EXCEPT !.denied = TRUE].open = s.open
        /\ [s EXCEPT !.denied = TRUE].recorded = s.recorded
    <2> HIDE DEF s
    <2>1. QED
      BY <1>1 DEF Request
  <1>3. Denies(q, code) = [s EXCEPT !.denied = TRUE]
    BY DEF Denies
  <1> HIDE DEF s
  <1>4. QED
    BY <1>2, <1>3, ReturnsFields DEF s

\* A call that interceptor i = req[r].at of its chain is handling.
LEMMA EnterFacts ==
    ASSUME PInv, NEW r \in Reqs, NEW k, Entering(r, k)
    PROVE  /\ req[r].phase = "down" /\ req[r].at \in DOMAIN Chain(r) /\ req[r].at # 0
           /\ Chain(r)[req[r].at] \in Entry /\ Chain(r)[req[r].at].kind = k /\ built
           /\ Seen(r) \in Request /\ Seen(r) = Saw(req[r], Chain(r)[req[r].at])
  <1>1. req[r].phase = "down" /\ req[r].at \in DOMAIN Chain(r) /\ Chain(r)[req[r].at].kind = k
    BY DEF Entering
  <1>2. Chain(r)[req[r].at] \in Entry /\ req[r].at # 0
    BY <1>1, CallFacts
  <1>3. Seen(r) = Saw(req[r], Chain(r)[req[r].at])
    BY DEF Seen
  <1>4. QED
    BY <1>1, <1>2, <1>3, CallFacts, SawFields

\* An interceptor that sees the call, perhaps enriches its context, and calls on.
LEMMA EnterCalls ==
    ASSUME PInv, NEW r \in Reqs, NEW k, Entering(r, k),
           NEW s \in Request, Follows(s, Seen(r)), s.phase = Seen(r).phase,
           s.at = Seen(r).at, s.seen = Seen(r).seen, s.denied = Seen(r).denied,
           s.handled = Seen(r).handled,
           s.open = req[r].open + SpanOf(Chain(r)[req[r].at]),
           Admits(Chain(r)[req[r].at], s), Become(r, Calls(s)),
           UNCHANGED <<cfg, chain, built, crashed>>
    PROVE  PInv'
  <1> DEFINE c == Chain(r)
             q == req[r]
             p == Calls(s)
  <1>1. /\ q \in Request /\ c \in Seq(Entry) /\ Walk(q, c) /\ q.phase = "down"
        /\ q.at \in DOMAIN c /\ c[q.at] \in Entry /\ built /\ chain[q.method] = c
    BY CallFacts, EnterFacts
  <1>2. /\ s.phase = q.phase /\ s.at = q.at /\ s.seen = q.seen \cup {c[q.at]}
        /\ s.denied = q.denied /\ s.handled = q.handled /\ s.method = q.method
        /\ s.blocked = q.blocked /\ q.ctx \subseteq s.ctx
    <2> HIDE DEF c, q
    <2>1. /\ Seen(r).phase = q.phase /\ Seen(r).at = q.at
          /\ Seen(r).seen = q.seen \cup {c[q.at]} /\ Seen(r).denied = q.denied
          /\ Seen(r).handled = q.handled /\ Seen(r).method = q.method
          /\ Seen(r).blocked = q.blocked /\ Seen(r).ctx = q.ctx
      <3>1. Seen(r) = Saw(q, c[q.at])
        BY EnterFacts DEF c, q
      <3>2. QED
        BY <1>1, <3>1, SawFields
    <2>2. QED
      BY <2>1 DEF Follows
  <1>3. /\ p \in Request /\ p.at = s.at + 1 /\ p.phase = s.phase /\ p.seen = s.seen
        /\ p.denied = s.denied /\ p.handled = s.handled /\ p.open = s.open
        /\ p.method = s.method /\ p.blocked = s.blocked /\ p.ctx = s.ctx
    BY CallsFields
  <1>4. Follows(p, q) /\ Admits(c[q.at], p)
    BY <1>2, <1>3 DEF Follows, Admits
  <1> HIDE DEF c, q, p
  <1>5. Walk(p, c)
    BY <1>1, <1>2, <1>3, <1>4, WalkCalls DEF c, q
  <1>6. p.method = q.method /\ p.phase = "down"
    BY <1>1, <1>2, <1>3
  <1>7. crashed' \in BOOLEAN
    BY DEF PInv, TypeOK
  <1>8. QED
    BY <1>1, <1>3, <1>5, <1>6, <1>7, CallStep DEF p

\* An interceptor that answers itself or panics.
LEMMA EnterReturns ==
    ASSUME PInv, NEW r \in Reqs, NEW k, Entering(r, k), NEW code \in Outs,
           k # "Tracing" \/ code \in Panics, code = "Panic" => k \in MayPanic,
           NEW p, p = Returns(Seen(r), code) \/ p = Denies(Seen(r), code),
           Passes(r, p)
    PROVE  PInv'
  <1> DEFINE c == Chain(r)
             q == req[r]
  <1>1. /\ q \in Request /\ c \in Seq(Entry) /\ Sorted(c) /\ Walk(q, c)
        /\ q.phase = "down" /\ q.at \in DOMAIN c /\ c[q.at] \in Entry /\ built
        /\ chain[q.method] = c /\ c[q.at].kind = k /\ q.at # 0
    BY CallFacts, EnterFacts
  <1>2. /\ Seen(r) \in Request /\ Seen(r).at = q.at /\ Seen(r).seen = q.seen \cup {c[q.at]}
        /\ Seen(r).handled = q.handled /\ Seen(r).method = q.method
        /\ Seen(r).blocked = q.blocked /\ Seen(r).ctx = q.ctx /\ Seen(r).open = q.open
    BY <1>1, EnterFacts, SawFields
  <1>3. /\ p \in Request /\ p.at = q.at - 1 /\ p.phase = "up" /\ p.out = code
        /\ p.seen = q.seen \cup {c[q.at]} /\ p.handled = q.handled /\ p.open = q.open
        /\ p.method = q.method /\ p.blocked = q.blocked /\ p.ctx = q.ctx
    <2> HIDE DEF c, q
    <2>1. CASE p = Returns(Seen(r), code)
      BY <2>1, <1>1, <1>2, ReturnsFields
    <2>2. CASE p = Denies(Seen(r), code)
      <3>1. Seen(r).at # 0 /\ Seen(r) \in Request
        BY <1>1, <1>2
      <3>2. /\ p \in Request /\ p.at = Seen(r).at - 1 /\ p.phase = "up" /\ p.out = code
            /\ p.seen = Seen(r).seen /\ p.handled = Seen(r).handled /\ p.open = Seen(r).open
            /\ p.method = Seen(r).method /\ p.blocked = Seen(r).blocked
            /\ p.ctx = Seen(r).ctx
        BY <2>2, <3>1, DeniesFields
      <3>3. QED
        BY <3>2, <1>2
    <2>3. QED
      BY <2>1, <2>2
  <1>4. Follows(p, q)
    BY <1>3 DEF Follows
  <1> HIDE DEF c, q
  <1>5. Walk(p, c)
    BY <1>1, <1>3, <1>4, WalkReturns
  <1>6. QED
    BY <1>1, <1>3, <1>5, PassStep DEF c, q

\* An interceptor that changes neither context nor spans, and calls on.
LEMMA EnterPlain ==
    ASSUME PInv, NEW r \in Reqs, NEW k, Entering(r, k),
           k \notin {"Tracing"}, Admits(Chain(r)[req[r].at], req[r]),
           Become(r, Calls(Seen(r))), UNCHANGED <<cfg, chain, built, crashed>>
    PROVE  PInv'
  <1>1. Seen(r) \in Request /\ Chain(r)[req[r].at].kind = k /\ req[r] \in Request
        /\ Chain(r)[req[r].at] \in Entry /\ Seen(r) = Saw(req[r], Chain(r)[req[r].at])
    BY EnterFacts, CallFacts
  <1>2. Follows(Seen(r), Seen(r))
    BY DEF Follows
  <1>3. /\ Seen(r).open = req[r].open /\ Seen(r).blocked = req[r].blocked
        /\ Seen(r).ctx = req[r].ctx /\ Seen(r).method = req[r].method
    BY <1>1, SawFields
  <1>4. Seen(r).open = req[r].open + SpanOf(Chain(r)[req[r].at])
    BY <1>1, <1>3 DEF SpanOf, Request
  <1>5. Admits(Chain(r)[req[r].at], Seen(r))
    BY <1>3 DEF Admits
  <1>6. QED
    BY <1>1, <1>2, <1>4, <1>5, EnterCalls

\* An interceptor other than tracing that adds x to the context and calls on.
LEMMA EnterEnrich ==
    ASSUME PInv, NEW r \in Reqs, NEW k, Entering(r, k), k \notin {"Tracing"},
           NEW x \in {"span", "identity", "requestID"},
           \A s : (s.blocked = req[r].blocked /\ x \in s.ctx) => Admits(Chain(r)[req[r].at], s),
           Passes(r, Calls(Enrich(Seen(r), x)))
    PROVE  PInv'
  <1> DEFINE s == Enrich(Seen(r), x)
  <1>1. Seen(r) \in Request /\ Chain(r)[req[r].at].kind = k /\ req[r] \in Request
        /\ Chain(r)[req[r].at] \in Entry /\ Seen(r) = Saw(req[r], Chain(r)[req[r].at])
    BY EnterFacts, CallFacts
  <1>2. /\ s \in Request /\ s.ctx = Seen(r).ctx \cup {x} /\ s.phase = Seen(r).phase
        /\ s.at = Seen(r).at /\ s.seen = Seen(r).seen /\ s.denied = Seen(r).denied
        /\ s.handled = Seen(r).handled /\ s.open = Seen(r).open
        /\ s.method = Seen(r).method /\ s.blocked = Seen(r).blocked
    BY <1>1, EnrichFields
  <1>3. Seen(r).open = req[r].open /\ Seen(r).blocked = req[r].blocked
    BY <1>1, SawFields
  <1> HIDE DEF s
  <1>4. Follows(s, Seen(r))
    BY <1>2 DEF Follows
  <1>5. s.open = req[r].open + SpanOf(Chain(r)[req[r].at])
    BY <1>1, <1>2, <1>3 DEF SpanOf, Request
  <1>6. Admits(Chain(r)[req[r].at], s)
    BY <1>2, <1>3
  <1>7. Become(r, Calls(s)) /\ UNCHANGED <<cfg, chain, built, crashed>>
    BY DEF Passes, s
  <1>8. QED
    BY <1>2, <1>4, <1>5, <1>6, <1>7, EnterCalls

\* What Passes leaves alone.
LEMMA PassesKeeps ==
    ASSUME PInv, NEW r \in Reqs, NEW p, Passes(r, p)
    PROVE  Become(r, p) /\ UNCHANGED <<cfg, chain, built, crashed>>
  BY DEF Passes

\* tracing starts a span and calls on
LEMMA TracingCalls ==
    ASSUME PInv, NEW r \in Reqs, Entering(r, "Tracing"),
           Passes(r, Calls(Enrich([Seen(r) EXCEPT !.open = @ + 1], "span")))
    PROVE  PInv'
  <1> DEFINE t == [Seen(r) EXCEPT !.open = @ + 1]
             s == Enrich(t, "span")
  <1>0. Entering(r, "Tracing") /\ Passes(r, Calls(s))
    OBVIOUS
  <1>1. Seen(r) \in Request /\ Chain(r)[req[r].at].kind = "Tracing" /\ req[r] \in Request
        /\ Chain(r)[req[r].at] \in Entry /\ Seen(r) = Saw(req[r], Chain(r)[req[r].at])
    BY <1>0, EnterFacts, CallFacts
  <1>2. /\ t \in Request /\ t.ctx = Seen(r).ctx /\ t.phase = Seen(r).phase
        /\ t.at = Seen(r).at /\ t.seen = Seen(r).seen /\ t.denied = Seen(r).denied
        /\ t.handled = Seen(r).handled /\ t.open = Seen(r).open + 1
        /\ t.method = Seen(r).method /\ t.blocked = Seen(r).blocked
    BY <1>1 DEF Request
  <1> HIDE DEF t
  <1>3. /\ s \in Request /\ s.ctx = t.ctx \cup {"span"} /\ s.phase = t.phase
        /\ s.at = t.at /\ s.seen = t.seen /\ s.denied = t.denied
        /\ s.handled = t.handled /\ s.open = t.open
        /\ s.method = t.method /\ s.blocked = t.blocked
    BY <1>2, EnrichFields
  <1> HIDE DEF s
  <1>4. Follows(s, Seen(r))
    BY <1>2, <1>3 DEF Follows
  <1>5. Seen(r).open = req[r].open
    BY <1>1, SawFields
  <1>6. s.open = req[r].open + SpanOf(Chain(r)[req[r].at])
    BY <1>1, <1>2, <1>3, <1>5 DEF SpanOf
  <1>7. Admits(Chain(r)[req[r].at], s)
    BY <1>1, <1>3 DEF Admits
  <1>8. QED
    BY <1>0, <1>2, <1>3, <1>4, <1>6, <1>7, PassesKeeps, EnterCalls

\* tracing, on the way down: a span, or a panic of the tracer
LEMMA TracingEnterInv ==
    ASSUME PInv, NEW r \in Reqs, TracingEnter(r) PROVE PInv'
  <1>1. Entering(r, "Tracing")
    BY DEF TracingEnter
  <1>2. CASE Passes(r, Returns(Seen(r), "TracerPanic"))
    BY <1>1, <1>2, EnterReturns DEF Outs, Panics
  <1>3. QED
    BY <1>1, <1>2, TracingCalls DEF TracingEnter

\* recovery, on the way down
LEMMA RecoveryEnterInv ==
    ASSUME PInv, NEW r \in Reqs, RecoveryEnter(r) PROVE PInv'
  <1>1. Entering(r, "Recovery") /\ Passes(r, Calls(Seen(r)))
    BY DEF RecoveryEnter
  <1>2. Admits(Chain(r)[req[r].at], req[r])
    BY <1>1 DEF Entering, Admits
  <1>3. QED
    BY <1>1, <1>2, PassesKeeps, EnterPlain

\* ipblock
LEMMA IPBlockEnterInv ==
    ASSUME PInv, NEW r \in Reqs, IPBlockEnter(r) PROVE PInv'
  <1>1. Entering(r, "IPBlock")
    BY DEF IPBlockEnter
  <1>2. CASE req[r].blocked
    <2>1. Passes(r, Denies(Seen(r), "PermissionDenied"))
      BY <1>2 DEF IPBlockEnter
    <2>2. QED
      BY <1>1, <2>1, EnterReturns DEF Outs, Codes
  <1>3. CASE ~req[r].blocked
    <2>1. Passes(r, Calls(Seen(r)))
      BY <1>3 DEF IPBlockEnter
    <2>2. Admits(Chain(r)[req[r].at], req[r])
      BY <1>1, <1>3 DEF Entering, Admits
    <2>3. QED
      BY <1>1, <2>1, <2>2, PassesKeeps, EnterPlain
  <1>4. QED
    BY <1>2, <1>3

\* ratelimit: a token or a refusal
LEMMA RateLimitEnterInv ==
    ASSUME PInv, NEW r \in Reqs, RateLimitEnter(r) PROVE PInv'
  <1>1. Entering(r, "RateLimit")
    BY DEF RateLimitEnter
  <1>2. CASE Passes(r, Calls(Seen(r)))
    <2>1. Admits(Chain(r)[req[r].at], req[r])
      BY <1>1 DEF Entering, Admits
    <2>2. QED
      BY <1>1, <1>2, <2>1, PassesKeeps, EnterPlain
  <1>3. CASE Passes(r, Denies(Seen(r), "ResourceExhausted"))
    BY <1>1, <1>3, EnterReturns DEF Outs, Codes
  <1>4. QED
    BY <1>2, <1>3 DEF RateLimitEnter

\* auth
LEMMA AuthEnterInv ==
    ASSUME PInv, NEW r \in Reqs, AuthEnter(r) PROVE PInv'
  <1>1. Entering(r, "Auth") /\ Chain(r)[req[r].at].kind = "Auth"
    BY DEF AuthEnter, Entering
  <1>2. CASE Passes(r, Calls(AuthContext(Seen(r))))
    <2>1. Seen(r).method = req[r].method
      BY <1>1, EnterFacts, CallFacts, SawFields
    <2>2. CASE req[r].method = "unary"
      <3>1. Passes(r, Calls(Enrich(Seen(r), "identity")))
        BY <1>2, <2>1, <2>2 DEF AuthContext
      <3>2. \A s : (s.blocked = req[r].blocked /\ "identity" \in s.ctx)
                      => Admits(Chain(r)[req[r].at], s)
        BY <1>1 DEF Admits
      <3>3. QED
        BY <1>1, <3>1, <3>2, EnterEnrich
    <2>3. CASE req[r].method # "unary"
      <3>1. Passes(r, Calls(Seen(r)))
        BY <1>2, <2>1, <2>3 DEF AuthContext
      <3>2. Admits(Chain(r)[req[r].at], req[r])
        BY <1>1, <2>3 DEF Admits
      <3>3. QED
        BY <1>1, <3>1, <3>2, PassesKeeps, EnterPlain
    <2>4. QED
      BY <2>2, <2>3
  <1>3. ASSUME NEW code \in {"Error", "Unauthenticated"}, Passes(r, Denies(Seen(r), code))
        PROVE  PInv'
    <2>1. code \in Outs /\ code # "Panic"
      BY DEF Outs, Codes
    <2>2. QED
      BY <1>1, <1>3, <2>1, EnterReturns
  <1>4. CASE Passes(r, Returns(Seen(r), "Panic"))
    BY <1>1, <1>4, EnterReturns DEF MayPanic, Outs, Panics
  <1>5. QED
    BY <1>2, <1>3, <1>4 DEF AuthEnter

\* requestid
LEMMA RequestIDEnterInv ==
    ASSUME PInv, NEW r \in Reqs, RequestIDEnter(r) PROVE PInv'
  <1>1. Entering(r, "RequestID") /\ Chain(r)[req[r].at].kind = "RequestID"
    BY DEF RequestIDEnter, Entering
  <1>2. CASE req[r].method = "unary"
    <2>1. Passes(r, Calls(Enrich(Seen(r), "requestID")))
      BY <1>2 DEF RequestIDEnter
    <2>2. \A s : (s.blocked = req[r].blocked /\ "requestID" \in s.ctx)
                    => Admits(Chain(r)[req[r].at], s)
      BY <1>1 DEF Admits
    <2>3. QED
      BY <1>1, <2>1, <2>2, EnterEnrich
  <1>3. CASE req[r].method # "unary"
    <2>1. Passes(r, Calls(Seen(r)))
      BY <1>3 DEF RequestIDEnter
    <2>2. Admits(Chain(r)[req[r].at], req[r])
      BY <1>1, <1>3 DEF Admits
    <2>3. QED
      BY <1>1, <2>1, <2>2, PassesKeeps, EnterPlain
  <1>4. QED
    BY <1>2, <1>3

\* custom interceptors, on the way down
LEMMA CustomEnterInv ==
    ASSUME PInv, NEW r \in Reqs, CustomEnter(r) PROVE PInv'
  <1>1. PICK k \in Custom : /\ Entering(r, k)
                            /\ \/ Passes(r, Calls(Seen(r)))
                               \/ \E out \in UserOuts :
                                     Passes(r, Returns(Seen(r), out))
    BY DEF CustomEnter
  <1>2. Chain(r)[req[r].at].kind = k /\ k \in MayPanic
        /\ k \notin {"Tracing", "IPBlock", "Auth", "RequestID"}
    BY <1>1 DEF Entering, MayPanic, Custom
  <1>3. CASE Passes(r, Calls(Seen(r)))
    <2>1. Admits(Chain(r)[req[r].at], req[r])
      BY <1>2 DEF Admits
    <2>2. QED
      BY <1>1, <1>2, <1>3, <2>1, PassesKeeps, EnterPlain
  <1>4. ASSUME NEW out \in UserOuts, Passes(r, Returns(Seen(r), out))
        PROVE  PInv'
    <2>1. out \in Outs
      BY DEF UserOuts, Outs, Codes, Panics
    <2>2. QED
      BY <1>1, <1>2, <1>4, <2>1, EnterReturns
  <1>5. QED
    BY <1>1, <1>3, <1>4

\* the handler
LEMMA HandlerInv ==
    ASSUME PInv, NEW r \in Reqs, NEW out \in UserOuts, Handler(r, out)
    PROVE  PInv'
  <1> DEFINE c == Chain(r)
             q == req[r]
             s == [req[r] EXCEPT !.handled = TRUE]
             p == Returns(s, out)
  <1>1. /\ q \in Request /\ c \in Seq(Entry) /\ Walk(q, c) /\ chain[q.method] = c
        /\ q.phase = "down" /\ q.at = Len(c) + 1 /\ built /\ q.at # 0
    BY CallFacts DEF Handler
  <1>2. Passes(r, p) /\ out \in Outs
    BY DEF Handler, UserOuts, Outs, Codes, Panics
  <1>3. /\ s \in Request /\ s.at = q.at /\ s.seen = q.seen /\ s.denied = q.denied
        /\ s.open = q.open /\ s.method = q.method /\ s.blocked = q.blocked /\ s.ctx = q.ctx
    BY <1>1 DEF Request
  <1> HIDE DEF s
  <1>4. /\ p \in Request /\ p.at = s.at - 1 /\ p.phase = "up" /\ p.seen = s.seen
        /\ p.denied = s.denied /\ p.open = s.open /\ p.method = s.method
        /\ p.blocked = s.blocked /\ p.ctx = s.ctx /\ p.out \in Outs
    BY <1>1, <1>2, <1>3, ReturnsFields
  <1> HIDE DEF p
  <1>5. Follows(p, q)
    BY <1>3, <1>4 DEF Follows
  <1> HIDE DEF c, q
  <1>6. Walk(p, c)
    BY <1>1, <1>3, <1>4, <1>5, WalkHandler
  <1>7. QED
    BY <1>1, <1>2, <1>3, <1>4, <1>6, PassStep DEF c, q

\* An interceptor that returns; s is the call with the span accounted for.
LEMMA LeaveStep ==
    ASSUME PInv, NEW r \in Reqs, NEW ks, Leaving(r, ks),
           NEW s \in Request, Follows(s, req[r]), s.at = req[r].at, s.seen = req[r].seen,
           s.denied = req[r].denied, s.handled = req[r].handled,
           s.open = req[r].open - SpanOf(Chain(r)[req[r].at]),
           NEW out \in Outs,
           out = "Panic" => \/ req[r].out = "Panic" /\ Chain(r)[req[r].at].kind # "Recovery"
                            \/ Chain(r)[req[r].at].kind \in Custom,
           Chain(r)[req[r].at].kind = "Tracing" /\ out \notin Panics =>
               s.recorded = SpanCode(out),
           Passes(r, Returns(s, out))
    PROVE  PInv'
  <1> DEFINE c == Chain(r)
             q == req[r]
             p == Returns(s, out)
  <1>1. /\ q \in Request /\ c \in Seq(Entry) /\ Sorted(c) /\ Walk(q, c)
        /\ chain[q.method] = c /\ q.phase = "up" /\ q.at \in DOMAIN c /\ built /\ q.at # 0
    BY CallFacts DEF Leaving
  <1>2. /\ p \in Request /\ p.at = s.at - 1 /\ p.phase = "up" /\ p.seen = s.seen
        /\ p.denied = s.denied /\ p.handled = s.handled /\ p.open = s.open
        /\ p.method = s.method /\ p.blocked = s.blocked /\ p.ctx = s.ctx
        /\ p.out = out /\ p.recorded = s.recorded
    BY <1>1, ReturnsFields
  <1> HIDE DEF p
  <1>3. Follows(p, q)
    BY <1>2 DEF Follows
  <1>4. Walk(p, c)
    <2> HIDE DEF c, q
    <2>1. /\ p.at = q.at - 1 /\ p.seen = q.seen /\ p.denied = q.denied
          /\ p.handled = q.handled /\ p.open = q.open - SpanOf(c[q.at])
          /\ p.out = "Panic" => \/ q.out = "Panic" /\ c[q.at].kind # "Recovery"
                                \/ c[q.at].kind \in Custom
          /\ c[q.at].kind = "Tracing" /\ p.out \notin Panics => p.recorded = SpanCode(p.out)
      BY <1>2 DEF c, q
    <2>2. QED
      BY <1>1, <1>2, <1>3, <2>1, WalkLeaves
  <1>5. p.method = q.method /\ Passes(r, p)
    BY <1>2 DEF Follows, p
  <1>6. QED
    BY <1>1, <1>2, <1>4, <1>5, PassStep

\* The same without a span.
LEMMA LeavePlain ==
    ASSUME PInv, NEW r \in Reqs, NEW ks, Leaving(r, ks), "Tracing" \notin ks,
           NEW out \in Outs,
           out = "Panic" => \/ req[r].out = "Panic" /\ Chain(r)[req[r].at].kind # "Recovery"
                            \/ Chain(r)[req[r].at].kind \in Custom,
           Passes(r, Returns(req[r], out))
    PROVE  PInv'
  <1>1. req[r] \in Request /\ Chain(r)[req[r].at].kind # "Tracing"
    BY CallFacts DEF Leaving
  <1>2. Follows(req[r], req[r])
    BY DEF Follows
  <1>3. req[r].open = req[r].open - SpanOf(Chain(r)[req[r].at])
    BY <1>1 DEF SpanOf, Request
  <1>4. QED
    BY <1>1, <1>2, <1>3, LeaveStep

\* A call on its way up has a result.
LEMMA UpFacts ==
    ASSUME PInv, NEW r \in Reqs, req[r].phase = "up"
    PROVE  req[r].out \in Outs
  BY CallFacts DEF Walk, Placed

\* tracing, on the way up: recordStatus, and the deferred End
LEMMA TracingLeaveInv ==
    ASSUME PInv, NEW r \in Reqs, TracingLeave(r) PROVE PInv'
  <1> DEFINE c == Chain(r)
             q == req[r]
  <1>1. Leaving(r, {"Tracing"}) /\ c[q.at].kind = "Tracing" /\ q.phase = "up" /\ q.at \in DOMAIN c
    BY DEF TracingLeave, Leaving
  <1>2. q \in Request /\ c \in Seq(Entry) /\ Walk(q, c) /\ q.out \in Outs
    BY <1>1, CallFacts, UpFacts
  <1>3. q.open - 1 \in Nat
    <2>1. q.at - 1 \in 0..Len(c)
      BY <1>1, <1>2
    <2>2. /\ Cardinality(TracingUpTo(c, q.at - 1)) \in Nat
          /\ Cardinality(TracingUpTo(c, q.at)) = Cardinality(TracingUpTo(c, q.at - 1)) + 1
      BY <1>1, <1>2, <2>1, TracingCount DEF SpanOf
    <2>3. q.open = Cardinality(TracingUpTo(c, q.at))
      BY <1>1, <1>2 DEF Walk, Balanced
    <2>4. QED
      BY <2>2, <2>3
  <1>4. /\ Records(q) \in Request /\ Records(q).at = q.at /\ Records(q).seen = q.seen
        /\ Records(q).denied = q.denied /\ Records(q).handled = q.handled
        /\ Records(q).open = q.open /\ Records(q).method = q.method
        /\ Records(q).blocked = q.blocked /\ Records(q).ctx = q.ctx
        /\ q.out \notin Panics => Records(q).recorded = SpanCode(q.out)
    <2>1. q.out \notin Panics => SpanCode(q.out) \in Codes \cup {"Unknown", "none"}
      BY <1>2 DEF SpanCode, Outs, Codes
    <2>2. QED
      BY <1>2, <2>1 DEF Request, Records
  <1>5. ASSUME NEW t \in {q, Records(q)}, NEW out \in Outs,
               out = q.out \/ out = "TracerPanic",
               out \notin Panics => t.recorded = SpanCode(out),
               Passes(r, Returns(SpanEnds(t), out))
        PROVE  PInv'
    <2> DEFINE s == SpanEnds(t)
    <2>1. /\ t \in Request /\ t.at = q.at /\ t.seen = q.seen /\ t.denied = q.denied
          /\ t.handled = q.handled /\ t.open = q.open /\ t.method = q.method
          /\ t.blocked = q.blocked /\ t.ctx = q.ctx
      BY <1>2, <1>4
    <2>2. /\ s \in Request /\ s.at = t.at /\ s.seen = t.seen /\ s.denied = t.denied
          /\ s.handled = t.handled /\ s.open = t.open - 1 /\ s.method = t.method
          /\ s.blocked = t.blocked /\ s.ctx = t.ctx /\ s.recorded = t.recorded
      BY <1>3, <2>1 DEF Request, SpanEnds
    <2> HIDE DEF s
    <2>3. Follows(s, q)
      BY <2>1, <2>2 DEF Follows
    <2>4. s.open = q.open - SpanOf(c[q.at])
      BY <1>1, <2>1, <2>2 DEF SpanOf
    <2>5. out = "Panic" => q.out = "Panic" /\ c[q.at].kind # "Recovery"
      BY <1>1, <1>5
    <2>6. Passes(r, Returns(s, out))
      BY <1>5 DEF s
    <2>7. QED
      BY <1>1, <1>5, <2>1, <2>2, <2>3, <2>4, <2>5, <2>6, LeaveStep
  <1>6. CASE Passes(r, Returns(SpanEnds(Records(q)), q.out))
    <2> HIDE DEF q, c
    <2>1. QED
      BY <1>2, <1>4, <1>5, <1>6
  <1>7. ASSUME NEW t \in {q, Records(q)}, Passes(r, Returns(SpanEnds(t), "TracerPanic"))
        PROVE  PInv'
    <2>1. "TracerPanic" \in Outs /\ "TracerPanic" \in Panics
      BY DEF Outs, Panics
    <2> HIDE DEF q, c
    <2>2. QED
      BY <1>5, <1>7, <2>1
  <1>8. QED
    BY <1>6, <1>7 DEF TracingLeave

\* recovery, on the way up: the deferred recover
LEMMA RecoveryLeaveInv ==
    ASSUME PInv, NEW r \in Reqs, RecoveryLeave(r) PROVE PInv'
  <1>1. Leaving(r, {"Recovery"}) /\ Passes(r, Returns(req[r], Recovered(req[r].out)))
    BY DEF RecoveryLeave
  <1>2. req[r].out \in Outs
    BY <1>1, UpFacts DEF Leaving
  <1>3. Recovered(req[r].out) \in Outs /\ Recovered(req[r].out) # "Panic"
    BY <1>2 DEF Recovered, Outs, Codes, Panics
  <1>4. QED
    BY <1>1, <1>3, LeavePlain

\* custom interceptors, on the way up
LEMMA CustomLeaveInv ==
    ASSUME PInv, NEW r \in Reqs, CustomLeave(r) PROVE PInv'
  <1>1. Leaving(r, Custom) /\ Chain(r)[req[r].at].kind \in Custom /\ "Tracing" \notin Custom
    BY DEF CustomLeave, Leaving, Custom
  <1>2. PICK out \in Outs : Passes(r, Returns(req[r], out))
    <2>1. req[r].out \in Outs
      BY <1>1, UpFacts DEF Leaving
    <2>2. UserOuts \subseteq Outs
      BY DEF UserOuts, Outs, Codes, Panics
    <2>3. QED
      BY <2>1, <2>2 DEF CustomLeave
  <1>3. QED
    BY <1>1, <1>2, LeavePlain

\* the other interceptors, on the way up
LEMMA PlainLeaveInv ==
    ASSUME PInv, NEW r \in Reqs, PlainLeave(r) PROVE PInv'
  <1> DEFINE ks == {"IPBlock", "RateLimit", "Auth", "RequestID"}
  <1>1. Leaving(r, ks) /\ Passes(r, Returns(req[r], req[r].out))
    BY DEF PlainLeave
  <1>2. Chain(r)[req[r].at].kind # "Recovery" /\ "Tracing" \notin ks
    BY <1>1 DEF Leaving
  <1>3. req[r].out \in Outs
    BY <1>1, UpFacts DEF Leaving
  <1> HIDE DEF ks
  <1>4. QED
    BY <1>1, <1>2, <1>3, LeavePlain

\* With recovery installed no panic reaches the top of the chain.
LEMMA NoPanicOnTop ==
    ASSUME PInv, NEW r \in Reqs, req[r].phase = "up", req[r].at = 0, Installed("Recovery")
    PROVE  req[r].out # "Panic"
  <1>1. built /\ Walk(req[r], Chain(r)) /\ Chain(r) \in Seq(Entry) /\ req[r].method \in Methods
    BY CallFacts DEF Request
  <1>2. PICK i \in DOMAIN cfg.entries : cfg.entries[i].kind = "Recovery"
    BY DEF Installed
  <1>3. Serves(cfg.entries[i], req[r].method)
    BY <1>2 DEF Serves
  <1>4. PICK k \in DOMAIN Chain(r) : Chain(r)[k].kind = "Recovery"
    BY <1>1, <1>2, <1>3 DEF PInv, AssemblyInv, ChainsComplete, Chain
  <1>5. QED
    BY <1>1, <1>4 DEF Walk, PanicInside

\* the answer
LEMMA ReplyInv ==
    ASSUME PInv, NEW r \in Reqs, Reply(r) PROVE PInv'
  <1> DEFINE q == req[r]
             p == [Idle EXCEPT !.phase = "done", !.method = req[r].method,
                               !.out = ClientCode(req[r].out),
                               !.recorded = req[r].recorded]
             c == Chain(r)
  <1>1. /\ q.phase = "up" /\ q.at = 0 /\ Become(r, p)
        /\ crashed' = (q.out \in Panics) /\ UNCHANGED <<cfg, chain, built>>
    BY DEF Reply
  <1>2. q \in Request /\ c \in Seq(Entry) /\ Walk(q, c) /\ built /\ chain[q.method] = c
    BY <1>1, CallFacts
  <1>3. ClientCode(q.out) \in Outs \cup {"Canceled"}
    BY <1>1, UpFacts DEF ClientCode
  <1>4. /\ p \in Request /\ p.phase = "done" /\ p.at = 0 /\ p.seen = {} /\ ~p.handled
        /\ p.open = 0 /\ p.out = ClientCode(q.out) /\ p.recorded = q.recorded
        /\ p.method = q.method
    BY <1>2, <1>3 DEF Request, Idle
  <1>5. Installed("Recovery") => p.out # "Panic"
    BY <1>1, <1>4, NoPanicOnTop DEF ClientCode
  <1> HIDE DEF p
  <1>6. Walk(p, c)
    <2> HIDE DEF c, q
    <2>1. QED
      BY <1>1, <1>2, <1>4, WalkReply
  <1>7. crashed' \in BOOLEAN
    BY <1>1
  <1>8. QED
    BY <1>1, <1>2, <1>4, <1>5, <1>6, <1>7, CallStep

\* Until NewServer returns there is no call that could be on a chain.
LEMMA AssembleInv == ASSUME PInv, Assemble PROVE PInv'
  <1>1. AssemblyNext /\ UNCHANGED <<req, crashed>>
    BY DEF Assemble, requestVars
  <1>2. ~built
    BY <1>1 DEF AssemblyNext, Option, NewServer, WithOpenTelemetry, WithRecovery,
                WithIPBlocker, WithRateLimitGlobal, WithAuth, WithUnaryInterceptor,
                WithStreamInterceptor, WithResolver, WithCacheL1, WithCacheRedis,
                Register, Passing, Setting
  <1>3. ~crashed /\ \A r \in Reqs : req[r] = Idle /\ req'[r] = Idle
    BY <1>1, <1>2 DEF PInv, NothingBeforeBuilt
  <1>4. AssemblyInv'
    BY <1>1, AssemblyStep DEF PInv
  <1>5. TypeOK'
    BY <1>1, <1>4 DEF PInv, TypeOK, AssemblyInv
  <1>6. CallsWalk'
    BY <1>3, WalkIdle DEF CallsWalk
  <1>7. NothingBeforeBuilt' /\ PanicContained'
    BY <1>1, <1>3 DEF NothingBeforeBuilt, PanicContained, Idle
  <1>8. QED
    BY <1>4, <1>5, <1>6, <1>7 DEF PInv

-----------------------------------------------------------------------------
\* Before the first option there is neither a chain nor a call.
LEMMA PInit == PipelineInit => PInv
  <1> SUFFICES ASSUME PipelineInit PROVE PInv
    OBVIOUS
  <1>1. AssemblyInv /\ AssemblyTypeOK
    BY AssemblyInit DEF PipelineInit, AssemblyInv
  <1>2. Idle \in Request
    BY DEF Idle, Request, Methods, Outs, Codes
  <1>3. TypeOK
    BY <1>1, <1>2 DEF PipelineInit, TypeOK
  <1>4. CallsWalk
    BY WalkIdle DEF PipelineInit, CallsWalk
  <1>5. NothingBeforeBuilt /\ PanicContained
    BY DEF PipelineInit, Init, NothingBeforeBuilt, PanicContained, Idle
  <1>6. QED
    BY <1>1, <1>3, <1>4, <1>5 DEF PInv

\* PInv is inductive.
LEMMA PStep == PInv /\ [Next]_vars => PInv'
  <1> SUFFICES ASSUME PInv, [Next]_vars PROVE PInv'
    OBVIOUS
  <1>1. CASE Assemble
    BY <1>1, AssembleInv
  <1>2. ASSUME NEW r \in Reqs, Down(r) PROVE PInv'
    BY <1>2, TracingEnterInv, RecoveryEnterInv, IPBlockEnterInv, RateLimitEnterInv,
       AuthEnterInv, RequestIDEnterInv, CustomEnterInv, HandlerInv DEF Down
  <1>3. ASSUME NEW r \in Reqs, Up(r) PROVE PInv'
    BY <1>3, TracingLeaveInv, RecoveryLeaveInv, CustomLeaveInv, PlainLeaveInv, ReplyInv DEF Up
  <1>4. ASSUME NEW r \in Reqs, NEW m \in Methods, NEW b \in BOOLEAN, Arrive(r, m, b)
        PROVE  PInv'
    BY <1>4, ArriveInv
  <1>5. CASE UNCHANGED vars
    <2>1. AssemblyInv'
      BY <1>5 DEF PInv, AssemblyInv, AssemblyTypeOK, TiersInOrder, ChainsComplete, vars
    <2>2. TypeOK'
      BY <1>5, <2>1 DEF PInv, TypeOK, AssemblyInv, vars
    <2>3. CallsWalk' /\ NothingBeforeBuilt' /\ PanicContained'
      BY <1>5 DEF PInv, CallsWalk, NothingBeforeBuilt, PanicContained,
                  Chain, Installed, vars
    <2>4. QED
      BY <2>1, <2>2, <2>3 DEF PInv
  <1>6. QED
    BY <1>1, <1>2, <1>3, <1>4, <1>5 DEF Next

\* The invariant holds throughout.
LEMMA PInvHolds == Spec => []PInv
  BY PInit, PStep, PTL DEF Spec

\* An installed interceptor is on the chain of every call it serves.
LEMMA OnTheChain ==
    ASSUME PInv, NEW r \in Reqs, NEW k, Installed(k), req[r].phase # "idle",
           k \notin Custom
    PROVE  \E i \in DOMAIN Chain(r) : Chain(r)[i].kind = k
  <1>1. built /\ req[r].method \in Methods
    BY CallFacts DEF Request
  <1>2. PICK i \in DOMAIN cfg.entries : cfg.entries[i].kind = k
    BY DEF Installed
  <1>3. Serves(cfg.entries[i], req[r].method)
    BY <1>2 DEF Serves, Custom
  <1>4. QED
    BY <1>1, <1>2, <1>3 DEF PInv, AssemblyInv, ChainsComplete, Chain

\* Serving calls leaves what NewServer built alone: the server implements the
\* assembly, so that what is proved of AssemblySpec (the order of the chains, the
\* cache) holds while calls are served.
THEOREM ServerAssembles == Spec => AssemblySpec
  <1>1. PipelineInit => Init
    BY DEF PipelineInit
  <1>2. [Next]_vars => [AssemblyNext]_assemblyVars
    BY DEF Next, vars, assemblyVars, Assemble, Arrive, Passes, Down, Up, Handler,
           TracingEnter, RecoveryEnter, IPBlockEnter, RateLimitEnter, AuthEnter,
           RequestIDEnter, CustomEnter, TracingLeave, RecoveryLeave, CustomLeave,
           PlainLeave, Reply
  <1>3. QED
    BY <1>1, <1>2, PTL DEF Spec, AssemblySpec

\* For any options and calls: the state is well formed.  In particular no span is
\* ended twice and no call returns past the outermost interceptor.
THEOREM PipelineTypeCorrect == Spec => []TypeOK
  <1>1. PInv => TypeOK
    BY DEF PInv
  <1>2. QED
    BY <1>1, PInvHolds, PTL

\* For any options and any number of concurrent calls: once WithRecovery has
\* been passed, no panic of user code reaches the top of a goroutine (a panic of
\* the caller's tracer may).
THEOREM PanicsAreContained == Spec => []PanicContained
  <1>1. PInv => PanicContained
    BY DEF PInv
  <1>2. QED
    BY <1>1, PInvHolds, PTL

\* For any options: a handler only runs for calls that every interceptor
\* installed for them has seen, and none has denied.
THEOREM HandlersAreBehindGates == Spec => []HandlerBehindGates
  <1>1. PInv => HandlerBehindGates
    BY CallFacts DEF HandlerBehindGates, Walk, HandledLast
  <1>2. QED
    BY <1>1, PInvHolds, PTL

\* For any options, passed in any order: a call that the IP blocker refuses
\* takes no token and reaches neither AuthFunc nor custom code nor handler.
THEOREM BlockedCallsCostNothing == Spec => []BlockedCostsNothing
  <1>1. ASSUME PInv PROVE BlockedCostsNothing
    <2> SUFFICES ASSUME NEW r \in Reqs, Installed("IPBlock"), req[r].blocked
                 PROVE  /\ SeenKinds(r) \subseteq {"Tracing", "Recovery", "IPBlock"}
                        /\ ~req[r].handled
      BY DEF BlockedCostsNothing
    <2> DEFINE c == Chain(r)
               q == req[r]
    <2>1. c \in Seq(Entry) /\ Sorted(c) /\ Walk(q, c) /\ q \in Request
      BY <1>1, CallFacts
    <2>2. PICK k \in DOMAIN c : c[k].kind = "IPBlock"
      <3>1. q.phase # "idle"
        BY <2>1 DEF Walk, Placed
      <3>2. QED
        BY <1>1, <3>1, OnTheChain DEF Custom
    <2>3. ~Admits(c[k], q)
      BY <2>2 DEF Admits
    <2>4. ~q.handled
      BY <2>1, <2>2, <2>3 DEF Walk, HandledLast
    <2>5. ASSUME NEW e \in q.seen PROVE e.kind \in {"Tracing", "Recovery", "IPBlock"}
      <3>1. PICK i \in DOMAIN c : c[i] = e /\ ~(k < i)
        BY <2>1, <2>3 DEF Walk, SeenFromOutside
      <3>2. i \in Nat /\ k \in Nat
        BY <2>1
      <3>3. Order(c[i]) <= Order(c[k])
        BY <2>1, <3>1, <3>2, OrderIsNat DEF Sorted
      <3>4. e.kind \in Kinds
        BY <2>1 DEF Request, Entry
      <3>5. QED
        BY <3>1, <3>3, <3>4, <2>2 DEF Order, orderTracing, orderRecovery, orderIPBlock,
           orderRateLimit, orderAuth, orderRequestID, orderInterceptor, Kinds
    <2>6. QED
      BY <2>4, <2>5 DEF SeenKinds
  <1>2. QED
    BY <1>1, PInvHolds, PTL

\* For any options, passed in any order: the AuthFunc only runs for calls to
\* which every installed limiter has given a token.
THEOREM AuthIsBehindLimiters == Spec => []AuthBehindLimiters
  <1>1. ASSUME PInv PROVE AuthBehindLimiters
    <2> SUFFICES ASSUME NEW r \in Reqs, "Auth" \in SeenKinds(r),
                        NEW j \in DOMAIN Chain(r), Chain(r)[j].kind = "RateLimit"
                 PROVE  Chain(r)[j] \in req[r].seen
      BY DEF AuthBehindLimiters
    <2> DEFINE c == Chain(r)
               q == req[r]
    <2>1. c \in Seq(Entry) /\ Sorted(c) /\ Walk(q, c)
      BY <1>1, CallFacts
    <2>2. PICK e \in q.seen : e.kind = "Auth"
      BY DEF SeenKinds
    <2>3. PICK i \in DOMAIN c : c[i] = e /\ \A x \in DOMAIN c : x < i => c[x] \in q.seen
      BY <2>1 DEF Walk, SeenFromOutside
    <2>4. Order(c[j]) < Order(c[i])
      BY <2>2, <2>3 DEF Order, orderRateLimit, orderAuth
    <2>5. i \in Nat /\ j \in Nat
      BY <2>1
    <2>6. j < i
      BY <2>1, <2>4, <2>5, OrderIsNat DEF Sorted
    <2>7. QED
      BY <2>3, <2>6
  <1>2. QED
    BY <1>1, PInvHolds, PTL

\* For any options and calls: the spans a call has open are exactly those of the
\* tracing interceptors it is in.
THEOREM SpansAreBalanced == Spec => []SpansBalanced
  <1>1. ASSUME PInv PROVE SpansBalanced
    <2> SUFFICES ASSUME NEW r \in Reqs
                 PROVE  req[r].open = Cardinality({i \in DOMAIN Chain(r) :
                            /\ Chain(r)[i].kind = "Tracing"
                            /\ \/ req[r].phase = "down" /\ i < req[r].at
                               \/ req[r].phase = "up" /\ i <= req[r].at})
      BY DEF SpansBalanced
    <2> DEFINE c == Chain(r)
               q == req[r]
               S == {i \in DOMAIN c : /\ c[i].kind = "Tracing"
                                      /\ \/ q.phase = "down" /\ i < q.at
                                         \/ q.phase = "up" /\ i <= q.at}
    <2>1. /\ c \in Seq(Entry) /\ Balanced(q, c) /\ q.at \in Nat
          /\ q.phase \in {"idle", "down", "up", "done"}
      BY <1>1, CallFacts DEF Walk, Request
    <2>2. CASE q.phase = "down"
      <3>1. S = TracingUpTo(c, q.at - 1)
        BY <2>1, <2>2 DEF TracingUpTo
      <3>2. QED
        BY <2>1, <2>2, <3>1 DEF Balanced
    <2>3. CASE q.phase = "up"
      <3>1. S = TracingUpTo(c, q.at)
        BY <2>3 DEF TracingUpTo
      <3>2. QED
        BY <2>1, <2>3, <3>1 DEF Balanced
    <2>4. CASE q.phase \in {"idle", "done"}
      <3>1. S = {}
        BY <2>4
      <3>2. QED
        BY <2>1, <2>4, <3>1, FS_EmptySet DEF Balanced
    <2>5. QED
      BY <2>1, <2>2, <2>3, <2>4
  <1>2. QED
    BY <1>1, PInvHolds, PTL

\* For any options and calls: an answered call's span carries the code that the
\* client was given, but for a context error without a status, which is Unknown
\* in the span.
THEOREM SpansTellOutcome == Spec => []SpanTellsOutcome
  <1>1. ASSUME PInv PROVE SpanTellsOutcome
    <2> SUFFICES ASSUME NEW r \in Reqs, req[r].phase = "done", Installed("Tracing"),
                        req[r].out \notin Panics
                 PROVE  req[r].recorded =
                            IF req[r].out = "Canceled" THEN "Unknown" ELSE req[r].out
      BY DEF SpanTellsOutcome
    <2>1. Chain(r) \in Seq(Entry) /\ Walk(req[r], Chain(r))
      BY <1>1, CallFacts
    <2>2. PICK i \in DOMAIN Chain(r) : Chain(r)[i].kind = "Tracing"
      BY <1>1, OnTheChain DEF Custom
    <2>3. i > req[r].at
      BY <2>1, <2>2 DEF Walk, Placed
    <2>4. QED
      BY <2>1, <2>2, <2>3 DEF Walk, Told
  <1>2. QED
    BY <1>1, PInvHolds, PTL

\* For any options: the handler of a unary call finds in its context what the
\* installed interceptors put there.
THEOREM UnaryContextIsComplete == Spec => []UnaryContextComplete
  <1>1. ASSUME PInv PROVE UnaryContextComplete
    <2> SUFFICES ASSUME NEW r \in Reqs, req[r].method = "unary", req[r].handled
                 PROVE  /\ Installed("Tracing") => "span" \in req[r].ctx
                        /\ Installed("Auth") => "identity" \in req[r].ctx
                        /\ Installed("RequestID") => "requestID" \in req[r].ctx
      BY DEF UnaryContextComplete
    <2>1. Walk(req[r], Chain(r))
      BY <1>1, CallFacts
    <2>2. req[r].phase # "idle"
      BY <2>1 DEF Walk, Placed
    <2>3. \A i \in DOMAIN Chain(r) : Admits(Chain(r)[i], req[r])
      BY <2>1 DEF Walk, HandledLast
    <2>4. \A k \in {"Tracing", "Auth", "RequestID"} : Installed(k) =>
              \E i \in DOMAIN Chain(r) : Chain(r)[i].kind = k
      BY <1>1, <2>2, OnTheChain DEF Custom
    <2>5. QED
      BY <2>3, <2>4 DEF Admits
  <1>2. QED
    BY <1>1, PInvHolds, PTL

=============================================================================
