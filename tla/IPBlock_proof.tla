--------------------------- MODULE IPBlock_proof ---------------------------
(***************************************************************************)
(* Proofs about IPBlock for every set of addresses, headers and configs    *)
(* and for header values of any length.                                    *)
(*                                                                         *)
(* VerdictIsRight speaks of the config as it was written and of all header *)
(* parts at once.  It rests on the blocker being a faithful translation of *)
(* the config (Built) and on the loop invariant of addrFromHeaders: all    *)
(* that has been visited so far was junk (Visited).                        *)
(***************************************************************************)
EXTENDS IPBlock, TLAPS

\* The header priority that the config asks for.
PriorityOf(c) == IF c.HeaderPriority = <<>> THEN defaultHeaderPriority ELSE c.HeaderPriority

Typed ==
    /\ cfg \in Configs
    /\ eval \in [at : {"idle", "peer", "headers", "client", "verdict"},
                 peer : Addrs \cup {None}, md : Metadata \cup {None},
                 h : Nat, j : Nat, addr : Addrs \cup {None}, allowed : BOOLEAN]
    /\ eval.at # "idle" => blocker # None /\ eval.md \in Metadata
    /\ eval.at \in {"headers", "client"} => eval.peer # None

\* The loops over the headers have not begun yet.
FirstOnes == eval.at = "peer" => eval.h = 1 /\ eval.j = 1

\* The blocker says what the config says.
Built ==
    blocker # None =>
        /\ blocker.mode = cfg.Mode
        /\ blocker.headerPriority = PriorityOf(cfg)
        /\ \A addr \in Addrs :
              /\ matchesAny(addr, blocker.cidrs) <=> Lists(cfg.CIDRs, addr)
              /\ matchesAny(addr, blocker.trustedProxies) <=> Lists(cfg.TrustedProxies, addr)

\* The headers are read for a trusted proxy, and held no address so far.
Visited ==
    eval.at = "headers" =>
        LET p == PriorityOf(cfg) IN
        /\ Lists(cfg.TrustedProxies, eval.peer)
        /\ eval.h \in 1..(Len(p) + 1) /\ eval.j >= 1
        /\ Nameless(p, eval.md, eval.h - 1)
        /\ eval.h <= Len(p) => \A i \in 1..(eval.j - 1) :
              i \in DOMAIN eval.md[p[eval.h]] /\ eval.md[p[eval.h]][i] = Junk

\* The address taken is the client's.
ClientFound ==
    eval.at = "client" => eval.addr \in Addrs /\ IsClient(eval.addr, eval.peer, eval.md)

IInv == Typed /\ FirstOnes /\ Built /\ Visited /\ ClientFound /\ VerdictIsRight

-----------------------------------------------------------------------------
\* parsePrefixes (ipblock.go:97-115) loses nothing and adds nothing.
LEMMA ParsedListsSame ==
    ASSUME NEW raw \in Seq(Entry), Parses(raw), NEW addr \in Addrs
    PROVE  matchesAny(addr, parsePrefixes(raw)) <=> Lists(raw, addr)
  <1>1. DOMAIN parsePrefixes(raw) = DOMAIN raw
    BY DEF parsePrefixes
  <1>2. ASSUME NEW n \in DOMAIN raw
        PROVE  addr \in parsePrefixes(raw)[n] <=>
                  \/ raw[n].form = "addr" /\ raw[n].of = addr
                  \/ raw[n].form = "prefix" /\ addr \in raw[n].of
    <2>1. raw[n] \in Entry /\ raw[n].form # "junk"
      BY DEF Parses
    <2>2. raw[n].form \in {"addr", "prefix"}
      BY <2>1 DEF Entry
    <2>3. parsePrefixes(raw)[n] = IF raw[n].form = "addr" THEN {raw[n].of} ELSE raw[n].of
      BY DEF parsePrefixes
    <2>4. QED
      BY <2>2, <2>3
  <1>3. QED
    BY <1>1, <1>2 DEF matchesAny, Lists

\* The priority list names headers, and headers hold sequences of parts.
LEMMA HeadersTyped ==
    ASSUME NEW c \in Configs
    PROVE  /\ PriorityOf(c) \in Seq(Header)
           /\ \A md \in Metadata, h \in 1..Len(PriorityOf(c)) :
                 md[PriorityOf(c)[h]] \in Seq(Addrs \cup {Junk})
  <1>1. PriorityOf(c) \in Seq(Header)
    BY HeadersAreKnown, ConfigsAreTyped DEF PriorityOf
  <1>2. \A h \in 1..Len(PriorityOf(c)) : PriorityOf(c)[h] \in Header
    BY <1>1
  <1>3. QED
    BY <1>1, <1>2, HeadersAreKnown

\* Before NewIPBlocker there is nothing to be wrong about.
LEMMA InitInv == Init => IInv
  BY AddressesAreNoJunk DEF Init, IInv, Typed, FirstOnes, Built, Visited, ClientFound,
                            VerdictIsRight, NoEval

\* NewIPBlocker (ipblock.go:41-63) translates the config.
LEMMA NewIPBlockerInv == ASSUME IInv, NewIPBlocker PROVE IInv'
  <1>1. /\ cfg \in Configs /\ cfg.CIDRs \in Seq(Entry) /\ cfg.TrustedProxies \in Seq(Entry)
        /\ Parses(cfg.CIDRs) /\ Parses(cfg.TrustedProxies)
    BY ConfigsAreTyped DEF IInv, Typed, NewIPBlocker
  <1>2. /\ blocker'.mode = cfg.Mode
        /\ blocker'.cidrs = parsePrefixes(cfg.CIDRs)
        /\ blocker'.trustedProxies = parsePrefixes(cfg.TrustedProxies)
        /\ blocker'.headerPriority = PriorityOf(cfg)
        /\ UNCHANGED <<cfg, eval>>
    BY DEF NewIPBlocker, PriorityOf
  <1>3. Built'
    BY <1>1, <1>2, ParsedListsSame DEF Built, PriorityOf, Lists
  <1>4. eval.at = "idle"
    BY DEF IInv, Typed, NewIPBlocker
  <1>5. QED
    BY <1>2, <1>3, <1>4 DEF IInv, Typed, FirstOnes, Visited, ClientFound, VerdictIsRight

\* An Evaluate begins (ipblock.go:70).
LEMMA EvaluateInv ==
    ASSUME IInv, NEW peer \in Addrs \cup {None}, NEW md \in Metadata, Evaluate(peer, md)
    PROVE  IInv'
  <1>1. /\ eval' = [NoEval EXCEPT !.at = "peer", !.peer = peer, !.md = md]
        /\ blocker # None /\ UNCHANGED <<cfg, blocker>>
    BY DEF Evaluate
  <1>2. Typed' /\ FirstOnes' /\ eval'.at = "peer"
    BY <1>1 DEF IInv, Typed, FirstOnes, NoEval
  <1>3. Built'
    BY <1>1 DEF IInv, Built, PriorityOf, matchesAny, Lists
  <1>4. QED
    BY <1>2, <1>3 DEF IInv, Visited, ClientFound, VerdictIsRight

\* A step of Evaluate leaves config and blocker alone.
LEMMA StepKeepsBuilt == ASSUME Built, NEW at, Step(at) PROVE Built'
  BY DEF Step, Built, PriorityOf, matchesAny, Lists

\* An address that is taken is the one Decide will judge.
LEMMA TakeInv ==
    ASSUME IInv, NEW at \in {"peer", "headers"}, Step(at), NEW addr \in Addrs, Take(addr),
           eval.peer # None, IsClient(addr, eval.peer, eval.md)
    PROVE  IInv'
  <1>1. /\ eval' = [eval EXCEPT !.at = "client", !.addr = addr] /\ eval.at = at
        /\ UNCHANGED <<cfg, blocker>>
    BY DEF Take, Step
  <1>2. /\ Typed' /\ eval'.at = "client" /\ eval'.addr = addr
        /\ eval'.peer = eval.peer /\ eval'.md = eval.md
    BY <1>1 DEF IInv, Typed
  <1>3. ClientFound'
    BY <1>1, <1>2 DEF ClientFound, IsClient, Lists
  <1>4. QED
    BY <1>2, <1>3, StepKeepsBuilt DEF IInv, FirstOnes, Visited, VerdictIsRight

\* Without a peer address the call is refused (ipblock.go:71-74).
LEMMA UnknownPeerInv == ASSUME IInv, UnknownPeer PROVE IInv'
  <1>1. /\ eval' = [eval EXCEPT !.at = "verdict", !.allowed = FALSE] /\ eval.at = "peer"
        /\ eval.peer = None /\ UNCHANGED <<cfg, blocker>>
    BY DEF UnknownPeer, Step
  <1>2. /\ Typed' /\ eval'.at = "verdict" /\ eval'.allowed = FALSE /\ eval'.peer = None
    BY <1>1 DEF IInv, Typed
  <1>3. QED
    BY <1>2, StepKeepsBuilt DEF IInv, FirstOnes, Visited, ClientFound, VerdictIsRight, UnknownPeer

\* A peer that is no trusted proxy is the client (resolver.go:30-36).
LEMMA DirectPeerInv == ASSUME IInv, DirectPeer PROVE IInv'
  <1>1. eval.at = "peer" /\ eval.peer # None /\ ~Trusts(eval.peer) /\ Step("peer") /\ Take(eval.peer)
    BY DEF DirectPeer, Step
  <1>2. eval.peer \in Addrs /\ blocker # None
    BY <1>1 DEF IInv, Typed
  <1>3. ~Lists(cfg.TrustedProxies, eval.peer)
    BY <1>1, <1>2 DEF IInv, Built, Trusts
  <1>4. IsClient(eval.peer, eval.peer, eval.md)
    BY <1>3 DEF IsClient
  <1>5. QED
    BY <1>1, <1>2, <1>4, TakeInv

\* Behind a trusted proxy the headers are read, from the first one on.
LEMMA ProxyPeerInv == ASSUME IInv, ProxyPeer PROVE IInv'
  <1>1. /\ eval' = [eval EXCEPT !.at = "headers"] /\ eval.at = "peer" /\ eval.peer # None
        /\ Trusts(eval.peer) /\ UNCHANGED <<cfg, blocker>>
    BY DEF ProxyPeer, Step
  <1>2. /\ Typed' /\ eval'.at = "headers" /\ eval'.peer = eval.peer /\ eval'.md = eval.md
        /\ eval'.h = eval.h /\ eval'.j = eval.j
    BY <1>1 DEF IInv, Typed
  <1>3. eval.peer \in Addrs /\ blocker # None
    BY <1>1 DEF IInv, Typed
  <1>4. Lists(cfg.TrustedProxies, eval.peer)
    BY <1>1, <1>3 DEF IInv, Built, Trusts
  <1>5. eval.h = 1 /\ eval.j = 1
    BY <1>1 DEF IInv, FirstOnes
  <1>6. Len(PriorityOf(cfg)) \in Nat
    BY HeadersTyped DEF IInv, Typed
  <1>7. Visited'
    BY <1>1, <1>2, <1>4, <1>5, <1>6 DEF Visited, Nameless, PriorityOf, Lists
  <1>8. QED
    BY <1>2, <1>7, StepKeepsBuilt DEF IInv, ClientFound, VerdictIsRight, ProxyPeer, FirstOnes

\* What the loops of addrFromHeaders know of the header they are at.
LEMMA AtHeader ==
    ASSUME IInv, eval.at = "headers"
    PROVE  /\ Priority = PriorityOf(cfg) /\ Len(Priority) \in Nat
           /\ eval.md \in Metadata /\ eval.h \in Nat \ {0} /\ eval.j \in Nat \ {0}
           /\ eval.h <= Len(Priority) =>
                 /\ Parts \in Seq(Addrs \cup {Junk}) /\ Len(Parts) \in Nat
                 /\ Parts = eval.md[PriorityOf(cfg)[eval.h]]
  <1>1. Priority = PriorityOf(cfg) /\ cfg \in Configs /\ eval.md \in Metadata
    BY DEF IInv, Typed, Built, Priority
  <1>2. eval.h \in Nat \ {0} /\ eval.j \in Nat \ {0}
    BY DEF IInv, Typed, Visited
  <1>3. QED
    BY <1>1, <1>2, HeadersTyped DEF Parts

\* What has to be known after a turn of the loops.
LEMMA VisitedAfter ==
    ASSUME UNCHANGED cfg, eval'.peer = eval.peer, eval'.md = eval.md,
           Lists(cfg.TrustedProxies, eval.peer),
           eval'.h \in 1..(Len(PriorityOf(cfg)) + 1), eval'.j >= 1,
           Nameless(PriorityOf(cfg), eval.md, eval'.h - 1),
           eval'.h <= Len(PriorityOf(cfg)) => \A n \in 1..(eval'.j - 1) :
              /\ n \in DOMAIN eval.md[PriorityOf(cfg)[eval'.h]]
              /\ eval.md[PriorityOf(cfg)[eval'.h]][n] = Junk
    PROVE  Visited'
  BY DEF Visited, Nameless, PriorityOf, Lists

\* One part of a header (resolver.go:83-91): junk is skipped, an address is taken.
LEMMA HeaderPartInv == ASSUME IInv, HeaderPart PROVE IInv'
  <1>1. /\ eval.at = "headers" /\ Step("headers") /\ UNCHANGED <<cfg, blocker>>
        /\ eval.h <= Len(Priority) /\ eval.j <= Len(Parts)
    BY DEF HeaderPart, Step
  <1>2. eval.j \in DOMAIN Parts /\ Parts[eval.j] \in Addrs \cup {Junk}
    BY <1>1, AtHeader
  <1>3. CASE Parts[eval.j] # Junk /\ Take(Parts[eval.j])
    <2>1. IsClient(Parts[eval.j], eval.peer, eval.md)
      <3>1. eval.h \in DOMAIN PriorityOf(cfg)
        BY <1>1, AtHeader, HeadersTyped DEF IInv, Typed
      <3>2. /\ Lists(cfg.TrustedProxies, eval.peer)
            /\ \A n \in 1..(eval.j - 1) : eval.md[PriorityOf(cfg)[eval.h]][n] = Junk
            /\ Nameless(PriorityOf(cfg), eval.md, eval.h - 1)
        BY <1>1, AtHeader DEF IInv, Visited
      <3>3. QED
        BY <1>1, <1>2, <3>1, <3>2, AtHeader DEF IsClient, PriorityOf
    <2>2. QED
      BY <1>1, <1>2, <1>3, <2>1, TakeInv DEF IInv, Typed
  <1>4. CASE Parts[eval.j] = Junk /\ NextPart
    <2>1. /\ Typed' /\ eval'.at = "headers" /\ eval'.peer = eval.peer /\ eval'.md = eval.md
          /\ eval'.h = eval.h /\ eval'.j = eval.j + 1
      BY <1>1, <1>4 DEF NextPart, IInv, Typed
    <2>2. \A n \in 1..eval.j : n \in DOMAIN Parts /\ Parts[n] = Junk
      BY <1>1, <1>2, <1>4, AtHeader DEF IInv, Visited
    <2>3. /\ Lists(cfg.TrustedProxies, eval.peer)
          /\ Nameless(PriorityOf(cfg), eval.md, eval.h - 1)
          /\ eval.h \in 1..(Len(PriorityOf(cfg)) + 1)
      BY <1>1 DEF IInv, Visited
    <2>4. /\ eval.j + 1 >= 1 /\ (eval.j + 1) - 1 = eval.j
          /\ Parts = eval.md[PriorityOf(cfg)[eval.h]]
      BY <1>1, AtHeader
    <2>5. Visited'
      BY <1>1, <2>1, <2>2, <2>3, <2>4, VisitedAfter
    <2>6. QED
      BY <1>1, <2>1, <2>5, StepKeepsBuilt DEF IInv, ClientFound, VerdictIsRight, FirstOnes
  <1>5. QED
    BY <1>3, <1>4 DEF HeaderPart

\* A header is done: no address in it (resolver.go:79-93).
LEMMA HeaderEndsInv == ASSUME IInv, HeaderEnds PROVE IInv'
  <1>1. /\ eval.at = "headers" /\ Step("headers") /\ UNCHANGED <<cfg, blocker>>
        /\ eval.h <= Len(Priority) /\ eval.j > Len(Parts)
        /\ eval' = [eval EXCEPT !.h = @ + 1, !.j = 1]
    BY DEF HeaderEnds, Step
  <1>2. /\ eval'.at = "headers" /\ eval'.peer = eval.peer /\ eval'.md = eval.md
        /\ eval'.h = eval.h + 1 /\ eval'.j = 1
        /\ eval'.addr = eval.addr /\ eval'.allowed = eval.allowed
    BY <1>1 DEF IInv, Typed
  <1>3. Typed'
    <2>1. eval.h \in Nat /\ eval.h + 1 \in Nat
      BY DEF IInv, Typed
    <2> DEFINE n == eval.h + 1
    <2>2. eval' = [[eval EXCEPT !.h = n] EXCEPT !.j = 1] /\ n \in Nat
      BY <1>1, <2>1
    <2> HIDE DEF n
    <2>3. eval' = [at |-> eval.at, peer |-> eval.peer, md |-> eval.md, h |-> n, j |-> 1,
                   addr |-> eval.addr, allowed |-> eval.allowed]
      BY <2>2 DEF IInv, Typed
    <2>4. QED
      BY <1>1, <2>2, <2>3 DEF IInv, Typed
  <1>4. /\ Priority = PriorityOf(cfg) /\ Parts = eval.md[PriorityOf(cfg)[eval.h]]
        /\ Len(PriorityOf(cfg)) \in Nat /\ eval.h \in Nat \ {0} /\ eval.j \in Nat \ {0}
        /\ eval.h <= Len(PriorityOf(cfg))
        /\ DOMAIN Parts = 1..Len(Parts) /\ Len(Parts) \in Nat
    BY <1>1, AtHeader
  <1>5. /\ Lists(cfg.TrustedProxies, eval.peer)
        /\ Nameless(PriorityOf(cfg), eval.md, eval.h - 1)
        /\ \A n \in 1..(eval.j - 1) : Parts[n] = Junk
    BY <1>1, <1>4 DEF IInv, Visited
  <1>6. \A n \in DOMAIN Parts : Parts[n] = Junk
    BY <1>1, <1>4, <1>5
  <1>7. Nameless(PriorityOf(cfg), eval.md, eval.h)
    <2> SUFFICES ASSUME NEW g \in 1..eval.h
                 PROVE  \A n \in DOMAIN eval.md[PriorityOf(cfg)[g]] :
                           eval.md[PriorityOf(cfg)[g]][n] = Junk
      BY DEF Nameless
    <2>1. CASE g = eval.h
      BY <2>1, <1>4, <1>6
    <2>2. CASE g # eval.h
      <3>1. g \in 1..(eval.h - 1)
        BY <2>2, <1>4
      <3>2. QED
        BY <3>1, <1>5 DEF Nameless
    <2>3. QED
      BY <2>1, <2>2
  <1>8. Visited'
    <2>1. /\ eval.h + 1 \in 1..(Len(PriorityOf(cfg)) + 1) /\ (eval.h + 1) - 1 = eval.h
          /\ 1..(1 - 1) = {}
      BY <1>4
    <2>2. QED
      BY <1>1, <1>2, <1>5, <1>7, <2>1, VisitedAfter
  <1>9. QED
    BY <1>1, <1>2, <1>3, <1>8, StepKeepsBuilt DEF IInv, ClientFound, VerdictIsRight, FirstOnes

\* All headers are done: it is the proxy that calls (resolver.go:94, 36).
LEMMA HeadersEndInv == ASSUME IInv, HeadersEnd PROVE IInv'
  <1>1. eval.at = "headers" /\ Step("headers") /\ eval.h > Len(Priority) /\ Take(eval.peer)
    BY DEF HeadersEnd, Step
  <1>2. eval.peer \in Addrs /\ eval.peer # None
    BY <1>1 DEF IInv, Typed
  <1>3. eval.h - 1 = Len(PriorityOf(cfg))
    BY <1>1, AtHeader DEF IInv, Visited
  <1>4. Nameless(PriorityOf(cfg), eval.md, Len(PriorityOf(cfg)))
    BY <1>1, <1>3 DEF IInv, Visited
  <1>5. IsClient(eval.peer, eval.peer, eval.md)
    BY <1>4 DEF IsClient, PriorityOf
  <1>6. QED
    BY <1>1, <1>2, <1>5, TakeInv

\* The verdict on the client (ipblock.go:76-85).
LEMMA DecideInv == ASSUME IInv, Decide PROVE IInv'
  <1>1. /\ eval.at = "client" /\ Step("client") /\ UNCHANGED <<cfg, blocker>>
        /\ eval' = [eval EXCEPT !.at = "verdict", !.allowed = Permits(eval.addr)]
    BY DEF Decide, Step
  <1>2. Permits(eval.addr) \in BOOLEAN
    BY DEF Permits
  <1>3. /\ Typed' /\ eval'.at = "verdict" /\ eval'.peer = eval.peer /\ eval'.md = eval.md
        /\ eval'.allowed = Permits(eval.addr)
    BY <1>1, <1>2 DEF IInv, Typed
  <1>4. eval.addr \in Addrs /\ IsClient(eval.addr, eval.peer, eval.md) /\ eval.peer # None
    BY <1>1 DEF IInv, Typed, ClientFound
  <1>5. /\ blocker.mode = cfg.Mode
        /\ matchesAny(eval.addr, blocker.cidrs) <=> Lists(cfg.CIDRs, eval.addr)
    BY <1>1, <1>4 DEF IInv, Typed, Built
  <1>6. Permits(eval.addr) <=> \/ cfg.Mode = AllowList /\ Lists(cfg.CIDRs, eval.addr)
                               \/ cfg.Mode = DenyList /\ ~Lists(cfg.CIDRs, eval.addr)
    BY <1>5, Zenon DEF Permits
  <1>7. \E addr \in Addrs :
           /\ IsClient(addr, eval.peer, eval.md)
           /\ Permits(eval.addr) <=> \/ cfg.Mode = AllowList /\ Lists(cfg.CIDRs, addr)
                                     \/ cfg.Mode = DenyList /\ ~Lists(cfg.CIDRs, addr)
    BY <1>4, <1>6, Zenon
  <1>8. VerdictIsRight'
    <2>1. eval'.peer # None
      BY <1>3, <1>4
    <2>2. ASSUME NEW addr \in Addrs
          PROVE  IsClient(addr, eval.peer, eval.md)' <=> IsClient(addr, eval.peer, eval.md)
      BY <1>1, <1>3 DEF IsClient
    <2>3. \E addr \in Addrs :
             /\ IsClient(addr, eval.peer, eval.md)'
             /\ Permits(eval.addr) <=> \/ cfg.Mode = AllowList /\ Lists(cfg.CIDRs, addr)
                                       \/ cfg.Mode = DenyList /\ ~Lists(cfg.CIDRs, addr)
      BY <1>7, <2>2, Zenon
    <2>4. cfg' = cfg
      BY <1>1
    <2>5. QED
      BY <1>3, <2>1, <2>3, <2>4, Zenon DEF VerdictIsRight
  <1>9. QED
    BY <1>1, <1>3, <1>8, StepKeepsBuilt DEF IInv, Visited, ClientFound, FirstOnes

\* Every step preserves the invariant.
LEMMA StepInv == IInv /\ [Next]_vars => IInv'
  <1> SUFFICES ASSUME IInv, [Next]_vars PROVE IInv'
    OBVIOUS
  <1>1. CASE UNCHANGED vars
    <2>1. cfg' = cfg /\ blocker' = blocker /\ eval' = eval
      BY <1>1 DEF vars
    <2>2. Typed' /\ FirstOnes'
      BY <2>1 DEF IInv, Typed, FirstOnes
    <2>3. Built'
      BY <2>1 DEF IInv, Built
    <2>4. Visited'
      BY <2>1 DEF IInv, Visited
    <2>5. ASSUME NEW addr
          PROVE  IsClient(addr, eval.peer, eval.md)' <=> IsClient(addr, eval.peer, eval.md)
      BY <2>1 DEF IsClient
    <2>6. ClientFound'
      <3>1. IsClient(eval.addr, eval.peer, eval.md)' <=> IsClient(eval.addr, eval.peer, eval.md)
        BY <2>1 DEF IsClient
      <3>2. QED
        BY <2>1, <3>1, Zenon DEF IInv, ClientFound
    <2>7. VerdictIsRight'
      BY <2>1, <2>5, Zenon DEF IInv, VerdictIsRight
    <2>8. QED
      BY <2>2, <2>3, <2>4, <2>6, <2>7 DEF IInv
  <1>2. QED
    BY <1>1, NewIPBlockerInv, EvaluateInv, UnknownPeerInv, DirectPeerInv, ProxyPeerInv,
       HeaderPartInv, HeaderEndsInv, HeadersEndInv, DecideInv DEF Next

\* The inductive invariant holds throughout.
LEMMA InvHolds == Spec => []IInv
  BY InitInv, StepInv, PTL DEF Spec

\* For every config, every peer and headers of any length, Evaluate (ipblock.go:70-86)
\* judges the client that resolver.go:16-23 describes, and judges it as configured.
THEOREM VerdictIsRightHolds == Spec => []VerdictIsRight
  BY InvHolds, PTL DEF IInv

=============================================================================
