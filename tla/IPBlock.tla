------------------------------ MODULE IPBlock ------------------------------
(***************************************************************************)
(* security/ipblock.go and security/resolver.go: which address a call is   *)
(* taken to come from, and whether that address may call.                  *)
(*                                                                         *)
(* Addresses are model values; a prefix is the set of the addresses that   *)
(* netip.Prefix.Contains accepts.  What netip cannot parse is Junk.  The   *)
(* comma-separated parts of all values of a header are one sequence, in    *)
(* the order in which the two inner loops of addrFromHeaders visit them;   *)
(* an empty part is skipped like Junk.  A blocker is immutable once it is  *)
(* built and an Evaluate touches nothing else, so one Evaluate at a time   *)
(* is enough.                                                              *)
(***************************************************************************)
EXTENDS Integers, Sequences

CONSTANTS
    None,        \* nil / absent
    Addrs,
    Junk,        \* a string that is no address and no prefix
    Header,      \* metadata keys
    Metadata,    \* the mds of calls: the parts of each header
    Configs      \* the Configs NewIPBlocker may be called with

AllowList == 0
DenyList == 1

defaultHeaderPriority == <<"x-real-ip", "x-forwarded-for">>

ASSUME AddressesAreNoJunk == Junk \notin Addrs /\ None \notin Addrs

ASSUME HeadersAreKnown ==
    /\ defaultHeaderPriority \in Seq(Header)
    /\ Metadata \subseteq [Header -> Seq(Addrs \cup {Junk})]

\* An entry of a config list: an address, a prefix, or neither.
Entry == [form : {"addr"}, of : Addrs] \cup [form : {"prefix"}, of : SUBSET Addrs]
             \cup [form : {"junk"}]

ASSUME ConfigsAreTyped ==
    Configs \subseteq [Mode : Int, CIDRs : Seq(Entry), TrustedProxies : Seq(Entry),
                       HeaderPriority : Seq(Header)]

VARIABLES
    cfg,       \* the Config the server is started with
    blocker,   \* the *IPBlocker, None while there is none
    eval       \* the Evaluate that is running, or has returned

vars == <<cfg, blocker, eval>>

NoEval == [at |-> "idle", peer |-> None, md |-> None, h |-> 1, j |-> 1,
           addr |-> None, allowed |-> FALSE]

Init ==
    /\ cfg \in Configs
    /\ blocker = None
    /\ eval = NoEval

-----------------------------------------------------------------------------
\* parsePrefixes: a prefix, else a bare address as a prefix of its own, else an
\* error.
Parses(raw) == \A i \in DOMAIN raw : raw[i].form # "junk"

parsePrefixes(raw) ==
    [i \in DOMAIN raw |-> IF raw[i].form = "addr" THEN {raw[i].of} ELSE raw[i].of]

\* matchesAny, isTrustedProxy
matchesAny(addr, prefixes) == \E i \in DOMAIN prefixes : addr \in prefixes[i]

\* NewIPBlocker: an invalid entry of either list is an error and no blocker.
NewIPBlocker ==
    /\ blocker = None
    /\ Parses(cfg.CIDRs) /\ Parses(cfg.TrustedProxies)
    /\ blocker' = [mode |-> cfg.Mode,
                   cidrs |-> parsePrefixes(cfg.CIDRs),
                   trustedProxies |-> parsePrefixes(cfg.TrustedProxies),
                   headerPriority |-> IF cfg.HeaderPriority = <<>>
                                      THEN defaultHeaderPriority
                                      ELSE cfg.HeaderPriority]
    /\ UNCHANGED <<cfg, eval>>

\* Evaluate(ctx, md) is called: peer is the address in the context (None: no peer,
\* or an address netip does not understand).
Evaluate(peer, md) ==
    /\ blocker # None
    /\ eval.at \in {"idle", "verdict"}
    /\ eval' = [NoEval EXCEPT !.at = "peer", !.peer = peer, !.md = md]
    /\ UNCHANGED <<cfg, blocker>>

\* Mutant: everybody's headers are believed.
TrustsAnyone(addr) == TRUE

Trusts(addr) == matchesAny(addr, blocker.trustedProxies)

Step(at) == eval.at = at /\ UNCHANGED <<cfg, blocker>>

Take(addr) == eval' = [eval EXCEPT !.at = "client", !.addr = addr]

\* resolveClientAddr up to the headers.
UnknownPeer ==
    /\ Step("peer")
    /\ eval.peer = None
    /\ eval' = [eval EXCEPT !.at = "verdict", !.allowed = FALSE]

DirectPeer ==
    /\ Step("peer")
    /\ eval.peer # None /\ ~Trusts(eval.peer)
    /\ Take(eval.peer)

ProxyPeer ==
    /\ Step("peer")
    /\ eval.peer # None /\ Trusts(eval.peer)
    /\ eval' = [eval EXCEPT !.at = "headers"]

\* addrFromHeaders: the loops over the keys and over the parts of their values.
Priority == blocker.headerPriority

Parts == eval.md[Priority[eval.h]]

\* Mutant: a part that is no address ends the header.
JunkEndsHeader == eval' = [eval EXCEPT !.h = @ + 1, !.j = 1]

NextPart == eval' = [eval EXCEPT !.j = @ + 1]

HeaderPart ==
    /\ Step("headers")
    /\ eval.h <= Len(Priority) /\ eval.j <= Len(Parts)
    /\ \/ Parts[eval.j] = Junk /\ NextPart
       \/ Parts[eval.j] # Junk /\ Take(Parts[eval.j])

HeaderEnds ==
    /\ Step("headers")
    /\ eval.h <= Len(Priority) /\ eval.j > Len(Parts)
    /\ eval' = [eval EXCEPT !.h = @ + 1, !.j = 1]

HeadersEnd ==
    /\ Step("headers")
    /\ eval.h > Len(Priority)
    /\ Take(eval.peer)

\* The rest of Evaluate; a mode that is neither refuses.
Permits(addr) ==
    LET matched == matchesAny(addr, blocker.cidrs) IN
    \/ blocker.mode = AllowList /\ matched
    \/ blocker.mode = DenyList /\ ~matched

Decide ==
    /\ Step("client")
    /\ eval' = [eval EXCEPT !.at = "verdict", !.allowed = Permits(eval.addr)]

Next ==
    \/ NewIPBlocker
    \/ \E peer \in Addrs \cup {None}, md \in Metadata : Evaluate(peer, md)
    \/ UnknownPeer \/ DirectPeer \/ ProxyPeer
    \/ HeaderPart \/ HeaderEnds \/ HeadersEnd
    \/ Decide

Spec == Init /\ [][Next]_vars

-----------------------------------------------------------------------------
(***************************************************************************)
(*                              Properties                                 *)
(***************************************************************************)

\* The config list raw names addr (security/ipblock.go:98-100).
Lists(raw, addr) ==
    \E i \in DOMAIN raw :
        \/ raw[i].form = "addr" /\ raw[i].of = addr
        \/ raw[i].form = "prefix" /\ addr \in raw[i].of

\* No address in the first n headers of the priority list p.
Nameless(p, md, n) == \A g \in 1..n : \A i \in DOMAIN md[p[g]] : md[p[g]][i] = Junk

\* addr is whom resolver.go:16-23 and 75-77 describe: behind a trusted proxy the
\* first address in the headers, if there is one, and the peer otherwise.
IsClient(addr, peer, md) ==
    LET p == IF cfg.HeaderPriority = <<>> THEN defaultHeaderPriority ELSE cfg.HeaderPriority
        proxied == Lists(cfg.TrustedProxies, peer)
    IN  \/ /\ proxied
           /\ \E h \in DOMAIN p : \E j \in DOMAIN md[p[h]] :
                 /\ addr = md[p[h]][j]
                 /\ \A i \in 1..(j - 1) : md[p[h]][i] = Junk
                 /\ Nameless(p, md, h - 1)
        \/ /\ addr = peer
           /\ proxied => Nameless(p, md, Len(p))

\* security/ipblock.go:65-69: a call is let in only if its peer address is known
\* and the client behind it is one that the configured mode permits, and every
\* such call is let in; the headers count only behind a trusted proxy, whatever
\* junk they hold (security/resolver.go:16-23).
VerdictIsRight ==
    eval.at = "verdict" =>
        /\ eval.allowed => eval.peer # None
        /\ eval.peer # None => \E addr \in Addrs :
              /\ IsClient(addr, eval.peer, eval.md)
              /\ eval.allowed <=>
                    \/ cfg.Mode = AllowList /\ Lists(cfg.CIDRs, addr)
                    \/ cfg.Mode = DenyList /\ ~Lists(cfg.CIDRs, addr)

=============================================================================
