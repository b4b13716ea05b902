---------------------------- MODULE MCRateLimit ----------------------------
EXTENDS RateLimit

CONSTANTS r1, r2

MCReqs == {r1, r2}

\* /pkg.Svc/Get and /pkg.Svc/Put
Get == <<"pkg", "Svc", "Get">>
Put == <<"pkg", "Svc", "Put">>
MCFullMethods == {Get, Put}

Limit(rate, window) == [Rate |-> rate, Window |-> window]

\* A pattern that finds one part in every name, and one that finds two in Get.
Anywhere == [m \in MCFullMethods |-> 1]
InGet == [m \in MCFullMethods |-> IF m = Get THEN 2 ELSE -1]

\* Exact against prefix against regex across groups; two rules that tie;
\* two groups with the same name; two limited groups, one of which lets nothing
\* through; a burst of two; no group.
MCResolvers ==
    {<<WithPolicy(Prefix(Group("g"), <<"pkg">>), Limit(1, 2)),
       WithPolicy(Exact(Regex(Group("h"), InGet), Get), None)>>,
     <<Regex(Group("h"), Anywhere),
       WithPolicy(Regex(Regex(Group("g"), Anywhere), InGet), Limit(1, 1))>>,
     <<WithPolicy(Exact(Group("g"), Get), Limit(1, 1)),
       WithPolicy(Prefix(Group("g"), <<"pkg", "Svc">>), Limit(0, 1))>>,
     <<WithPolicy(Exact(Group("g"), Get), Limit(1, 2)),
       WithPolicy(Prefix(Group("h"), <<"pkg", "Svc">>), Limit(0, 1))>>,
     <<WithPolicy(Prefix(Group("g"), <<>>), Limit(2, 1))>>,
     <<>>}

Symmetry == Permutations(MCReqs)

=============================================================================
