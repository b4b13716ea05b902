------------------------------- MODULE Policy -------------------------------
(***************************************************************************)
(* policy/*.go: method groups and the resolver that finds the group whose  *)
(* rule fits a full method name best.                                      *)
(*                                                                         *)
(* A full method name is a sequence of parts and its length their number:  *)
(* all that matching asks of a name is equality, being a prefix, and       *)
(* length.  A regular expression is given by the length of what            *)
(* FindStringIndex finds in each name, and -1 where it finds nothing; one  *)
(* that does not compile panics in Regex, before there is a resolver.      *)
(* The groups do not change once NewResolver has returned, and any number  *)
(* of calls resolve concurrently.                                          *)
(***************************************************************************)
EXTENDS Integers, Sequences, SequencesExt

CONSTANTS
    None,          \* nil / absent
    Reqs,          \* slots for concurrent calls
    FullMethods,   \* full method names
    Resolvers      \* the sequences of groups NewResolver may be given

VARIABLES
    groups,   \* the Resolver's groups
    look      \* look[r]: the Resolve that r is running

-----------------------------------------------------------------------------
kindExact == 0
kindPrefix == 1
kindRegex == 2

\* The builder; limit is the group's policy.RateLimit.  Nothing tells a group
\* without a policy from one whose policy has no RateLimit.
Group(name) == [name |-> name, rules |-> <<>>, limit |-> None]

AddRule(g, rule) == [g EXCEPT !.rules = Append(@, rule)]
Exact(g, pattern) == AddRule(g, [kind |-> kindExact, pattern |-> pattern, re |-> None])
Prefix(g, pattern) == AddRule(g, [kind |-> kindPrefix, pattern |-> pattern, re |-> None])
Regex(g, re) == AddRule(g, [kind |-> kindRegex, pattern |-> <<>>, re |-> re])
WithPolicy(g, limit) == [g EXCEPT !.limit = limit]

\* What the builder makes.
Rules ==
    {rule \in [kind : {kindExact, kindPrefix, kindRegex}, pattern : Seq(STRING),
               re : [FullMethods -> Nat \cup {-1}] \cup {None}] :
        rule.kind = kindRegex => rule.re # None}

\* rule.match: whether the rule matches, and how much of the name.
matched(rule, m) ==
    \/ rule.kind = kindExact /\ m = rule.pattern
    \/ rule.kind = kindPrefix /\ IsPrefix(rule.pattern, m)
    \/ rule.kind = kindRegex /\ rule.re[m] >= 0

matchLen(rule, m) == IF rule.kind = kindRegex THEN rule.re[m] ELSE Len(rule.pattern)

\* bestKind and bestLen start at -1; best is the group found so far.
NoLook == [at |-> "idle", method |-> None, g |-> 1, i |-> 1,
           kind |-> -1, len |-> -1, best |-> None]

PolicyInit ==
    /\ groups \in Resolvers
    /\ look = [r \in Reqs |-> NoLook]

Resolve(r, m) ==
    /\ look[r].at = "idle"
    /\ look' = [look EXCEPT ![r] = [NoLook EXCEPT !.at = "looking", !.method = m]]
    /\ UNCHANGED groups

\* Mutant: among equals the last one wins.
betterOrEqual(kind, len, l) ==
    l.kind < 0 \/ kind < l.kind \/ (kind = l.kind /\ len >= l.len)

\* A lower kind value means higher priority.
better(kind, len, l) ==
    l.kind < 0 \/ kind < l.kind \/ (kind = l.kind /\ len > l.len)

\* One turn of the inner loop.
Consider(l, rule) ==
    LET n == matchLen(rule, l.method) IN
    IF matched(rule, l.method) /\ better(rule.kind, n, l)
    THEN [l EXCEPT !.i = @ + 1, !.kind = rule.kind, !.len = n, !.best = l.g]
    ELSE [l EXCEPT !.i = @ + 1]

VisitRule(r) ==
    LET l == look[r] IN
    /\ l.at = "looking"
    /\ l.g <= Len(groups) /\ l.i <= Len(groups[l.g].rules)
    /\ look' = [look EXCEPT ![r] = Consider(l, groups[l.g].rules[l.i])]
    /\ UNCHANGED groups

NextGroup(r) ==
    LET l == look[r] IN
    /\ l.at = "looking"
    /\ l.g <= Len(groups) /\ l.i > Len(groups[l.g].rules)
    /\ look' = [look EXCEPT ![r].g = l.g + 1, ![r].i = 1]
    /\ UNCHANGED groups

Resolved(r) ==
    /\ look[r].at = "looking"
    /\ look[r].g > Len(groups)
    /\ look' = [look EXCEPT ![r].at = "resolved"]
    /\ UNCHANGED groups

Looking(r) == VisitRule(r) \/ NextGroup(r) \/ Resolved(r)

-----------------------------------------------------------------------------
(***************************************************************************)
(*                              Properties                                 *)
(***************************************************************************)

\* The rules that match m, as positions <<group, rule>>.
Rule(a) == groups[a[1]].rules[a[2]]

Matching(m) ==
    UNION {{g} \X {i \in DOMAIN groups[g].rules : matched(groups[g].rules[i], m)} :
              g \in DOMAIN groups}

\* policy/resolver.go:16-20: exact before prefix before regex, then the longer match,
\* then the one registered first.
Outranks(a, b, m) ==
    LET ka == Rule(a).kind
        kb == Rule(b).kind
        la == matchLen(Rule(a), m)
        lb == matchLen(Rule(b), m)
    IN  \/ ka < kb
        \/ ka = kb /\ la > lb
        \/ ka = kb /\ la = lb /\ (a[1] < b[1] \/ (a[1] = b[1] /\ a[2] < b[2]))

\* group g, or None, is the one policy/resolver.go:14-22 describes for m: the group of
\* the rule that outranks all others that match, and none only if none matches.
IsBest(g, m) ==
    IF g = None THEN Matching(m) = {}
    ELSE \E a \in Matching(m) :
            a[1] = g /\ \A b \in Matching(m) \ {a} : Outranks(a, b, m)

=============================================================================
