-------------------------- MODULE RateLimit_proof --------------------------
(***************************************************************************)
(* Proofs about RateLimit and Policy for all resolvers, methods, limits    *)
(* and numbers of concurrent calls.                                        *)
(*                                                                         *)
(* ResolvesToBest rests on the loop invariant of Resolve (LookSound): the  *)
(* rule found so far outranks all others that have been visited.  The two  *)
(* properties of the budget rest on what relates a bucket to the history   *)
(* of its target from both sides (Spent, Kept), and on the fact that only  *)
(* the calls of a target take from the bucket of a limited target          *)
(* (OwnBucket), which is where the names of the groups matter.             *)
(***************************************************************************)
EXTENDS RateLimit, TLAPS

Calls == [at : {"idle", "resolve", "allow"}, kind : Kinds \cup {None},
          limiter : BucketIds \cup {None}]

Looks == [at : {"idle", "looking", "resolved"}, method : FullMethods \cup {None},
          g : Nat, i : Nat, kind : Int, len : Int, best : Nat \cup {None}]

Typed ==
    /\ groups \in Resolvers
    /\ call \in [Reqs -> Calls]
    /\ look \in [Reqs -> Looks]
    /\ limiters \in [BucketIds -> Buckets \cup {None}]
    /\ since \in [Targets(groups) -> [0..Span -> Nat]]
    /\ \A r \in Reqs :
         /\ look[r].best \in DOMAIN groups \cup {None}
         /\ look[r].at # "idle" => look[r].method \in FullMethods
         /\ call[r].at # "idle" => call[r].kind \in Kinds

\* Rule i of group g matches m.
Fits(gs, m, g, i) ==
    g \in DOMAIN gs /\ i \in DOMAIN gs[g].rules /\ matched(gs[g].rules[i], m)

\* Its place in the ranking.
KindAt(gs, g, i) == gs[g].rules[i].kind
LenAt(gs, m, g, i) == matchLen(gs[g].rules[i], m)

\* Rule i of group g goes before rule j of group h.
Ahead(gs, m, g, i, h, j) ==
    \/ KindAt(gs, g, i) < KindAt(gs, h, j)
    \/ /\ KindAt(gs, g, i) = KindAt(gs, h, j)
       /\ \/ LenAt(gs, m, g, i) > LenAt(gs, m, h, j)
          \/ /\ LenAt(gs, m, g, i) = LenAt(gs, m, h, j)
             /\ g < h \/ (g = h /\ i < j)

\* The loop l is past rule j of group h.
Seen(l, h, j) == h < l.g \/ (h = l.g /\ j < l.i)

\* Rule i of group best is the one that the loop l has noted, and rightly so.
Leads(gs, l, i) ==
    /\ Fits(gs, l.method, l.best, i)
    /\ Seen(l, l.best, i)
    /\ l.kind = KindAt(gs, l.best, i)
    /\ l.len = LenAt(gs, l.method, l.best, i)
    /\ \A h, j \in Nat :
          Fits(gs, l.method, h, j) /\ Seen(l, h, j) /\ (h # l.best \/ j # i)
             => Ahead(gs, l.method, l.best, i, h, j)

\* The loop invariant of Resolve.
LookSound(gs, l) ==
    /\ l.g >= 1 /\ l.i >= 1
    /\ l.at = "resolved" => l.g > Len(gs)
    /\ l.best = None => /\ l.kind = -1
                        /\ \A h, j \in Nat : Fits(gs, l.method, h, j) => ~Seen(l, h, j)
    /\ l.best # None => \E i \in Nat : Leads(gs, l, i)

LooksSound == \A r \in Reqs : look[r].at # "idle" => LookSound(groups, look[r])

\* The bucket of a target.
BucketOf(t) == IF t = Global THEN Global ELSE <<t[1], groups[t[2]].name>>

\* A call that goes on to Allow does so with the bucket of its target.
Served ==
    /\ limiters[Global] # None
    /\ \A r \in Reqs : call[r].at = "allow" =>
          /\ look[r].at = "resolved"
          /\ call[r].limiter = BucketOf(TargetOf(r))
          /\ limiters[call[r].limiter] # None

Capped == \A b \in BucketIds : limiters[b] # None => limiters[b].units <= limiters[b].cap

\* What is left in bucket b and what the calls counted in s have taken from it:
\* no more than a burst and the refills (Spent), and no less than either the
\* burst or the refills (Kept).
Spent(b, s, p) == \A a \in 0..Span : p.cost * s[a] + b.units <= p.cap + a * p.gain
Kept(b, s, p) ==
    \A a \in 0..Span : \/ p.cost * s[a] + b.units >= p.cap
                       \/ p.cost * s[a] + b.units >= a * p.gain

Account(b, s, p) ==
    IF b = None THEN \A a \in 0..Span : s[a] = 0
    ELSE /\ b.cost = p.cost /\ b.gain = p.gain /\ b.cap = p.cap
         /\ Spent(b, s, p) /\ Kept(b, s, p)

Balanced ==
    \A t \in Targets(groups) :
        Limited(t) => Account(limiters[BucketOf(t)], since[t], Budget(t))

IInv == Typed /\ LooksSound /\ Served /\ Capped /\ Balanced

-----------------------------------------------------------------------------
(***************************************************************************)
(*                               Resolve                                   *)
(***************************************************************************)

\* The groups of a resolver are a sequence of groups with sequences of rules.
LEMMA GroupsTyped ==
    ASSUME NEW gs \in Resolvers
    PROVE  /\ Len(gs) \in Nat /\ DOMAIN gs = 1..Len(gs)
           /\ \A g \in DOMAIN gs :
                 /\ gs[g] \in Groups
                 /\ Len(gs[g].rules) \in Nat
                 /\ DOMAIN gs[g].rules = 1..Len(gs[g].rules)
                 /\ \A i \in DOMAIN gs[g].rules : gs[g].rules[i] \in Rules
  <1>1. gs \in Seq(Groups)
    BY ResolverAssumption
  <1>2. \A g \in DOMAIN gs : gs[g] \in Groups
    BY <1>1
  <1>3. \A g \in DOMAIN gs : gs[g].rules \in Seq(Rules)
    BY <1>2 DEF Groups
  <1>4. QED
    BY <1>1, <1>2, <1>3

\* Kinds and lengths are numbers, and kinds are not negative.
LEMMA RankTyped ==
    ASSUME NEW gs \in Resolvers, NEW m \in FullMethods,
           NEW g \in DOMAIN gs, NEW i \in DOMAIN gs[g].rules
    PROVE  /\ KindAt(gs, g, i) \in Nat
           /\ LenAt(gs, m, g, i) \in Int
  <1> DEFINE rule == gs[g].rules[i]
  <1>1. rule \in Rules
    BY GroupsTyped
  <1>2. rule.kind \in {0, 1, 2} /\ rule.pattern \in Seq(STRING)
    BY <1>1 DEF Rules, kindExact, kindPrefix, kindRegex
  <1>3. rule.kind = kindRegex => rule.re \in [FullMethods -> Nat \cup {-1}]
    BY <1>1 DEF Rules
  <1>4. rule.kind = kindRegex => rule.re[m] \in Int
    BY <1>3
  <1>5. Len(rule.pattern) \in Int
    BY <1>2
  <1> QED
    BY <1>2, <1>4, <1>5 DEF KindAt, LenAt, matchLen

\* A position that fits is a pair of numbers.
LEMMA FitsTyped ==
    ASSUME NEW gs \in Resolvers, NEW m, NEW g, NEW i, Fits(gs, m, g, i)
    PROVE  /\ g \in 1..Len(gs) /\ i \in 1..Len(gs[g].rules)
           /\ g \in Nat /\ i \in Nat /\ g \in DOMAIN gs /\ i \in DOMAIN gs[g].rules
  BY GroupsTyped DEF Fits

LEMMA AheadIsTransitive ==
    ASSUME NEW gs \in Resolvers, NEW m \in FullMethods,
           NEW g, NEW i, NEW h, NEW j, NEW x, NEW y,
           Fits(gs, m, g, i), Fits(gs, m, h, j), Fits(gs, m, x, y),
           \/ KindAt(gs, g, i) < KindAt(gs, h, j)
           \/ /\ KindAt(gs, g, i) = KindAt(gs, h, j)
              /\ LenAt(gs, m, g, i) > LenAt(gs, m, h, j),
           Ahead(gs, m, h, j, x, y)
    PROVE  Ahead(gs, m, g, i, x, y)
  <1>1. /\ KindAt(gs, g, i) \in Nat /\ LenAt(gs, m, g, i) \in Int
        /\ KindAt(gs, h, j) \in Nat /\ LenAt(gs, m, h, j) \in Int
        /\ KindAt(gs, x, y) \in Nat /\ LenAt(gs, m, x, y) \in Int
    BY RankTyped, FitsTyped
  <1> QED
    BY <1>1 DEF Ahead

\* A new loop has noted nothing and seen nothing.
LEMMA LookStarts ==
    ASSUME NEW gs \in Resolvers, NEW m \in FullMethods
    PROVE  LET l == [NoLook EXCEPT !.at = "looking", !.method = m]
           IN  l \in Looks /\ LookSound(gs, l) /\ l.best = None /\ l.method \in FullMethods
  <1> DEFINE l == [NoLook EXCEPT !.at = "looking", !.method = m]
  <1>0. /\ NoLook \in Looks /\ NoLook.g = 1 /\ NoLook.i = 1 /\ NoLook.kind = -1
        /\ NoLook.len = -1 /\ NoLook.best = None
    BY DEF NoLook, Looks
  <1>1. /\ l \in Looks /\ l.at = "looking" /\ l.method = m /\ l.g = 1 /\ l.i = 1
        /\ l.kind = -1 /\ l.best = None
    BY <1>0 DEF Looks
  <1> HIDE DEF l
  <1>3. ASSUME NEW h \in Nat, NEW j \in Nat, Fits(gs, l.method, h, j)
        PROVE  ~Seen(l, h, j)
    BY <1>1, <1>3, FitsTyped DEF Seen
  <1>4. LookSound(gs, l)
    BY <1>1, <1>3 DEF LookSound
  <1> QED
    BY <1>1, <1>4 DEF l

\* The turn of the inner loop in a state where the invariant holds.
LEMMA ConsiderSound ==
    ASSUME NEW gs \in Resolvers, NEW l \in Looks, l.at = "looking",
           l.method \in FullMethods, l.best \in DOMAIN gs \cup {None},
           LookSound(gs, l), l.g <= Len(gs), l.i <= Len(gs[l.g].rules)
    PROVE  LET k == Consider(l, gs[l.g].rules[l.i])
           IN  /\ k \in Looks /\ k.at = "looking" /\ k.method = l.method
               /\ k.best \in DOMAIN gs \cup {None}
               /\ LookSound(gs, k)
  <1> DEFINE rule == gs[l.g].rules[l.i]
             k == Consider(l, rule)
             m == l.method
             fits == matched(rule, m)
             wins == better(rule.kind, matchLen(rule, m), l)
  <1>1. /\ l.g \in Nat /\ l.i \in Nat /\ l.g >= 1 /\ l.i >= 1
        /\ l.kind \in Int /\ l.len \in Int /\ l.best \in Nat \cup {None}
    BY DEF Looks, LookSound
  <1>2. /\ l.g \in DOMAIN gs /\ l.i \in DOMAIN gs[l.g].rules
        /\ Len(gs) \in Nat
    BY <1>1, GroupsTyped
  <1>3. /\ rule.kind = KindAt(gs, l.g, l.i) /\ matchLen(rule, m) = LenAt(gs, m, l.g, l.i)
        /\ rule.kind \in Nat /\ matchLen(rule, m) \in Int
    BY <1>2, RankTyped DEF KindAt, LenAt
  <1>4. fits <=> Fits(gs, m, l.g, l.i)
    BY <1>2 DEF Fits
  <1>5. l.best # None => l.best \in Nat
    BY <1>1
  <1>6. None \notin Nat
    BY NoneAssumption
  <1>w. wins <=> l.kind < 0 \/ rule.kind < l.kind
                   \/ (rule.kind = l.kind /\ matchLen(rule, m) > l.len)
    BY DEF better
  <1> HIDE DEF rule, fits, wins
  <1>7. CASE fits /\ wins
    <2>1. k = [l EXCEPT !.i = @ + 1, !.kind = rule.kind, !.len = matchLen(rule, m),
                        !.best = l.g]
      BY <1>7 DEF Consider, fits, wins
    <2>2. k = [at |-> "looking", method |-> m, g |-> l.g, i |-> l.i + 1,
               kind |-> rule.kind, len |-> matchLen(rule, m), best |-> l.g]
      BY <2>1 DEF Looks
    <2> HIDE DEF k
    <2>3. k \in Looks
      BY <2>2, <1>1, <1>3 DEF Looks
    <2>4. ASSUME NEW h \in Nat, NEW j \in Nat, Fits(gs, m, h, j), Seen(k, h, j),
                 h # l.g \/ j # l.i
          PROVE  Ahead(gs, m, l.g, l.i, h, j)
      <3>1. Seen(l, h, j)
        BY <1>1, <2>2, <2>4 DEF Seen
      <3>2. l.best # None
        BY <3>1, <2>4 DEF LookSound
      <3>3. PICK i \in Nat : Leads(gs, l, i)
        BY <3>2 DEF LookSound
      <3>4. /\ Fits(gs, m, l.best, i) /\ l.kind = KindAt(gs, l.best, i)
            /\ l.len = LenAt(gs, m, l.best, i)
        BY <3>3 DEF Leads
      <3>5. l.kind >= 0
        BY <3>4, RankTyped, FitsTyped
      <3>6. \/ KindAt(gs, l.g, l.i) < KindAt(gs, l.best, i)
            \/ /\ KindAt(gs, l.g, l.i) = KindAt(gs, l.best, i)
               /\ LenAt(gs, m, l.g, l.i) > LenAt(gs, m, l.best, i)
        BY <1>1, <1>7, <1>w, <1>3, <3>4, <3>5
      <3>7. CASE h = l.best /\ j = i
        BY <3>6, <3>7 DEF Ahead
      <3>8. CASE h # l.best \/ j # i
        <4>1. Ahead(gs, m, l.best, i, h, j)
          BY <3>8, <3>3, <3>1, <2>4 DEF Leads
        <4>2. QED
          BY <4>1, <3>6, <3>4, <1>4, <1>7, <2>4, AheadIsTransitive
      <3>9. QED
        BY <3>7, <3>8
    <2>5. Leads(gs, k, l.i)
      <3>1. Fits(gs, k.method, k.best, l.i)
        BY <1>4, <1>7, <2>2
      <3>2. Seen(k, k.best, l.i)
        BY <1>1, <2>2 DEF Seen
      <3>3. k.kind = KindAt(gs, k.best, l.i) /\ k.len = LenAt(gs, k.method, k.best, l.i)
        BY <1>3, <2>2
      <3>4. QED
        BY <3>1, <3>2, <3>3, <2>4, <2>2 DEF Leads
    <2>6. LookSound(gs, k)
      <3>1. k.g >= 1 /\ k.i >= 1 /\ k.at # "resolved" /\ k.best # None
        BY <1>1, <1>6, <2>2
      <3>2. QED
        BY <1>1, <2>5, <3>1 DEF LookSound
    <2>7. QED
      BY <2>2, <2>3, <2>6, <1>2 DEF k, rule
  <1>8. CASE ~(fits /\ wins)
    <2>1. k = [l EXCEPT !.i = @ + 1]
      BY <1>8 DEF Consider, fits, wins
    <2>2. k = [at |-> "looking", method |-> m, g |-> l.g, i |-> l.i + 1,
               kind |-> l.kind, len |-> l.len, best |-> l.best]
      BY <2>1 DEF Looks
    <2> HIDE DEF k
    <2>3. k \in Looks
      BY <2>2, <1>1 DEF Looks
    <2>4. \A h, j \in Nat : Seen(k, h, j) <=> Seen(l, h, j) \/ (h = l.g /\ j = l.i)
      BY <1>1, <2>2 DEF Seen
    <2>5. ASSUME l.best = None
          PROVE  /\ k.kind = -1
                 /\ \A h, j \in Nat : Fits(gs, k.method, h, j) => ~Seen(k, h, j)
      <3>1. l.kind = -1 /\ \A h, j \in Nat : Fits(gs, m, h, j) => ~Seen(l, h, j)
        BY <2>5 DEF LookSound
      <3>2. ~Fits(gs, m, l.g, l.i)
        BY <3>1, <1>8, <1>4, <1>w
      <3>3. QED
        BY <3>1, <3>2, <2>4, <2>2
    <2>6. ASSUME l.best # None
          PROVE  \E i \in Nat : Leads(gs, k, i)
      <3>1. PICK i \in Nat : Leads(gs, l, i)
        BY <2>6 DEF LookSound
      <3>2. /\ Fits(gs, m, l.best, i) /\ Seen(l, l.best, i)
            /\ l.kind = KindAt(gs, l.best, i) /\ l.len = LenAt(gs, m, l.best, i)
        BY <3>1 DEF Leads
      <3>3. l.kind \in Nat
        BY <3>2, RankTyped, FitsTyped
      <3>4. Fits(gs, m, l.g, l.i) => Ahead(gs, m, l.best, i, l.g, l.i)
        <4>1. SUFFICES ASSUME fits, ~wins
                       PROVE  Ahead(gs, m, l.best, i, l.g, l.i)
          BY <1>4, <1>8
        <4>2. l.kind < rule.kind \/ (l.kind = rule.kind /\ l.len >= matchLen(rule, m))
          BY <4>1, <1>w, <3>3, <1>1, <1>3
        <4>3. l.best < l.g \/ (l.best = l.g /\ i < l.i)
          BY <3>2 DEF Seen
        <4>4. QED
          BY <4>2, <4>3, <3>2, <3>3, <1>1, <1>3 DEF Ahead
      <3>5. ASSUME NEW h \in Nat, NEW j \in Nat, Fits(gs, m, h, j), Seen(k, h, j),
                   h # l.best \/ j # i
            PROVE  Ahead(gs, m, l.best, i, h, j)
        <4>1. CASE Seen(l, h, j)
          BY <4>1, <3>5, <3>1 DEF Leads
        <4>2. CASE h = l.g /\ j = l.i
          BY <4>2, <3>5, <3>4
        <4>3. QED
          BY <4>1, <4>2, <3>5, <2>4
      <3>6. Seen(k, k.best, i)
        BY <3>2, <2>2, <2>4, <1>5, <2>6
      <3>7. Leads(gs, k, i)
        BY <3>2, <3>5, <3>6, <2>2 DEF Leads
      <3>8. QED
        BY <3>7
    <2>7. LookSound(gs, k)
      <3>1. k.g >= 1 /\ k.i >= 1 /\ k.at # "resolved" /\ k.best = l.best
        BY <1>1, <2>2
      <3>2. QED
        BY <3>1, <2>5, <2>6 DEF LookSound
    <2>8. QED
      BY <2>2, <2>3, <2>7 DEF k, rule
  <1>9. QED
    BY <1>7, <1>8

LEMMA LookAtNextGroup ==
    ASSUME NEW l \in Looks, NEW k, k = [l EXCEPT !.g = l.g + 1, !.i = 1]
    PROVE  k = [at |-> l.at, method |-> l.method, g |-> l.g + 1, i |-> 1,
                kind |-> l.kind, len |-> l.len, best |-> l.best]
  BY DEF Looks

\* The end of the inner loop: no rule of the group is left, and none of the next
\* one has been seen.
LEMMA NextGroupSound ==
    ASSUME NEW gs \in Resolvers, NEW l \in Looks, l.at = "looking",
           LookSound(gs, l), l.g <= Len(gs), l.i > Len(gs[l.g].rules)
    PROVE  LET k == [l EXCEPT !.g = l.g + 1, !.i = 1]
           IN  /\ k \in Looks /\ k.at = "looking" /\ k.method = l.method
               /\ k.best = l.best /\ LookSound(gs, k)
  <1> DEFINE k == [l EXCEPT !.g = l.g + 1, !.i = 1]
  <1>1. l.g \in Nat /\ l.i \in Nat /\ l.g >= 1 /\ l.i >= 1
    BY DEF Looks, LookSound
  <1>2. /\ k \in Looks /\ k.at = "looking" /\ k.method = l.method /\ k.g = l.g + 1
        /\ k.i = 1 /\ k.kind = l.kind /\ k.len = l.len /\ k.best = l.best
    <2>1. k = [at |-> "looking", method |-> l.method, g |-> l.g + 1, i |-> 1,
               kind |-> l.kind, len |-> l.len, best |-> l.best]
      BY LookAtNextGroup
    <2>2. QED
      BY <1>1, <2>1 DEF Looks
  <1> HIDE DEF k
  <1>3. ASSUME NEW h, NEW j, Fits(gs, l.method, h, j)
        PROVE  Seen(k, h, j) <=> Seen(l, h, j)
    BY <1>1, <1>2, <1>3, FitsTyped, GroupsTyped DEF Seen
  <1>4. ASSUME NEW i \in Nat, Leads(gs, l, i)
        PROVE  Leads(gs, k, i)
    BY <1>2, <1>3, <1>4 DEF Leads
  <1>5. LookSound(gs, k)
    BY <1>1, <1>2, <1>3, <1>4 DEF LookSound
  <1> QED
    BY <1>2, <1>5 DEF k

\* The end of the outer loop: what was found is the best of all.
LEMMA ResolvedSound ==
    ASSUME NEW gs \in Resolvers, NEW l \in Looks, LookSound(gs, l), l.g > Len(gs)
    PROVE  LET k == [l EXCEPT !.at = "resolved"]
           IN  /\ k \in Looks /\ k.at = "resolved" /\ k.method = l.method
               /\ k.best = l.best /\ LookSound(gs, k)
  <1> DEFINE k == [l EXCEPT !.at = "resolved"]
  <1>1. /\ k \in Looks /\ k.at = "resolved" /\ k.method = l.method /\ k.g = l.g
        /\ k.i = l.i /\ k.kind = l.kind /\ k.len = l.len /\ k.best = l.best
    BY DEF Looks
  <1> HIDE DEF k
  <1>2. \A h, j : Seen(k, h, j) <=> Seen(l, h, j)
    BY <1>1 DEF Seen
  <1>3. ASSUME NEW i \in Nat, Leads(gs, l, i)
        PROVE  Leads(gs, k, i)
    BY <1>1, <1>2, <1>3 DEF Leads
  <1>4. LookSound(gs, k)
    BY <1>1, <1>2, <1>3 DEF LookSound
  <1> QED
    BY <1>1, <1>4 DEF k

\* Matching is the set of the positions that fit.
LEMMA MatchingFits ==
    ASSUME NEW m
    PROVE  \A a : a \in Matching(m) <=>
                    \E g, i : a = <<g, i>> /\ Fits(groups, m, g, i)
  <1>1. ASSUME NEW a, a \in Matching(m)
        PROVE  \E g, i : a = <<g, i>> /\ Fits(groups, m, g, i)
    <2>1. PICK g \in DOMAIN groups :
             a \in {g} \X {i \in DOMAIN groups[g].rules : matched(groups[g].rules[i], m)}
      BY <1>1 DEF Matching
    <2>2. PICK i \in DOMAIN groups[g].rules : a = <<g, i>> /\ matched(groups[g].rules[i], m)
      BY <2>1
    <2>3. QED
      BY <2>1, <2>2 DEF Fits
  <1>2. ASSUME NEW g, NEW i, Fits(groups, m, g, i)
        PROVE  <<g, i>> \in Matching(m)
    <2>1. g \in DOMAIN groups /\ i \in DOMAIN groups[g].rules
          /\ matched(groups[g].rules[i], m)
      BY <1>2 DEF Fits
    <2>2. <<g, i>> \in {g} \X {x \in DOMAIN groups[g].rules : matched(groups[g].rules[x], m)}
      BY <2>1
    <2>3. QED
      BY <2>1, <2>2 DEF Matching
  <1>3. QED
    BY <1>1, <1>2

LEMMA SoundIsBest ==
    ASSUME groups \in Resolvers, NEW l \in Looks, l.at = "resolved",
           l.method \in FullMethods, LookSound(groups, l)
    PROVE  IsBest(l.best, l.method)
  <1> DEFINE m == l.method
  <1>1. \A h, j : Fits(groups, m, h, j) => h \in Nat /\ j \in Nat /\ Seen(l, h, j)
    <2>1. l.g \in Nat /\ l.g > Len(groups)
      BY DEF LookSound, Looks
    <2>2. QED
      BY <2>1, FitsTyped, GroupsTyped DEF Seen
  <1>2. CASE l.best = None
    <2>1. \A h, j : ~Fits(groups, m, h, j)
      BY <1>1, <1>2 DEF LookSound
    <2>2. Matching(m) = {}
      BY <2>1, MatchingFits
    <2>3. QED
      BY <1>2, <2>2 DEF IsBest
  <1>3. CASE l.best # None
    <2>1. PICK i \in Nat : Leads(groups, l, i)
      BY <1>3 DEF LookSound
    <2> DEFINE a == <<l.best, i>>
    <2>2. a \in Matching(m) /\ a[1] = l.best
      BY <2>1, MatchingFits DEF Leads
    <2>3. ASSUME NEW b \in Matching(m) \ {a}
          PROVE  Outranks(a, b, m)
      <3>1. PICK h, j : b = <<h, j>> /\ Fits(groups, m, h, j)
        BY MatchingFits
      <3>2. h # l.best \/ j # i
        BY <3>1
      <3>3. Ahead(groups, m, l.best, i, h, j)
        BY <3>1, <3>2, <1>1, <2>1 DEF Leads
      <3>4. QED
        BY <3>1, <3>3 DEF Ahead, Outranks, Rule, KindAt, LenAt
    <2>4. QED
      BY <1>3, <2>2, <2>3 DEF IsBest
  <1>4. QED
    BY <1>2, <1>3

-----------------------------------------------------------------------------
(***************************************************************************)
(*                               Buckets                                   *)
(***************************************************************************)
Plans == [cost : Nat \ {0}, gain : Nat, cap : Nat]
Histories == [0..Span -> Nat]

\* The products of the budget, as far as the lemmas need them.
LEMMA Products ==
    ASSUME NEW c \in Nat, NEW s \in Nat
    PROVE  /\ c * s \in Nat
           /\ c * (s + 1) = c * s + c
           /\ (s + 1) * c = s * c + c
           /\ c * 0 = 0 /\ 0 * c = 0
  OBVIOUS

\* A new bucket is full, and nothing has been taken from it.
LEMMA NewBucketBalanced ==
    ASSUME NEW p \in Plans, NEW s \in Histories, \A a \in 0..Span : s[a] = 0,
           NEW b \in Buckets, b = Bucket(p.cost, p.gain, p.cap)
    PROVE  Account(b, s, p)
  <1>1. b.cost = p.cost /\ b.gain = p.gain /\ b.cap = p.cap /\ b.units = p.cap
    BY DEF Bucket
  <1>2. p.cost \in Nat /\ p.gain \in Nat /\ p.cap \in Nat
    BY DEF Plans
  <1>3. b # None
    BY NoneAssumption
  <1>4. ASSUME NEW a \in 0..Span
        PROVE  p.cost * s[a] = 0 /\ a * p.gain \in Nat
    BY <1>2, Products, LimitAssumption
  <1>5. Spent(b, s, p)
    BY <1>1, <1>2, <1>4 DEF Spent
  <1>6. Kept(b, s, p)
    BY <1>1, <1>2, <1>4 DEF Kept
  <1> QED
    BY <1>1, <1>3, <1>5, <1>6 DEF Account

\* A token that is taken is a call that is counted.
LEMMA TokenBalanced ==
    ASSUME NEW p \in Plans, NEW s \in Histories, NEW b \in Buckets, Account(b, s, p),
           Affordable(b)
    PROVE  LET d == [b EXCEPT !.units = @ - b.cost]
           IN  d \in Buckets /\ Account(d, [a \in 0..Span |-> s[a] + 1], p)
  <1> DEFINE d == [b EXCEPT !.units = @ - b.cost]
             n == [a \in 0..Span |-> s[a] + 1]
  <1>1. b # None
    BY NoneAssumption
  <1>2. /\ b.cost = p.cost /\ b.gain = p.gain /\ b.cap = p.cap
        /\ Spent(b, s, p) /\ Kept(b, s, p)
    BY <1>1 DEF Account
  <1>3. /\ p.cost \in Nat /\ p.gain \in Nat /\ p.cap \in Nat
        /\ b.units \in Nat /\ b.units >= b.cost
    BY DEF Plans, Buckets, Affordable
  <1>4. /\ d \in Buckets /\ d.cost = p.cost /\ d.gain = p.gain /\ d.cap = p.cap
        /\ d.units = b.units - p.cost
    BY <1>2, <1>3 DEF Buckets
  <1>5. d # None
    BY <1>4, NoneAssumption
  <1>6. ASSUME NEW a \in 0..Span
        PROVE  /\ p.cost * n[a] + d.units = p.cost * s[a] + b.units
               /\ a * p.gain \in Nat
    <2>1. s[a] \in Nat /\ n[a] = s[a] + 1 /\ a \in Nat
      BY LimitAssumption DEF Histories
    <2>2. p.cost * n[a] = p.cost * s[a] + p.cost /\ p.cost * s[a] \in Nat
      BY <2>1, <1>3, Products
    <2>3. a * p.gain \in Nat
      BY <2>1, <1>3, Products
    <2> QED
      BY <2>2, <2>3, <1>3, <1>4
  <1> HIDE DEF d, n
  <1>7. Spent(d, n, p)
    BY <1>2, <1>6 DEF Spent
  <1>8. Kept(d, n, p)
    BY <1>2, <1>6 DEF Kept
  <1>9. Account(d, n, p)
    BY <1>4, <1>5, <1>7, <1>8 DEF Account
  <1> QED
    BY <1>4, <1>9 DEF d, n

\* A tick of the clock moves the history and refills the bucket up to its burst.
LEMMA RefillTyped ==
    ASSUME NEW b \in Buckets
    PROVE  LET d == Refill(b)
           IN  /\ d \in Buckets /\ d.cost = b.cost /\ d.gain = b.gain /\ d.cap = b.cap
               /\ d.units <= d.cap
               /\ d.units <= b.units + b.gain
               /\ d.units = b.cap \/ d.units = b.units + b.gain
  BY DEF Refill, Buckets

LEMMA TickBalanced ==
    ASSUME NEW p \in Plans, NEW s \in Histories, NEW b \in Buckets \cup {None},
           b # None => b.units <= b.cap, Account(b, s, p)
    PROVE  Account(IF b = None THEN None ELSE Refill(b),
                   [a \in 0..Span |-> IF a = 0 THEN 0 ELSE s[a - 1]], p)
  <1> DEFINE d == Refill(b)
             n == [a \in 0..Span |-> IF a = 0 THEN 0 ELSE s[a - 1]]
  <1>1. CASE b = None
    <2>1. \A a \in 0..Span : n[a] = 0
      BY <1>1, LimitAssumption DEF Account
    <2>2. QED
      BY <1>1, <2>1 DEF Account
  <1>2. CASE b # None
    <2>1. b \in Buckets
      BY <1>2
    <2>2. /\ b.cost = p.cost /\ b.gain = p.gain /\ b.cap = p.cap
          /\ Spent(b, s, p) /\ Kept(b, s, p)
      BY <1>2 DEF Account
    <2>3. /\ p.cost \in Nat /\ p.gain \in Nat /\ p.cap \in Nat
          /\ b.units \in Nat /\ b.units <= p.cap
      BY <1>2, <2>1, <2>2 DEF Plans, Buckets
    <2>4. /\ d \in Buckets /\ d.cost = p.cost /\ d.gain = p.gain /\ d.cap = p.cap
          /\ d.units <= p.cap /\ d.units <= b.units + p.gain
          /\ d.units = p.cap \/ d.units = b.units + p.gain
      BY <2>1, <2>2, RefillTyped
    <2>5. d # None /\ d.units \in Nat
      BY <2>4, NoneAssumption DEF Buckets
    <2> HIDE DEF d
    <2>6. ASSUME NEW a \in 0..Span
          PROVE  /\ p.cost * n[a] + d.units <= p.cap + a * p.gain
                 /\ \/ p.cost * n[a] + d.units >= p.cap
                    \/ p.cost * n[a] + d.units >= a * p.gain
      <3>1. CASE a = 0
        <4>1. n[a] = 0 /\ p.cost * n[a] = 0 /\ a * p.gain = 0
          BY <3>1, <2>3, Products
        <4>2. QED
          BY <4>1, <2>3, <2>4, <2>5
      <3>2. CASE a # 0
        <4> DEFINE z == a - 1
        <4>1. z \in 0..Span /\ z \in Nat /\ a = z + 1 /\ n[a] = s[z] /\ s[z] \in Nat
          BY <3>2, LimitAssumption DEF Histories
        <4> HIDE DEF z, n
        <4>2. a * p.gain = z * p.gain + p.gain /\ z * p.gain \in Nat
              /\ p.cost * s[z] \in Nat
          BY <4>1, <2>3, Products
        <4>3. /\ p.cost * s[z] + b.units <= p.cap + z * p.gain
              /\ \/ p.cost * s[z] + b.units >= p.cap
                 \/ p.cost * s[z] + b.units >= z * p.gain
          BY <4>1, <2>2 DEF Spent, Kept
        <4>4. p.cost * n[a] = p.cost * s[z]
          BY <4>1
        <4>5. QED
          BY <4>2, <4>3, <4>4, <2>3, <2>4, <2>5
      <3>3. QED
        BY <3>1, <3>2
    <2> HIDE DEF n
    <2>7. Spent(d, n, p) /\ Kept(d, n, p)
      BY <2>6 DEF Spent, Kept
    <2>8. Account(d, n, p)
      BY <2>4, <2>5, <2>7 DEF Account
    <2>9. QED
      BY <1>2, <2>8 DEF d, n
  <1>3. QED
    BY <1>1, <1>2

-----------------------------------------------------------------------------
(***************************************************************************)
(*                          Targets and buckets                            *)
(***************************************************************************)

\* Global is neither the bucket nor the target of a group.
LEMMA GroupKeys ==
    ASSUME groups \in Resolvers
    PROVE  /\ Global \in BucketIds /\ Global \in Targets(groups)
           /\ \A k \in Kinds, g \in DOMAIN groups :
                 /\ <<k, g>> \in Targets(groups) /\ <<k, g>> # Global
                 /\ <<k, groups[g].name>> \in BucketIds
                 /\ <<k, groups[g].name>> # Global
           /\ \A t \in Targets(groups) :
                 t # Global => \E k \in Kinds, g \in DOMAIN groups : t = <<k, g>>
  <1>1. \A g \in DOMAIN groups : g \in Nat /\ groups[g].name \in Names
    BY GroupsTyped DEF Groups
  <1>2. None \notin Nat /\ None \notin Names
    BY NoneAssumption
  <1>3. QED
    BY <1>1, <1>2 DEF BucketIds, Targets, Global

LEMMA BucketOfTyped ==
    ASSUME groups \in Resolvers, NEW t \in Targets(groups)
    PROVE  BucketOf(t) \in BucketIds
  BY GroupKeys DEF BucketOf

\* A target with a limit of its own shares its bucket with no other.
LEMMA OwnBucket ==
    ASSUME groups \in Resolvers, NEW t \in Targets(groups), NEW u \in Targets(groups),
           Limited(t), BucketOf(t) = BucketOf(u)
    PROVE  t = u
  <1>1. CASE t = Global
    BY <1>1, GroupKeys DEF BucketOf
  <1>2. CASE t # Global
    <2>1. PICK k \in Kinds, g \in DOMAIN groups : t = <<k, g>>
      BY <1>2, GroupKeys
    <2>2. u # Global
      BY <1>2, <2>1, GroupKeys DEF BucketOf
    <2>3. PICK j \in Kinds, h \in DOMAIN groups : u = <<j, h>>
      BY <2>2, GroupKeys
    <2>4. k = j /\ groups[g].name = groups[h].name
      BY <1>2, <2>1, <2>2, <2>3 DEF BucketOf
    <2>5. OwnName(g)
      BY <1>2, <2>1 DEF Limited
    <2>6. QED
      BY <2>1, <2>3, <2>4, <2>5 DEF OwnName
  <1>3. QED
    BY <1>1, <1>2

LEMMA BudgetTyped ==
    ASSUME groups \in Resolvers, NEW t \in Targets(groups), Limited(t)
    PROVE  Budget(t) \in Plans
  <1>1. CASE t = Global
    BY <1>1, LimitAssumption DEF Budget, Plans
  <1>2. CASE t # Global
    <2>1. PICK k \in Kinds, g \in DOMAIN groups : t = <<k, g>>
      BY <1>2, GroupKeys
    <2>2. groups[g].limit \in Limits
      BY <1>2, <2>1, GroupsTyped DEF Groups, Limited
    <2>3. groups[g].limit.Rate \in Nat /\ groups[g].limit.Window \in Nat \ {0}
      BY <2>2 DEF Limits
    <2>4. groups[g].limit.Rate * groups[g].limit.Window \in Nat
      BY <2>3, Products
    <2>5. QED
      BY <1>2, <2>1, <2>3, <2>4 DEF Budget, Plans
  <1>3. QED
    BY <1>1, <1>2

\* The bucket of a target as CreateGroup makes it.
LEMMA NewGroupLimiterFits ==
    ASSUME groups \in Resolvers, NEW g \in DOMAIN groups, groups[g].limit # None
    PROVE  LET b == NewGroupLimiter(groups[g].limit)
           IN  /\ b \in Buckets /\ b # None /\ b.units <= b.cap
               /\ \A k \in Kinds : b = Bucket(Budget(<<k, g>>).cost, Budget(<<k, g>>).gain,
                                             Budget(<<k, g>>).cap)
  <1>1. groups[g].limit \in Limits
    BY GroupsTyped DEF Groups
  <1>2. groups[g].limit.Rate \in Nat /\ groups[g].limit.Window \in Nat \ {0}
    BY <1>1 DEF Limits
  <1>3. groups[g].limit.Rate * groups[g].limit.Window \in Nat
    BY <1>2, Products
  <1>4. /\ NewGroupLimiter(groups[g].limit) \in Buckets
        /\ NewGroupLimiter(groups[g].limit).units <= NewGroupLimiter(groups[g].limit).cap
    BY <1>2, <1>3 DEF NewGroupLimiter, Bucket, Buckets
  <1>5. NewGroupLimiter(groups[g].limit) # None
    BY <1>4, NoneAssumption
  <1>6. \A k \in Kinds : <<k, g>> # Global
    BY GroupKeys
  <1>7. QED
    BY <1>4, <1>5, <1>6 DEF NewGroupLimiter, Budget

\* The target of a call whose method has been resolved.
LEMMA TargetTyped ==
    ASSUME Typed, NEW r \in Reqs, call[r].at # "idle"
    PROVE  /\ TargetOf(r) \in Targets(groups)
           /\ RuleFor(r) = None => TargetOf(r) = Global /\ BucketOf(TargetOf(r)) = Global
           /\ RuleFor(r) # None =>
                 /\ look[r].best \in DOMAIN groups
                 /\ RuleFor(r) = groups[look[r].best].limit
                 /\ call[r].kind \in Kinds
                 /\ TargetOf(r) = <<call[r].kind, look[r].best>>
                 /\ TargetOf(r) # Global
                 /\ BucketOf(TargetOf(r)) = KeyOf(r)
                 /\ KeyOf(r) \in BucketIds
  <1>1. groups \in Resolvers /\ call[r].kind \in Kinds
        /\ look[r].best \in DOMAIN groups \cup {None}
    BY DEF Typed
  <1>2. CASE RuleFor(r) = None
    BY <1>1, <1>2, GroupKeys DEF TargetOf, BucketOf
  <1>3. CASE RuleFor(r) # None
    <2>1. look[r].best \in DOMAIN groups /\ RuleFor(r) = groups[look[r].best].limit
      BY <1>1, <1>3 DEF RuleFor
    <2>2. TargetOf(r) = <<call[r].kind, look[r].best>>
      BY <1>3 DEF TargetOf
    <2>3. QED
      BY <1>1, <1>3, <2>1, <2>2, GroupKeys DEF BucketOf, KeyOf
  <1>4. QED
    BY <1>2, <1>3

\* What depends on the groups alone does not change.
LEMMA GroupsKept ==
    ASSUME groups' = groups
    PROVE  /\ \A t : BucketOf(t)' = BucketOf(t)
           /\ \A t : Limited(t)' <=> Limited(t)
           /\ \A t : Budget(t)' = Budget(t)
           /\ Targets(groups)' = Targets(groups)
  BY DEF BucketOf, Limited, OwnName, Budget, Targets

-----------------------------------------------------------------------------
(***************************************************************************)
(*                        The inductive invariant                          *)
(***************************************************************************)

LEMMA InitIInv == Init => IInv
  <1> SUFFICES ASSUME Init PROVE IInv
    OBVIOUS
  <1> DEFINE first == Bucket(1, GlobalRate, GlobalBurst)
  <1>1. /\ groups \in Resolvers
        /\ look = [r \in Reqs |-> NoLook] /\ call = [r \in Reqs |-> NoCall]
        /\ limiters = [b \in BucketIds |-> IF b = Global THEN first ELSE None]
        /\ since = [t \in Targets(groups) |-> [a \in 0..Span |-> 0]]
    BY DEF Init, PolicyInit
  <1>2. /\ NoLook \in Looks /\ NoLook.at = "idle" /\ NoLook.best = None
        /\ NoCall \in Calls /\ NoCall.at = "idle"
    BY DEF NoLook, NoCall, Looks, Calls
  <1>3. /\ first \in Buckets /\ first.units <= first.cap
        /\ first = Bucket(Budget(Global).cost, Budget(Global).gain, Budget(Global).cap)
    BY LimitAssumption DEF Bucket, Buckets, Budget
  <1>4. first # None
    BY <1>3, NoneAssumption
  <1> HIDE DEF first
  <1>5. Global \in BucketIds /\ Global \in Targets(groups)
    BY <1>1, GroupKeys
  <1>6. Typed
    <2>1. since \in [Targets(groups) -> [0..Span -> Nat]]
      BY <1>1
    <2>2. limiters \in [BucketIds -> Buckets \cup {None}]
      BY <1>1, <1>3
    <2>3. look \in [Reqs -> Looks] /\ call \in [Reqs -> Calls]
      BY <1>1, <1>2
    <2>4. QED
      BY <1>1, <1>2, <2>1, <2>2, <2>3 DEF Typed
  <1>7. LooksSound
    BY <1>1, <1>2 DEF LooksSound
  <1>8. Served
    BY <1>1, <1>2, <1>4, <1>5 DEF Served
  <1>9. Capped
    BY <1>1, <1>3 DEF Capped
  <1>10. Balanced
    <2>1. SUFFICES ASSUME NEW t \in Targets(groups), Limited(t)
                   PROVE  Account(limiters[BucketOf(t)], since[t], Budget(t))
      BY DEF Balanced
    <2>2. /\ since[t] \in Histories
          /\ \A a \in 0..Span : since[t][a] = 0
      BY <1>1 DEF Histories
    <2>3. CASE t = Global
      <3>1. limiters[BucketOf(t)] = first
        BY <2>3, <1>1, <1>5 DEF BucketOf
      <3>2. Budget(t) \in Plans
        BY <1>1, <2>1, BudgetTyped
      <3>3. QED
        BY <3>1, <3>2, <2>2, <2>3, <1>3, NewBucketBalanced
    <2>4. CASE t # Global
      <3>1. BucketOf(t) # Global /\ BucketOf(t) \in BucketIds
        BY <2>4, <1>1, GroupKeys DEF BucketOf
      <3>2. limiters[BucketOf(t)] = None
        BY <3>1, <1>1
      <3>3. QED
        BY <3>2, <2>2 DEF Account
    <2>5. QED
      BY <2>3, <2>4
  <1>11. QED
    BY <1>6, <1>7, <1>8, <1>9, <1>10 DEF IInv

\* A step that leaves the buckets and the history alone leaves them balanced.
LEMMA BucketsKept ==
    ASSUME IInv, groups' = groups, limiters' = limiters, since' = since
    PROVE  Capped' /\ Balanced'
  <1>1. Capped'
    BY DEF IInv, Capped
  <1>2. Balanced'
    BY GroupsKept DEF IInv, Balanced
  <1> QED
    BY <1>1, <1>2

\* A call goes on: its target stays the same as long as its look and its kind do.
LEMMA TargetKept ==
    ASSUME groups' = groups, NEW r \in Reqs, look'[r] = look[r],
           call'[r].kind = call[r].kind
    PROVE  TargetOf(r)' = TargetOf(r)
  BY DEF TargetOf, RuleFor

LEMMA ArriveStep ==
    ASSUME IInv, NEW r \in Reqs, NEW kind \in Kinds, NEW m \in FullMethods,
           Arrive(r, kind, m)
    PROVE  IInv'
  <1> DEFINE l == [NoLook EXCEPT !.at = "looking", !.method = m]
             c == [NoCall EXCEPT !.at = "resolve", !.kind = kind]
  <1>1. /\ groups' = groups /\ limiters' = limiters /\ since' = since
        /\ look' = [look EXCEPT ![r] = l] /\ call' = [call EXCEPT ![r] = c]
    BY DEF Arrive, Resolve
  <1>2. groups \in Resolvers /\ look \in [Reqs -> Looks] /\ call \in [Reqs -> Calls]
    BY DEF IInv, Typed
  <1>3. l \in Looks /\ l.best = None /\ l.method \in FullMethods /\ LookSound(groups, l)
    BY <1>2, LookStarts
  <1>4. NoCall \in Calls
    BY DEF NoCall, Calls
  <1>5. c \in Calls /\ c.at = "resolve" /\ c.kind \in Kinds
    BY <1>4 DEF Calls
  <1> HIDE DEF l, c
  <1>6. Typed'
    <2>1. look' \in [Reqs -> Looks] /\ call' \in [Reqs -> Calls]
      BY <1>1, <1>2, <1>3, <1>5
    <2>2. QED
      BY <1>1, <1>2, <1>3, <1>5, <2>1, GroupsKept DEF IInv, Typed
  <1>7. LooksSound'
    BY <1>1, <1>2, <1>3 DEF IInv, LooksSound
  <1>8. Served'
    <2>1. ASSUME NEW q \in Reqs, call'[q].at = "allow"
          PROVE  q # r /\ call'[q] = call[q] /\ look'[q] = look[q]
                 /\ TargetOf(q)' = TargetOf(q)
      BY <1>1, <1>2, <1>5, <2>1, TargetKept
    <2>2. QED
      BY <1>1, <2>1, GroupsKept DEF IInv, Served
  <1> QED
    BY <1>1, <1>6, <1>7, <1>8, BucketsKept DEF IInv

\* The steps of Resolve: only the look of r changes, to k.
LEMMA LookStep ==
    ASSUME IInv, NEW r \in Reqs, NEW k \in Looks,
           groups' = groups, call' = call, limiters' = limiters, since' = since,
           look' = [look EXCEPT ![r] = k],
           look[r].at = "looking", k.at # "idle", k.method = look[r].method,
           k.best \in DOMAIN groups \cup {None}, LookSound(groups, k)
    PROVE  IInv'
  <1>1. groups \in Resolvers /\ look \in [Reqs -> Looks] /\ call \in [Reqs -> Calls]
    BY DEF IInv, Typed
  <1>2. Typed'
    <2>1. look' \in [Reqs -> Looks]
      BY <1>1
    <2>2. k.method \in FullMethods
      BY DEF IInv, Typed
    <2>3. QED
      BY <1>1, <2>1, <2>2, GroupsKept DEF IInv, Typed
  <1>3. LooksSound'
    BY <1>1 DEF IInv, LooksSound
  <1>4. Served'
    <2>1. ASSUME NEW q \in Reqs, call'[q].at = "allow"
          PROVE  look'[q] = look[q] /\ TargetOf(q)' = TargetOf(q)
      <3>1. q # r
        BY <2>1 DEF IInv, Served
      <3>2. QED
        BY <1>1, <3>1, TargetKept
    <2>2. QED
      BY <2>1, GroupsKept DEF IInv, Served
  <1> QED
    BY <1>2, <1>3, <1>4, BucketsKept DEF IInv

LEMMA ResolvingStep ==
    ASSUME IInv, NEW r \in Reqs, Resolving(r)
    PROVE  IInv'
  <1> DEFINE l == look[r]
  <1>1. /\ groups \in Resolvers /\ look \in [Reqs -> Looks] /\ l \in Looks
        /\ l.best \in DOMAIN groups \cup {None}
    BY DEF IInv, Typed
  <1>2. UNCHANGED <<call, limiters, since>> /\ (VisitRule(r) \/ NextGroup(r) \/ Resolved(r))
    BY DEF Resolving, Looking
  <1>3. /\ l.at = "looking" /\ groups' = groups
    BY <1>2 DEF VisitRule, NextGroup, Resolved
  <1>4. l.method \in FullMethods /\ LookSound(groups, l)
    BY <1>3 DEF IInv, Typed, LooksSound
  <1>5. CASE VisitRule(r)
    <2> DEFINE k == Consider(l, groups[l.g].rules[l.i])
    <2>1. /\ l.g <= Len(groups) /\ l.i <= Len(groups[l.g].rules)
          /\ look' = [look EXCEPT ![r] = k]
      BY <1>5 DEF VisitRule
    <2>2. /\ k \in Looks /\ k.at = "looking" /\ k.method = l.method
          /\ k.best \in DOMAIN groups \cup {None} /\ LookSound(groups, k)
      BY <1>1, <1>3, <1>4, <2>1, ConsiderSound
    <2> HIDE DEF k
    <2>3. QED
      BY <1>2, <1>3, <2>1, <2>2, LookStep
  <1>6. CASE NextGroup(r)
    <2> DEFINE k == [l EXCEPT !.g = l.g + 1, !.i = 1]
    <2>1. /\ l.g <= Len(groups) /\ l.i > Len(groups[l.g].rules)
          /\ look' = [look EXCEPT ![r].g = l.g + 1, ![r].i = 1]
      BY <1>6 DEF NextGroup
    <2>2. look' = [look EXCEPT ![r] = k]
      BY <2>1, <1>1
    <2>3. /\ k \in Looks /\ k.at = "looking" /\ k.method = l.method
          /\ k.best = l.best /\ LookSound(groups, k)
      BY <1>1, <1>3, <1>4, <2>1, NextGroupSound
    <2> HIDE DEF k
    <2>4. QED
      BY <1>1, <1>2, <1>3, <2>2, <2>3, LookStep
  <1>7. CASE Resolved(r)
    <2> DEFINE k == [l EXCEPT !.at = "resolved"]
    <2>1. l.g > Len(groups) /\ look' = [look EXCEPT ![r].at = "resolved"]
      BY <1>7 DEF Resolved
    <2>2. look' = [look EXCEPT ![r] = k]
      BY <2>1, <1>1
    <2>3. /\ k \in Looks /\ k.at = "resolved" /\ k.method = l.method
          /\ k.best = l.best /\ LookSound(groups, k)
      BY <1>1, <1>4, <2>1, ResolvedSound
    <2> HIDE DEF k
    <2>4. QED
      BY <1>1, <1>2, <1>3, <2>2, <2>3, LookStep
  <1> QED
    BY <1>2, <1>5, <1>6, <1>7

LEMMA CallFound ==
    ASSUME NEW c \in Calls, NEW b, NEW d, d = [c EXCEPT !.at = "allow", !.limiter = b]
    PROVE  d = [at |-> "allow", kind |-> c.kind, limiter |-> b]
  BY DEF Calls

\* limiterFor and groupLimiter: the limiter that r goes on with is there.
LEMMA FoundStep ==
    ASSUME IInv, NEW r \in Reqs, Found(r, BucketOf(TargetOf(r))),
           limiters' \in [BucketIds -> Buckets \cup {None}],
           limiters'[BucketOf(TargetOf(r))] # None,
           \A b \in BucketIds : limiters[b] # None => limiters'[b] # None
    PROVE  Typed' /\ LooksSound' /\ Served' /\ groups' = groups /\ since' = since
  <1> DEFINE b == BucketOf(TargetOf(r))
  <1>1. /\ groups' = groups /\ look' = look /\ since' = since
        /\ call' = [call EXCEPT ![r].at = "allow", ![r].limiter = b]
        /\ call[r].at = "resolve" /\ look[r].at = "resolved"
    BY DEF Found
  <1>2. groups \in Resolvers /\ look \in [Reqs -> Looks] /\ call \in [Reqs -> Calls]
    BY DEF IInv, Typed
  <1>3. call[r] \in Calls /\ call[r].kind \in Kinds
    BY <1>1, <1>2 DEF IInv, Typed
  <1>4. TargetOf(r) \in Targets(groups) /\ b \in BucketIds
    <2>1. TargetOf(r) \in Targets(groups)
      BY <1>1, TargetTyped DEF IInv
    <2>2. QED
      BY <2>1, <1>2, BucketOfTyped
  <1> HIDE DEF b
  <1>5. call' = [call EXCEPT ![r] = [at |-> "allow", kind |-> call[r].kind, limiter |-> b]]
    <2>1. call' = [call EXCEPT ![r] = [call[r] EXCEPT !.at = "allow", !.limiter = b]]
      BY <1>1, <1>2
    <2> DEFINE c == [call[r] EXCEPT !.at = "allow", !.limiter = b]
    <2>2. c = [at |-> "allow", kind |-> call[r].kind, limiter |-> b]
      BY <1>3, CallFound
    <2>3. QED
      BY <2>1, <2>2
  <1>6. /\ call' \in [Reqs -> Calls]
        /\ call'[r] = [at |-> "allow", kind |-> call[r].kind, limiter |-> b]
        /\ \A q \in Reqs : q # r => call'[q] = call[q]
        /\ \A q \in Reqs : call'[q].kind = call[q].kind
    <2>1. [at |-> "allow", kind |-> call[r].kind, limiter |-> b] \in Calls
      BY <1>3, <1>4 DEF Calls
    <2>2. QED
      BY <2>1, <1>2, <1>5
  <1>7. Typed'
    BY <1>1, <1>2, <1>3, <1>6, GroupsKept DEF IInv, Typed
  <1>8. LooksSound'
    BY <1>1 DEF IInv, LooksSound
  <1>9. Served'
    <2>1. limiters'[Global] # None
      BY <1>2, GroupKeys DEF IInv, Served
    <2>2. ASSUME NEW q \in Reqs, call'[q].at = "allow"
          PROVE  /\ look'[q].at = "resolved"
                 /\ call'[q].limiter = BucketOf(TargetOf(q))'
                 /\ limiters'[call'[q].limiter] # None
      <3>1. TargetOf(q)' = TargetOf(q)
        BY <1>1, <1>6, TargetKept
      <3>2. BucketOf(TargetOf(q))' = BucketOf(TargetOf(q))
        BY <3>1, <1>1, GroupsKept
      <3>3. CASE q = r
        BY <3>2, <3>3, <1>1, <1>6 DEF b
      <3>4. CASE q # r
        <4>1. call'[q] = call[q]
          BY <3>4, <1>6
        <4>2. /\ look[q].at = "resolved" /\ call[q].limiter = BucketOf(TargetOf(q))
              /\ limiters[call[q].limiter] # None
          BY <4>1, <2>2 DEF IInv, Served
        <4>3. TargetOf(q) \in Targets(groups)
          BY <4>1, <2>2, TargetTyped DEF IInv
        <4>4. call[q].limiter \in BucketIds
          BY <4>2, <4>3, <1>2, BucketOfTyped
        <4>5. QED
          BY <3>2, <4>1, <4>2, <4>4, <1>1
      <3>5. QED
        BY <3>3, <3>4
    <2>3. QED
      BY <2>1, <2>2 DEF Served
  <1> QED
    BY <1>1, <1>7, <1>8, <1>9

LEMMA UseStep ==
    ASSUME IInv, NEW r \in Reqs, UseGlobal(r) \/ UseGroup(r)
    PROVE  IInv'
  <1>1. call[r].at = "resolve" /\ limiters' = limiters
    BY DEF UseGlobal, UseGroup, Found
  <1>2. limiters \in [BucketIds -> Buckets \cup {None}]
    BY DEF IInv, Typed
  <1>3. Found(r, BucketOf(TargetOf(r))) /\ limiters[BucketOf(TargetOf(r))] # None
    <2>1. CASE UseGlobal(r)
      BY <2>1, <1>1, TargetTyped DEF UseGlobal, IInv, Served
    <2>2. CASE UseGroup(r)
      BY <2>2, <1>1, TargetTyped DEF UseGroup, Absent, IInv
    <2>3. QED
      BY <2>1, <2>2
  <1>4. Typed' /\ LooksSound' /\ Served' /\ groups' = groups /\ since' = since
    BY <1>1, <1>2, <1>3, FoundStep
  <1> QED
    BY <1>1, <1>4, BucketsKept DEF IInv

LEMMA CreateGroupStep ==
    ASSUME IInv, NEW r \in Reqs, CreateGroup(r)
    PROVE  IInv'
  <1> DEFINE u == TargetOf(r)
             new == NewGroupLimiter(RuleFor(r))
  <1>1. /\ call[r].at = "resolve" /\ RuleFor(r) # None
        /\ limiters[KeyOf(r)] = None
        /\ limiters' = [limiters EXCEPT ![KeyOf(r)] = new]
        /\ Found(r, KeyOf(r))
    BY DEF CreateGroup, Found, Absent
  <1>2. /\ look[r].best \in DOMAIN groups /\ RuleFor(r) = groups[look[r].best].limit
        /\ call[r].kind \in Kinds /\ u = <<call[r].kind, look[r].best>>
        /\ u \in Targets(groups) /\ BucketOf(u) = KeyOf(r) /\ KeyOf(r) \in BucketIds
    BY <1>1, TargetTyped DEF IInv
  <1>3. /\ groups \in Resolvers /\ limiters \in [BucketIds -> Buckets \cup {None}]
        /\ since \in [Targets(groups) -> [0..Span -> Nat]]
    BY DEF IInv, Typed
  <1>4. /\ new \in Buckets /\ new # None /\ new.units <= new.cap
        /\ new = Bucket(Budget(u).cost, Budget(u).gain, Budget(u).cap)
    BY <1>1, <1>2, <1>3, NewGroupLimiterFits
  <1> HIDE DEF u, new
  <1>5. /\ limiters' \in [BucketIds -> Buckets \cup {None}]
        /\ limiters'[BucketOf(u)] = new
        /\ \A b \in BucketIds : b # BucketOf(u) => limiters'[b] = limiters[b]
    BY <1>1, <1>2, <1>3, <1>4
  <1>6. Typed' /\ LooksSound' /\ Served' /\ groups' = groups /\ since' = since
    BY <1>1, <1>2, <1>4, <1>5, FoundStep DEF u
  <1>7. Capped'
    BY <1>4, <1>5 DEF IInv, Capped
  <1>8. Balanced'
    <2>1. SUFFICES ASSUME NEW t \in Targets(groups), Limited(t)
                   PROVE  Account(limiters'[BucketOf(t)], since[t], Budget(t))
      BY <1>6, GroupsKept DEF Balanced
    <2>2. Account(limiters[BucketOf(t)], since[t], Budget(t))
      BY <2>1 DEF IInv, Balanced
    <2>3. CASE BucketOf(t) = BucketOf(u)
      <3>1. t = u
        BY <2>1, <2>3, <1>2, <1>3, OwnBucket
      <3>2. \A a \in 0..Span : since[t][a] = 0
        BY <2>2, <2>3, <1>1, <1>2 DEF Account
      <3>3. since[t] \in Histories /\ Budget(t) \in Plans
        BY <1>3, <2>1, BudgetTyped DEF Histories
      <3>4. Account(new, since[t], Budget(t))
        BY <3>1, <3>2, <3>3, <1>4, NewBucketBalanced
      <3>5. QED
        BY <2>3, <3>4, <1>5
    <2>4. CASE BucketOf(t) # BucketOf(u)
      <3>1. BucketOf(t) \in BucketIds
        BY <1>3, BucketOfTyped
      <3>2. QED
        BY <3>1, <2>2, <2>4, <1>5
    <2>5. QED
      BY <2>3, <2>4
  <1> QED
    BY <1>6, <1>7, <1>8 DEF IInv

\* The call leaves the interceptor; the buckets that others use stay.
LEMMA DoneStep ==
    ASSUME IInv, NEW r \in Reqs, Done(r), groups' = groups,
           limiters' \in [BucketIds -> Buckets \cup {None}],
           since' \in [Targets(groups) -> [0..Span -> Nat]],
           \A b \in BucketIds : limiters[b] # None => limiters'[b] # None
    PROVE  Typed' /\ LooksSound' /\ Served'
  <1>1. /\ call' = [call EXCEPT ![r] = NoCall] /\ look' = [look EXCEPT ![r] = NoLook]
    BY DEF Done
  <1>2. groups \in Resolvers /\ look \in [Reqs -> Looks] /\ call \in [Reqs -> Calls]
    BY DEF IInv, Typed
  <1>3. /\ NoLook \in Looks /\ NoLook.at = "idle" /\ NoLook.best = None
        /\ NoCall \in Calls /\ NoCall.at = "idle"
    BY DEF NoLook, NoCall, Looks, Calls
  <1>4. Typed'
    <2>1. look' \in [Reqs -> Looks] /\ call' \in [Reqs -> Calls]
      BY <1>1, <1>2, <1>3
    <2>2. QED
      BY <1>1, <1>2, <1>3, <2>1, GroupsKept DEF IInv, Typed
  <1>5. LooksSound'
    BY <1>1, <1>2, <1>3 DEF IInv, LooksSound
  <1>6. Served'
    <2>1. limiters'[Global] # None
      BY <1>2, GroupKeys DEF IInv, Served
    <2>2. ASSUME NEW q \in Reqs, call'[q].at = "allow"
          PROVE  /\ look'[q].at = "resolved"
                 /\ call'[q].limiter = BucketOf(TargetOf(q))'
                 /\ limiters'[call'[q].limiter] # None
      <3>1. q # r /\ call'[q] = call[q] /\ look'[q] = look[q]
        BY <2>2, <1>1, <1>2, <1>3
      <3>2. BucketOf(TargetOf(q))' = BucketOf(TargetOf(q))
        BY <3>1, TargetKept, GroupsKept
      <3>3. /\ look[q].at = "resolved" /\ call[q].limiter = BucketOf(TargetOf(q))
            /\ limiters[call[q].limiter] # None
        BY <3>1, <2>2 DEF IInv, Served
      <3>4. TargetOf(q) \in Targets(groups)
        BY <3>1, <2>2, TargetTyped DEF IInv
      <3>5. call[q].limiter \in BucketIds
        BY <3>3, <3>4, <1>2, BucketOfTyped
      <3>6. QED
        BY <3>1, <3>2, <3>3, <3>5
    <2>3. QED
      BY <2>1, <2>2 DEF Served
  <1> QED
    BY <1>4, <1>5, <1>6

LEMMA RefuseStep ==
    ASSUME IInv, NEW r \in Reqs, Refuse(r)
    PROVE  IInv'
  <1>1. Done(r) /\ groups' = groups /\ limiters' = limiters /\ since' = since
    BY DEF Refuse
  <1>2. /\ limiters \in [BucketIds -> Buckets \cup {None}]
        /\ since \in [Targets(groups) -> [0..Span -> Nat]]
    BY DEF IInv, Typed
  <1>3. Typed' /\ LooksSound' /\ Served'
    BY <1>1, <1>2, DoneStep
  <1> QED
    BY <1>1, <1>3, BucketsKept DEF IInv

LEMMA AdmitStep ==
    ASSUME IInv, NEW r \in Reqs, Admit(r)
    PROVE  IInv'
  <1> DEFINE u == TargetOf(r)
             b == limiters[BucketOf(u)]
             d == [b EXCEPT !.units = @ - b.cost]
             n == [a \in 0..Span |-> since[u][a] + 1]
  <1>1. /\ groups \in Resolvers /\ limiters \in [BucketIds -> Buckets \cup {None}]
        /\ since \in [Targets(groups) -> [0..Span -> Nat]]
    BY DEF IInv, Typed
  <1>2. /\ call[r].at = "allow" /\ call[r].limiter = BucketOf(u)
        /\ b # None
    BY DEF Admit, IInv, Served
  <1>3. u \in Targets(groups)
    BY <1>2, TargetTyped DEF IInv
  <1>4. BucketOf(u) \in BucketIds /\ b \in Buckets /\ since[u] \in [0..Span -> Nat]
    BY <1>1, <1>2, <1>3, BucketOfTyped
  <1>5. /\ Affordable(b) /\ Done(r) /\ groups' = groups
        /\ limiters' = [limiters EXCEPT ![BucketOf(u)].units = @ - b.cost]
        /\ since' = [since EXCEPT ![u] = [a \in 0..Span |-> @[a] + 1]]
    BY <1>2 DEF Admit
  <1>6. limiters' = [limiters EXCEPT ![BucketOf(u)] = d]
    BY <1>1, <1>4, <1>5
  <1>7. since' = [since EXCEPT ![u] = n]
    BY <1>1, <1>3, <1>5
  <1>8. d \in Buckets /\ d.units <= d.cap
    <2>1. b.units <= b.cap
      BY <1>2, <1>4 DEF IInv, Capped
    <2>2. QED
      BY <1>4, <1>5, <2>1 DEF Buckets, Affordable
  <1>9. d # None
    BY <1>8, NoneAssumption
  <1>10. n \in [0..Span -> Nat]
    <2> HIDE DEF u, b
    <2>1. ASSUME NEW a \in 0..Span PROVE since[u][a] + 1 \in Nat
      <3>1. since[u][a] \in Nat
        BY <1>4
      <3>2. QED
        BY <3>1
    <2>2. QED
      BY <2>1
  <1>11. Limited(u) => Account(d, n, Budget(u))
    <2>1. SUFFICES ASSUME Limited(u) PROVE Account(d, n, Budget(u))
      OBVIOUS
    <2>2. Account(b, since[u], Budget(u))
      BY <2>1, <1>3 DEF IInv, Balanced
    <2>3. Budget(u) \in Plans /\ since[u] \in Histories
      BY <2>1, <1>1, <1>3, <1>4, BudgetTyped DEF Histories
    <2> HIDE DEF b
    <2>4. QED
      BY <2>2, <2>3, <1>4, <1>5, TokenBalanced
  <1> HIDE DEF u, b, d, n
  <1>12. /\ limiters' \in [BucketIds -> Buckets \cup {None}]
         /\ limiters'[BucketOf(u)] = d
         /\ \A x \in BucketIds : x # BucketOf(u) => limiters'[x] = limiters[x]
    BY <1>1, <1>4, <1>6, <1>8
  <1>13. /\ since' \in [Targets(groups) -> [0..Span -> Nat]]
         /\ since'[u] = n
         /\ \A t \in Targets(groups) : t # u => since'[t] = since[t]
    BY <1>1, <1>3, <1>7, <1>10
  <1>14. Typed' /\ LooksSound' /\ Served'
    BY <1>5, <1>9, <1>12, <1>13, DoneStep
  <1>15. Capped'
    BY <1>8, <1>12 DEF IInv, Capped
  <1>16. Balanced'
    <2>1. SUFFICES ASSUME NEW t \in Targets(groups), Limited(t)
                   PROVE  Account(limiters'[BucketOf(t)], since'[t], Budget(t))
      BY <1>5, GroupsKept DEF Balanced
    <2>2. CASE t = u
      BY <2>1, <2>2, <1>11, <1>12, <1>13
    <2>3. CASE t # u
      <3>1. BucketOf(t) # BucketOf(u) /\ BucketOf(t) \in BucketIds
        BY <2>1, <2>3, <1>1, <1>3, OwnBucket, BucketOfTyped
      <3>2. Account(limiters[BucketOf(t)], since[t], Budget(t))
        BY <2>1 DEF IInv, Balanced
      <3>3. QED
        BY <3>1, <3>2, <2>3, <1>12, <1>13
    <2>4. QED
      BY <2>2, <2>3
  <1> QED
    BY <1>14, <1>15, <1>16 DEF IInv

LEMMA TickStep ==
    ASSUME IInv, Tick
    PROVE  IInv'
  <1>1. /\ groups \in Resolvers /\ limiters \in [BucketIds -> Buckets \cup {None}]
        /\ since \in [Targets(groups) -> [0..Span -> Nat]]
    BY DEF IInv, Typed
  <1>2. /\ groups' = groups /\ look' = look /\ call' = call
        /\ limiters' = [b \in BucketIds |->
                           IF limiters[b] = None THEN None ELSE Refill(limiters[b])]
        /\ since' = [t \in Targets(groups) |->
                        [a \in 0..Span |-> IF a = 0 THEN 0 ELSE since[t][a - 1]]]
    BY DEF Tick
  <1>3. ASSUME NEW b \in BucketIds, limiters[b] # None
        PROVE  /\ limiters'[b] \in Buckets /\ limiters'[b] # None
               /\ limiters'[b].units <= limiters'[b].cap
    <2>1. limiters'[b] = Refill(limiters[b]) /\ limiters[b] \in Buckets
      BY <1>1, <1>2, <1>3
    <2>2. limiters'[b] \in Buckets /\ limiters'[b].units <= limiters'[b].cap
      BY <2>1, RefillTyped
    <2>3. QED
      BY <2>2, NoneAssumption
  <1>4. ASSUME NEW b \in BucketIds, limiters[b] = None
        PROVE  limiters'[b] = None
    BY <1>2, <1>4
  <1>5. limiters' \in [BucketIds -> Buckets \cup {None}]
    BY <1>2, <1>3, <1>4
  <1>6. ASSUME NEW t \in Targets(groups)
        PROVE  /\ since'[t] \in [0..Span -> Nat]
               /\ since'[t] = [a \in 0..Span |-> IF a = 0 THEN 0 ELSE since[t][a - 1]]
    <2>1. since'[t] = [a \in 0..Span |-> IF a = 0 THEN 0 ELSE since[t][a - 1]]
      BY <1>2
    <2>2. since[t] \in [0..Span -> Nat]
      BY <1>1
    <2>3. ASSUME NEW a \in 0..Span
          PROVE  (IF a = 0 THEN 0 ELSE since[t][a - 1]) \in Nat
      BY <2>2, LimitAssumption
    <2>4. QED
      BY <2>1, <2>3
  <1>7. since' \in [Targets(groups) -> [0..Span -> Nat]]
    BY <1>2, <1>6
  <1>8. Typed'
    BY <1>2, <1>5, <1>7, GroupsKept DEF IInv, Typed
  <1>9. LooksSound'
    BY <1>2 DEF IInv, LooksSound
  <1>10. Served'
    <2>1. limiters'[Global] # None
      BY <1>1, <1>3, GroupKeys DEF IInv, Served
    <2>2. ASSUME NEW q \in Reqs, call'[q].at = "allow"
          PROVE  /\ look'[q].at = "resolved"
                 /\ call'[q].limiter = BucketOf(TargetOf(q))'
                 /\ limiters'[call'[q].limiter] # None
      <3>1. /\ look[q].at = "resolved" /\ call[q].limiter = BucketOf(TargetOf(q))
            /\ limiters[call[q].limiter] # None
        BY <1>2, <2>2 DEF IInv, Served
      <3>2. BucketOf(TargetOf(q))' = BucketOf(TargetOf(q))
        BY <1>2, TargetKept, GroupsKept
      <3>3. TargetOf(q) \in Targets(groups)
        BY <1>2, <2>2, TargetTyped DEF IInv
      <3>4. call[q].limiter \in BucketIds
        BY <3>1, <3>3, <1>1, BucketOfTyped
      <3>5. QED
        BY <1>2, <1>3, <3>1, <3>2, <3>4
    <2>3. QED
      BY <2>1, <2>2 DEF Served
  <1>11. Capped'
    BY <1>3, <1>4 DEF Capped
  <1>12. Balanced'
    <2>1. SUFFICES ASSUME NEW t \in Targets(groups), Limited(t)
                   PROVE  Account(limiters'[BucketOf(t)], since'[t], Budget(t))
      BY <1>2, GroupsKept DEF Balanced
    <2> DEFINE b == limiters[BucketOf(t)]
    <2>2. BucketOf(t) \in BucketIds
      BY <1>1, BucketOfTyped
    <2>3. /\ b \in Buckets \cup {None} /\ (b # None => b.units <= b.cap)
          /\ limiters'[BucketOf(t)] = IF b = None THEN None ELSE Refill(b)
      BY <1>1, <1>2, <2>2 DEF IInv, Capped
    <2>4. Account(b, since[t], Budget(t))
      BY <2>1 DEF IInv, Balanced
    <2>5. Budget(t) \in Plans /\ since[t] \in Histories
      BY <1>1, <2>1, BudgetTyped DEF Histories
    <2> HIDE DEF b
    <2>6. QED
      <3>1. Account(IF b = None THEN None ELSE Refill(b),
                    [a \in 0..Span |-> IF a = 0 THEN 0 ELSE since[t][a - 1]], Budget(t))
        BY <2>3, <2>4, <2>5, TickBalanced
      <3>2. since'[t] = [a \in 0..Span |-> IF a = 0 THEN 0 ELSE since[t][a - 1]]
        BY <1>6, Zenon
      <3>3. QED
        BY <2>3, <3>1, <3>2, Zenon
  <1> QED
    BY <1>8, <1>9, <1>10, <1>11, <1>12 DEF IInv

LEMMA NextIInv == IInv /\ [Next]_vars => IInv'
  <1> SUFFICES ASSUME IInv, [Next]_vars PROVE IInv'
    OBVIOUS
  <1>1. ASSUME NEW r \in Reqs, NEW kind \in Kinds, NEW m \in FullMethods,
               Arrive(r, kind, m)
        PROVE  IInv'
    BY <1>1, ArriveStep
  <1>2. ASSUME NEW r \in Reqs,
               \/ Resolving(r)
               \/ UseGlobal(r) \/ UseGroup(r) \/ CreateGroup(r)
               \/ Admit(r) \/ Refuse(r)
        PROVE  IInv'
    BY <1>2, ResolvingStep, UseStep, CreateGroupStep, AdmitStep, RefuseStep
  <1>3. CASE Tick
    BY <1>3, TickStep
  <1>4. CASE UNCHANGED vars
    <2>1. UNCHANGED <<groups, look, call, limiters, since>>
      BY <1>4 DEF vars
    <2>2. Typed'
      BY <2>1, GroupsKept DEF IInv, Typed
    <2>3. LooksSound'
      BY <2>1 DEF IInv, LooksSound
    <2>4. Served'
      BY <2>1, TargetKept, GroupsKept DEF IInv, Served
    <2>5. QED
      BY <2>1, <2>2, <2>3, <2>4, BucketsKept DEF IInv
  <1>5. QED
    BY <1>1, <1>2, <1>3, <1>4 DEF Next

LEMMA SpecIInv == Spec => []IInv
  BY InitIInv, NextIInv, PTL DEF Spec

-----------------------------------------------------------------------------
(***************************************************************************)
(*                              Theorems                                   *)
(***************************************************************************)

\* interceptors/ratelimit.go:30-59: the state keeps its types, the limiter that a
\* call goes on with exists, and no bucket holds more than its burst.
THEOREM TypeCorrect == Spec => []TypeOK
  <1>1. IInv => TypeOK
    <2> SUFFICES ASSUME IInv PROVE TypeOK
      OBVIOUS
    <2>1. /\ groups \in Resolvers /\ look \in [Reqs -> Looks] /\ call \in [Reqs -> Calls]
          /\ limiters \in [BucketIds -> Buckets \cup {None}]
          /\ since \in [Targets(groups) -> [0..Span -> Nat]]
      BY DEF IInv, Typed
    <2>2. ASSUME NEW r \in Reqs
          PROVE  /\ call[r].at \in {"idle", "resolve", "allow"}
                 /\ call[r].kind \in Kinds \cup {None}
                 /\ look[r].at \in {"idle", "looking", "resolved"}
                 /\ look[r].best \in DOMAIN groups \cup {None}
                 /\ call[r].at = "allow" => /\ call[r].limiter \in BucketIds
                                            /\ limiters[call[r].limiter] # None
      <3>1. call[r] \in Calls /\ look[r] \in Looks
        BY <2>1
      <3>2. call[r].at = "allow" => call[r].limiter \in BucketIds
        BY <2>1, TargetTyped, BucketOfTyped DEF IInv, Served
      <3>3. QED
        BY <3>1, <3>2 DEF IInv, Typed, Served, Calls, Looks
    <2>3. \A b \in BucketIds : limiters[b] # None =>
             limiters[b] \in Buckets /\ limiters[b].units <= limiters[b].cap
      BY <2>1 DEF IInv, Capped
    <2>4. QED
      BY <2>1, <2>2, <2>3 DEF TypeOK
  <1>2. QED
    BY <1>1, SpecIInv, PTL

\* policy/resolver.go:23-47: whatever rules the groups have, and however many calls
\* resolve at once, Resolve returns the group of the rule that ranks first, and no
\* group only if no rule matches.
THEOREM ResolvesToBestHolds == Spec => []ResolvesToBest
  <1>1. IInv => ResolvesToBest
    <2> SUFFICES ASSUME IInv, NEW r \in Reqs, look[r].at = "resolved"
                 PROVE  IsBest(look[r].best, look[r].method)
      BY DEF ResolvesToBest
    <2>1. /\ groups \in Resolvers /\ look[r] \in Looks
          /\ look[r].method \in FullMethods /\ LookSound(groups, look[r])
      BY DEF IInv, Typed, LooksSound
    <2>2. QED
      BY <2>1, SoundIsBest
  <1>2. QED
    BY <1>1, SpecIInv, PTL

\* interceptors/ratelimit.go:30-54 and ratelimit/limiter.go:15-22: no interleaving of
\* calls lets more of them pass than one burst and what the rate brings.
THEOREM WithinBudgetHolds == Spec => []WithinBudget
  <1>1. IInv => WithinBudget
    <2> SUFFICES ASSUME IInv, NEW t \in Targets(groups), Limited(t), NEW a \in 0..Span
                 PROVE  Budget(t).cost * since[t][a] <= Budget(t).cap + a * Budget(t).gain
      BY DEF WithinBudget
    <2> DEFINE p == Budget(t)
               b == limiters[BucketOf(t)]
    <2>1. /\ groups \in Resolvers /\ limiters \in [BucketIds -> Buckets \cup {None}]
          /\ since \in [Targets(groups) -> [0..Span -> Nat]]
      BY DEF IInv, Typed
    <2>2. p \in Plans /\ BucketOf(t) \in BucketIds
      BY <2>1, BudgetTyped, BucketOfTyped
    <2>3. Account(b, since[t], p)
      BY DEF IInv, Balanced
    <2>4. /\ b \in Buckets \cup {None} /\ since[t][a] \in Nat /\ a \in Nat
          /\ p.cost \in Nat /\ p.gain \in Nat /\ p.cap \in Nat
      BY <2>1, <2>2, LimitAssumption DEF Plans
    <2>5. p.cost * since[t][a] \in Nat /\ a * p.gain \in Nat
      BY <2>4, Products
    <2> HIDE DEF p, b
    <2>6. CASE b = None
      <3>1. since[t][a] = 0
        BY <2>3, <2>6 DEF Account
      <3>2. p.cost * since[t][a] = 0
        BY <3>1, <2>4, Products
      <3>3. QED
        BY <3>2, <2>4, <2>5 DEF p
    <2>7. CASE b # None
      <3>1. b.units \in Nat
        BY <2>4, <2>7 DEF Buckets
      <3>2. p.cost * since[t][a] + b.units <= p.cap + a * p.gain
        BY <2>3, <2>7 DEF Account, Spent
      <3>3. p.cost * since[t][a] <= p.cap + a * p.gain
        BY <3>1, <3>2, <2>4, <2>5
      <3>4. QED
        BY <3>3 DEF p
    <2>8. QED
      BY <2>6, <2>7
  <1>2. QED
    BY <1>1, SpecIInv, PTL

\* What falls under a limit includes what one rateLimitState has admitted of it.
LEMMA AdmittedCovers ==
    ASSUME IInv, NEW t \in Targets(groups), NEW a \in 0..Span
    PROVE  Admitted(t, a) \in Nat /\ since[t][a] \in Nat /\ since[t][a] <= Admitted(t, a)
  <1>1. since \in [Targets(groups) -> [0..Span -> Nat]]
    BY DEF IInv, Typed
  <1>2. CASE t = Global
    <2>1. since[t] \in [0..Span -> Nat]
      BY <1>1
    <2>2. since[t][a] \in Nat
      BY <2>1
    <2>3. Admitted(t, a) = since[t][a]
      BY <1>2 DEF Admitted
    <2>4. QED
      BY <2>2, <2>3
  <1>3. CASE t # Global
    <2>1. PICK k \in Kinds, g \in DOMAIN groups : t = <<k, g>>
      BY <1>3 DEF Targets
    <2>2. <<"unary", g>> \in Targets(groups) /\ <<"stream", g>> \in Targets(groups)
      BY DEF Targets, Kinds
    <2>3. since[<<"unary", g>>][a] \in Nat /\ since[<<"stream", g>>][a] \in Nat
      BY <1>1, <2>2
    <2>4. Admitted(t, a) = since[<<"unary", g>>][a] + since[<<"stream", g>>][a]
      BY <1>3, <2>1 DEF Admitted
    <2>5. since[t][a] = since[<<"unary", g>>][a] \/ since[t][a] = since[<<"stream", g>>][a]
      BY <2>1 DEF Kinds
    <2>6. QED
      BY <2>3, <2>4, <2>5
  <1>4. QED
    BY <1>2, <1>3

\* interceptors/ratelimit.go:56-73: a call is refused only when its own limit is used
\* up, whatever the calls of other groups do.
THEOREM RefusedOnlyWhenSpentHolds == Spec => RefusedOnlyWhenSpent
  <1> DEFINE OnlySpent ==
               \A r \in Reqs : Refuse(r) /\ Limited(TargetOf(r)) =>
                  LET b == Budget(TargetOf(r)) IN
                  \A a \in 0..Span :
                     a * b.gain >= b.cap => b.cost * (Admitted(TargetOf(r), a) + 1) > b.cap
  <1>1. IInv => OnlySpent
    <2> SUFFICES ASSUME IInv, NEW r \in Reqs, Refuse(r), Limited(TargetOf(r)),
                        NEW a \in 0..Span,
                        a * Budget(TargetOf(r)).gain >= Budget(TargetOf(r)).cap
                 PROVE  Budget(TargetOf(r)).cost * (Admitted(TargetOf(r), a) + 1)
                           > Budget(TargetOf(r)).cap
      OBVIOUS
    <2> DEFINE u == TargetOf(r)
               p == Budget(u)
               b == limiters[BucketOf(u)]
               s == since[u][a]
               n == Admitted(u, a)
    <2>1. /\ groups \in Resolvers /\ limiters \in [BucketIds -> Buckets \cup {None}]
          /\ since \in [Targets(groups) -> [0..Span -> Nat]]
      BY DEF IInv, Typed
    <2>2. call[r].at = "allow" /\ b # None /\ ~Affordable(b)
      BY DEF Refuse, IInv, Served
    <2>3. u \in Targets(groups)
      BY <2>2, TargetTyped DEF IInv
    <2>4. p \in Plans /\ BucketOf(u) \in BucketIds
      BY <2>1, <2>3, BudgetTyped, BucketOfTyped
    <2>5. Account(b, since[u], p)
      BY <2>3 DEF IInv, Balanced
    <2>6. /\ b \in Buckets /\ s \in Nat /\ a \in Nat
          /\ p.cost \in Nat /\ p.gain \in Nat /\ p.cap \in Nat
      BY <2>1, <2>2, <2>3, <2>4, LimitAssumption DEF Plans
    <2>7. /\ p.cost * s \in Nat /\ a * p.gain \in Nat
          /\ p.cost * (s + 1) = p.cost * s + p.cost
      BY <2>6, Products
    <2>8. a * p.gain >= p.cap
      OBVIOUS
    <2>9. \/ p.cost * s + b.units >= p.cap
          \/ p.cost * s + b.units >= a * p.gain
      BY <2>2, <2>5 DEF Account, Kept
    <2>10. b.units \in Nat /\ b.units < p.cost
      BY <2>2, <2>5, <2>6 DEF Account, Affordable, Buckets
    <2>11. n \in Nat /\ s <= n
      BY <2>3, AdmittedCovers
    <2> HIDE DEF u, p, b, s, n
    <2>12. p.cost * (s + 1) > p.cap
      BY <2>6, <2>7, <2>8, <2>9, <2>10
    <2>13. PICK d \in Nat : n + 1 = (s + 1) + d
      <3>1. n - s \in Nat /\ n + 1 = (s + 1) + (n - s)
        BY <2>6, <2>11
      <3>2. QED
        BY <3>1
    <2>14. p.cost * (n + 1) > p.cap
      <3>1. /\ p.cost * (s + 1) \in Nat /\ p.cost * d \in Nat
            /\ p.cost * ((s + 1) + d) = p.cost * (s + 1) + p.cost * d
        BY <2>6, Products
      <3>2. p.cost * (n + 1) = p.cost * (s + 1) + p.cost * d
        BY <2>13, <3>1
      <3>3. QED
        BY <2>6, <2>12, <3>1, <3>2
    <2>15. QED
      BY <2>14 DEF u, p, n
  <1>2. QED
    BY <1>1, SpecIInv, PTL DEF RefusedOnlyWhenSpent

=============================================================================
