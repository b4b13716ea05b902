--------------------------- MODULE Assembly_proof ---------------------------
(***************************************************************************)
(* The chains that NewServer builds contain every registered interceptor,  *)
(* in the documented order and, within a tier, in the order in which the   *)
(* options were passed, for every sequence of options.  The substance is   *)
(* SortStable: ranks are a bijection between the selected entries and the  *)
(* positions of the result, and grow along Precedes.                       *)
(***************************************************************************)
EXTENDS Assembly, FiniteSetTheorems, TLAPS

\* Every entry has an order, so orders can be compared.
LEMMA OrderIsNat == ASSUME NEW e PROVE Order(e) \in Nat
  BY DEF Order, orderTracing, orderRecovery, orderIPBlock, orderRateLimit,
         orderAuth, orderRequestID, orderInterceptor

\* Precedes is a strict total order on the indices of the entries.
LEMMA PrecedesTotal ==
    ASSUME NEW es, NEW i \in Nat, NEW j \in Nat, NEW k \in Nat
    PROVE  /\ ~Precedes(es, i, i)
           /\ Precedes(es, i, j) /\ Precedes(es, j, k) => Precedes(es, i, k)
           /\ i # j => Precedes(es, i, j) \/ Precedes(es, j, i)
  <1> DEFINE o(x) == Order(es[x])
  <1>1. o(i) \in Nat /\ o(j) \in Nat /\ o(k) \in Nat
    BY OrderIsNat
  <1>2. QED
    BY <1>1 DEF Precedes

\* What a set of positions to be sorted is.
Indices(I) == IsFiniteSet(I) /\ I \subseteq Nat

\* The positions of a sequence, and any selection of them, are Indices.
LEMMA IndicesOfSeq ==
    ASSUME NEW n \in Nat, NEW I \in SUBSET (1..n)
    PROVE  Indices(I)
  <1>1. IsFiniteSet(1..n)
    BY FS_Interval
  <1>2. IsFiniteSet(I)
    BY <1>1, FS_Subset
  <1>3. QED
    BY <1>2 DEF Indices

\* The entries that must come before i leave room for i among all of them.
LEMMA RankBounds ==
    ASSUME NEW es, NEW I, Indices(I), NEW i \in I
    PROVE  /\ IsFiniteSet({j \in I : Precedes(es, j, i)})
           /\ Rank(es, I, i) \in 1..Cardinality(I)
  <1> DEFINE Pre == {j \in I : Precedes(es, j, i)}
  <1>1. IsFiniteSet(I) /\ Cardinality(I) \in Nat /\ i \in Nat /\ I \subseteq Nat
    BY FS_CardinalityType DEF Indices
  <1>2. IsFiniteSet(I \ {i}) /\ Cardinality(I \ {i}) = Cardinality(I) - 1
    BY <1>1, FS_RemoveElement
  <1>3. Pre \in SUBSET (I \ {i})
    BY <1>1, PrecedesTotal
  <1>4. IsFiniteSet(Pre) /\ Cardinality(Pre) <= Cardinality(I) - 1
    BY <1>2, <1>3, FS_Subset
  <1>5. Cardinality(Pre) \in Nat
    BY <1>4, FS_CardinalityType
  <1>6. Rank(es, I, i) = Cardinality(Pre) + 1
    BY DEF Rank
  <1>7. QED
    BY <1>1, <1>4, <1>5, <1>6

\* Whoever precedes has the smaller rank.
LEMMA RankMonotone ==
    ASSUME NEW es, NEW I, Indices(I), NEW i \in I, NEW j \in I, Precedes(es, i, j)
    PROVE  Rank(es, I, i) < Rank(es, I, j)
  <1> DEFINE PreI == {y \in I : Precedes(es, y, i)}
             PreJ == {y \in I : Precedes(es, y, j)}
  <1>1. IsFiniteSet(PreI) /\ IsFiniteSet(PreJ)
    BY RankBounds
  <1>2. I \subseteq Nat
    BY DEF Indices
  <1>3. PreI \in SUBSET PreJ
    BY <1>2, PrecedesTotal
  <1>4. i \in PreJ /\ i \notin PreI
    BY <1>2, PrecedesTotal
  <1>5. Cardinality(PreI) \in Nat /\ Cardinality(PreJ) \in Nat
    BY <1>1, FS_CardinalityType
  <1>6. Cardinality(PreI) <= Cardinality(PreJ) /\ Cardinality(PreI) # Cardinality(PreJ)
    BY <1>1, <1>3, <1>4, FS_Subset
  <1>7. Rank(es, I, i) = Cardinality(PreI) + 1 /\ Rank(es, I, j) = Cardinality(PreJ) + 1
    BY DEF Rank
  <1>8. QED
    BY <1>5, <1>6, <1>7

\* Every position of the result is the rank of exactly one entry.
LEMMA RankBijective ==
    ASSUME NEW es, NEW I, Indices(I)
    PROVE  /\ \A i, j \in I : Rank(es, I, i) = Rank(es, I, j) => i = j
           /\ \A k \in 1..Cardinality(I) : \E i \in I : Rank(es, I, i) = k
  <1> DEFINE R == [i \in I |-> Rank(es, I, i)]
             N == Cardinality(I)
  <1>1. IsFiniteSet(I) /\ N \in Nat /\ I \subseteq Nat
    BY FS_CardinalityType DEF Indices
  <1>2. ASSUME NEW i \in I, NEW j \in I, i # j
        PROVE  Rank(es, I, i) # Rank(es, I, j)
    <2>1. Precedes(es, i, j) \/ Precedes(es, j, i)
      BY <1>1, <1>2, PrecedesTotal
    <2>2. Rank(es, I, i) \in 1..N /\ Rank(es, I, j) \in 1..N
      BY RankBounds
    <2>3. CASE Precedes(es, i, j)
      <3>1. Rank(es, I, i) < Rank(es, I, j)
        BY <2>3, RankMonotone
      <3>2. QED
        BY <3>1, <2>2, <1>1
    <2>4. CASE Precedes(es, j, i)
      <3>1. Rank(es, I, j) < Rank(es, I, i)
        BY <2>4, RankMonotone
      <3>2. QED
        BY <3>1, <2>2, <1>1
    <2>5. QED
      BY <2>1, <2>3, <2>4
  <1>3. \A i \in I : Rank(es, I, i) \in 1..N
    BY RankBounds
  <1>4. R \in Injection(I, 1..N)
    BY <1>2, <1>3 DEF Injection, IsInjective
  <1>5. IsFiniteSet(1..N) /\ Cardinality(1..N) = N
    BY <1>1, FS_Interval
  <1>6. R \in Surjection(I, 1..N)
    BY <1>4, <1>5, FS_Injection
  <1>7. \A k \in 1..N : \E i \in I : R[i] = k
    BY <1>6 DEF Surjection
  <1>8. QED
    BY <1>2, <1>7

\* What slices.SortStableFunc promises: SortStable returns a sequence with
\* exactly the selected entries in it, in non-decreasing order, equal ones as
\* they were.
THEOREM SortStableSorts ==
    ASSUME NEW es \in Seq(Entry), NEW I \in SUBSET (DOMAIN es)
    PROVE  LET s == SortStable(es, I) IN
           /\ s \in Seq(Entry)
           /\ \A i, j \in DOMAIN s : i < j => Order(s[i]) <= Order(s[j])
           /\ \A i, j \in DOMAIN s : i < j =>
                 \E a, b \in I : s[i] = es[a] /\ s[j] = es[b] /\ Precedes(es, a, b)
           /\ \A i \in I : \E k \in DOMAIN s : s[k] = es[i]
           /\ \A k \in DOMAIN s : \E i \in I : s[k] = es[i]
  <1> DEFINE N == Cardinality(I)
             P(k) == CHOOSE i \in I : Rank(es, I, i) = k
             s == SortStable(es, I)
  <1>1. DOMAIN es = 1..Len(es) /\ Len(es) \in Nat /\ I \in SUBSET (1..Len(es))
    OBVIOUS
  <1>2. Indices(I)
    BY <1>1, IndicesOfSeq
  <1>0. N \in Nat /\ I \subseteq Nat
    BY <1>2, FS_CardinalityType DEF Indices
  <1>3. ASSUME NEW k \in 1..N
        PROVE  P(k) \in I /\ Rank(es, I, P(k)) = k
    <2>1. \E i \in I : Rank(es, I, i) = k
      BY <1>2, RankBijective
    <2>2. QED
      BY <2>1
  <1>4. DOMAIN s = 1..N /\ \A k \in 1..N : s[k] = es[P(k)]
    BY DEF SortStable
  <1>5. s \in Seq(Entry)
    <2>1. \A k \in 1..N : s[k] \in Entry
      BY <1>1, <1>3, <1>4
    <2>2. s = [k \in 1..N |-> es[P(k)]]
      BY DEF SortStable
    <2>3. s \in [1..N -> Entry]
      BY <2>1, <2>2, <1>4
    <2>4. QED
      BY <2>3, <1>0
  <1>6. ASSUME NEW i \in 1..N, NEW j \in 1..N, i < j
        PROVE  /\ Order(s[i]) <= Order(s[j])
               /\ \E a, b \in I : s[i] = es[a] /\ s[j] = es[b] /\ Precedes(es, a, b)
    <2>1. /\ P(i) \in I /\ P(j) \in I /\ Rank(es, I, P(i)) = i /\ Rank(es, I, P(j)) = j
      BY <1>3
    <2>2. P(i) # P(j)
      BY <2>1, <1>6
    <2>3. ~Precedes(es, P(j), P(i))
      <3>1. ASSUME Precedes(es, P(j), P(i)) PROVE FALSE
        <4>1. Rank(es, I, P(j)) < Rank(es, I, P(i))
          BY <3>1, <2>1, <1>2, RankMonotone
        <4>2. QED
          BY <4>1, <2>1, <1>6, <1>0
      <3>2. QED
        BY <3>1
    <2>4. Precedes(es, P(i), P(j))
      <3> HIDE DEF P
      <3>1. P(i) \in Nat /\ P(j) \in Nat
        BY <2>1, <1>0
      <3>2. Precedes(es, P(i), P(j)) \/ Precedes(es, P(j), P(i))
        BY <3>1, <2>2, PrecedesTotal
      <3>3. QED
        BY <3>2, <2>3
    <2>5. Order(s[i]) <= Order(s[j])
      BY <2>4, <1>4, OrderIsNat DEF Precedes
    <2>6. s[i] = es[P(i)] /\ s[j] = es[P(j)]
      BY <1>4
    <2>7. QED
      <3> HIDE DEF P, s
      <3>1. QED
        BY <2>1, <2>4, <2>5, <2>6
  <1>7. ASSUME NEW i \in I
        PROVE  \E k \in 1..N : s[k] = es[i]
    <2>1. Rank(es, I, i) \in 1..N
      BY <1>2, RankBounds
    <2>2. P(Rank(es, I, i)) = i
      BY <2>1, <1>2, <1>3, RankBijective
    <2>3. QED
      BY <2>1, <2>2, <1>4
  <1>8. \A k \in 1..N : \E i \in I : s[k] = es[i]
    BY <1>3, <1>4
  <1> HIDE DEF P, s, N
  <1>9. /\ \A i, j \in DOMAIN s : i < j => Order(s[i]) <= Order(s[j])
        /\ \A i, j \in DOMAIN s : i < j =>
              \E a, b \in I : s[i] = es[a] /\ s[j] = es[b] /\ Precedes(es, a, b)
    BY <1>4, <1>6
  <1>10. QED
    BY <1>4, <1>5, <1>7, <1>8, <1>9 DEF s

\* A chain is the sorted selection of the entries that serve its kind of call.
LEMMA BuildSorts ==
    ASSUME NEW es \in Seq(Entry), NEW m \in Methods
    PROVE  /\ Build(es, m) \in Seq(Entry)
           /\ \A i, j \in DOMAIN Build(es, m) :
                 i < j => Order(Build(es, m)[i]) <= Order(Build(es, m)[j])
           /\ \A i \in DOMAIN es : Serves(es[i], m) =>
                 \E k \in DOMAIN Build(es, m) : Build(es, m)[k] = es[i]
  <1> DEFINE I == {i \in DOMAIN es : Serves(es[i], m)}
  <1>1. I \in SUBSET (DOMAIN es)
    OBVIOUS
  <1>2. Build(es, m) = SortStable(es, I)
    BY DEF Build
  <1>3. /\ SortStable(es, I) \in Seq(Entry)
        /\ \A i, j \in DOMAIN SortStable(es, I) :
              i < j => Order(SortStable(es, I)[i]) <= Order(SortStable(es, I)[j])
        /\ \A i \in I : \E k \in DOMAIN SortStable(es, I) : SortStable(es, I)[k] = es[i]
    <2> HIDE DEF I
    <2>1. QED
      BY <1>1, SortStableSorts
  <1>4. \A i \in DOMAIN es : Serves(es[i], m) => i \in I
    OBVIOUS
  <1>5. QED
    <2> HIDE DEF I
    <2>1. QED
      BY <1>2, <1>3, <1>4

\* Sorting all entries keeps them.
LEMMA SortAll ==
    ASSUME NEW es \in Seq(Entry)
    PROVE  /\ SortStable(es, DOMAIN es) \in Seq(Entry)
           /\ \A k \in DOMAIN SortStable(es, DOMAIN es) :
                 \E i \in DOMAIN es : SortStable(es, DOMAIN es)[k] = es[i]
  BY SortStableSorts

-----------------------------------------------------------------------------
\* Nothing that the options registered is missing from the chains.
ChainsComplete ==
    built => \A m \in Methods : \A i \in DOMAIN cfg.entries :
        Serves(cfg.entries[i], m) => \E k \in DOMAIN chain[m] : chain[m][k] = cfg.entries[i]

\* The chains are sorted by order: whatever runs further in has no lower order.
TiersInOrder ==
    \A m \in Methods : \A i, j \in DOMAIN chain[m] :
        i < j => Order(chain[m][i]) <= Order(chain[m][j])

AssemblyInv == AssemblyTypeOK /\ TiersInOrder /\ ChainsComplete

\* Adding an entry keeps the entries well formed.
LEMMA AddType ==
    ASSUME NEW es \in Seq(Entry), NEW k \in Kinds, NEW res \in BOOLEAN
    PROVE  Add(es, k, res) \in Seq(Entry)
  <1> DEFINE S == {i \in DOMAIN es : es[i].kind = k}
  <1>1. IsFiniteSet(1..Len(es)) /\ DOMAIN es = 1..Len(es)
    BY FS_Interval
  <1>2. Cardinality(S) \in Nat
    BY <1>1, FS_Subset, FS_CardinalityType
  <1>3. Count(es, k) + 1 \in Nat \ {0}
    BY <1>2 DEF Count
  <1>4. [kind |-> k, nth |-> Count(es, k) + 1, resolver |-> res] \in Entry
    BY <1>3 DEF Entry
  <1>5. QED
    BY <1>4 DEF Add

\* The invariant holds before the first option.
LEMMA AssemblyInit == Init => AssemblyInv
  <1> SUFFICES ASSUME Init PROVE AssemblyInv
    OBVIOUS
  <1>1. <<>> \in Seq(Entry) /\ DOMAIN <<>> = {}
    OBVIOUS
  <1>2. AssemblyTypeOK
    BY <1>1 DEF Init, AssemblyTypeOK
  <1>3. TiersInOrder /\ ChainsComplete
    BY <1>1 DEF Init, TiersInOrder, ChainsComplete
  <1>4. QED
    BY <1>2, <1>3 DEF AssemblyInv

\* An option changes the config only, and keeps it well formed.
LEMMA OptionInv == AssemblyInv /\ Option => AssemblyInv'
  <1> SUFFICES ASSUME AssemblyInv, Option PROVE AssemblyInv'
    OBVIOUS
  <1>1. ~built /\ UNCHANGED <<chain, built>>
    BY DEF Option, WithOpenTelemetry, WithRecovery, WithIPBlocker, WithRateLimitGlobal,
           WithAuth, WithUnaryInterceptor, WithStreamInterceptor, WithResolver,
           WithCacheL1, WithCacheRedis, Register, Passing, Setting
  <1>2. TiersInOrder' /\ ChainsComplete'
    BY <1>1 DEF AssemblyInv, TiersInOrder, ChainsComplete, AssemblyTypeOK
  <1>3. ASSUME NEW k \in Kinds, NEW name, Register(name, k)
        PROVE  AssemblyTypeOK'
    <2>1. Add(cfg.entries, k, FALSE) \in Seq(Entry)
      BY AddType DEF AssemblyInv, AssemblyTypeOK
    <2>2. QED
      BY <1>1, <1>3, <2>1 DEF AssemblyInv, AssemblyTypeOK, Register
  <1>4. AssemblyTypeOK'
    <2>1. CASE WithOpenTelemetry \/ WithIPBlocker \/ WithAuth \/ WithUnaryInterceptor
               \/ WithStreamInterceptor
      BY <1>3, <2>1 DEF WithOpenTelemetry, WithIPBlocker, WithAuth, WithUnaryInterceptor,
                        WithStreamInterceptor, Kinds
    <2>2. CASE WithRecovery
      <3>1. Add(cfg.entries, "Recovery", FALSE) \in Seq(Entry)
        BY AddType DEF AssemblyInv, AssemblyTypeOK, Kinds
      <3>2. Add(Add(cfg.entries, "Recovery", FALSE), "RequestID", FALSE) \in Seq(Entry)
        BY <3>1, AddType DEF Kinds
      <3>3. QED
        BY <1>1, <2>2, <3>2 DEF AssemblyInv, AssemblyTypeOK, WithRecovery
    <2>3. CASE WithRateLimitGlobal
      <3>1. Add(cfg.entries, "RateLimit", cfg.resolver) \in Seq(Entry)
        BY AddType DEF AssemblyInv, AssemblyTypeOK, Kinds
      <3>2. QED
        BY <1>1, <2>3, <3>1 DEF AssemblyInv, AssemblyTypeOK, WithRateLimitGlobal
    <2>4. CASE WithResolver \/ WithCacheL1 \/ WithCacheRedis
      BY <1>1, <2>4 DEF AssemblyInv, AssemblyTypeOK, WithResolver, WithCacheL1, WithCacheRedis
    <2>5. QED
      BY <2>1, <2>2, <2>3, <2>4 DEF Option
  <1>5. QED
    BY <1>2, <1>4 DEF AssemblyInv

\* NewServer establishes the two facts about the chains.
LEMMA NewServerInv == AssemblyInv /\ NewServer => AssemblyInv'
  <1> SUFFICES ASSUME AssemblyInv, NewServer PROVE AssemblyInv'
    OBVIOUS
  <1> DEFINE es == cfg.entries
  <1>1. es \in Seq(Entry) /\ cfg.cache \in {"nil", "L1", "Tiered"}
    BY DEF AssemblyInv, AssemblyTypeOK
  <1>2. /\ chain' = [m \in Methods |-> Build(es, m)]
        /\ cfg' = [cfg EXCEPT !.entries = SortStable(es, DOMAIN es), !.cache = Assembled(cfg)]
        /\ built' = TRUE
    BY DEF NewServer
  <1>3. cfg'.entries = SortStable(es, DOMAIN es)
    BY <1>2 DEF AssemblyInv, AssemblyTypeOK
  <1>4. AssemblyTypeOK'
    <2>1. Assembled(cfg) \in {"nil", "L1", "Tiered"}
      BY <1>1 DEF Assembled
    <2>2. SortStable(es, DOMAIN es) \in Seq(Entry)
      BY <1>1, SortAll
    <2>3. \A m \in Methods : Build(es, m) \in Seq(Entry)
      BY <1>1, BuildSorts
    <2>4. QED
      BY <1>2, <2>1, <2>2, <2>3 DEF AssemblyInv, AssemblyTypeOK
  <1>5. TiersInOrder'
    BY <1>1, <1>2, BuildSorts DEF TiersInOrder
  <1>6. ChainsComplete'
    <2> SUFFICES ASSUME NEW m \in Methods, NEW i \in DOMAIN cfg'.entries,
                        Serves(cfg'.entries[i], m)
                 PROVE  \E k \in DOMAIN chain'[m] : chain'[m][k] = cfg'.entries[i]
      BY DEF ChainsComplete
    <2>1. PICK j \in DOMAIN es : cfg'.entries[i] = es[j]
      BY <1>1, <1>3, SortAll
    <2>2. \E k \in DOMAIN Build(es, m) : Build(es, m)[k] = es[j]
      BY <1>1, <2>1, BuildSorts
    <2>3. QED
      BY <1>2, <2>1, <2>2
  <1>7. QED
    BY <1>4, <1>5, <1>6 DEF AssemblyInv

\* AssemblyInv is inductive.
LEMMA AssemblyStep == AssemblyInv /\ [AssemblyNext]_assemblyVars => AssemblyInv'
  <1>1. AssemblyInv /\ UNCHANGED assemblyVars => AssemblyInv'
    BY DEF AssemblyInv, AssemblyTypeOK, TiersInOrder, ChainsComplete, assemblyVars
  <1>2. QED
    BY <1>1, OptionInv, NewServerInv DEF AssemblyNext

\* For every sequence of options, however long: config and chains are well
\* formed (Build returns sequences of registered entries).
THEOREM AssemblyTypeCorrect == AssemblySpec => []AssemblyTypeOK
  <1>1. AssemblyInv => AssemblyTypeOK
    BY DEF AssemblyInv
  <1>2. QED
    BY <1>1, AssemblyInit, AssemblyStep, PTL DEF AssemblySpec

-----------------------------------------------------------------------------
(***************************************************************************)
(* The order constants against the documented order, and equal orders.     *)
(***************************************************************************)

\* SortStable puts every selected entry at its rank.
LEMMA SortPlaces ==
    ASSUME NEW es \in Seq(Entry), NEW I \in SUBSET (DOMAIN es)
    PROVE  /\ Len(SortStable(es, I)) = Cardinality(I)
           /\ Cardinality(I) \in Nat
           /\ DOMAIN SortStable(es, I) = 1..Cardinality(I)
           /\ \A i \in I : /\ Rank(es, I, i) \in 1..Cardinality(I)
                           /\ SortStable(es, I)[Rank(es, I, i)] = es[i]
  <1> DEFINE N == Cardinality(I)
             P(k) == CHOOSE i \in I : Rank(es, I, i) = k
             s == SortStable(es, I)
  <1>1. DOMAIN es = 1..Len(es) /\ Len(es) \in Nat /\ I \in SUBSET (1..Len(es))
    OBVIOUS
  <1>2. Indices(I)
    BY <1>1, IndicesOfSeq
  <1>3. N \in Nat
    BY <1>2, FS_CardinalityType DEF Indices
  <1>4. DOMAIN s = 1..N /\ \A k \in 1..N : s[k] = es[P(k)]
    BY DEF SortStable
  <1>5. s \in Seq(Entry)
    BY SortStableSorts
  <1>6. Len(s) = N
    BY <1>3, <1>4, <1>5
  <1>7. ASSUME NEW i \in I
        PROVE  Rank(es, I, i) \in 1..N /\ s[Rank(es, I, i)] = es[i]
    <2>1. Rank(es, I, i) \in 1..N
      BY <1>2, RankBounds
    <2>2. P(Rank(es, I, i)) = i
      BY <1>2, RankBijective
    <2>3. QED
      BY <2>1, <2>2, <1>4
  <1>8. QED
    BY <1>3, <1>4, <1>6, <1>7

\* Sorting b.entries in place loses and doubles nothing: it keeps the number of
\* the entries of any sort X.
LEMMA SortKeepsNumbers ==
    ASSUME NEW es \in Seq(Entry), NEW X
    PROVE  LET cs == SortStable(es, DOMAIN es) IN
           Cardinality({k \in DOMAIN cs : cs[k] \in X})
               = Cardinality({i \in DOMAIN es : es[i] \in X})
  <1> DEFINE D == DOMAIN es
             cs == SortStable(es, D)
             S == {i \in D : es[i] \in X}
             T == {k \in DOMAIN cs : cs[k] \in X}
             f == [i \in S |-> Rank(es, D, i)]
  <1>1. D = 1..Len(es) /\ Len(es) \in Nat
    OBVIOUS
  <1>2. Indices(D) /\ Indices(S)
    BY <1>1, IndicesOfSeq
  <1>3. IsFiniteSet(S)
    BY <1>2 DEF Indices
  <1>4. /\ DOMAIN cs = 1..Cardinality(D)
        /\ \A i \in D : Rank(es, D, i) \in 1..Cardinality(D) /\ cs[Rank(es, D, i)] = es[i]
    BY SortPlaces
  <1>5. /\ \A i, j \in D : Rank(es, D, i) = Rank(es, D, j) => i = j
        /\ \A k \in 1..Cardinality(D) : \E i \in D : Rank(es, D, i) = k
    BY <1>2, RankBijective
  <1>6. f \in [S -> T]
    BY <1>4
  <1>7. \A i, j \in S : f[i] = f[j] => i = j
    BY <1>5
  <1>8. \A k \in T : \E i \in S : f[i] = k
    BY <1>4, <1>5
  <1>9. f \in Bijection(S, T)
    BY <1>6, <1>7, <1>8 DEF Bijection, Injection, Surjection, IsInjective
  <1>10. ExistsBijection(S, T)
    BY <1>9 DEF ExistsBijection
  <1>11. QED
    BY <1>3, <1>10, FS_Bijection

\* The order constants agree with the documented order where there is one.
LEMMA OrderIsDocumented ==
    ASSUME NEW a \in Entry, NEW b \in Entry, Order(a) <= Order(b),
           a.kind # "Tracing", b.kind # "Tracing"
    PROVE  Documented[a.kind] <= Documented[b.kind]
  <1>1. a.kind \in Kinds /\ b.kind \in Kinds
    BY DEF Entry
  <1> DEFINE D(k) == CASE k = "Recovery"  -> 10
                       [] k = "IPBlock"   -> 20
                       [] k = "RateLimit" -> 25
                       [] k = "Auth"      -> 28
                       [] k = "RequestID" -> 30
                       [] OTHER           -> 100
  <1>2. D(a.kind) <= D(b.kind)
    BY DEF Order, orderTracing, orderRecovery, orderIPBlock, orderRateLimit,
           orderAuth, orderRequestID, orderInterceptor
  <1>3. \A k, l \in Kinds \ {"Tracing"} : D(k) <= D(l) => Documented[k] <= Documented[l]
    BY DEF Kinds, Documented
  <1>4. QED
    <2> HIDE DEF D
    <2>1. QED
      BY <1>1, <1>2, <1>3

\* nth is an entry's number among the entries of its kind, in the order in which
\* the options were passed.
Numbered(es) ==
    \A i \in DOMAIN es :
        es[i].nth = Cardinality({j \in 1..i : es[j].kind = es[i].kind})

\* The numbers of a kind grow along the entries.
LEMMA NumbersGrow ==
    ASSUME NEW es \in Seq(Entry), Numbered(es), NEW i \in DOMAIN es, NEW j \in DOMAIN es,
           i < j, es[i].kind = es[j].kind
    PROVE  es[i].nth < es[j].nth
  <1> DEFINE A == {x \in 1..i : es[x].kind = es[i].kind}
             B == {x \in 1..j : es[x].kind = es[j].kind}
  <1>0. i \in Nat /\ j \in Nat /\ j \in 1..j
    OBVIOUS
  <1>1. i \in Nat /\ j \in Nat /\ j \notin A /\ A \cup {j} \in SUBSET B
    <2>1. j \notin A /\ j \in B
      BY <1>0
    <2>2. \A x \in A : x \in B
      BY <1>0
    <2>3. QED
      <3> HIDE DEF A, B
      <3>1. QED
        BY <1>0, <2>1, <2>2
  <1>2. IsFiniteSet(1..i) /\ IsFiniteSet(1..j) /\ A \in SUBSET (1..i) /\ B \in SUBSET (1..j)
    <2>1. IsFiniteSet(1..i) /\ IsFiniteSet(1..j)
      BY <1>0, FS_Interval
    <2>2. A \in SUBSET (1..i) /\ B \in SUBSET (1..j)
      OBVIOUS
    <2>3. QED
      BY <2>1, <2>2
  <1>3. IsFiniteSet(A) /\ IsFiniteSet(B)
    BY <1>2, FS_Subset
  <1>4. es[i].nth = Cardinality(A) /\ es[j].nth = Cardinality(B)
    BY DEF Numbered
  <1> HIDE DEF A, B
  <1>5. Cardinality(A \cup {j}) = Cardinality(A) + 1
    BY <1>1, <1>3, FS_AddElement
  <1>6. Cardinality(A \cup {j}) <= Cardinality(B)
    BY <1>1, <1>3, FS_Subset
  <1>7. Cardinality(A) \in Nat /\ Cardinality(B) \in Nat
    BY <1>3, FS_CardinalityType
  <1>8. QED
    BY <1>4, <1>5, <1>6, <1>7

\* What precedes in the sort may enclose.
LEMMA PrecedesEncloses ==
    ASSUME NEW es \in Seq(Entry), Numbered(es), NEW a \in DOMAIN es, NEW b \in DOMAIN es,
           Precedes(es, a, b)
    PROVE  MayEnclose(es[a], es[b])
  <1>1. es[a] \in Entry /\ es[b] \in Entry
    OBVIOUS
  <1>2. Order(es[a]) <= Order(es[b])
    BY OrderIsNat DEF Precedes
  <1>3. es[a].kind = es[b].kind => a < b
    <2>1. es[a].kind = es[b].kind => Order(es[a]) = Order(es[b])
      BY DEF Order
    <2>2. QED
      BY <2>1, OrderIsNat DEF Precedes
  <1>4. QED
    BY <1>1, <1>2, <1>3, OrderIsDocumented, NumbersGrow DEF MayEnclose

\* Add gives the new entry the next number of its kind.
LEMMA AddNumbered ==
    ASSUME NEW es \in Seq(Entry), Numbered(es), NEW k \in Kinds, NEW res \in BOOLEAN
    PROVE  Numbered(Add(es, k, res))
  <1> DEFINE e == [kind |-> k, nth |-> Count(es, k) + 1, resolver |-> res]
             fs == Add(es, k, res)
             N == Len(es)
             S == {i \in DOMAIN es : es[i].kind = k}
  <1>1. N \in Nat /\ DOMAIN es = 1..N
    OBVIOUS
  <1>2. fs = Append(es, e)
    BY DEF Add
  <1>3. /\ DOMAIN fs = 1..(N + 1) /\ fs[N + 1] = e
        /\ \A i \in 1..N : fs[i] = es[i]
    <2> HIDE DEF e
    <2>1. QED
      BY <1>1, <1>2
  <1>4. ASSUME NEW i \in 1..N
        PROVE  fs[i].nth = Cardinality({j \in 1..i : fs[j].kind = fs[i].kind})
    <2>1. {j \in 1..i : fs[j].kind = fs[i].kind} = {j \in 1..i : es[j].kind = es[i].kind}
      <3> HIDE DEF fs, e
      <3>1. QED
        BY <1>1, <1>3
    <2>2. QED
      <3> HIDE DEF fs, e
      <3>1. QED
        BY <1>1, <1>3, <2>1 DEF Numbered
  <1>5. fs[N + 1].nth = Cardinality({j \in 1..(N + 1) : fs[j].kind = fs[N + 1].kind})
    <2>1. fs[N + 1].kind = k /\ fs[N + 1].nth = Cardinality(S) + 1
      BY <1>3 DEF Count
    <2>2. {j \in 1..(N + 1) : fs[j].kind = k} = S \cup {N + 1} /\ N + 1 \notin S
      <3> HIDE DEF fs, e
      <3>1. QED
        BY <1>1, <1>3, <2>1
    <2>3. IsFiniteSet(S)
      <3>1. IsFiniteSet(1..N) /\ S \in SUBSET (1..N)
        BY <1>1, FS_Interval
      <3>2. QED
        BY <3>1, FS_Subset
    <2>4. QED
      <3> HIDE DEF fs, e, S
      <3>1. Cardinality(S \cup {N + 1}) = Cardinality(S) + 1
        BY <2>2, <2>3, FS_AddElement
      <3>2. QED
        BY <2>1, <2>2, <3>1
  <1>6. QED
    <2> HIDE DEF fs, e
    <2>1. \A i \in 1..(N + 1) : i \in 1..N \/ i = N + 1
      BY <1>1
    <2>2. Numbered(fs)
      BY <1>3, <1>4, <1>5, <2>1 DEF Numbered
    <2>3. QED
      BY <2>2 DEF fs

\* What NewServer makes of numbered entries.
LEMMA BuildPlaces ==
    ASSUME NEW es \in Seq(Entry), Numbered(es), NEW m \in Methods
    PROVE  /\ Len(Build(es, m)) = Cardinality({i \in DOMAIN es : Serves(es[i], m)})
           /\ \A i, j \in DOMAIN Build(es, m) :
                 i < j => MayEnclose(Build(es, m)[i], Build(es, m)[j])
  <1> DEFINE I == {i \in DOMAIN es : Serves(es[i], m)}
             s == SortStable(es, I)
  <1>1. I \in SUBSET (DOMAIN es) /\ Build(es, m) = s
    BY DEF Build
  <1> HIDE DEF I
  <1>2. Len(s) = Cardinality(I)
    BY <1>1, SortPlaces
  <1>3. \A i, j \in DOMAIN s : i < j =>
            \E a, b \in I : s[i] = es[a] /\ s[j] = es[b] /\ Precedes(es, a, b)
    BY <1>1, SortStableSorts
  <1> HIDE DEF s
  <1>4. \A a, b \in I : Precedes(es, a, b) => MayEnclose(es[a], es[b])
    BY <1>1, PrecedesEncloses
  <1>5. \A i, j \in DOMAIN s : i < j => MayEnclose(s[i], s[j])
    BY <1>3, <1>4
  <1>6. QED
    BY <1>1, <1>2, <1>5 DEF I

\* Sorting b.entries in place keeps the number of those that serve m.
LEMMA SortKeepsServing ==
    ASSUME NEW es \in Seq(Entry), NEW m \in Methods
    PROVE  LET cs == SortStable(es, DOMAIN es) IN
           Cardinality({i \in DOMAIN cs : Serves(cs[i], m)})
               = Cardinality({i \in DOMAIN es : Serves(es[i], m)})
  <1> DEFINE cs == SortStable(es, DOMAIN es)
             X == {e \in Entry : Serves(e, m)}
  <1>1. cs \in Seq(Entry)
    BY SortAll
  <1>2. Cardinality({i \in DOMAIN cs : cs[i] \in X}) = Cardinality({i \in DOMAIN es : es[i] \in X})
    <2> HIDE DEF X
    <2>1. QED
      BY SortKeepsNumbers
  <1> HIDE DEF cs
  <1>3. /\ {i \in DOMAIN cs : Serves(cs[i], m)} = {i \in DOMAIN cs : cs[i] \in X}
        /\ {i \in DOMAIN es : Serves(es[i], m)} = {i \in DOMAIN es : es[i] \in X}
    <2>1. /\ \A i \in DOMAIN es : es[i] \in Entry
          /\ \A i \in DOMAIN cs : cs[i] \in Entry
      BY <1>1
    <2>2. QED
      BY <2>1
  <1>4. QED
    BY <1>2, <1>3 DEF cs

-----------------------------------------------------------------------------
\* While options are passed, the entries are numbered and the cache is what the
\* options so far have left: L1 once there is one, Tiered only from NewServer.
OptionsInv ==
    /\ ~built => /\ Numbered(cfg.entries)
                 /\ cfg.cache = IF cfg.l1 THEN "L1" ELSE "nil"
    /\ OptionOrderIrrelevant
    /\ CacheFollowsOptions

\* OptionsInv holds before the first option.
LEMMA OptionsInit == Init => OptionsInv
  <1> SUFFICES ASSUME Init PROVE OptionsInv
    OBVIOUS
  <1>1. DOMAIN cfg.entries = {} /\ ~built /\ cfg.cache = "nil" /\ ~cfg.l1
    BY DEF Init
  <1>2. QED
    BY <1>1 DEF OptionsInv, Numbered, OptionOrderIrrelevant, CacheFollowsOptions

\* An option numbers what it registers.
LEMMA OptionOptions == AssemblyInv /\ OptionsInv /\ Option => OptionsInv'
  <1> SUFFICES ASSUME AssemblyInv, OptionsInv, Option PROVE OptionsInv'
    OBVIOUS
  <1>1. ~built /\ UNCHANGED built
    BY DEF Option, WithOpenTelemetry, WithRecovery, WithIPBlocker, WithRateLimitGlobal,
           WithAuth, WithUnaryInterceptor, WithStreamInterceptor, WithResolver,
           WithCacheL1, WithCacheRedis, Register, Passing, Setting
  <1>2. /\ cfg.entries \in Seq(Entry) /\ Numbered(cfg.entries) /\ cfg.resolver \in BOOLEAN
        /\ cfg.cache = IF cfg.l1 THEN "L1" ELSE "nil"
        /\ cfg \in [entries: Seq(Entry), resolver: BOOLEAN, l1: BOOLEAN, l2: BOOLEAN,
                    cache: {"nil", "L1", "Tiered"}]
    BY <1>1 DEF AssemblyInv, AssemblyTypeOK, OptionsInv
  <1> DEFINE Goal == /\ Numbered(cfg'.entries)
                     /\ cfg'.cache = IF cfg'.l1 THEN "L1" ELSE "nil"
  <1>3. ASSUME NEW fs, Numbered(fs), cfg' = [cfg EXCEPT !.entries = fs]
        PROVE  Goal
    <2>1. cfg'.entries = fs /\ cfg'.cache = cfg.cache /\ cfg'.l1 = cfg.l1
      BY <1>2, <1>3
    <2>2. QED
      BY <1>2, <1>3, <2>1
  <1>4. ASSUME NEW k \in Kinds, NEW name, Register(name, k)
        PROVE  Goal
    <2>1. Numbered(Add(cfg.entries, k, FALSE))
      BY <1>2, AddNumbered
    <2>2. cfg' = [cfg EXCEPT !.entries = Add(cfg.entries, k, FALSE)]
      BY <1>4 DEF Register
    <2>3. QED
      <3> HIDE DEF Goal
      <3>1. QED
        BY <1>3, <2>1, <2>2
  <1>5. Goal
    <2>1. CASE WithOpenTelemetry \/ WithIPBlocker \/ WithAuth \/ WithUnaryInterceptor
               \/ WithStreamInterceptor
      <3> HIDE DEF Goal
      <3>1. QED
        BY <1>4, <2>1 DEF WithOpenTelemetry, WithIPBlocker, WithAuth, WithUnaryInterceptor,
                          WithStreamInterceptor, Kinds
    <2>2. CASE WithRecovery
      <3>1. /\ Add(cfg.entries, "Recovery", FALSE) \in Seq(Entry)
            /\ Numbered(Add(cfg.entries, "Recovery", FALSE))
        BY <1>2, AddType, AddNumbered DEF Kinds
      <3>2. Numbered(Add(Add(cfg.entries, "Recovery", FALSE), "RequestID", FALSE))
        BY <3>1, AddNumbered DEF Kinds
      <3>3. cfg' = [cfg EXCEPT !.entries =
                       Add(Add(cfg.entries, "Recovery", FALSE), "RequestID", FALSE)]
        BY <2>2 DEF WithRecovery
      <3>4. QED
        <4> HIDE DEF Goal
        <4>1. QED
          BY <1>3, <3>2, <3>3
    <2>3. CASE WithRateLimitGlobal
      <3>1. Numbered(Add(cfg.entries, "RateLimit", cfg.resolver))
        BY <1>2, AddNumbered DEF Kinds
      <3>2. cfg' = [cfg EXCEPT !.entries = Add(cfg.entries, "RateLimit", cfg.resolver)]
        BY <2>3 DEF WithRateLimitGlobal
      <3>3. QED
        <4> HIDE DEF Goal
        <4>1. QED
          BY <1>3, <3>1, <3>2
    <2>4. CASE WithResolver \/ WithCacheRedis
      <3>1. cfg'.entries = cfg.entries /\ cfg'.cache = cfg.cache /\ cfg'.l1 = cfg.l1
        BY <1>2, <2>4 DEF WithResolver, WithCacheRedis
      <3>2. QED
        BY <1>2, <3>1
    <2>5. CASE WithCacheL1
      <3>1. cfg'.entries = cfg.entries /\ cfg'.cache = "L1" /\ cfg'.l1 = TRUE
        BY <1>2, <2>5 DEF WithCacheL1
      <3>2. QED
        BY <1>2, <3>1
    <2>6. QED
      <3> HIDE DEF Goal
      <3>1. QED
        BY <2>1, <2>2, <2>3, <2>4, <2>5 DEF Option
  <1>6. QED
    BY <1>1, <1>5 DEF OptionsInv, OptionOrderIrrelevant, CacheFollowsOptions

\* NewServer places the numbered entries and merges the layers of the cache.
LEMMA NewServerOptions == AssemblyInv /\ OptionsInv /\ NewServer => OptionsInv'
  <1> SUFFICES ASSUME AssemblyInv, OptionsInv, NewServer PROVE OptionsInv'
    OBVIOUS
  <1> DEFINE es == cfg.entries
             cs == SortStable(es, DOMAIN es)
  <1>1. ~built /\ built' = TRUE /\ chain' = [m \in Methods |-> Build(es, m)]
    BY DEF NewServer
  <1>2. /\ es \in Seq(Entry) /\ Numbered(es)
        /\ cfg.cache = IF cfg.l1 THEN "L1" ELSE "nil"
        /\ cfg \in [entries: Seq(Entry), resolver: BOOLEAN, l1: BOOLEAN, l2: BOOLEAN,
                    cache: {"nil", "L1", "Tiered"}]
    BY <1>1 DEF AssemblyInv, AssemblyTypeOK, OptionsInv
  <1>3. /\ cfg'.entries = cs /\ cfg'.cache = Assembled(cfg)
        /\ cfg'.l1 = cfg.l1 /\ cfg'.l2 = cfg.l2
    <2>1. cfg' = [cfg EXCEPT !.entries = cs, !.cache = Assembled(cfg)]
      BY DEF NewServer
    <2>2. QED
      <3> HIDE DEF cs
      <3>1. QED
        BY <1>2, <2>1
  <1>4. OptionOrderIrrelevant'
    <2> SUFFICES ASSUME NEW m \in Methods
                 PROVE  LET Mine == {i \in DOMAIN cfg'.entries : Serves(cfg'.entries[i], m)}
                        IN  /\ Len(chain'[m]) = Cardinality(Mine)
                            /\ \A i \in Mine : \E j \in DOMAIN chain'[m] :
                                   chain'[m][j] = cfg'.entries[i]
                            /\ \A i, j \in DOMAIN chain'[m] :
                                   i < j => MayEnclose(chain'[m][i], chain'[m][j])
      BY DEF OptionOrderIrrelevant
    <2>1. chain'[m] = Build(es, m)
      BY <1>1
    <2>2. ChainsComplete'
      BY NewServerInv DEF AssemblyInv
    <2>3. \A i \in DOMAIN cfg'.entries : Serves(cfg'.entries[i], m) =>
              \E j \in DOMAIN chain'[m] : chain'[m][j] = cfg'.entries[i]
      BY <1>1, <2>2 DEF ChainsComplete
    <2> HIDE DEF es
    <2>4. /\ Len(Build(es, m)) = Cardinality({i \in DOMAIN es : Serves(es[i], m)})
          /\ \A i, j \in DOMAIN Build(es, m) :
                 i < j => MayEnclose(Build(es, m)[i], Build(es, m)[j])
      BY <1>2, BuildPlaces
    <2>5. Cardinality({i \in DOMAIN cs : Serves(cs[i], m)})
              = Cardinality({i \in DOMAIN es : Serves(es[i], m)})
      BY <1>2, SortKeepsServing
    <2> HIDE DEF cs
    <2>6. QED
      BY <1>3, <2>1, <2>3, <2>4, <2>5
  <1>5. CacheFollowsOptions'
    BY <1>2, <1>3 DEF CacheFollowsOptions, Assembled
  <1>6. QED
    BY <1>1, <1>4, <1>5 DEF OptionsInv

\* OptionsInv is inductive on top of AssemblyInv.
LEMMA OptionsStep ==
    AssemblyInv /\ OptionsInv /\ [AssemblyNext]_assemblyVars => OptionsInv'
  <1>1. OptionsInv /\ UNCHANGED assemblyVars => OptionsInv'
    BY DEF OptionsInv, OptionOrderIrrelevant, CacheFollowsOptions, assemblyVars
  <1>2. QED
    BY <1>1, OptionOptions, NewServerOptions DEF AssemblyNext

\* For every sequence of options, however long: the chains NewServer builds hold
\* what was registered, in the documented order, and custom interceptors in the
\* order in which they were passed (docs/architecture.md:141-147).
THEOREM OptionOrderIsIrrelevant == AssemblySpec => []OptionOrderIrrelevant
  <1>1. OptionsInv => OptionOrderIrrelevant
    BY DEF OptionsInv
  <1>2. QED
    BY <1>1, AssemblyInit, AssemblyStep, OptionsInit, OptionsStep, PTL DEF AssemblySpec

\* For every sequence of options, however long: the server's cache is tiered
\* exactly if both layers were configured, and L1 exactly if only L1 was.
THEOREM CacheAlwaysFollowsOptions == AssemblySpec => []CacheFollowsOptions
  <1>1. OptionsInv => CacheFollowsOptions
    BY DEF OptionsInv
  <1>2. QED
    BY <1>1, AssemblyInit, AssemblyStep, OptionsInit, OptionsStep, PTL DEF AssemblySpec

=============================================================================
