------------------------- MODULE TieredCache_proof -------------------------
(***************************************************************************)
(* Proofs about TieredCache for every set of goroutines, keys, values and  *)
(* calls, with a Redis that fails, forgets or is written by others at any  *)
(* time.                                                                   *)
(*                                                                         *)
(* The invariant has three parts.  Book is the bookkeeping of goroutines,  *)
(* loads and calls, on which the promise of SharedLoad rests.  Stored says *)
(* that whatever is kept, or on its way to a layer, was made for the key   *)
(* it is kept under.  Agreement says why the layers agree on an untainted  *)
(* key: at most one operation is about it, what that operation carries to  *)
(* L1 is what L2 holds, and until it gets there L1 holds nothing.          *)
(***************************************************************************)
EXTENDS TieredCache, TLAPS

Leader(p) == pc[p] \in Leading
Inside(p) == Leader(p) \/ pc[p] = "waiting"

\* Who is in the middle of a Get or GetOrSet asks for a key.
Keyed == \A p \in Procs : pc[p] \notin {"idle", "setL1"} => key[p] \in Keys

\* Leaders and followers, and they only, hold a call for the key they ask for.
Holders ==
    \A p \in Procs :
        IF Inside(p) THEN mine[p] \in Calls /\ calls[mine[p]].key = key[p]
        ELSE mine[p] = None

\* What a leader holds, and what a follower waits for, is what loads has for its key.
Registered ==
    \A p \in Procs :
        Leader(p) \/ (pc[p] = "waiting" /\ ~calls[mine[p]].done) =>
            loads[key[p]] = mine[p]

\* A call has at most one leader.
OneLeader ==
    \A p, q \in Procs : Leader(p) /\ Leader(q) /\ mine[p] = mine[q] => p = q

\* loads maps a key to a call for that key; a call holds a result for its key
\* only, and holds one before it is released.
CallsSound ==
    /\ \A k \in Keys : loads[k] # None => calls[loads[k]].key = k
    /\ \A c \in Calls :
          /\ calls[c].res \in Made(calls[c].key) \cup {None, Err}
          /\ calls[c].done => calls[c].res # None

\* The leader has a result from the loader's return on, and stores only values.
ResultsInTime ==
    \A p \in Procs : Leader(p) =>
        /\ pc[p] = "loading" <=> calls[mine[p]].res = None
        /\ pc[p] \in {"storeL2", "storeL1"} => calls[mine[p]].res # Err
        /\ pc[p] = "cleanup" => calls[mine[p]].done

Book == Keyed /\ Holders /\ Registered /\ OneLeader /\ CallsSound /\ ResultsInTime

\* The layers hold payloads of the key, and only such are on their way to L1.
Stored ==
    /\ \A k \in Keys : /\ l1[k] # None => l1[k] \in Made(k)
                       /\ l2[k] # None => l2[k] \in Made(k)
    /\ \A p \in Procs : /\ pc[p] \in {"getPromote", "promote"} => arg[p] \in Made(key[p])
                        /\ pc[p] = "setL1" => arg[p] # None

\* Where Get and GetOrSet are after the miss in L1 and before they write to it.
BeforeL1 == {"getL2", "getPromote", "lookL2", "promote", "missed", "loading",
             "storeL2", "storeL1"}

\* What p does about k fits what the layers hold.
Fitting(p, k) ==
    /\ pc[p] \in {"getPromote", "promote", "setL1"} => l2[k] \in {arg[p], None}
    /\ pc[p] = "storeL1" => l2[k] \in {calls[mine[p]].res, None}
    /\ pc[p] \in BeforeL1 => l1[k] = None

\* LayersAgree, one key at a time.
Alike(k) == l1[k] = None \/ l2[k] = None \/ l1[k] = l2[k]
Settled(k) == \A p \in Procs : ~(pc[p] = "setL1" /\ Busy(p, k))

AgreeAt(k) ==
    /\ Settled(k) => Alike(k)
    /\ \A p, q \in Procs : Busy(p, k) /\ Busy(q, k) => p = q
    /\ \A p \in Procs : Busy(p, k) => Fitting(p, k)

Agreement == \A k \in Keys \ tainted : AgreeAt(k)

IInv == TypeOK /\ Book /\ Stored /\ Agreement

-----------------------------------------------------------------------------
(***************************************************************************)
(*                             Bookkeeping                                 *)
(***************************************************************************)

\* Two leaders of one key are one.
LEMMA SingleFlight ==
    ASSUME Book, NEW p \in Procs, NEW q \in Procs, Leader(p), Leader(q), key[p] = key[q]
    PROVE  p = q
  BY DEF Book, Registered, OneLeader

\* Steps that change neither loads, calls nor who holds what: everything outside of
\* the shared load, and the leader's stores (tiered.go:33-63, 85-86).
LEMMA QuietBook ==
    ASSUME TypeOK, Book, NEW p \in Procs, UNCHANGED <<loads, calls, mine>>,
           \A q \in Procs \ {p} : pc'[q] = pc[q] /\ key'[q] = key[q],
           \/ /\ ~Inside(p) /\ pc'[p] \notin Leading \cup {"waiting"}
              /\ pc'[p] \notin {"idle", "setL1"} => key'[p] \in Keys
           \/ /\ key'[p] = key[p]
              /\ \/ pc[p] = "storeL2" /\ pc'[p] = "storeL1"
                 \/ pc[p] = "storeL1" /\ pc'[p] = "signal"
    PROVE  Book'
  <1> USE DEF Leader, Inside, Leading
  <1>1. Keyed'
    BY DEF Book, Keyed
  <1>2. Holders'
    BY DEF Book, Holders
  <1>3. Registered'
    BY DEF Book, Registered
  <1>4. OneLeader'
    BY DEF Book, OneLeader
  <1>5. CallsSound'
    BY DEF Book, CallsSound
  <1>6. ResultsInTime'
    BY DEF Book, ResultsInTime
  <1> QED
    BY <1>1, <1>2, <1>3, <1>4, <1>5, <1>6 DEF Book

\* Joining a registered load (tiered.go:67-70).
LEMMA JoinBook == ASSUME TypeOK, Book, NEW p \in Procs, Join(p) PROVE Book'
  <1> USE DEF Leader, Inside, Leading
  <1>1. /\ pc[p] = "missed" /\ pc'[p] = "waiting" /\ mine'[p] = loads[key[p]]
        /\ key[p] \in Keys /\ loads[key[p]] \in Calls /\ loads[key[p]] # None
        /\ \A q \in Procs \ {p} : pc'[q] = pc[q] /\ mine'[q] = mine[q]
        /\ UNCHANGED <<loads, calls, key>>
    BY DEF TypeOK, Book, Keyed, Join, InFlight, Goto
  <1>2. Keyed' /\ OneLeader' /\ ResultsInTime'
    BY <1>1 DEF Book, Keyed, OneLeader, ResultsInTime
  <1>3. Holders'
    BY <1>1 DEF Book, Holders, CallsSound
  <1>4. Registered'
    BY <1>1 DEF Book, Registered
  <1>5. CallsSound'
    BY <1>1 DEF Book, CallsSound
  <1> QED
    BY <1>2, <1>3, <1>4, <1>5 DEF Book

\* What registering a load changes (tiered.go:77-80): the call is nobody else's.
LEMMA LeadEffect ==
    ASSUME TypeOK, Book, NEW p \in Procs, Lead(p)
    PROVE  /\ pc[p] = "missed" /\ pc'[p] = "loading" /\ mine[p] = None
           /\ key[p] \in Keys /\ loads[key[p]] = None
           /\ UNCHANGED <<key, ret>>
           /\ \A q \in Procs \ {p} : pc'[q] = pc[q]
           /\ \E c \in Calls :
                 /\ mine'[p] = c /\ loads'[key[p]] = c
                 /\ calls'[c] = [key |-> key[p], done |-> FALSE, res |-> None]
                 /\ \A q \in Procs \ {p} : mine'[q] = mine[q] /\ mine[q] # c
                 /\ \A k \in Keys \ {key[p]} : loads'[k] = loads[k] /\ loads[k] # c
                 /\ \A d \in Calls \ {c} : calls'[d] = calls[d]
  <1>1. PICK c \in Calls :
          /\ Unreferenced(c)
          /\ calls' = [calls EXCEPT ![c] = [key |-> key[p], done |-> FALSE, res |-> None]]
          /\ loads' = [loads EXCEPT ![key[p]] = c]
          /\ mine' = [mine EXCEPT ![p] = c]
    BY DEF Lead
  <1>2. /\ pc[p] = "missed" /\ pc'[p] = "loading" /\ mine[p] = None
        /\ key[p] \in Keys /\ loads[key[p]] = None
        /\ UNCHANGED <<key, ret>>
        /\ \A q \in Procs \ {p} : pc'[q] = pc[q]
    BY DEF Lead, Goto, InFlight, TypeOK, Book, Keyed, Holders, Inside, Leader, Leading
  <1>3. /\ mine'[p] = c /\ loads'[key[p]] = c
        /\ calls'[c] = [key |-> key[p], done |-> FALSE, res |-> None]
        /\ \A q \in Procs \ {p} : mine'[q] = mine[q] /\ mine[q] # c
        /\ \A k \in Keys \ {key[p]} : loads'[k] = loads[k] /\ loads[k] # c
        /\ \A d \in Calls \ {c} : calls'[d] = calls[d]
    BY <1>1, <1>2 DEF TypeOK, Unreferenced
  <1> QED
    BY <1>2, <1>3

LEMMA LeadBook == ASSUME TypeOK, Book, NEW p \in Procs, Lead(p) PROVE Book'
  <1> USE DEF Leader, Inside, Leading
  <1>1. /\ pc[p] = "missed" /\ pc'[p] = "loading"
        /\ key[p] \in Keys /\ loads[key[p]] = None /\ key' = key
        /\ \A q \in Procs \ {p} : pc'[q] = pc[q]
    BY LeadEffect
  <1>2. PICK c \in Calls :
          /\ mine'[p] = c /\ loads'[key[p]] = c
          /\ calls'[c] = [key |-> key[p], done |-> FALSE, res |-> None]
          /\ \A q \in Procs \ {p} : mine'[q] = mine[q] /\ mine[q] # c
          /\ \A k \in Keys \ {key[p]} : loads'[k] = loads[k] /\ loads[k] # c
          /\ \A d \in Calls \ {c} : calls'[d] = calls[d]
    BY LeadEffect
  <1>3. /\ calls'[c].key = key[p] /\ ~calls'[c].done /\ calls'[c].res = None
    BY <1>2
  <1>4. \A q \in Procs \ {p} : Inside(q) => /\ mine[q] \in Calls \ {c}
                                           /\ calls'[mine[q]] = calls[mine[q]]
    BY <1>2 DEF Book, Holders
  <1>5. Keyed'
    BY <1>1 DEF Book, Keyed
  <1>6. Holders'
    BY <1>1, <1>2, <1>3, <1>4 DEF Book, Holders
  <1>7. Registered'
    <2> SUFFICES ASSUME NEW q \in Procs,
                        Leader(q)' \/ (pc'[q] = "waiting" /\ ~calls'[mine'[q]].done)
                 PROVE  loads'[key'[q]] = mine'[q]
      BY DEF Registered
    <2>1. CASE q = p
      BY <2>1, <1>1, <1>2
    <2>2. CASE q # p
      <3>1. /\ pc'[q] = pc[q] /\ Inside(q) /\ mine'[q] = mine[q] /\ mine[q] \in Calls
            /\ calls'[mine[q]] = calls[mine[q]] /\ key[q] \in Keys
        BY <2>2, <1>1, <1>2, <1>4 DEF Book, Keyed
      <3>2. loads[key[q]] = mine[q]
        BY <3>1 DEF Book, Registered
      <3>3. key[q] # key[p]
        BY <3>1, <3>2, <1>1, ConstantsAssumption
      <3>4. QED
        BY <3>1, <3>2, <3>3, <1>1, <1>2
    <2>3. QED
      BY <2>1, <2>2
  <1>8. OneLeader'
    BY <1>1, <1>2 DEF Book, OneLeader
  <1>9. CallsSound'
    <2>1. ASSUME NEW k \in Keys, loads'[k] # None PROVE calls'[loads'[k]].key = k
      <3>1. CASE k = key[p]
        BY <3>1, <1>2, <1>3
      <3>2. CASE k # key[p]
        BY <3>2, <2>1, <1>2 DEF Book, CallsSound, TypeOK
      <3>3. QED
        BY <3>1, <3>2
    <2>2. ASSUME NEW d \in Calls
          PROVE  /\ calls'[d].res \in Made(calls'[d].key) \cup {None, Err}
                 /\ calls'[d].done => calls'[d].res # None
      BY <1>2, <1>3 DEF Book, CallsSound
    <2>3. QED
      BY <2>1, <2>2 DEF CallsSound
  <1>10. ResultsInTime'
    BY <1>1, <1>2, <1>3, <1>4 DEF Book, ResultsInTime
  <1> QED
    BY <1>5, <1>6, <1>7, <1>8, <1>9, <1>10 DEF Book

\* What the leader does to its call (tiered.go:82, 88) is seen by nobody who holds
\* another one.
LEMMA LeaderBook ==
    ASSUME TypeOK, Book, NEW p \in Procs, Leader(p), Leader(p)',
           \A q \in Procs \ {p} : pc'[q] = pc[q],
           UNCHANGED <<loads, key, mine>>,
           \A d \in Calls \ {mine[p]} : calls'[d] = calls[d],
           calls'[mine[p]].key = calls[mine[p]].key,
           calls[mine[p]].done => calls'[mine[p]].done,
           calls'[mine[p]].res \in Made(key[p]) \cup {None, Err},
           calls'[mine[p]].done => calls'[mine[p]].res # None,
           pc'[p] = "loading" <=> calls'[mine[p]].res = None,
           pc'[p] \in {"storeL2", "storeL1"} => calls'[mine[p]].res # Err,
           pc'[p] = "cleanup" => calls'[mine[p]].done
    PROVE  Book'
  <1> USE DEF Leader, Inside, Leading
  <1>1. /\ mine[p] \in Calls /\ calls[mine[p]].key = key[p] /\ key[p] \in Keys
    BY DEF Book, Holders, Keyed
  <1>2. \A d \in Calls : /\ calls'[d].key = calls[d].key
                         /\ calls[d].done => calls'[d].done
    BY <1>1
  <1>3. Keyed' /\ OneLeader'
    BY DEF Book, Keyed, OneLeader
  <1>4. Holders'
    BY <1>2 DEF Book, Holders
  <1>5. Registered'
    <2> SUFFICES ASSUME NEW q \in Procs,
                        Leader(q)' \/ (pc'[q] = "waiting" /\ ~calls'[mine'[q]].done)
                 PROVE  loads'[key'[q]] = mine'[q]
      BY DEF Registered
    <2>1. CASE q = p
      BY <2>1 DEF Book, Registered
    <2>2. CASE q # p
      <3>1. pc'[q] = pc[q] /\ mine[q] \in Calls
        BY <2>2 DEF Book, Holders
      <3>2. QED
        BY <3>1, <1>2 DEF Book, Registered
    <2>3. QED
      BY <2>1, <2>2
  <1>6. CallsSound'
    <2>1. \A k \in Keys : loads'[k] # None => calls'[loads'[k]].key = k
      BY <1>2 DEF Book, CallsSound, TypeOK
    <2>2. ASSUME NEW d \in Calls
          PROVE  /\ calls'[d].res \in Made(calls'[d].key) \cup {None, Err}
                 /\ calls'[d].done => calls'[d].res # None
      BY <1>1 DEF Book, CallsSound
    <2>3. QED
      BY <2>1, <2>2 DEF CallsSound
  <1>7. ResultsInTime'
    <2> SUFFICES ASSUME NEW q \in Procs, Leader(q)', q # p
                 PROVE  /\ pc'[q] = "loading" <=> calls'[mine'[q]].res = None
                        /\ pc'[q] \in {"storeL2", "storeL1"} => calls'[mine'[q]].res # Err
                        /\ pc'[q] = "cleanup" => calls'[mine'[q]].done
      BY DEF ResultsInTime
    <2>1. Leader(q) /\ mine[q] \in Calls \ {mine[p]}
      BY DEF Book, OneLeader, Holders
    <2>2. QED
      BY <2>1 DEF Book, ResultsInTime
  <1> QED
    BY <1>3, <1>4, <1>5, <1>6, <1>7 DEF Book

LEMMA LoaderReturnsEffect ==
    ASSUME TypeOK, Book, NEW p \in Procs, NEW r \in Made(key[p]) \cup {Err},
           LoaderReturns(p, r)
    PROVE  /\ pc[p] = "loading" /\ pc'[p] = AfterLoad(r)
           /\ pc'[p] \in {"signal", "storeL2"} /\ (pc'[p] = "storeL2" => r # Err)
           /\ \A q \in Procs \ {p} : pc'[q] = pc[q]
           /\ key[p] \in Keys /\ mine[p] \in Calls /\ loads[key[p]] = mine[p]
           /\ r # None /\ calls[mine[p]].res = None
           /\ calls'[mine[p]].res = r /\ calls'[mine[p]].key = calls[mine[p]].key
           /\ calls'[mine[p]].done = calls[mine[p]].done
           /\ \A d \in Calls \ {mine[p]} : calls'[d] = calls[d]
           /\ UNCHANGED <<loads, key, mine, ret>>
  <1> USE DEF Leader, Inside, Leading
  <1>1. /\ pc[p] = "loading" /\ key[p] \in Keys /\ mine[p] \in Calls
        /\ loads[key[p]] = mine[p] /\ calls[mine[p]].res = None
    BY DEF LoaderReturns, Book, Keyed, Holders, Registered, ResultsInTime
  <1>2. r # None
    BY <1>1, ConstantsAssumption DEF Made
  <1>3. /\ pc' = [pc EXCEPT ![p] = AfterLoad(r)]
        /\ calls' = [calls EXCEPT ![mine[p]].res = r]
        /\ UNCHANGED <<loads, key, mine, ret>>
    BY DEF LoaderReturns, Goto
  <1>4. /\ pc'[p] = AfterLoad(r)
        /\ pc'[p] \in {"signal", "storeL2"} /\ (pc'[p] = "storeL2" => r # Err)
        /\ \A q \in Procs \ {p} : pc'[q] = pc[q]
    BY <1>3 DEF TypeOK, AfterLoad
  <1>5. /\ calls'[mine[p]] = [calls[mine[p]] EXCEPT !.res = r]
        /\ \A d \in Calls \ {mine[p]} : calls'[d] = calls[d]
    BY <1>1, <1>3 DEF TypeOK
  <1>6. calls'[mine[p]].res = r /\ calls'[mine[p]].key = calls[mine[p]].key
        /\ calls'[mine[p]].done = calls[mine[p]].done
    BY <1>1, <1>5 DEF TypeOK
  <1> QED
    BY <1>1, <1>2, <1>3, <1>4, <1>5, <1>6

LEMMA SignalEffect ==
    ASSUME TypeOK, Book, NEW p \in Procs, Signal(p)
    PROVE  /\ pc[p] = "signal" /\ pc'[p] = "cleanup"
           /\ \A q \in Procs \ {p} : pc'[q] = pc[q]
           /\ key[p] \in Keys /\ mine[p] \in Calls
           /\ calls'[mine[p]].res = calls[mine[p]].res
           /\ calls'[mine[p]].key = calls[mine[p]].key
           /\ calls'[mine[p]].done
           /\ \A d \in Calls \ {mine[p]} : calls'[d] = calls[d]
           /\ UNCHANGED <<loads, key, mine, ret>>
  <1> USE DEF Leader, Inside, Leading
  <1>1. pc[p] = "signal" /\ key[p] \in Keys /\ mine[p] \in Calls
    BY DEF Signal, Book, Keyed, Holders
  <1>2. /\ pc' = [pc EXCEPT ![p] = "cleanup"]
        /\ calls' = [calls EXCEPT ![mine[p]].done = TRUE]
        /\ UNCHANGED <<loads, key, mine, ret>>
    BY DEF Signal, Goto
  <1>3. pc'[p] = "cleanup" /\ \A q \in Procs \ {p} : pc'[q] = pc[q]
    BY <1>2 DEF TypeOK
  <1>4. /\ calls'[mine[p]] = [calls[mine[p]] EXCEPT !.done = TRUE]
        /\ \A d \in Calls \ {mine[p]} : calls'[d] = calls[d]
    BY <1>1, <1>2 DEF TypeOK
  <1>5. /\ calls'[mine[p]].res = calls[mine[p]].res
        /\ calls'[mine[p]].key = calls[mine[p]].key /\ calls'[mine[p]].done
    BY <1>1, <1>4 DEF TypeOK
  <1> QED
    BY <1>1, <1>2, <1>3, <1>4, <1>5

\* The loader returns, or the leader releases its followers.
LEMMA OutcomeBook ==
    ASSUME TypeOK, Book, NEW p \in Procs,
           \/ \E r \in Made(key[p]) \cup {Err} : LoaderReturns(p, r)
           \/ Signal(p)
    PROVE  Book'
  <1> USE DEF Leader, Inside, Leading
  <1>1. ASSUME NEW r \in Made(key[p]) \cup {Err}, LoaderReturns(p, r)
        PROVE  Book'
    BY <1>1, LoaderReturnsEffect, LeaderBook
  <1>2. CASE Signal(p)
    <2>1. /\ calls[mine[p]].res # None
          /\ calls[mine[p]].res \in Made(key[p]) \cup {None, Err}
      BY <1>2, SignalEffect DEF Book, ResultsInTime, CallsSound, Holders
    <2>2. QED
      BY <1>2, <2>1, SignalEffect, LeaderBook
  <1> QED
    BY <1>1, <1>2

\* Leaving GetOrSet (tiered.go:70-74, 82, 90-97): the entry of loads stays, unless
\* it is the leader's own and nobody waits for it any more.
LEMMA LeaveBook ==
    ASSUME TypeOK, Book, NEW p \in Procs,
           pc'[p] = "idle", mine'[p] = None,
           \A q \in Procs \ {p} : pc'[q] = pc[q] /\ mine'[q] = mine[q],
           UNCHANGED <<calls, key>>,
           \/ loads' = loads
           \/ pc[p] = "cleanup" /\ loads' = [loads EXCEPT ![key[p]] = None]
    PROVE  Book'
  <1> USE DEF Leader, Inside, Leading
  <1>1. Keyed' /\ OneLeader' /\ ResultsInTime' /\ Holders'
    BY DEF Book, Keyed, OneLeader, ResultsInTime, Holders
  <1>2. \A k \in Keys : loads'[k] = loads[k] \/ loads'[k] = None
    BY DEF TypeOK
  <1>3. CallsSound'
    BY <1>2 DEF Book, CallsSound
  <1>4. Registered'
    <2> SUFFICES ASSUME NEW q \in Procs,
                        Leader(q)' \/ (pc'[q] = "waiting" /\ ~calls'[mine'[q]].done)
                 PROVE  loads'[key'[q]] = mine'[q]
      BY DEF Registered
    <2>1. q # p /\ pc'[q] = pc[q] /\ mine'[q] = mine[q] /\ key[q] \in Keys
      BY DEF Book, Keyed
    <2>2. loads[key[q]] = mine[q]
      BY <2>1 DEF Book, Registered
    <2>3. CASE pc[p] = "cleanup"
      <3>1. key[p] \in Keys /\ loads[key[p]] = mine[p] /\ calls[mine[p]].done
        BY <2>3 DEF Book, Keyed, Registered, ResultsInTime
      <3>2. key[q] # key[p]
        <4>1. CASE Leader(q)
          BY <4>1, <2>1, <2>3, SingleFlight
        <4>2. CASE pc[q] = "waiting"
          BY <4>2, <3>1, <2>1, <2>2
        <4>3. QED
          BY <4>1, <4>2, <2>1
      <3>3. QED
        BY <3>1, <3>2, <2>1, <2>2 DEF TypeOK
    <2>4. CASE pc[p] # "cleanup"
      BY <2>4, <2>1, <2>2
    <2>5. QED
      BY <2>3, <2>4
  <1> QED
    BY <1>1, <1>3, <1>4 DEF Book

-----------------------------------------------------------------------------
(***************************************************************************)
(*                              Agreement                                  *)
(***************************************************************************)

\* Everybody but p is where it was, with what it had.
Bystanders(p) ==
    \A q \in Procs \ {p} : /\ pc'[q] = pc[q] /\ key'[q] = key[q] /\ arg'[q] = arg[q]
                           /\ mine'[q] = mine[q]
                           /\ pc[q] = "storeL1" => calls'[mine[q]].res = calls[mine[q]].res

\* An operation is about one key.
LEMMA BusyKey ==
    ASSUME NEW p \in Procs, NEW k \in Keys, NEW j \in Keys, Busy(p, k), Busy(p, j)
    PROVE  k = j
  BY DEF Busy, Made

LEMMA BystandersBusy ==
    ASSUME NEW p \in Procs, NEW k \in Keys, Bystanders(p)
    PROVE  \A q \in Procs \ {p} : Busy(q, k)' <=> Busy(q, k)
  BY DEF Bystanders, Busy

\* What p does about other keys, or begins or ends, says nothing about k.
LEMMA AgreeElsewhere ==
    ASSUME NEW p \in Procs, NEW k \in Keys, AgreeAt(k), Bystanders(p),
           ~Busy(p, k), ~Busy(p, k)', l1'[k] = l1[k], l2'[k] = l2[k]
    PROVE  AgreeAt(k)'
  <1>1. \A q \in Procs : Busy(q, k)' <=> Busy(q, k)
    BY BystandersBusy
  <1>2. \A q \in Procs : Busy(q, k) => q # p /\ pc'[q] = pc[q] /\ arg'[q] = arg[q]
                                     /\ mine'[q] = mine[q]
                                     /\ (pc[q] = "storeL1" =>
                                            calls'[mine[q]].res = calls[mine[q]].res)
    BY DEF Bystanders
  <1>3. Settled(k)' => Settled(k)
    BY <1>1, <1>2 DEF Settled
  <1>4. Settled(k)' => Alike(k)'
    BY <1>3 DEF AgreeAt, Alike
  <1>5. ASSUME NEW q \in Procs, Busy(q, k)' PROVE Fitting(q, k)'
    <2>1. Busy(q, k) /\ Fitting(q, k)
      BY <1>1, <1>5 DEF AgreeAt
    <2>2. QED
      BY <2>1, <1>2 DEF Fitting
  <1>6. ASSUME NEW q \in Procs, NEW r \in Procs, Busy(q, k)', Busy(r, k)' PROVE q = r
    BY <1>1, <1>6 DEF AgreeAt
  <1> QED
    BY <1>4, <1>5, <1>6 DEF AgreeAt

\* Nobody else is about k: all depends on p.
LEMMA AgreeAlone ==
    ASSUME NEW p \in Procs, NEW k \in Keys, Alone(p, k), Bystanders(p),
           Busy(p, k)' => Fitting(p, k)',
           Alike(k)' \/ (pc'[p] = "setL1" /\ Busy(p, k)')
    PROVE  AgreeAt(k)'
  <1>1. \A q \in Procs \ {p} : ~Busy(q, k)'
    BY BystandersBusy DEF Alone
  <1>2. Settled(k)' => Alike(k)'
    BY DEF Settled
  <1>3. ASSUME NEW q \in Procs, Busy(q, k)' PROVE q = p
    BY <1>1, <1>3
  <1> QED
    BY <1>2, <1>3 DEF AgreeAt

\* The only operation about an untainted key.
LEMMA BusyAlone ==
    ASSUME NEW p \in Procs, NEW k \in Keys, AgreeAt(k), Busy(p, k)
    PROVE  /\ Alone(p, k) /\ Fitting(p, k)
           /\ pc[p] # "setL1" => Alike(k)
  BY DEF AgreeAt, Alone, Settled

\* No operation about an untainted key.
LEMMA AloneAlike ==
    ASSUME NEW p \in Procs, NEW k \in Keys, AgreeAt(k), Alone(p, k), pc[p] = "idle"
    PROVE  Alike(k)
  BY DEF AgreeAt, Alone, Settled, Busy

\* A step in the middle of a Get or GetOrSet.
LEMMA StepAgree ==
    ASSUME IInv, NEW p \in Procs, pc[p] \notin {"idle", "setL1"}, pc'[p] # "setL1",
           key'[p] = key[p], Bystanders(p), tainted \subseteq tainted',
           \A k \in Keys \ {key[p]} : l1'[k] = l1[k] /\ l2'[k] = l2[k],
           ASSUME key[p] \notin tainted', key[p] \in Keys, Fitting(p, key[p]), Alike(key[p])
           PROVE  Alike(key[p])' /\ (pc'[p] # "idle" => Fitting(p, key[p])')
    PROVE  Agreement'
  <1> SUFFICES ASSUME NEW k \in Keys, k \notin tainted' PROVE AgreeAt(k)'
    BY DEF Agreement
  <1>1. AgreeAt(k)
    BY DEF IInv, Agreement
  <1>2. key[p] \in Keys
    BY DEF IInv, Book, Keyed
  <1>3. CASE k = key[p]
    <2>1. Busy(p, k)
      BY <1>3 DEF Busy
    <2>2. Alone(p, k) /\ Fitting(p, k) /\ Alike(k)
      BY <2>1, <1>1, BusyAlone
    <2>3. Alike(key[p])' /\ (pc'[p] # "idle" => Fitting(p, key[p])')
      BY <1>2, <1>3, <2>2
    <2>4. Alike(k)' /\ (pc'[p] # "idle" => Fitting(p, k)')
      BY <2>3, <1>3 DEF Alike, Fitting
    <2>5. Busy(p, k)' => Fitting(p, k)'
      BY <2>4 DEF Busy
    <2>6. QED
      BY <2>2, <2>4, <2>5, AgreeAlone
  <1>4. CASE k # key[p]
    <2>1. ~Busy(p, k) /\ ~Busy(p, k)'
      BY <1>4 DEF Busy
    <2>2. QED
      BY <2>1, <1>1, <1>4, AgreeElsewhere
  <1> QED
    BY <1>3, <1>4

\* One that leaves both layers alone, and reads at most L2.
LEMMA QuietAgree ==
    ASSUME IInv, NEW p \in Procs, pc[p] \notin {"idle", "setL1"},
           pc'[p] \notin {"setL1", "storeL1"},
           key'[p] = key[p], Bystanders(p), UNCHANGED <<l1, l2, tainted>>,
           pc'[p] \in BeforeL1 => pc[p] \in BeforeL1,
           pc'[p] \in {"getPromote", "promote"} => arg'[p] = l2[key[p]]
    PROVE  Agreement'
  <1>1. ASSUME Fitting(p, key[p]), Alike(key[p])
        PROVE  Alike(key[p])' /\ (pc'[p] # "idle" => Fitting(p, key[p])')
    BY <1>1 DEF Alike, Fitting
  <1> QED
    BY <1>1, StepAgree

-----------------------------------------------------------------------------
(***************************************************************************)
(*                               The steps                                 *)
(***************************************************************************)
LEMMA MadeIsPayload ==
    ASSUME NEW k \in Keys, NEW v \in Made(k)
    PROVE  v \in Payload /\ v # None /\ v # Err
  BY ConstantsAssumption DEF Made, Payload

\* A payload was made for one key.
LEMMA PayloadIsMade ==
    ASSUME NEW v \in Payload
    PROVE  \E k \in Keys : v \in Made(k)
  BY DEF Made, Payload

\* A write to L1 changes one entry, to the payload or not at all.
LEMMA l1SetEffect ==
    ASSUME TypeOK, NEW k \in Keys, NEW v \in Made(k), l1Set(k, v)
    PROVE  /\ l1' \in [Keys -> Payload \cup {None}]
           /\ l1'[k] = v \/ (l1[k] = None /\ l1'[k] = None)
           /\ \A j \in Keys \ {k} : l1'[j] = l1[j]
  BY MadeIsPayload DEF TypeOK, l1Set

LEMMA InitIInv == Init => IInv
  <1> SUFFICES ASSUME Init PROVE IInv
    OBVIOUS
  <1>1. TypeOK
    BY ConstantsAssumption DEF Init, TypeOK
  <1>2. Keyed /\ Holders /\ Registered /\ OneLeader /\ ResultsInTime
    BY DEF Init, Keyed, Holders, Registered, OneLeader, ResultsInTime, Leader, Inside, Leading
  <1>3. CallsSound
    BY DEF Init, CallsSound
  <1>4. Stored
    BY DEF Init, Stored
  <1>5. Agreement
    BY DEF Init, Agreement, AgreeAt, Alike, Settled, Busy
  <1> QED
    BY <1>1, <1>2, <1>3, <1>4, <1>5 DEF IInv, Book

\* Entries disappear (tiered.go knows nothing of it).
LEMMA ForgetInv ==
    ASSUME IInv, NEW k \in Keys, EvictL1(k) \/ ExpireL2(k)
    PROVE  IInv'
  <1>1. /\ UNCHANGED <<loads, calls, pc, key, arg, mine, ret, panicked, tainted>>
        /\ l1' \in [Keys -> Payload \cup {None}] /\ l2' \in [Keys -> Payload \cup {None}]
        /\ \A j \in Keys : l1'[j] \in {l1[j], None} /\ l2'[j] \in {l2[j], None}
    BY DEF EvictL1, ExpireL2, IInv, TypeOK
  <1>2. TypeOK'
    BY <1>1 DEF IInv, TypeOK
  <1>3. Book'
    BY <1>1 DEF IInv, Book, Keyed, Holders, Registered, OneLeader, CallsSound,
                ResultsInTime, Leader, Inside
  <1>4. Stored'
    BY <1>1 DEF IInv, Stored
  <1>5. Agreement'
    <2> SUFFICES ASSUME NEW j \in Keys, j \notin tainted PROVE AgreeAt(j)'
      BY <1>1 DEF Agreement
    <2>1. AgreeAt(j)
      BY DEF IInv, Agreement
    <2>2. \A p \in Procs : Busy(p, j)' <=> Busy(p, j)
      BY <1>1 DEF Busy
    <2>3. \A p \in Procs : Fitting(p, j) => Fitting(p, j)'
      BY <1>1 DEF Fitting
    <2>4. Settled(j)' => Settled(j)
      BY <1>1, <2>2 DEF Settled
    <2>5. Alike(j) => Alike(j)'
      BY <1>1 DEF Alike
    <2>6. QED
      BY <2>1, <2>2, <2>3, <2>4, <2>5 DEF AgreeAt
  <1> QED
    BY <1>2, <1>3, <1>4, <1>5 DEF IInv

\* Another process writes Redis: no more is claimed about the key.
LEMMA ElsewhereInv ==
    ASSUME IInv, NEW k \in Keys, NEW v \in Made(k), Elsewhere(k, v)
    PROVE  IInv'
  <1>1. /\ UNCHANGED <<l1, loads, calls, pc, key, arg, mine, ret, panicked>>
        /\ l2' = [l2 EXCEPT ![k] = v] /\ tainted' = tainted \cup {k}
    BY DEF Elsewhere
  <1>2. l2' \in [Keys -> Payload \cup {None}] /\ l2'[k] = v
        /\ \A j \in Keys \ {k} : l2'[j] = l2[j]
    BY <1>1, MadeIsPayload DEF IInv, TypeOK
  <1>3. TypeOK'
    BY <1>1, <1>2 DEF IInv, TypeOK
  <1>4. Book'
    BY <1>1 DEF IInv, Book, Keyed, Holders, Registered, OneLeader, CallsSound,
                ResultsInTime, Leader, Inside
  <1>5. Stored'
    BY <1>1, <1>2 DEF IInv, Stored
  <1>6. Agreement'
    <2> SUFFICES ASSUME NEW j \in Keys, j \notin tainted, j # k PROVE AgreeAt(j)'
      BY <1>1 DEF Agreement
    <2>1. AgreeAt(j) /\ l2'[j] = l2[j]
      BY <1>2 DEF IInv, Agreement
    <2>2. QED
      BY <1>1, <2>1 DEF AgreeAt, Settled, Busy, Alike, Fitting
  <1> QED
    BY <1>3, <1>4, <1>5, <1>6 DEF IInv

\* The lookup in L1 that Get and GetOrSet begin with (tiered.go:33-35, 56-58).
LEMMA LookL1Inv ==
    ASSUME IInv, NEW p \in Procs, NEW k \in Keys, NEW miss \in {"getL2", "lookL2"},
           LookL1(p, k, miss)
    PROVE  IInv'
  <1>1. /\ pc[p] = "idle" /\ key'[p] = k /\ NoteOverlap(p, k) /\ mine[p] = None
        /\ \/ pc'[p] = "idle" /\ l1[k] # None
           \/ pc'[p] = miss /\ l1[k] = None
        /\ UNCHANGED <<l1, l2, loads, calls, panicked>>
        /\ \A q \in Procs \ {p} : /\ pc'[q] = pc[q] /\ key'[q] = key[q]
                                  /\ arg'[q] = arg[q] /\ mine'[q] = mine[q]
    BY DEF LookL1, Return, Goto, IInv, TypeOK, Book, Holders, Inside, Leader, Leading
  <1>2. mine' = mine
    BY <1>1 DEF LookL1, Return, IInv, TypeOK
  <1>3. TypeOK'
    BY <1>1 DEF IInv, TypeOK, LookL1, Return, Goto, NoteOverlap
  <1>4. Book'
    BY <1>1, <1>2, QuietBook DEF IInv, Inside, Leader, Leading
  <1>5. Stored'
    BY <1>1 DEF IInv, Stored
  <1>6. Agreement'
    <2> SUFFICES ASSUME NEW j \in Keys, j \notin tainted' PROVE AgreeAt(j)'
      BY DEF Agreement
    <2>0. Bystanders(p)
      BY <1>1 DEF Bystanders
    <2>1. AgreeAt(j)
      BY <1>1 DEF IInv, Agreement, NoteOverlap
    <2>2. CASE j = k
      <3>1. Alone(p, k)
        BY <1>1, <2>2 DEF NoteOverlap
      <3>2. Alike(k)
        BY <3>1, <2>1, <2>2, <1>1, AloneAlike
      <3>3. Alike(k)'
        BY <3>2, <1>1 DEF Alike
      <3>4. Busy(p, k)' => Fitting(p, k)'
        BY <1>1 DEF Busy, Fitting
      <3>5. QED
        BY <3>1, <3>3, <3>4, <2>0, <2>2, AgreeAlone
    <2>3. CASE j # k
      <3>1. ~Busy(p, j) /\ ~Busy(p, j)'
        BY <1>1, <2>3 DEF Busy
      <3>2. QED
        BY <3>1, <2>0, <2>1, <1>1, AgreeElsewhere
    <2>4. QED
      BY <2>2, <2>3
  <1> QED
    BY <1>3, <1>4, <1>5, <1>6 DEF IInv

\* The lookup in L2 (tiered.go:37-40, 61).
LEMMA LookL2Inv ==
    ASSUME IInv, NEW p \in Procs, GetL2(p) \/ LookL2(p)
    PROVE  IInv'
  <1>1. /\ pc[p] \in {"getL2", "lookL2"} /\ key[p] \in Keys /\ mine[p] = None
    BY DEF GetL2, LookL2, IInv, Book, Keyed, Holders, Inside, Leader, Leading
  <1>2. /\ UNCHANGED <<l1, l2, loads, calls, key, panicked, tainted>>
        /\ \A q \in Procs \ {p} : /\ pc'[q] = pc[q] /\ arg'[q] = arg[q]
                                  /\ mine'[q] = mine[q]
        /\ pc'[p] \in {"getPromote", "promote", "idle", "missed"}
        /\ mine' \in [Procs -> Calls \cup {None}] /\ mine'[p] = None
        /\ pc'[p] \in {"getPromote", "promote"} => arg'[p] = l2[key[p]] /\ l2[key[p]] # None
    BY <1>1 DEF GetL2, LookL2, FindL2, l2Get, Return, Goto, IInv, TypeOK
  <1>3. mine' = mine
    BY <1>1, <1>2 DEF IInv, TypeOK
  <1>4. TypeOK'
    BY <1>1, <1>2 DEF GetL2, LookL2, FindL2, l2Get, Return, Goto, IInv, TypeOK
  <1>5. Book'
    BY <1>1, <1>2, <1>3, QuietBook DEF IInv, Inside, Leader, Leading
  <1>6. Stored'
    BY <1>1, <1>2 DEF IInv, Stored
  <1>7. Bystanders(p)
    BY <1>2 DEF Bystanders
  <1>8. Agreement'
    BY <1>1, <1>2, <1>7, QuietAgree DEF BeforeL1
  <1> QED
    BY <1>4, <1>5, <1>6, <1>8 DEF IInv

\* The promotion to L1 (tiered.go:42-43, 62-63).
LEMMA PromoteInv == ASSUME IInv, NEW p \in Procs, Promote(p) PROVE IInv'
  <1>1. /\ pc[p] \in {"getPromote", "promote"} /\ key[p] \in Keys /\ mine[p] = None
        /\ arg[p] \in Made(key[p]) /\ l1Set(key[p], arg[p])
        /\ UNCHANGED <<l2, loads, calls, key, panicked, tainted>>
    BY DEF Promote, IInv, Book, Keyed, Holders, Stored, Inside, Leader, Leading
  <1>2. /\ pc'[p] = "idle" /\ mine'[p] = None
        /\ \A q \in Procs \ {p} : /\ pc'[q] = pc[q] /\ arg'[q] = arg[q]
                                  /\ mine'[q] = mine[q]
    BY DEF Promote, Return, Goto, IInv, TypeOK
  <1>3. /\ l1' \in [Keys -> Payload \cup {None}]
        /\ l1'[key[p]] = arg[p] \/ (l1[key[p]] = None /\ l1'[key[p]] = None)
        /\ \A j \in Keys \ {key[p]} : l1'[j] = l1[j]
    BY <1>1, l1SetEffect DEF IInv
  <1>4. mine' = mine
    BY <1>1 DEF Promote, Return, IInv, TypeOK
  <1>5. TypeOK'
    BY <1>1, <1>3 DEF Promote, Return, Goto, IInv, TypeOK
  <1>6. Book'
    BY <1>1, <1>2, <1>4, QuietBook DEF IInv, Inside, Leader, Leading
  <1>7. Stored'
    BY <1>1, <1>2, <1>3 DEF IInv, Stored
  <1>8. Bystanders(p)
    BY <1>1, <1>2 DEF Bystanders
  <1>9. ASSUME Fitting(p, key[p])
        PROVE  Alike(key[p])'
    BY <1>1, <1>3, <1>9 DEF Fitting, Alike
  <1>10. Agreement'
    BY <1>1, <1>2, <1>3, <1>8, <1>9, StepAgree
  <1> QED
    BY <1>5, <1>6, <1>7, <1>10 DEF IInv

\* Set writes L2 (tiered.go:48): alone, and if Redis takes it, it mends the key.
LEMMA SetInv ==
    ASSUME IInv, NEW p \in Procs, NEW k \in Keys, NEW v \in Made(k), Set(p, k, v)
    PROVE  IInv'
  <1>1. /\ pc[p] = "idle" /\ pc'[p] = "setL1" /\ arg'[p] = v
        /\ SetL2First(k, v, Alone(p, k))
        /\ UNCHANGED <<l1, loads, calls, key, mine, ret, panicked>>
        /\ \A q \in Procs \ {p} : pc'[q] = pc[q] /\ arg'[q] = arg[q]
    BY DEF Set, Goto, IInv, TypeOK
  <1>2. /\ l2' \in [Keys -> Payload \cup {None}]
        /\ l2'[k] \in {v, l2[k]}
        /\ \A j \in Keys \ {k} : l2'[j] = l2[j]
        /\ tainted' \subseteq Keys
        /\ \A j \in Keys \ {k} : j \in tainted' <=> j \in tainted
        /\ k \notin tainted' => Alone(p, k) /\ l2'[k] = v
    BY <1>1, MadeIsPayload DEF SetL2First, l2Take, l2Refuse, IInv, TypeOK
  <1>3. v \in Payload /\ v # None
    BY MadeIsPayload
  <1>4. TypeOK'
    BY <1>1, <1>2, <1>3 DEF Set, Goto, IInv, TypeOK
  <1>5. Book'
    BY <1>1, QuietBook DEF IInv, Inside, Leader, Leading
  <1>6. Stored'
    BY <1>1, <1>2, <1>3 DEF IInv, Stored
  <1>7. Bystanders(p)
    BY <1>1 DEF Bystanders
  <1>8. Agreement'
    <2> SUFFICES ASSUME NEW j \in Keys, j \notin tainted' PROVE AgreeAt(j)'
      BY DEF Agreement
    <2>1. CASE j = k
      <3>1. Busy(p, k)' /\ Fitting(p, k)'
        BY <1>1, <1>2, <2>1 DEF Busy, Fitting, BeforeL1
      <3>2. QED
        BY <3>1, <2>1, <1>1, <1>2, <1>7, AgreeAlone
    <2>2. CASE j # k
      <3>1. AgreeAt(j)
        BY <2>2, <1>2 DEF IInv, Agreement
      <3>2. ~Busy(p, j) /\ ~Busy(p, j)'
        BY <1>1, <2>2 DEF Busy, Made
      <3>3. QED
        BY <3>1, <3>2, <2>2, <1>1, <1>2, <1>7, AgreeElsewhere
    <2>3. QED
      BY <2>1, <2>2
  <1> QED
    BY <1>4, <1>5, <1>6, <1>8 DEF IInv

\* Set writes L1 (tiered.go:49).
LEMMA SetL1Inv == ASSUME IInv, NEW p \in Procs, SetL1(p) PROVE IInv'
  <1>1. PICK k \in Keys : arg[p] \in Made(k) /\ l1Set(k, arg[p])
    BY DEF SetL1
  <1>2. /\ pc[p] = "setL1" /\ pc'[p] = "idle"
        /\ UNCHANGED <<l2, loads, calls, key, mine, ret, panicked, tainted>>
        /\ \A q \in Procs \ {p} : pc'[q] = pc[q] /\ arg'[q] = arg[q]
    BY DEF SetL1, Goto, IInv, TypeOK
  <1>3. /\ l1' \in [Keys -> Payload \cup {None}]
        /\ l1'[k] = arg[p] \/ (l1[k] = None /\ l1'[k] = None)
        /\ \A j \in Keys \ {k} : l1'[j] = l1[j]
    BY <1>1, l1SetEffect DEF IInv
  <1>4. TypeOK'
    BY <1>2, <1>3 DEF SetL1, Goto, IInv, TypeOK
  <1>5. Book'
    BY <1>2, QuietBook DEF IInv, Inside, Leader, Leading
  <1>6. Stored'
    BY <1>1, <1>2, <1>3 DEF IInv, Stored
  <1>7. Bystanders(p)
    BY <1>2 DEF Bystanders
  <1>8. Agreement'
    <2> SUFFICES ASSUME NEW j \in Keys, j \notin tainted PROVE AgreeAt(j)'
      BY <1>2 DEF Agreement
    <2>1. AgreeAt(j) /\ ~Busy(p, j)'
      BY <1>2 DEF IInv, Agreement, Busy
    <2>2. CASE j = k
      <3>1. Busy(p, k)
        BY <1>1, <1>2 DEF Busy
      <3>2. Alone(p, k) /\ Fitting(p, k)
        BY <3>1, <2>1, <2>2, BusyAlone
      <3>3. Alike(k)'
        BY <3>2, <1>2, <1>3 DEF Fitting, Alike
      <3>4. QED
        BY <3>2, <3>3, <2>1, <2>2, <1>7, AgreeAlone
    <2>3. CASE j # k
      <3>1. ~Busy(p, j)
        BY <1>1, <1>2, <2>3 DEF Busy, Made
      <3>2. QED
        BY <3>1, <2>1, <2>3, <1>2, <1>3, <1>7, AgreeElsewhere
    <2>4. QED
      BY <2>2, <2>3
  <1> QED
    BY <1>4, <1>5, <1>6, <1>8 DEF IInv

\* Nothing is stored while a load is joined, registered, decided or released.
LEMMA QuietStored ==
    ASSUME Stored, NEW p \in Procs, UNCHANGED <<l1, l2, arg>>, key' = key,
           \A q \in Procs \ {p} : pc'[q] = pc[q],
           pc'[p] \notin {"getPromote", "promote", "setL1"}
    PROVE  Stored'
  BY DEF Stored

LEMMA JoinInv == ASSUME IInv, NEW p \in Procs, Join(p) PROVE IInv'
  <1>1. /\ pc[p] = "missed" /\ pc'[p] = "waiting"
        /\ UNCHANGED <<l1, l2, loads, calls, key, arg, ret, panicked, tainted>>
        /\ \A q \in Procs \ {p} : pc'[q] = pc[q] /\ mine'[q] = mine[q]
    BY DEF Join, Goto, IInv, TypeOK
  <1>2. TypeOK'
    BY <1>1 DEF Join, Goto, InFlight, IInv, TypeOK, Book, Keyed
  <1>3. Book' /\ Stored'
    BY <1>1, JoinBook, QuietStored DEF IInv
  <1>4. Bystanders(p)
    BY <1>1 DEF Bystanders
  <1>5. Agreement'
    BY <1>1, <1>4, QuietAgree DEF BeforeL1
  <1> QED
    BY <1>2, <1>3, <1>5 DEF IInv

LEMMA LeadInv == ASSUME IInv, NEW p \in Procs, Lead(p) PROVE IInv'
  <1>1. /\ pc[p] = "missed" /\ pc'[p] = "loading" /\ key[p] \in Keys
        /\ UNCHANGED <<l1, l2, key, arg, ret, panicked, tainted>>
        /\ \A q \in Procs \ {p} : pc'[q] = pc[q]
    BY LeadEffect DEF Lead, IInv
  <1>2. PICK c \in Calls :
          /\ \A q \in Procs \ {p} : mine'[q] = mine[q] /\ mine[q] # c
          /\ \A d \in Calls \ {c} : calls'[d] = calls[d]
    BY LeadEffect DEF IInv
  <1>3. TypeOK'
    <2>1. PICK new \in Calls :
            /\ calls' = [calls EXCEPT ![new] = [key |-> key[p], done |-> FALSE, res |-> None]]
            /\ loads' = [loads EXCEPT ![key[p]] = new]
            /\ mine' = [mine EXCEPT ![p] = new]
      BY DEF Lead
    <2>2. calls' \in [Calls -> [key: Keys \cup {None}, done: BOOLEAN,
                               res: Payload \cup {None, Err}]]
      BY <1>1, <2>1 DEF IInv, TypeOK
    <2>3. QED
      BY <1>1, <2>1, <2>2 DEF Lead, Goto, IInv, TypeOK, Leading
  <1>4. Book' /\ Stored'
    BY <1>1, LeadBook, QuietStored DEF IInv
  <1>5. Bystanders(p)
    <2>1. ASSUME NEW q \in Procs \ {p}, pc[q] = "storeL1"
          PROVE  calls'[mine[q]].res = calls[mine[q]].res
      BY <1>2, <2>1 DEF IInv, Book, Holders, Inside, Leader, Leading
    <2>2. QED
      BY <1>1, <1>2, <2>1 DEF Bystanders
  <1>6. Agreement'
    BY <1>1, <1>5, QuietAgree DEF BeforeL1
  <1> QED
    BY <1>3, <1>4, <1>6 DEF IInv

\* Nobody else who is about to store sees what the leader does to its own call.
LEMMA LeaderBystanders ==
    ASSUME IInv, NEW p \in Procs, Leader(p), UNCHANGED <<key, arg, mine>>,
           \A q \in Procs \ {p} : pc'[q] = pc[q],
           \A d \in Calls \ {mine[p]} : calls'[d] = calls[d]
    PROVE  Bystanders(p)
  <1>1. ASSUME NEW q \in Procs \ {p}, pc[q] = "storeL1"
        PROVE  calls'[mine[q]].res = calls[mine[q]].res
    <2>1. Leader(q) /\ mine[q] \in Calls
      BY <1>1 DEF IInv, Book, Holders, Inside, Leader, Leading
    <2>2. mine[q] # mine[p]
      BY <2>1 DEF IInv, Book, OneLeader
    <2>3. QED
      BY <2>1, <2>2
  <1>2. QED
    BY <1>1 DEF Bystanders

LEMMA LoaderReturnsInv ==
    ASSUME IInv, NEW p \in Procs, NEW r \in Made(key[p]) \cup {Err}, LoaderReturns(p, r)
    PROVE  IInv'
  <1>1. /\ pc[p] = "loading" /\ pc'[p] \in {"signal", "storeL2"} /\ key[p] \in Keys
        /\ mine[p] \in Calls
        /\ \A q \in Procs \ {p} : pc'[q] = pc[q]
        /\ \A d \in Calls \ {mine[p]} : calls'[d] = calls[d]
        /\ UNCHANGED <<l1, l2, loads, key, arg, mine, ret, panicked, tainted>>
    BY LoaderReturnsEffect DEF LoaderReturns, IInv
  <1>2. TypeOK'
    <2>1. r \in Payload \cup {None, Err}
      BY <1>1, MadeIsPayload
    <2>2. QED
      BY <1>1, <2>1 DEF LoaderReturns, Goto, AfterLoad, IInv, TypeOK, Leading
  <1>3. Book' /\ Stored'
    BY <1>1, OutcomeBook, QuietStored DEF IInv
  <1>4. Bystanders(p)
    BY <1>1, LeaderBystanders DEF Leader, Leading
  <1>5. Agreement'
    BY <1>1, <1>4, QuietAgree DEF BeforeL1
  <1> QED
    BY <1>2, <1>3, <1>5 DEF IInv

LEMMA SignalInv == ASSUME IInv, NEW p \in Procs, Signal(p) PROVE IInv'
  <1>1. /\ pc[p] = "signal" /\ pc'[p] = "cleanup" /\ mine[p] \in Calls
        /\ \A q \in Procs \ {p} : pc'[q] = pc[q]
        /\ \A d \in Calls \ {mine[p]} : calls'[d] = calls[d]
        /\ UNCHANGED <<l1, l2, loads, key, arg, mine, ret, panicked, tainted>>
    BY SignalEffect DEF Signal, IInv
  <1>2. TypeOK'
    <2>1. calls' = [calls EXCEPT ![mine[p]].done = TRUE] /\ pc' = [pc EXCEPT ![p] = "cleanup"]
      BY DEF Signal, Goto
    <2> DEFINE Call == [key: Keys \cup {None}, done: BOOLEAN, res: Payload \cup {None, Err}]
    <2>2. calls \in [Calls -> Call]
      BY DEF IInv, TypeOK
    <2>3. \A c \in Call : [c EXCEPT !.done = TRUE] \in Call
      OBVIOUS
    <2> HIDE DEF Call
    <2>4. calls' \in [Calls -> Call]
      BY <1>1, <2>1, <2>2, <2>3
    <2>5. QED
      BY <1>1, <2>1, <2>4 DEF IInv, TypeOK, Leading, Call
  <1>3. Book' /\ Stored'
    BY <1>1, OutcomeBook, QuietStored DEF IInv
  <1>4. Bystanders(p)
    BY <1>1, LeaderBystanders DEF Leader, Leading
  <1>5. Agreement'
    BY <1>1, <1>4, QuietAgree DEF BeforeL1
  <1> QED
    BY <1>2, <1>3, <1>5 DEF IInv

\* The leader stores what it loaded, in L2 and then in L1 (tiered.go:85-86).
LEMMA LeaderStores ==
    ASSUME IInv, NEW p \in Procs, pc[p] \in {"storeL2", "storeL1"}
    PROVE  key[p] \in Keys /\ mine[p] \in Calls /\ calls[mine[p]].res \in Made(key[p])
  <1> USE DEF Leader, Inside, Leading
  <1>1. /\ key[p] \in Keys /\ mine[p] \in Calls /\ calls[mine[p]].key = key[p]
        /\ calls[mine[p]].res # None /\ calls[mine[p]].res # Err
    BY DEF IInv, Book, Keyed, Holders, ResultsInTime
  <1>2. calls[mine[p]].res \in Made(calls[mine[p]].key) \cup {None, Err}
    BY <1>1 DEF IInv, Book, CallsSound
  <1> QED
    BY <1>1, <1>2

LEMMA StoreL2Inv == ASSUME IInv, NEW p \in Procs, StoreL2(p) PROVE IInv'
  <1> DEFINE v == calls[mine[p]].res
  <1>1. /\ pc[p] = "storeL2" /\ pc'[p] = "storeL1"
        /\ UNCHANGED <<l1, loads, calls, key, arg, mine, ret, panicked>>
        /\ \A q \in Procs \ {p} : pc'[q] = pc[q]
        /\ l2Set(key[p], v)
    BY DEF StoreL2, Goto, IInv, TypeOK
  <1>2. key[p] \in Keys /\ mine[p] \in Calls /\ v \in Made(key[p])
    BY <1>1, LeaderStores
  <1> HIDE DEF v
  <1>3. v \in Payload /\ v # None
    BY <1>2, MadeIsPayload
  <1>4. /\ l2' \in [Keys -> Payload \cup {None}]
        /\ l2'[key[p]] \in {v, l2[key[p]]}
        /\ \A j \in Keys \ {key[p]} : l2'[j] = l2[j]
        /\ tainted' \subseteq Keys /\ tainted \subseteq tainted'
        /\ key[p] \notin tainted' => l2'[key[p]] = v
    BY <1>1, <1>2, <1>3 DEF l2Set, l2Take, l2Refuse, IInv, TypeOK
  <1>5. TypeOK'
    BY <1>1, <1>4 DEF StoreL2, Goto, IInv, TypeOK, Leading
  <1>6. Book'
    BY <1>1, QuietBook DEF IInv
  <1>7. Stored'
    BY <1>1, <1>2, <1>4 DEF IInv, Stored
  <1>8. Bystanders(p)
    BY <1>1 DEF Bystanders
  <1>9. ASSUME key[p] \notin tainted', Fitting(p, key[p])
        PROVE  Alike(key[p])' /\ Fitting(p, key[p])'
    BY <1>1, <1>4, <1>9 DEF Fitting, Alike, BeforeL1, v
  <1>10. Agreement'
    BY <1>1, <1>4, <1>8, <1>9, StepAgree
  <1> QED
    BY <1>5, <1>6, <1>7, <1>10 DEF IInv

LEMMA StoreL1Inv == ASSUME IInv, NEW p \in Procs, StoreL1(p) PROVE IInv'
  <1> DEFINE v == calls[mine[p]].res
  <1>1. /\ pc[p] = "storeL1" /\ pc'[p] = "signal"
        /\ UNCHANGED <<l2, loads, calls, key, arg, mine, ret, panicked, tainted>>
        /\ \A q \in Procs \ {p} : pc'[q] = pc[q]
        /\ l1Set(key[p], v)
    BY DEF StoreL1, Goto, IInv, TypeOK
  <1>2. key[p] \in Keys /\ mine[p] \in Calls /\ v \in Made(key[p])
    BY <1>1, LeaderStores
  <1>3. /\ l1' \in [Keys -> Payload \cup {None}]
        /\ l1'[key[p]] = v \/ (l1[key[p]] = None /\ l1'[key[p]] = None)
        /\ \A j \in Keys \ {key[p]} : l1'[j] = l1[j]
    BY <1>1, <1>2, l1SetEffect DEF IInv
  <1> HIDE DEF v
  <1>4. TypeOK'
    BY <1>1, <1>3 DEF StoreL1, Goto, IInv, TypeOK, Leading
  <1>5. Book'
    BY <1>1, QuietBook DEF IInv
  <1>6. Stored'
    BY <1>1, <1>2, <1>3 DEF IInv, Stored
  <1>7. Bystanders(p)
    BY <1>1 DEF Bystanders
  <1>8. ASSUME Fitting(p, key[p])
        PROVE  Alike(key[p])' /\ Fitting(p, key[p])'
    BY <1>1, <1>3, <1>8 DEF Fitting, Alike, BeforeL1, v
  <1>9. Agreement'
    BY <1>1, <1>3, <1>7, <1>8, StepAgree
  <1> QED
    BY <1>4, <1>5, <1>6, <1>9 DEF IInv

\* Everybody leaves GetOrSet without touching a layer (tiered.go:70-74, 82, 90-97).
LEMMA LeaveInv ==
    ASSUME IInv, NEW p \in Procs, Wake(p) \/ Cleanup(p) \/ LoaderPanic(p)
    PROVE  IInv'
  <1> USE DEF Leader, Inside, Leading
  <1>1. /\ pc[p] \in {"waiting", "cleanup", "loading"} /\ pc'[p] = "idle"
        /\ key[p] \in Keys /\ mine[p] \in Calls /\ mine'[p] = None
        /\ UNCHANGED <<l1, l2, calls, key, tainted>>
        /\ \A q \in Procs \ {p} : /\ pc'[q] = pc[q] /\ arg'[q] = arg[q]
                                  /\ mine'[q] = mine[q]
        /\ \/ loads' = loads
           \/ pc[p] = "cleanup" /\ loads' = [loads EXCEPT ![key[p]] = None]
    BY DEF Wake, Cleanup, LoaderPanic, Return, Goto, IInv, TypeOK, Book, Keyed, Holders
  <1>2. TypeOK'
    <2>1. \E r \in Payload \cup {None, Err, Panic} : Return(p, r)
      BY <1>1 DEF Wake, Cleanup, LoaderPanic, IInv, TypeOK
    <2>2. /\ pc' \in [Procs -> {"idle", "getL2", "getPromote", "lookL2", "promote", "setL1",
                               "missed", "waiting"} \cup Leading]
          /\ arg' \in [Procs -> Payload \cup {None}]
          /\ mine' \in [Procs -> Calls \cup {None}]
          /\ ret' \in [Procs -> Payload \cup {None, Miss, Err, Panic}]
      BY <2>1 DEF Return, Goto, IInv, TypeOK
    <2>3. loads' \in [Keys -> Calls \cup {None}]
      BY <1>1 DEF IInv, TypeOK
    <2>4. panicked' \subseteq Keys
      BY <1>1 DEF Wake, Cleanup, LoaderPanic, IInv, TypeOK
    <2>5. QED
      BY <1>1, <2>2, <2>3, <2>4 DEF IInv, TypeOK
  <1>3. Book'
    BY <1>1, LeaveBook DEF IInv
  <1>4. Stored'
    BY <1>1 DEF IInv, Stored
  <1>5. Bystanders(p)
    BY <1>1 DEF Bystanders
  <1>6. Agreement'
    BY <1>1, <1>5, QuietAgree DEF BeforeL1
  <1> QED
    BY <1>2, <1>3, <1>4, <1>6 DEF IInv

LEMMA NextIInv == IInv /\ [Next]_vars => IInv'
  <1> SUFFICES ASSUME IInv, [Next]_vars PROVE IInv'
    OBVIOUS
  <1>1. ASSUME NEW p \in Procs, Step(p) PROVE IInv'
    BY <1>1, LookL2Inv, PromoteInv, SetL1Inv, JoinInv, LeadInv, LoaderReturnsInv,
       StoreL2Inv, StoreL1Inv, SignalInv, LeaveInv DEF Step
  <1>2. ASSUME NEW p \in Procs, NEW k \in Keys, Get(p, k) \/ GetOrSet(p, k) PROVE IInv'
    BY <1>2, LookL1Inv DEF Get, GetOrSet
  <1>3. CASE UNCHANGED vars
    BY <1>3 DEF vars, IInv, TypeOK, Book, Keyed, Holders, Registered, OneLeader, CallsSound,
                ResultsInTime, Leader, Inside, Stored, Agreement, AgreeAt, Settled, Busy,
                Alike, Fitting
  <1> QED
    BY <1>1, <1>2, <1>3, SetInv, ForgetInv, ElsewhereInv DEF Next

LEMMA SpecIInv == Spec => []IInv
  BY InitIInv, NextIInv, PTL DEF Spec

\* However many goroutines and keys there are, and whatever Redis does, the cache
\* keeps its shape and every operation (tiered.go:32-98) is at one of its known
\* points.
THEOREM TypeCorrect == Spec => []TypeOK
  BY SpecIInv, PTL DEF IInv

\* tiered.go:11 and 46-49: as long as the operations on a key do not overlap, Redis
\* takes the writes and nobody else writes them, the layers never hold different
\* payloads; a Set mends a key about which they did.
THEOREM LayersAgreeHolds == Spec => []LayersAgree
  <1>1. IInv => LayersAgree
    BY DEF IInv, Agreement, AgreeAt, Settled, Alike, LayersAgree
  <1>2. QED
    BY <1>1, SpecIInv, PTL

-----------------------------------------------------------------------------
(***************************************************************************)
(* The promise of SharedLoad.  Get and GetOrSet are seen by it as looking  *)
(* and asked until they are answered; what the layers do is not seen.      *)
(***************************************************************************)

\* The values SharedLoad sees.
Role == [p \in Procs |-> RoleOf(p)]
IsOpen == [k \in Keys |-> loads[k] # None]
Result == [k \in Keys |-> ResultOf(loads[k])]
Outcome == [p \in Procs |-> ResultOf(mine[p])]

LEMMA RefinesInit == Init => Promise!Init
  BY DEF Init, Promise!Init, RoleOf, ResultOf

LEMMA RefinesStutter ==
    ASSUME Role' = Role, IsOpen' = IsOpen, Result' = Result, Outcome' = Outcome,
           UNCHANGED <<key, ret>>
    PROVE  UNCHANGED Promise!vars
  BY DEF Role, IsOpen, Result, Outcome, Promise!vars

\* Steps of p within one role, on its way through the layers (tiered.go:37-39, 48-49,
\* 61, 85-86), and steps of nobody.
LEMMA RefinesMove ==
    ASSUME IInv, NEW p \in Procs, \A q \in Procs \ {p} : pc'[q] = pc[q],
           RoleOf(p)' = RoleOf(p), UNCHANGED <<loads, calls, mine, key, ret>>
    PROVE  UNCHANGED Promise!vars
  <1>1. \A q \in Procs : RoleOf(q)' = RoleOf(q)
    BY DEF RoleOf
  <1>2. Role' = Role
    BY <1>1 DEF Role
  <1>3. IsOpen' = IsOpen /\ Result' = Result /\ Outcome' = Outcome
    BY DEF IsOpen, Result, Outcome, ResultOf
  <1> QED
    BY <1>2, <1>3, RefinesStutter

\* Who is not inside a load holds no call.
LEMMA NoOutcomeOutside ==
    ASSUME IInv, NEW p \in Procs, ~Inside(p)
    PROVE  mine[p] = None /\ ResultOf(mine[p]) = None
  BY DEF IInv, Book, Holders, ResultOf

\* Whatever way a call ends: role, outcome and answer of p change together.
LEMMA RefinesAnswer ==
    ASSUME IInv, NEW p \in Procs, NEW r, Return(p, r), calls' = calls
    PROVE  Promise!Answer(p, r)
  <1>1. /\ pc' = [pc EXCEPT ![p] = "idle"] /\ ret' = [ret EXCEPT ![p] = r]
        /\ mine' = [mine EXCEPT ![p] = None]
    BY DEF Return, Goto
  <1>2. Role' = [Role EXCEPT ![p] = "idle"]
    BY <1>1 DEF Role, RoleOf, IInv, TypeOK
  <1>3. Outcome' = [Outcome EXCEPT ![p] = None]
    BY <1>1 DEF Outcome, ResultOf, IInv, TypeOK
  <1> QED
    BY <1>1, <1>2, <1>3 DEF Promise!Answer, Role, Outcome

\* The lookup in L1 (tiered.go:33-35, 56-58) answers with a stored payload, or asks on.
LEMMA RefinesLookL1 ==
    ASSUME IInv, NEW p \in Procs, NEW k \in Keys, NEW miss \in {"getL2", "lookL2"},
           LookL1(p, k, miss)
    PROVE  \/ Promise!Hit(p, k)
           \/ Promise!Begin(p, k, IF miss = "getL2" THEN "looking" ELSE "asked")
  <1>1. /\ pc[p] = "idle" /\ RoleOf(p) = "idle"
        /\ key' = [key EXCEPT ![p] = k] /\ UNCHANGED <<loads, calls>>
    BY DEF LookL1, RoleOf
  <1>2. IsOpen' = IsOpen /\ Result' = Result
    BY <1>1 DEF IsOpen, Result, ResultOf
  <1>3. CASE l1[k] # None
    <2>1. l1[k] \in Promise!Stored(k)
      BY <1>3 DEF IInv, Stored, Made, Promise!Stored
    <2>2. Return(p, l1[k])
      BY <1>3 DEF LookL1
    <2>3. Promise!Answer(p, l1[k])
      BY <1>1, <2>2, RefinesAnswer
    <2>4. \E r \in Promise!Stored(k) : Promise!Answer(p, r)
      BY <2>1, <2>3, Zenon
    <2>5. QED
      BY <1>1, <1>2, <2>4 DEF Promise!Hit, IsOpen, Result
  <1>4. CASE l1[k] = None
    <2> DEFINE as == IF miss = "getL2" THEN "looking" ELSE "asked"
    <2>1. /\ pc' = [pc EXCEPT ![p] = miss] /\ ret' = [ret EXCEPT ![p] = None]
          /\ mine' = mine
      BY <1>4 DEF LookL1, Goto
    <2>2. Role' = [Role EXCEPT ![p] = as]
      BY <2>1 DEF Role, RoleOf, IInv, TypeOK
    <2>3. Outcome' = Outcome
      BY <1>1, <2>1 DEF Outcome, ResultOf
    <2> HIDE DEF as
    <2>4. Promise!Begin(p, k, as)
      BY <1>1, <1>2, <2>1, <2>2, <2>3 DEF Promise!Begin, Role, IsOpen, Result, Outcome
    <2>5. QED
      BY <2>4 DEF as
  <1> QED
    BY <1>3, <1>4

\* A Get that misses L2 too (tiered.go:38-40).
LEMMA RefinesNotFound ==
    ASSUME IInv, NEW p \in Procs, pc[p] = "getL2", Return(p, Miss),
           UNCHANGED <<loads, calls, key>>
    PROVE  Promise!NotFound(p)
  <1>1. IsOpen' = IsOpen /\ Result' = Result /\ RoleOf(p) = "looking"
    BY DEF IsOpen, Result, ResultOf, RoleOf
  <1>2. Promise!Answer(p, Miss)
    BY RefinesAnswer
  <1> QED
    BY <1>1, <1>2 DEF Promise!NotFound, IsOpen, Result

\* A promoted payload (tiered.go:42-43, 62-63) is one of the key asked for.
LEMMA RefinesFind == ASSUME IInv, NEW p \in Procs, Promote(p) PROVE Promise!Find(p)
  <1>1. /\ pc[p] \in {"getPromote", "promote"} /\ Return(p, arg[p])
        /\ UNCHANGED <<loads, calls, key>> /\ RoleOf(p) \in {"looking", "asked"}
        /\ arg[p] \in Promise!Stored(key[p])
    BY DEF Promote, RoleOf, IInv, Stored, Made, Promise!Stored
  <1>2. IsOpen' = IsOpen /\ Result' = Result
    BY <1>1 DEF IsOpen, Result, ResultOf
  <1>3. Promise!Answer(p, arg[p])
    BY <1>1, RefinesAnswer
  <1>4. \E r \in Promise!Stored(key[p]) : Promise!Answer(p, r)
    BY <1>1, <1>3, Zenon
  <1> QED
    BY <1>1, <1>2, <1>4 DEF Promise!Find, IsOpen, Result

\* Joining (tiered.go:67-70) is joining the open load, finished or not.
LEMMA RefinesJoin == ASSUME IInv, NEW p \in Procs, Join(p) PROVE Promise!Join(p)
  <1>1. /\ pc[p] = "missed" /\ key[p] \in Keys /\ loads[key[p]] # None
        /\ pc' = [pc EXCEPT ![p] = "waiting"]
        /\ mine' = [mine EXCEPT ![p] = loads[key[p]]]
        /\ UNCHANGED <<loads, calls, key, ret>>
    BY DEF Join, InFlight, Goto, IInv, Book, Keyed
  <1>2. Role' = [Role EXCEPT ![p] = "following"] /\ RoleOf(p) = "asked"
    BY <1>1 DEF Role, RoleOf, IInv, TypeOK
  <1>3. Outcome' = [Outcome EXCEPT ![p] = Result[key[p]]]
    BY <1>1 DEF Outcome, Result, ResultOf, IInv, TypeOK
  <1>4. IsOpen' = IsOpen /\ Result' = Result /\ IsOpen[key[p]]
    BY <1>1 DEF IsOpen, Result, ResultOf
  <1> QED
    BY <1>1, <1>2, <1>3, <1>4 DEF Promise!Join, Role, IsOpen, Result, Outcome

\* Registering a call (tiered.go:77-80) opens a load nobody has a result of.
LEMMA RefinesLead == ASSUME IInv, NEW p \in Procs, Lead(p) PROVE Promise!Lead(p)
  <1>1. /\ pc[p] = "missed" /\ mine[p] = None /\ key[p] \in Keys /\ loads[key[p]] = None
        /\ UNCHANGED <<key, ret>>
    BY LeadEffect DEF IInv
  <1>2. pc' = [pc EXCEPT ![p] = "loading"]
    BY DEF Lead, Goto
  <1>3. PICK c \in Calls :
          /\ mine'[p] = c /\ loads'[key[p]] = c
          /\ calls'[c] = [key |-> key[p], done |-> FALSE, res |-> None]
          /\ \A q \in Procs \ {p} : mine'[q] = mine[q] /\ mine[q] # c
          /\ \A k \in Keys \ {key[p]} : loads'[k] = loads[k] /\ loads[k] # c
          /\ \A d \in Calls \ {c} : calls'[d] = calls[d]
    BY LeadEffect DEF IInv
  <1>4. c # None /\ calls'[c].res = None
    BY <1>3, ConstantsAssumption
  <1>5. Outcome' = Outcome
    <2>1. \A q \in Procs : ResultOf(mine[q])' = ResultOf(mine[q])
      BY <1>1, <1>3, <1>4 DEF ResultOf, IInv, TypeOK
    <2>2. QED
      BY <2>1 DEF Outcome
  <1>6. Result' = Result
    <2>1. \A k \in Keys : ResultOf(loads[k])' = ResultOf(loads[k])
      BY <1>1, <1>3, <1>4 DEF ResultOf, IInv, TypeOK
    <2>2. QED
      BY <2>1 DEF Result
  <1>7. Role' = [Role EXCEPT ![p] = "leading"] /\ RoleOf(p) = "asked"
    BY <1>1, <1>2 DEF Role, RoleOf, IInv, TypeOK
  <1>8. IsOpen' = [IsOpen EXCEPT ![key[p]] = TRUE] /\ ~IsOpen[key[p]]
    BY <1>1, <1>3, <1>4 DEF IsOpen
  <1> QED
    BY <1>1, <1>5, <1>6, <1>7, <1>8 DEF Promise!Lead, Role, IsOpen, Result, Outcome

\* The loader's return (tiered.go:82) decides for the leader and for everybody who
\* waits for the call, and for nobody who waits for an earlier one.
LEMMA RefinesFinish ==
    ASSUME IInv, NEW p \in Procs, NEW r \in Made(key[p]) \cup {Err}, LoaderReturns(p, r)
    PROVE  Promise!Finish(p, r)
  <1> DEFINE Decided(q) == Promise!TakesPart(q) /\ key[q] = key[p] /\ ResultOf(mine[q]) = None
  <1>1. /\ pc[p] = "loading" /\ pc'[p] \in {"signal", "storeL2"}
        /\ \A q \in Procs \ {p} : pc'[q] = pc[q]
        /\ key[p] \in Keys /\ mine[p] \in Calls /\ loads[key[p]] = mine[p]
        /\ calls[mine[p]].res = None /\ calls'[mine[p]].res = r
        /\ \A d \in Calls \ {mine[p]} : calls'[d] = calls[d]
        /\ UNCHANGED <<loads, key, mine, ret>>
    BY LoaderReturnsEffect DEF IInv
  <1>2. mine[p] # None
    BY <1>1, ConstantsAssumption
  <1>3. Role' = Role /\ RoleOf(p) = "leading"
    BY <1>1 DEF Role, RoleOf
  <1>4. Result' = [Result EXCEPT ![key[p]] = r]
    <2>1. \A k \in Keys \ {key[p]} : loads[k] # mine[p]
      BY <1>1, <1>2 DEF IInv, Book, CallsSound, Holders, Inside, Leader, Leading
    <2>2. \A k \in Keys : loads[k] \in Calls \cup {None}
      BY DEF IInv, TypeOK
    <2>3. \A k \in Keys : ResultOf(loads[k])' = IF k = key[p] THEN r ELSE ResultOf(loads[k])
      BY <1>1, <1>2, <2>1, <2>2 DEF ResultOf
    <2>4. QED
      BY <1>1, <2>3 DEF Result
  <1>5. ASSUME NEW q \in Procs PROVE Promise!TakesPart(q) <=> Inside(q)
    BY DEF Promise!TakesPart, RoleOf, Inside, Leader, Leading, IInv, TypeOK
  <1>6. \A q \in Procs : Decided(q) <=> mine[q] = mine[p]
    <2> TAKE q \in Procs
    <2>1. ASSUME Decided(q) PROVE mine[q] = mine[p]
      <3>1. Inside(q) /\ mine[q] \in Calls /\ mine[q] # None /\ key[q] = key[p]
        BY <2>1, <1>5, ConstantsAssumption DEF IInv, Book, Holders
      <3>2. calls[mine[q]].res = None
        BY <2>1, <3>1 DEF ResultOf
      <3>3. ~calls[mine[q]].done
        BY <3>1, <3>2 DEF IInv, Book, CallsSound
      <3>4. QED
        BY <1>1, <3>1, <3>3 DEF IInv, Book, Registered, Inside
    <2>2. ASSUME mine[q] = mine[p] PROVE Decided(q)
      <3>1. Inside(q)
        BY <2>2, <1>2 DEF IInv, Book, Holders
      <3>2. key[q] = key[p]
        BY <2>2, <3>1, <1>1 DEF IInv, Book, Holders, Inside, Leader, Leading
      <3>3. QED
        BY <1>1, <1>2, <1>5, <2>2, <3>1, <3>2 DEF ResultOf
    <2>3. QED
      BY <2>1, <2>2
  <1>7. Outcome' = [q \in Procs |-> IF Decided(q) THEN r ELSE Outcome[q]]
    <2>1. \A q \in Procs : mine[q] \in Calls \cup {None}
      BY DEF IInv, TypeOK
    <2>2. \A q \in Procs : ResultOf(mine[q])' = IF mine[q] = mine[p] THEN r ELSE ResultOf(mine[q])
      BY <1>1, <1>2, <2>1 DEF ResultOf
    <2>3. QED
      BY <1>6, <2>2 DEF Outcome
  <1> QED
    BY <1>1, <1>3, <1>4, <1>7
    DEF Promise!Finish, Promise!TakesPart, Role, IsOpen, Result, Outcome, ResultOf

\* The delete (tiered.go:90-97) closes the load.
LEMMA RefinesClose == ASSUME IInv, NEW p \in Procs, Cleanup(p) PROVE Promise!Close(p)
  <1>1. /\ pc[p] = "cleanup" /\ key[p] \in Keys /\ mine[p] \in Calls
        /\ calls[mine[p]].res # None
        /\ Return(p, calls[mine[p]].res)
        /\ loads' = [loads EXCEPT ![key[p]] = None]
        /\ UNCHANGED <<calls, key>>
    BY DEF Cleanup, IInv, Book, Keyed, Holders, ResultsInTime, Inside, Leader, Leading
  <1>2. mine[p] # None
    BY <1>1, ConstantsAssumption
  <1>3. ResultOf(mine[p]) = calls[mine[p]].res /\ RoleOf(p) = "leading"
    BY <1>1, <1>2 DEF ResultOf, RoleOf
  <1>4. Promise!Answer(p, ResultOf(mine[p]))
    BY <1>1, <1>3, RefinesAnswer
  <1>5. IsOpen' = [IsOpen EXCEPT ![key[p]] = FALSE]
    BY <1>1 DEF IsOpen, IInv, TypeOK
  <1>6. Result' = [Result EXCEPT ![key[p]] = None]
    BY <1>1 DEF Result, ResultOf, IInv, TypeOK
  <1> QED
    BY <1>1, <1>3, <1>4, <1>5, <1>6 DEF Promise!Close, IsOpen, Result

\* A released follower (tiered.go:70-74) has the outcome of its load.
LEMMA RefinesFollow == ASSUME IInv, NEW p \in Procs, Wake(p) PROVE Promise!Follow(p)
  <1>1. /\ pc[p] = "waiting" /\ mine[p] \in Calls /\ calls[mine[p]].res # None
        /\ Return(p, calls[mine[p]].res)
        /\ UNCHANGED <<loads, calls, key>>
    BY DEF Wake, Released, IInv, Book, Holders, CallsSound, Inside
  <1>2. mine[p] # None
    BY <1>1, ConstantsAssumption
  <1>3. ResultOf(mine[p]) = calls[mine[p]].res /\ RoleOf(p) = "following"
    BY <1>1, <1>2 DEF ResultOf, RoleOf
  <1>4. Promise!Answer(p, ResultOf(mine[p]))
    BY <1>1, <1>3, RefinesAnswer
  <1>5. Result' = Result /\ IsOpen' = IsOpen
    BY <1>1 DEF Result, IsOpen, ResultOf
  <1> QED
    BY <1>1, <1>3, <1>4, <1>5 DEF Promise!Follow, Result, IsOpen

\* A panic of the loader (tiered.go:82) leaves the load open.
LEMMA RefinesAbandon == ASSUME IInv, NEW p \in Procs, LoaderPanic(p) PROVE Promise!Abandon(p)
  <1>1. /\ pc[p] = "loading" /\ mine[p] \in Calls /\ calls[mine[p]].res = None
        /\ Return(p, Panic)
        /\ UNCHANGED <<loads, calls, key>>
    BY DEF LoaderPanic, IInv, Book, Holders, ResultsInTime, Inside, Leader, Leading
  <1>2. ResultOf(mine[p]) = None /\ RoleOf(p) = "leading"
    BY <1>1 DEF ResultOf, RoleOf
  <1>3. Promise!Answer(p, Panic)
    BY <1>1, RefinesAnswer
  <1>4. Result' = Result /\ IsOpen' = IsOpen
    BY <1>1 DEF Result, IsOpen, ResultOf
  <1> QED
    BY <1>1, <1>2, <1>3, <1>4 DEF Promise!Abandon, Result, IsOpen

\* wg.Done (tiered.go:88) changes no result.
LEMMA RefinesSignal == ASSUME IInv, NEW p \in Procs, Signal(p) PROVE UNCHANGED Promise!vars
  <1>1. /\ pc[p] = "signal" /\ pc'[p] = "cleanup" /\ mine[p] \in Calls
        /\ \A q \in Procs \ {p} : pc'[q] = pc[q]
        /\ \A d \in Calls : calls'[d].res = calls[d].res
        /\ UNCHANGED <<loads, key, mine, ret>>
    BY SignalEffect DEF IInv
  <1>2. Role' = Role
    BY <1>1 DEF Role, RoleOf
  <1>3. IsOpen' = IsOpen /\ Result' = Result /\ Outcome' = Outcome
    BY <1>1 DEF IsOpen, Result, Outcome, ResultOf, IInv, TypeOK
  <1> QED
    BY <1>1, <1>2, <1>3, RefinesStutter

\* Every step of the cache is a step of the promise, or invisible to it.
LEMMA RefinesNext == IInv /\ [Next]_vars => [Promise!Next]_(Promise!vars)
  <1> SUFFICES ASSUME IInv, [Next]_vars PROVE Promise!Next \/ UNCHANGED Promise!vars
    OBVIOUS
  <1>1. ASSUME NEW p \in Procs, NEW k \in Keys, Get(p, k) \/ GetOrSet(p, k)
        PROVE  Promise!Next
    <2>1. Promise!Hit(p, k) \/ Promise!Begin(p, k, "looking") \/ Promise!Begin(p, k, "asked")
      BY <1>1, RefinesLookL1 DEF Get, GetOrSet
    <2>2. QED
      BY <2>1 DEF Promise!Next
  <1>2. CASE UNCHANGED <<loads, calls, pc, key, mine, ret>>
    BY <1>2, RefinesStutter DEF Role, IsOpen, Result, Outcome, RoleOf, ResultOf
  <1>3. ASSUME NEW p \in Procs, NEW k \in Keys, NEW v \in Made(k), Set(p, k, v)
        PROVE  UNCHANGED Promise!vars
    BY <1>3, RefinesMove DEF Set, Goto, RoleOf, IInv, TypeOK
  <1>4. ASSUME NEW p \in Procs, Step(p) PROVE Promise!Next \/ UNCHANGED Promise!vars
    <2>1. CASE GetL2(p) \/ LookL2(p)
      <3>1. CASE pc[p] = "getL2" /\ Return(p, Miss) /\ UNCHANGED <<loads, calls, key>>
        BY <3>1, RefinesNotFound DEF Promise!Next
      <3>2. CASE FindL2(p, "getPromote") /\ pc[p] = "getL2"
        BY <3>2, RefinesMove DEF FindL2, Goto, RoleOf, IInv, TypeOK
      <3>3. CASE FindL2(p, "promote") /\ pc[p] = "lookL2"
        BY <3>3, RefinesMove DEF FindL2, Goto, RoleOf, IInv, TypeOK
      <3>4. CASE /\ pc[p] = "lookL2" /\ Goto(p, "missed")
                 /\ UNCHANGED <<loads, calls, key, mine, ret>>
        BY <3>4, RefinesMove DEF Goto, RoleOf, IInv, TypeOK
      <3>5. QED
        BY <2>1, <3>1, <3>2, <3>3, <3>4 DEF GetL2, LookL2
    <2>2. CASE Promote(p)
      BY <2>2, RefinesFind DEF Promise!Next
    <2>3. CASE SetL1(p)
      BY <2>3, RefinesMove DEF SetL1, Goto, RoleOf, IInv, TypeOK
    <2>4. CASE Join(p)
      BY <2>4, RefinesJoin DEF Promise!Next
    <2>5. CASE Lead(p)
      BY <2>5, RefinesLead DEF Promise!Next
    <2>6. ASSUME NEW r \in Made(key[p]) \cup {Err}, LoaderReturns(p, r) PROVE Promise!Next
      BY <2>6, RefinesFinish DEF Promise!Next, Promise!Stored, Made
    <2>7. CASE LoaderPanic(p)
      BY <2>7, RefinesAbandon DEF Promise!Next
    <2>8. CASE StoreL2(p)
      BY <2>8, RefinesMove DEF StoreL2, Goto, RoleOf, IInv, TypeOK
    <2>9. CASE StoreL1(p)
      BY <2>9, RefinesMove DEF StoreL1, Goto, RoleOf, IInv, TypeOK
    <2>10. CASE Signal(p)
      BY <2>10, RefinesSignal
    <2>11. CASE Cleanup(p)
      BY <2>11, RefinesClose DEF Promise!Next
    <2>12. CASE Wake(p)
      BY <2>12, RefinesFollow DEF Promise!Next
    <2>13. QED
      BY <1>4, <2>1, <2>2, <2>3, <2>4, <2>5, <2>6, <2>7, <2>8, <2>9, <2>10, <2>11, <2>12
      DEF Step
  <1>5. QED
    BY <1>1, <1>2, <1>3, <1>4 DEF Next, EvictL1, ExpireL2, Elsewhere, vars

\* However many goroutines and keys there are, with panicking loaders and a Redis that
\* fails, forgets or is written by others, the tiered cache (tiered.go:32-98) keeps
\* the promise of Get and GetOrSet (cache.go:10-22).
THEOREM TieredKeepsPromise == Spec => KeepsPromise
  BY RefinesInit, RefinesNext, SpecIInv, PTL DEF Spec, KeepsPromise, Promise!Spec

=============================================================================
