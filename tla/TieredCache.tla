---------------------------- MODULE TieredCache ----------------------------
(***************************************************************************)
(* cache/tiered.go over cache/redis.go: an L1 and a Redis L2 behind one    *)
(* Get, Set and GetOrSet.  The layers are written one after the other,     *)
(* without a common lock, and Redis fails soft: a lookup that cannot reach *)
(* it is a miss, and a write that cannot is forgotten.                     *)
(*                                                                         *)
(*     Get:       idle --> getL2 --> getPromote --> idle                   *)
(*     Set:       idle --> setL1 --> idle                                  *)
(*     GetOrSet:  idle --> lookL2 --> promote --> idle                     *)
(*                           \--> missed --> waiting --> idle              *)
(*                                   \--> loading --> storeL2 --> storeL1  *)
(*                                          --> signal --> cleanup --> idle*)
(*                                                                         *)
(* A payload is a pair <<key it was produced for, value>>, as in L1Cache;  *)
(* TTLs only make entries disappear.  l1 is an L1 of which only Get and    *)
(* Set are used, each of them one step.                                    *)
(***************************************************************************)
EXTENDS Naturals

CONSTANTS
    Procs,   \* goroutines
    Keys,
    Vals,
    Calls,   \* storage for *call objects
    None,    \* nil / absent
    Miss,    \* what a Get without success returns
    Err,     \* the error a loader returned
    Panic    \* the panic a loader raised

ASSUME ConstantsAssumption ==
    /\ None \notin Calls
    /\ None \notin Keys
    /\ None \notin (Keys \X Vals) /\ Err \notin (Keys \X Vals)
    /\ Panic \notin (Keys \X Vals) /\ Miss \notin (Keys \X Vals)
    /\ None \notin {Err, Panic, Miss}

VARIABLES
    l1, l2,    \* what the layers hold for each key
    loads,     \* Tiered.loads
    calls,     \* calls[c]: the key it loads, whether wg is released, val/err
    pc,        \* where each goroutine is
    key,       \* the key argument of its latest Get or GetOrSet
    arg,       \* the payload it is about to write to L1
    mine,      \* its local variable c
    ret,       \* what its latest Get or GetOrSet returned
    panicked,  \* history: the keys of which a loader has panicked
    tainted    \* history: the keys about which the layers may disagree

vars == <<l1, l2, loads, calls, pc, key, arg, mine, ret, panicked, tainted>>

Payload == Keys \X Vals
Made(k) == {k} \X Vals          \* what a loader of k, or a Set of k, produces

Leading == {"loading", "storeL2", "storeL1", "signal", "cleanup"}

\* The operation p is in the middle of is about k.
Busy(p, k) ==
    /\ pc[p] # "idle"
    /\ IF pc[p] = "setL1" THEN arg[p] \in Made(k) ELSE key[p] = k

Alone(p, k) == \A q \in Procs \ {p} : ~Busy(q, k)

Goto(p, l) == pc' = [pc EXCEPT ![p] = l]

Return(p, r) ==
    /\ Goto(p, "idle")
    /\ ret' = [ret EXCEPT ![p] = r]
    /\ mine' = [mine EXCEPT ![p] = None]
    /\ arg' = [arg EXCEPT ![p] = None]

Init ==
    /\ l1 = [k \in Keys |-> None]
    /\ l2 = [k \in Keys |-> None]
    /\ loads = [k \in Keys |-> None]
    /\ calls \in [Calls -> [key: {None}, done: {FALSE}, res: {None}]]
    /\ pc = [p \in Procs |-> "idle"]
    /\ key = [p \in Procs |-> None]
    /\ arg = [p \in Procs |-> None]
    /\ mine = [p \in Procs |-> None]
    /\ ret = [p \in Procs |-> None]
    /\ panicked = {}
    /\ tainted = {}

-----------------------------------------------------------------------------
\* L1.Set: an entry that is there is updated, a new one may be dropped.
l1Set(k, v) ==
    \/ l1' = [l1 EXCEPT ![k] = v]
    \/ l1[k] = None /\ UNCHANGED l1

\* L2.Get: what Redis has, or a miss if Redis cannot be reached.
l2Get(k) == {l2[k], None}

\* L2.Set when Redis takes the write, and when it cannot be reached: the error
\* is discarded, and the layers may disagree from then on.
l2Take(k, v) == l2' = [l2 EXCEPT ![k] = v]
l2Refuse(k) == UNCHANGED l2

l2Set(k, v) ==
    \/ l2Take(k, v) /\ UNCHANGED tainted
    \/ l2Refuse(k) /\ tainted' = tainted \cup {k}

\* An entry is evicted or expires, in ristretto or in Redis.
EvictL1(k) ==
    /\ l1[k] # None
    /\ l1' = [l1 EXCEPT ![k] = None]
    /\ UNCHANGED <<l2, loads, calls, pc, key, arg, mine, ret, panicked, tainted>>

ExpireL2(k) ==
    /\ l2[k] # None
    /\ l2' = [l2 EXCEPT ![k] = None]
    /\ UNCHANGED <<l1, loads, calls, pc, key, arg, mine, ret, panicked, tainted>>

\* Redis is shared: another process writes k, or Redis gets to a write that the
\* client here had given up on.
Elsewhere(k, v) ==
    /\ l2' = [l2 EXCEPT ![k] = v]
    /\ tainted' = tainted \cup {k}
    /\ UNCHANGED <<l1, loads, calls, pc, key, arg, mine, ret, panicked>>

-----------------------------------------------------------------------------
\* History: an operation on k begins while another one is under way.
NoteOverlap(p, k) == tainted' = IF Alone(p, k) THEN tainted ELSE tainted \cup {k}

\* Get and GetOrSet begin with the lookup in L1 (lines 33-35 and 56-58).
LookL1(p, k, miss) ==
    /\ pc[p] = "idle"
    /\ key' = [key EXCEPT ![p] = k]
    /\ NoteOverlap(p, k)
    /\ \/ l1[k] # None /\ Return(p, l1[k])
       \/ /\ l1[k] = None
          /\ Goto(p, miss)
          /\ ret' = [ret EXCEPT ![p] = None]
          /\ UNCHANGED <<mine, arg>>
    /\ UNCHANGED <<l1, l2, loads, calls, panicked>>

Get(p, k) == LookL1(p, k, "getL2")
GetOrSet(p, k) == LookL1(p, k, "lookL2")

\* The lookup in L2 finds v, which is going to be promoted.
FindL2(p, next) ==
    /\ \E v \in l2Get(key[p]) \ {None} : arg' = [arg EXCEPT ![p] = v]
    /\ Goto(p, next)
    /\ UNCHANGED <<l1, l2, loads, calls, key, mine, ret, panicked, tainted>>

\* Lines 37-40.
GetL2(p) ==
    /\ pc[p] = "getL2"
    /\ \/ FindL2(p, "getPromote")
       \/ /\ None \in l2Get(key[p])
          /\ Return(p, Miss)
          /\ UNCHANGED <<l1, l2, loads, calls, key, panicked, tainted>>

\* Line 61.
LookL2(p) ==
    /\ pc[p] = "lookL2"
    /\ \/ FindL2(p, "promote")
       \/ /\ None \in l2Get(key[p])
          /\ Goto(p, "missed")
          /\ UNCHANGED <<l1, l2, loads, calls, key, arg, mine, ret, panicked, tainted>>

\* Lines 42-43 (without TTL) and 62-63 (with the caller's): write the value that
\* was read from L2 to L1, whatever has happened since, and return it.
Promote(p) ==
    /\ pc[p] \in {"getPromote", "promote"}
    /\ l1Set(key[p], arg[p])
    /\ Return(p, arg[p])
    /\ UNCHANGED <<l2, loads, calls, key, panicked, tainted>>

\* Mutant: Set writes L1 only.
SetSkipsL2(k, v, alone) ==
    UNCHANGED l2 /\ tainted' = IF alone THEN tainted \ {k} ELSE tainted \cup {k}

\* Line 48: L2 first.  History: a Set of k with nothing else going on that Redis
\* takes makes the layers agree again.
SetL2First(k, v, alone) ==
    \/ l2Take(k, v) /\ tainted' = IF alone THEN tainted \ {k} ELSE tainted \cup {k}
    \/ l2Refuse(k) /\ tainted' = tainted \cup {k}

Set(p, k, v) ==
    /\ pc[p] = "idle"
    /\ SetL2First(k, v, Alone(p, k))
    /\ arg' = [arg EXCEPT ![p] = v]
    /\ Goto(p, "setL1")
    /\ UNCHANGED <<l1, loads, calls, key, mine, ret, panicked>>

\* Line 49.
SetL1(p) ==
    /\ pc[p] = "setL1"
    /\ \E k \in Keys : arg[p] \in Made(k) /\ l1Set(k, arg[p])
    /\ arg' = [arg EXCEPT ![p] = None]
    /\ Goto(p, "idle")
    /\ UNCHANGED <<l2, loads, calls, key, mine, ret, panicked, tainted>>

-----------------------------------------------------------------------------
\* Mutant: a call whose result is already there is no longer joined.
InFlightUntilDone(k) == loads[k] # None /\ ~calls[loads[k]].done

InFlight(k) == loads[k] # None

\* Lines 67-70.
Join(p) ==
    /\ pc[p] = "missed"
    /\ InFlight(key[p])
    /\ mine' = [mine EXCEPT ![p] = loads[key[p]]]
    /\ Goto(p, "waiting")
    /\ UNCHANGED <<l1, l2, loads, calls, key, arg, ret, panicked, tainted>>

Unreferenced(c) ==
    /\ \A k \in Keys : loads[k] # c
    /\ \A p \in Procs : mine[p] # c

\* Lines 77-80.
Lead(p) ==
    /\ pc[p] = "missed"
    /\ ~InFlight(key[p])
    /\ \E c \in Calls :
          /\ Unreferenced(c)
          /\ calls' = [calls EXCEPT ![c] = [key |-> key[p], done |-> FALSE, res |-> None]]
          /\ loads' = [loads EXCEPT ![key[p]] = c]
          /\ mine' = [mine EXCEPT ![p] = c]
    /\ Goto(p, "loading")
    /\ UNCHANGED <<l1, l2, key, arg, ret, panicked, tainted>>

\* Mutant: a failed load is abandoned, with neither Done nor delete.
AfterLoadGivesUp(r) == IF r = Err THEN "failed" ELSE "storeL2"

\* Mutant: a failed load returns without releasing the wait group.
AfterLoadSkipsDone(r) == IF r = Err THEN "cleanup" ELSE "storeL2"

\* Line 83: only a successful load is stored.
AfterLoad(r) == IF r = Err THEN "signal" ELSE "storeL2"

\* Line 82: the loader, which is user code, returns ...
LoaderReturns(p, r) ==
    /\ pc[p] = "loading"
    /\ calls' = [calls EXCEPT ![mine[p]].res = r]
    /\ Goto(p, AfterLoad(r))
    /\ UNCHANGED <<l1, l2, loads, key, arg, mine, ret, panicked, tainted>>

\* ... or panics.  As in L1, nothing is deferred.
LoaderPanic(p) ==
    /\ pc[p] = "loading"
    /\ Return(p, Panic)
    /\ panicked' = panicked \cup {key[p]}
    /\ UNCHANGED <<l1, l2, loads, calls, key, tainted>>

\* Line 85.
StoreL2(p) ==
    /\ pc[p] = "storeL2"
    /\ l2Set(key[p], calls[mine[p]].res)
    /\ Goto(p, "storeL1")
    /\ UNCHANGED <<l1, loads, calls, key, arg, mine, ret, panicked>>

\* Line 86.
StoreL1(p) ==
    /\ pc[p] = "storeL1"
    /\ l1Set(key[p], calls[mine[p]].res)
    /\ Goto(p, "signal")
    /\ UNCHANGED <<l2, loads, calls, key, arg, mine, ret, panicked, tainted>>

\* Line 88.
Signal(p) ==
    /\ pc[p] = "signal"
    /\ calls' = [calls EXCEPT ![mine[p]].done = TRUE]
    /\ Goto(p, "cleanup")
    /\ UNCHANGED <<l1, l2, loads, key, arg, mine, ret, panicked, tainted>>

\* Lines 90-97.
Cleanup(p) ==
    /\ pc[p] = "cleanup"
    /\ loads' = [loads EXCEPT ![key[p]] = None]
    /\ Return(p, calls[mine[p]].res)
    /\ UNCHANGED <<l1, l2, calls, key, panicked, tainted>>

Released(c) == calls[c].done

\* Lines 70-74.
Wake(p) ==
    /\ pc[p] = "waiting"
    /\ Released(mine[p])
    /\ Return(p, calls[mine[p]].res)
    /\ UNCHANGED <<l1, l2, loads, calls, key, panicked, tainted>>

Step(p) ==
    \/ GetL2(p) \/ LookL2(p) \/ Promote(p) \/ SetL1(p)
    \/ Join(p) \/ Lead(p)
    \/ \E r \in Made(key[p]) \cup {Err} : LoaderReturns(p, r)
    \/ LoaderPanic(p)
    \/ StoreL2(p) \/ StoreL1(p) \/ Signal(p) \/ Cleanup(p) \/ Wake(p)

Next ==
    \/ \E p \in Procs : Step(p)
    \/ \E p \in Procs, k \in Keys : Get(p, k) \/ GetOrSet(p, k)
    \/ \E p \in Procs, k \in Keys : \E v \in Made(k) : Set(p, k, v)
    \/ \E k \in Keys : EvictL1(k) \/ ExpireL2(k)
    \/ \E k \in Keys : \E v \in Made(k) : Elsewhere(k, v)

Spec == Init /\ [][Next]_vars

\* Goroutines are scheduled, Redis calls end (they time out), loaders end.
\* Nobody has to call, and nothing has to expire.
Fairness == \A p \in Procs : WF_vars(Step(p))

FairSpec == Spec /\ Fairness

-----------------------------------------------------------------------------
(***************************************************************************)
(*                              Properties                                 *)
(***************************************************************************)

\* The state of the cache and of its callers has the shape the code gives it.
TypeOK ==
    /\ l1 \in [Keys -> Payload \cup {None}]
    /\ l2 \in [Keys -> Payload \cup {None}]
    /\ loads \in [Keys -> Calls \cup {None}]
    /\ calls \in [Calls -> [key: Keys \cup {None}, done: BOOLEAN,
                            res: Payload \cup {None, Err}]]
    /\ pc \in [Procs -> {"idle", "getL2", "getPromote", "lookL2", "promote", "setL1",
                         "missed", "waiting"} \cup Leading]
    /\ key \in [Procs -> Keys \cup {None}]
    /\ arg \in [Procs -> Payload \cup {None}]
    /\ mine \in [Procs -> Calls \cup {None}]
    /\ ret \in [Procs -> Payload \cup {None, Miss, Err, Panic}]
    /\ panicked \subseteq Keys
    /\ tainted \subseteq Keys

\* tiered.go:11, "Writes populate both layers": the layers hold the same payload
\* for a key, or one of them holds none.  This is so as long as no two operations
\* on the key overlap, Redis takes the writes and nobody else writes it; and after
\* it was broken, it is so again from the next such Set on.
LayersAgree ==
    \A k \in Keys \ tainted :
        (\A p \in Procs : ~(pc[p] = "setL1" /\ Busy(p, k))) =>
            l1[k] = None \/ l2[k] = None \/ l1[k] = l2[k]

\* Every operation ends, unless it joined a load of which the loader panicked.
EveryCallReturns ==
    \A p \in Procs : pc[p] # "idle" ~>
        (pc[p] = "idle" \/ (pc[p] = "waiting" /\ key[p] \in panicked))

\* How the state of this module is seen by SharedLoad.  Set is invisible to it.
RoleOf(p) ==
    CASE pc[p] \in {"idle", "setL1"}                 -> "idle"
      [] pc[p] \in {"getL2", "getPromote"}           -> "looking"
      [] pc[p] \in {"lookL2", "promote", "missed"}   -> "asked"
      [] pc[p] = "waiting"                           -> "following"
      [] OTHER                                       -> "leading"

ResultOf(c) == IF c = None THEN None ELSE calls[c].res

Promise == INSTANCE SharedLoad WITH
    role    <- [p \in Procs |-> RoleOf(p)],
    want    <- key,
    open    <- [k \in Keys |-> loads[k] # None],
    result  <- [k \in Keys |-> ResultOf(loads[k])],
    outcome <- [p \in Procs |-> ResultOf(mine[p])],
    answer  <- ret

\* cache/cache.go:10-22, and tiered.go:52-53, "deduplicating concurrent loads for the
\* same key": with two layers, either of which may forget, refuse or be changed at
\* any time, the promise of Get and GetOrSet is the same as with one: a payload of
\* the key asked for or the outcome of the one open load of it, never a nil value.
KeepsPromise == Promise!Spec

=============================================================================
