------------------------------- MODULE L1Cache -------------------------------
(***************************************************************************)
(* cache/l1.go: an in-process cache whose GetOrSet lets the concurrent     *)
(* callers that miss on one key share a single run of the loader.          *)
(*                                                                         *)
(* A GetOrSet runs through the steps between which another goroutine can   *)
(* observe or change shared state:                                         *)
(*                                                                         *)
(*     idle --GetOrSet--> missed --Lead--> loading --LoaderReturns--> ...  *)
(*       ... store --Store--> signal --Signal--> cleanup --Cleanup--> idle *)
(*                        \--Join--> waiting --Wake--> idle                *)
(*                                                                         *)
(* The two critical sections of l.mu (lines 68-81 and 89-91) contain       *)
(* nothing that blocks and are one step each.  A *call is an element of    *)
(* Calls; one that nothing refers to any more is garbage and may be        *)
(* allocated again, so the number of loads is not bounded.                 *)
(*                                                                         *)
(* A payload is a pair <<key it was produced for, value>>; TTLs only make  *)
(* entries disappear, which Evict covers.  Copying (bytes.Clone) is left   *)
(* out: payloads are values here.                                          *)
(***************************************************************************)
EXTENDS Naturals

CONSTANTS
    Procs,        \* goroutines
    Keys,
    Vals,
    Calls,        \* storage for *call objects
    None,         \* nil / absent
    Err,          \* the error a loader returned
    Panic         \* the panic a loader raised

ASSUME ConstantsAssumption ==
    /\ None \notin Calls
    /\ None \notin Keys
    /\ None \notin (Keys \X Vals) /\ Err \notin (Keys \X Vals)
    /\ Panic \notin (Keys \X Vals)
    /\ None # Err /\ None # Panic

VARIABLES
    rc,       \* rc[k]: what ristretto holds for k
    loads,    \* L1.loads
    calls,    \* calls[c]: the key it loads, whether wg is released, val/err
    pc,       \* where each goroutine is
    key,      \* the key argument of its latest GetOrSet
    mine,     \* its local variable c
    ret,      \* what its latest GetOrSet returned
    panicked  \* history: the keys of which a loader has panicked

vars == <<rc, loads, calls, pc, key, mine, ret, panicked>>

Payload == Keys \X Vals
Made(k) == {k} \X Vals          \* what a loader of k, or a Set of k, produces

Leading == {"loading", "store", "signal", "cleanup"}
Leader(p) == pc[p] \in Leading

Goto(p, l) == pc' = [pc EXCEPT ![p] = l]

Return(p, r) ==
    /\ Goto(p, "idle")
    /\ ret' = [ret EXCEPT ![p] = r]
    /\ mine' = [mine EXCEPT ![p] = None]

Init ==
    /\ rc = [k \in Keys |-> None]
    /\ loads = [k \in Keys |-> None]
    /\ calls \in [Calls -> [key: {None}, done: {FALSE}, res: {None}]]
    /\ pc = [p \in Procs |-> "idle"]
    /\ key = [p \in Procs |-> None]
    /\ mine = [p \in Procs |-> None]
    /\ ret = [p \in Procs |-> None]
    /\ panicked = {}

-----------------------------------------------------------------------------
\* ristretto: SetWithTTL followed by Wait.  A new entry may be dropped by the
\* admission policy or a full set buffer, and any write by a negative TTL; the
\* caller is not told.
rcSet(k, v) == rc' = [rc EXCEPT ![k] = v] \/ UNCHANGED rc

\* ristretto: an entry is evicted to make room, or its TTL has passed.
Evict(k) ==
    /\ rc[k] # None
    /\ rc' = [rc EXCEPT ![k] = None]
    /\ UNCHANGED <<loads, calls, pc, key, mine, ret, panicked>>

\* Set(ctx, key, val, ttl), called by user code.
Set(p, k, v) ==
    /\ pc[p] = "idle"
    /\ rcSet(k, v)
    /\ UNCHANGED <<loads, calls, pc, key, mine, ret, panicked>>

\* GetOrSet, lines 64-66: the lookup before any lock is taken.
GetOrSet(p, k) ==
    /\ pc[p] = "idle"
    /\ key' = [key EXCEPT ![p] = k]
    /\ \/ rc[k] # None /\ Return(p, rc[k])
       \/ /\ rc[k] = None
          /\ Goto(p, "missed")
          /\ ret' = [ret EXCEPT ![p] = None]
          /\ UNCHANGED mine
    /\ UNCHANGED <<rc, loads, calls, panicked>>

\* Mutant: a call whose result is already there is no longer joined.
InFlightUntilDone(k) == loads[k] # None /\ ~calls[loads[k]].done

InFlight(k) == loads[k] # None

\* Mutant: loads is looked up by something that keys may share, such as a hash.
JoinByHash(p) ==
    /\ pc[p] = "missed"
    /\ \E k \in Keys :
          InFlight(k) /\ mine' = [mine EXCEPT ![p] = loads[k]]
    /\ Goto(p, "waiting")
    /\ UNCHANGED <<rc, loads, calls, key, ret, panicked>>

\* Lines 69-71: join the load somebody else has registered.
Join(p) ==
    /\ pc[p] = "missed"
    /\ InFlight(key[p])
    /\ mine' = [mine EXCEPT ![p] = loads[key[p]]]
    /\ Goto(p, "waiting")
    /\ UNCHANGED <<rc, loads, calls, key, ret, panicked>>

Unreferenced(c) ==
    /\ \A k \in Keys : loads[k] # c
    /\ \A p \in Procs : mine[p] # c

\* Lines 78-81: register a new call and become its leader.
Lead(p) ==
    /\ pc[p] = "missed"
    /\ ~InFlight(key[p])
    /\ \E c \in Calls :
          /\ Unreferenced(c)
          /\ calls' = [calls EXCEPT ![c] = [key |-> key[p], done |-> FALSE, res |-> None]]
          /\ loads' = [loads EXCEPT ![key[p]] = c]
          /\ mine' = [mine EXCEPT ![p] = c]
    /\ Goto(p, "loading")
    /\ UNCHANGED <<rc, key, ret, panicked>>

\* Mutant: a failed load is abandoned, with neither Done nor delete.
AfterLoadGivesUp(r) == IF r = Err THEN "failed" ELSE "store"

\* Mutant: a failed load returns without releasing the wait group.
AfterLoadSkipsDone(r) == IF r = Err THEN "cleanup" ELSE "store"

\* Line 84: only a successful load is stored.
AfterLoad(r) == IF r = Err THEN "signal" ELSE "store"

\* Line 83: the loader, which is user code, returns.
LoaderReturns(p, r) ==
    /\ pc[p] = "loading"
    /\ calls' = [calls EXCEPT ![mine[p]].res = r]
    /\ Goto(p, AfterLoad(r))
    /\ UNCHANGED <<rc, loads, key, mine, ret, panicked>>

\* Line 83: the loader panics.  No deferred call is registered, so neither
\* Done nor delete runs; a recovery interceptor keeps the process alive.
LoaderPanic(p) ==
    /\ pc[p] = "loading"
    /\ Return(p, Panic)
    /\ panicked' = panicked \cup {key[p]}
    /\ UNCHANGED <<rc, loads, calls, key>>

\* Line 85.
Store(p) ==
    /\ pc[p] = "store"
    /\ rcSet(key[p], calls[mine[p]].res)
    /\ Goto(p, "signal")
    /\ UNCHANGED <<loads, calls, key, mine, ret, panicked>>

\* Line 87: c.wg.Done().
Signal(p) ==
    /\ pc[p] = "signal"
    /\ calls' = [calls EXCEPT ![mine[p]].done = TRUE]
    /\ Goto(p, "cleanup")
    /\ UNCHANGED <<rc, loads, key, mine, ret, panicked>>

\* Mutant: the entry is left in the map.
ForgetNothing(k) == UNCHANGED loads

Forget(k) == loads' = [loads EXCEPT ![k] = None]

\* Lines 89-96: delete the entry and return what the loader produced.
Cleanup(p) ==
    /\ pc[p] = "cleanup"
    /\ Forget(key[p])
    /\ Return(p, calls[mine[p]].res)
    /\ UNCHANGED <<rc, calls, key, panicked>>

Released(c) == calls[c].done

\* Lines 71-75: c.wg.Wait() returns; hand out the leader's result.
Wake(p) ==
    /\ pc[p] = "waiting"
    /\ Released(mine[p])
    /\ Return(p, calls[mine[p]].res)
    /\ UNCHANGED <<rc, loads, calls, key, panicked>>

\* What a goroutine does by itself once GetOrSet has been called.
Step(p) ==
    \/ Join(p)
    \/ Lead(p)
    \/ \E r \in Made(key[p]) \cup {Err} : LoaderReturns(p, r)
    \/ LoaderPanic(p)
    \/ Store(p)
    \/ Signal(p)
    \/ Cleanup(p)
    \/ Wake(p)

Next ==
    \/ \E p \in Procs : Step(p)
    \/ \E p \in Procs, k \in Keys : GetOrSet(p, k)
    \/ \E p \in Procs, k \in Keys : \E v \in Made(k) : Set(p, k, v)
    \/ \E k \in Keys : Evict(k)

Spec == Init /\ [][Next]_vars

\* The Go scheduler runs every runnable goroutine, l.mu is released by every
\* critical section, and loaders end.  Nobody has to call the cache.
Fairness == \A p \in Procs : WF_vars(Step(p))

FairSpec == Spec /\ Fairness

-----------------------------------------------------------------------------
(***************************************************************************)
(*                              Properties                                 *)
(***************************************************************************)

\* The state of the cache and of its callers has the shape the code gives it:
\* in particular a goroutine is at one of the known points of GetOrSet.
TypeOK ==
    /\ rc \in [Keys -> Payload \cup {None}]
    /\ loads \in [Keys -> Calls \cup {None}]
    /\ calls \in [Calls -> [key: Keys \cup {None}, done: BOOLEAN,
                            res: Payload \cup {None, Err}]]
    /\ pc \in [Procs -> {"idle", "missed", "waiting"} \cup Leading]
    /\ key \in [Procs -> Keys \cup {None}]
    /\ mine \in [Procs -> Calls \cup {None}]
    /\ ret \in [Procs -> Payload \cup {None, Err, Panic}]
    /\ panicked \subseteq Keys

\* At no time do two goroutines run the loader of one key, or hold results
\* of it that are not yet published: whoever finds the key in loads waits.
SingleFlight ==
    \A p, q \in Procs : Leader(p) /\ Leader(q) /\ key[p] = key[q] => p = q

\* A GetOrSet (l1.go:63-97) returns a payload made for the key it was asked for,
\* or the loader's error (or panic); never the nil value without an error, and
\* never something made for another key, whatever loads of other keys are in
\* flight and whichever call object is used again.
ReturnsOwnKey ==
    \A p \in Procs :
        pc[p] = "idle" /\ key[p] # None => ret[p] \in Made(key[p]) \cup {Err, Panic}

\* Unless its loader has panicked, an entry of loads belongs to a leader that is
\* still going to delete it: the map holds no other entry when all is quiet.
LoadsOwned ==
    \A k \in Keys \ panicked : loads[k] # None =>
        \E p \in Procs : Leader(p) /\ key[p] = k /\ mine[p] = loads[k]

\* Whoever waits waits for a call that has been released or that a leader is
\* still going to release, unless a loader of that key has panicked.
NobodyWaitsInVain ==
    \A p \in Procs : pc[p] = "waiting" /\ key[p] \notin panicked =>
        \/ calls[mine[p]].done
        \/ \E q \in Procs : pc[q] \in Leading \ {"cleanup"} /\ mine[q] = mine[p]

\* Every GetOrSet returns, unless it joined a load of which the loader panicked.
EveryCallReturns ==
    \A p \in Procs : pc[p] # "idle" ~>
        (pc[p] = "idle" \/ (pc[p] = "waiting" /\ key[p] \in panicked))

\* cache/l1.go:60-62, GetOrSet "calls loader once [...], stores the result, and
\* returns it", and options.go:44-46 keeps the process alive after a panic: every
\* GetOrSet returns.  Does not hold: after a panic nobody releases the call.
EveryCallReturnsAnyway ==
    \A p \in Procs : pc[p] # "idle" ~> pc[p] = "idle"

\* How the state of this module is seen by SharedLoad.
RoleOf(p) ==
    CASE pc[p] = "idle"    -> "idle"
      [] pc[p] = "missed"  -> "asked"
      [] pc[p] = "waiting" -> "following"
      [] OTHER             -> "leading"

ResultOf(c) == IF c = None THEN None ELSE calls[c].res

Promise == INSTANCE SharedLoad WITH
    Miss    <- None,
    role    <- [p \in Procs |-> RoleOf(p)],
    want    <- key,
    open    <- [k \in Keys |-> loads[k] # None],
    result  <- [k \in Keys |-> ResultOf(loads[k])],
    outcome <- [p \in Procs |-> ResultOf(mine[p])],
    answer  <- ret

\* cache/cache.go:19-21: L1 keeps the promise of GetOrSet.  Storing, releasing the
\* wait group, evicting and Set are invisible to it; in particular a follower may
\* wake before or after the entry has been deleted, and still gets the outcome of
\* the load it joined and of no later one.
KeepsPromise == Promise!Spec

=============================================================================
