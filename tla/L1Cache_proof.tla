---------------------------- MODULE L1Cache_proof ----------------------------
(***************************************************************************)
(* Proofs about L1Cache for every set of goroutines, keys, values and      *)
(* calls.                                                                  *)
(*                                                                         *)
(* SingleFlight is not inductive.  It rests on the bookkeeping between     *)
(* goroutines, loads and calls: a leader's call is the one registered for  *)
(* its key (Registered), and no two goroutines lead one call (OneLeader).  *)
(* ReturnsOwnKey rests on every call holding a result for its own key      *)
(* only, from the loader's return on (CallsSound).                         *)
(***************************************************************************)
EXTENDS L1Cache, TLAPS

\* What a leader holds is what loads has for its key.
Registered ==
    \A p \in Procs : Leader(p) =>
        /\ key[p] \in Keys
        /\ mine[p] \in Calls
        /\ loads[key[p]] = mine[p]
        /\ calls[mine[p]].key = key[p]

\* A call has at most one leader.
OneLeader ==
    \A p, q \in Procs : Leader(p) /\ Leader(q) /\ mine[p] = mine[q] => p = q

\* Followers hold a call for the key they asked for.
Followers ==
    \A p \in Procs :
        /\ pc[p] = "missed" => key[p] \in Keys
        /\ pc[p] = "waiting" =>
              /\ key[p] \in Keys
              /\ mine[p] \in Calls
              /\ calls[mine[p]].key = key[p]

\* loads maps a key to a call for that key; a call holds a result for its
\* key only, and holds one before it is released.
CallsSound ==
    /\ \A k \in Keys : loads[k] # None => calls[loads[k]].key = k
    /\ \A c \in Calls :
          /\ calls[c].res \in Made(calls[c].key) \cup {None, Err}
          /\ calls[c].done => calls[c].res # None
    /\ \A p \in Procs :
          /\ pc[p] = "store" => calls[mine[p]].res \in Made(key[p])
          /\ pc[p] = "signal" => calls[mine[p]].res # None
          /\ pc[p] = "cleanup" => calls[mine[p]].done

\* ristretto holds, for each key, a payload made for it.
StoreSound == \A k \in Keys : rc[k] # None => rc[k] \in Made(k)

IInv ==
    /\ TypeOK
    /\ Registered
    /\ OneLeader
    /\ Followers
    /\ CallsSound
    /\ StoreSound
    /\ ReturnsOwnKey

-----------------------------------------------------------------------------
\* One goroutine per key at a time is a consequence of the bookkeeping.
LEMMA InvSingleFlight == IInv => SingleFlight
  BY DEF IInv, Registered, OneLeader, SingleFlight

\* What loaders and Set produce are payloads.
LEMMA MadeIsPayload == \A k \in Keys : Made(k) \subseteq Payload
  BY DEF Made, Payload

\* The cache that NewL1 (l1.go:29-42) returns satisfies the invariant.
LEMMA InitInv == Init => IInv
  <1> SUFFICES ASSUME Init PROVE IInv
    OBVIOUS
  <1>1. TypeOK
    BY ConstantsAssumption DEF Init, TypeOK
  <1>2. Registered /\ OneLeader /\ Followers /\ StoreSound /\ ReturnsOwnKey
    BY DEF Init, Registered, OneLeader, Followers, StoreSound, ReturnsOwnKey, Leader, Leading
  <1>3. CallsSound
    BY DEF Init, CallsSound
  <1>4. QED
    BY <1>1, <1>2, <1>3 DEF IInv

\* ristretto keeping or dropping a write made for k.
LEMMA SetSound ==
    ASSUME IInv, NEW k \in Keys, NEW v \in Made(k), rcSet(k, v)
    PROVE  rc' \in [Keys -> Payload \cup {None}] /\ StoreSound'
  BY MadeIsPayload DEF IInv, TypeOK, StoreSound, rcSet

\* ristretto dropping an entry changes nothing but the store.
LEMMA EvictInv == ASSUME IInv, NEW k \in Keys, Evict(k) PROVE IInv'
  <1>1. TypeOK' /\ StoreSound'
    BY DEF IInv, TypeOK, StoreSound, Evict
  <1>2. QED
    BY <1>1 DEF IInv, Evict, Registered, OneLeader, Followers, CallsSound,
                ReturnsOwnKey, Leader

\* Set (l1.go:54-58), called while loads of the same key are in flight.
LEMMA SetInv ==
    ASSUME IInv, NEW p \in Procs, NEW k \in Keys, NEW v \in Made(k), Set(p, k, v)
    PROVE  IInv'
  <1>1. rc' \in [Keys -> Payload \cup {None}] /\ StoreSound'
    BY SetSound DEF Set
  <1>2. QED
    BY <1>1 DEF IInv, Set, TypeOK, Registered, OneLeader, Followers, CallsSound,
                ReturnsOwnKey, Leader

\* The unlocked lookup of GetOrSet (l1.go:64-66), hit or miss.
LEMMA GetOrSetInv ==
    ASSUME IInv, NEW p \in Procs, NEW k \in Keys, GetOrSet(p, k)
    PROVE  IInv'
  <1> USE DEF Leader, Leading
  <1>1. TypeOK'
    BY DEF IInv, TypeOK, GetOrSet, Return, Goto
  <1>2. /\ pc'[p] \in {"idle", "missed"} /\ key'[p] = k
        /\ \A q \in Procs \ {p} : /\ pc'[q] = pc[q] /\ key'[q] = key[q]
                                  /\ mine'[q] = mine[q] /\ ret'[q] = ret[q]
        /\ UNCHANGED <<rc, loads, calls>>
    BY DEF IInv, TypeOK, GetOrSet, Return, Goto
  <1>3. Registered' /\ OneLeader' /\ Followers' /\ StoreSound'
    BY <1>2 DEF IInv, Registered, OneLeader, Followers, StoreSound
  <1>4. CallsSound'
    BY <1>2 DEF IInv, CallsSound
  <1>5. pc'[p] = "idle" => ret'[p] \in Made(k)
    BY DEF GetOrSet, Return, Goto, IInv, TypeOK, StoreSound
  <1>6. ReturnsOwnKey'
    BY <1>2, <1>5 DEF IInv, ReturnsOwnKey
  <1>7. QED
    BY <1>1, <1>3, <1>4, <1>6 DEF IInv

\* Joining a registered load (l1.go:69-71): the follower holds the call of its key.
LEMMA JoinInv == ASSUME IInv, NEW p \in Procs, Join(p) PROVE IInv'
  <1> USE DEF Leader, Leading
  <1>1. TypeOK' /\ key[p] \in Keys /\ loads[key[p]] \in Calls
    BY DEF IInv, TypeOK, Join, Goto, InFlight, Followers
  <1>2. /\ pc'[p] = "waiting" /\ mine'[p] = loads[key[p]]
        /\ \A q \in Procs \ {p} : pc'[q] = pc[q] /\ mine'[q] = mine[q]
        /\ UNCHANGED <<rc, loads, calls, key, ret>>
    BY DEF IInv, TypeOK, Join, Goto
  <1>3. Registered' /\ OneLeader' /\ StoreSound' /\ ReturnsOwnKey'
    BY <1>2 DEF IInv, Registered, OneLeader, StoreSound, ReturnsOwnKey
  <1>4. Followers'
    BY <1>1, <1>2, ConstantsAssumption DEF IInv, Followers, CallsSound
  <1>5. CallsSound'
    BY <1>2 DEF IInv, CallsSound
  <1>6. QED
    BY <1>1, <1>3, <1>4, <1>5 DEF IInv

\* Registering a load (l1.go:78-81): the call is fresh, so nobody else leads its
\* key and no follower of an earlier load refers to it.
LEMMA LeadInv == ASSUME IInv, NEW p \in Procs, Lead(p) PROVE IInv'
  <1> USE DEF Leader, Leading
  <1>0. PICK c \in Calls :
          /\ Unreferenced(c)
          /\ calls' = [calls EXCEPT ![c] = [key |-> key[p], done |-> FALSE, res |-> None]]
          /\ loads' = [loads EXCEPT ![key[p]] = c]
          /\ mine' = [mine EXCEPT ![p] = c]
    BY DEF Lead
  <1>1. TypeOK' /\ key[p] \in Keys /\ loads[key[p]] = None
    BY <1>0 DEF IInv, TypeOK, Lead, Goto, InFlight, Followers
  <1>2. /\ pc'[p] = "loading" /\ mine'[p] = c /\ loads'[key[p]] = c
        /\ calls'[c] = [key |-> key[p], done |-> FALSE, res |-> None]
        /\ \A q \in Procs \ {p} : pc'[q] = pc[q] /\ mine'[q] = mine[q] /\ mine[q] # c
        /\ \A k \in Keys \ {key[p]} : loads'[k] = loads[k] /\ loads[k] # c
        /\ \A d \in Calls \ {c} : calls'[d] = calls[d]
        /\ UNCHANGED <<rc, key, ret>>
    BY <1>0, <1>1 DEF IInv, TypeOK, Lead, Goto, Unreferenced
  <1>3. Registered'
    BY <1>1, <1>2, ConstantsAssumption DEF IInv, Registered
  <1>4. OneLeader'
    BY <1>2 DEF IInv, OneLeader
  <1>5. Followers'
    BY <1>2 DEF IInv, Followers
  <1>6. CallsSound'
    <2>1. \A k \in Keys : loads'[k] # None => calls'[loads'[k]].key = k
      <3> SUFFICES ASSUME NEW k \in Keys, loads'[k] # None
                   PROVE  calls'[loads'[k]].key = k
        OBVIOUS
      <3>1. CASE k = key[p]
        BY <3>1, <1>2
      <3>2. CASE k # key[p]
        BY <3>2, <1>2 DEF IInv, CallsSound, TypeOK
      <3>3. QED
        BY <3>1, <3>2
    <2>2. \A d \in Calls : /\ calls'[d].res \in Made(calls'[d].key) \cup {None, Err}
                           /\ calls'[d].done => calls'[d].res # None
      BY <1>2 DEF IInv, CallsSound
    <2>3. \A q \in Procs : /\ pc'[q] = "store" => calls'[mine'[q]].res \in Made(key'[q])
                           /\ pc'[q] = "signal" => calls'[mine'[q]].res # None
                           /\ pc'[q] = "cleanup" => calls'[mine'[q]].done
      BY <1>2 DEF IInv, CallsSound, Registered
    <2>4. QED
      BY <2>1, <2>2, <2>3 DEF CallsSound
  <1>7. StoreSound' /\ ReturnsOwnKey'
    BY <1>2 DEF IInv, StoreSound, ReturnsOwnKey
  <1>8. QED
    BY <1>1, <1>3, <1>4, <1>5, <1>6, <1>7 DEF IInv

\* The loader's return (l1.go:83): the result belongs to the key of the call, and
\* nobody can read it before it is released.
LEMMA LoaderReturnsInv ==
    ASSUME IInv, NEW p \in Procs, NEW r \in Made(key[p]) \cup {Err}, LoaderReturns(p, r)
    PROVE  IInv'
  <1> USE DEF Leader, Leading
  <1>1. /\ key[p] \in Keys /\ mine[p] \in Calls /\ calls[mine[p]].key = key[p]
        /\ pc[p] = "loading"
    BY DEF IInv, Registered, LoaderReturns
  <1>2. r \in Payload \cup {Err} /\ r # None
    BY <1>1, MadeIsPayload, ConstantsAssumption DEF Payload
  <1>3. /\ pc'[p] = AfterLoad(r)
        /\ pc'[p] \in {"signal", "store"} /\ (pc'[p] = "store" => r \in Made(key[p]))
        /\ calls'[mine[p]] = [calls[mine[p]] EXCEPT !.res = r]
        /\ \A q \in Procs \ {p} : pc'[q] = pc[q]
        /\ \A d \in Calls \ {mine[p]} : calls'[d] = calls[d]
        /\ UNCHANGED <<rc, loads, key, mine, ret>>
    BY <1>1 DEF IInv, TypeOK, LoaderReturns, Goto, AfterLoad
  <1>4. TypeOK'
    BY <1>1, <1>2, <1>3 DEF IInv, TypeOK, LoaderReturns, Goto
  <1>5. /\ calls'[mine[p]].key = key[p] /\ calls'[mine[p]].res = r
        /\ calls'[mine[p]].done = calls[mine[p]].done
    BY <1>1, <1>3 DEF IInv, TypeOK
  <1>6. \A d \in Calls : calls'[d].key = calls[d].key /\ calls'[d].done = calls[d].done
    BY <1>1, <1>3, <1>5
  <1>7. Registered' /\ OneLeader' /\ Followers'
    BY <1>1, <1>3, <1>6 DEF IInv, Registered, OneLeader, Followers
  <1>8. CallsSound'
    <2>1. \A k \in Keys : loads'[k] # None => calls'[loads'[k]].key = k
      BY <1>3, <1>6 DEF IInv, CallsSound, TypeOK
    <2>2. \A d \in Calls : /\ calls'[d].res \in Made(calls'[d].key) \cup {None, Err}
                           /\ calls'[d].done => calls'[d].res # None
      <3>1. \A d \in Calls \ {mine[p]} :
               /\ calls'[d].res \in Made(calls'[d].key) \cup {None, Err}
               /\ calls'[d].done => calls'[d].res # None
        BY <1>3 DEF IInv, CallsSound
      <3>2. /\ calls'[mine[p]].res \in Made(calls'[mine[p]].key) \cup {None, Err}
            /\ calls'[mine[p]].res # None
        BY <1>2, <1>5
      <3>3. QED
        BY <3>1, <3>2
    <2>3. \A q \in Procs \ {p} : Leader(q) => mine[q] # mine[p] /\ mine[q] \in Calls
      BY <1>1 DEF IInv, OneLeader, Registered
    <2>4. \A q \in Procs : /\ pc'[q] = "store" => calls'[mine'[q]].res \in Made(key'[q])
                           /\ pc'[q] = "signal" => calls'[mine'[q]].res # None
                           /\ pc'[q] = "cleanup" => calls'[mine'[q]].done
      <3> SUFFICES ASSUME NEW q \in Procs
                   PROVE  /\ pc'[q] = "store" => calls'[mine'[q]].res \in Made(key'[q])
                          /\ pc'[q] = "signal" => calls'[mine'[q]].res # None
                          /\ pc'[q] = "cleanup" => calls'[mine'[q]].done
        OBVIOUS
      <3>1. CASE q = p
        BY <3>1, <1>2, <1>3, <1>5
      <3>2. CASE q # p
        <4>1. pc'[q] = pc[q] /\ mine'[q] = mine[q] /\ key'[q] = key[q]
          BY <3>2, <1>3
        <4>2. Leader(q) => calls'[mine[q]] = calls[mine[q]]
          BY <3>2, <1>3, <2>3
        <4>3. QED
          BY <4>1, <4>2 DEF IInv, CallsSound
      <3>3. QED
        BY <3>1, <3>2
    <2>5. QED
      BY <2>1, <2>2, <2>4 DEF CallsSound
  <1>9. StoreSound' /\ ReturnsOwnKey'
    BY <1>3, <1>1 DEF IInv, StoreSound, ReturnsOwnKey
  <1>10. QED
    BY <1>4, <1>7, <1>8, <1>9 DEF IInv

\* The ways out of GetOrSet that hand back a result r and touch no call.
LEMMA ReturnInv ==
    ASSUME IInv, NEW p \in Procs, NEW r \in Made(key[p]) \cup {Err, Panic},
           pc[p] \in {"loading", "waiting"}, Return(p, r),
           UNCHANGED <<rc, loads, calls, key>>, panicked' \subseteq Keys
    PROVE  IInv'
  <1> USE DEF Leader, Leading
  <1>1. key[p] \in Keys
    BY DEF IInv, Registered, Followers
  <1>2. TypeOK'
    BY <1>1, MadeIsPayload DEF IInv, TypeOK, Return, Goto
  <1>3. /\ pc'[p] = "idle" /\ ret'[p] = r
        /\ \A q \in Procs \ {p} : /\ pc'[q] = pc[q] /\ mine'[q] = mine[q]
                                  /\ ret'[q] = ret[q]
    BY DEF IInv, TypeOK, Return, Goto
  <1>4. Registered' /\ OneLeader' /\ Followers' /\ StoreSound'
    BY <1>3 DEF IInv, Registered, OneLeader, Followers, StoreSound
  <1>5. CallsSound'
    BY <1>3 DEF IInv, CallsSound
  <1>6. ReturnsOwnKey'
    BY <1>3 DEF IInv, ReturnsOwnKey
  <1>7. QED
    BY <1>2, <1>4, <1>5, <1>6 DEF IInv

\* A released follower returns the result of its call (l1.go:71-75).
LEMMA WakeInv == ASSUME IInv, NEW p \in Procs, Wake(p) PROVE IInv'
  <1>1. calls[mine[p]].res \in Made(key[p]) \cup {Err}
    BY DEF IInv, Followers, CallsSound, Wake, Released
  <1>2. panicked' \subseteq Keys
    BY DEF IInv, TypeOK, Wake
  <1>3. QED
    BY <1>1, <1>2, ReturnInv DEF Wake

\* The leader stores what it loaded (l1.go:85) under its own key.
LEMMA StoreInv == ASSUME IInv, NEW p \in Procs, Store(p) PROVE IInv'
  <1> USE DEF Leader, Leading
  <1>1. key[p] \in Keys /\ calls[mine[p]].res \in Made(key[p])
    BY DEF IInv, Registered, CallsSound, Store
  <1>2. rc' \in [Keys -> Payload \cup {None}] /\ StoreSound'
    BY <1>1, SetSound DEF Store
  <1>3. /\ pc' = [pc EXCEPT ![p] = "signal"]
        /\ UNCHANGED <<loads, calls, key, mine, ret, panicked>>
    BY DEF IInv, TypeOK, Store, Goto
  <1>4. TypeOK'
    BY <1>2, <1>3 DEF IInv, TypeOK
  <1>5. /\ pc'[p] = "signal"
        /\ \A q \in Procs \ {p} : pc'[q] = pc[q]
    BY <1>3 DEF IInv, TypeOK
  <1>6. Registered' /\ OneLeader' /\ Followers' /\ ReturnsOwnKey'
    BY <1>3, <1>5 DEF IInv, Registered, OneLeader, Followers, ReturnsOwnKey, Store
  <1>7. calls[mine[p]].res # None
    BY <1>1, ConstantsAssumption DEF Made
  <1>8. CallsSound'
    BY <1>3, <1>5, <1>7 DEF IInv, CallsSound
  <1>9. QED
    BY <1>2, <1>4, <1>6, <1>8 DEF IInv

\* The leader releases the followers (l1.go:87); the result is there by then.
LEMMA SignalInv == ASSUME IInv, NEW p \in Procs, Signal(p) PROVE IInv'
  <1> USE DEF Leader, Leading
  <1>1. key[p] \in Keys /\ mine[p] \in Calls /\ calls[mine[p]].res # None
    BY DEF IInv, Registered, CallsSound, Signal
  <1>2. /\ pc[p] = "signal" /\ pc'[p] = "cleanup"
        /\ \A q \in Procs \ {p} : pc'[q] = pc[q]
        /\ calls'[mine[p]].done
        /\ \A d \in Calls \ {mine[p]} : calls'[d] = calls[d]
        /\ UNCHANGED <<rc, loads, key, mine, ret>>
    BY <1>1 DEF IInv, TypeOK, Signal, Goto
  <1>3. TypeOK'
    BY <1>1 DEF IInv, TypeOK, Signal, Goto
  <1>4. \A d \in Calls : /\ calls'[d].key = calls[d].key /\ calls'[d].res = calls[d].res
                         /\ calls[d].done => calls'[d].done
                         /\ calls'[d].done => calls[d].done \/ d = mine[p]
    BY <1>1, <1>2 DEF IInv, TypeOK, Signal
  <1>5. Registered' /\ OneLeader' /\ Followers'
    BY <1>2, <1>4 DEF IInv, Registered, OneLeader, Followers
  <1>6. CallsSound'
    <2>1. \A k \in Keys : loads'[k] # None => calls'[loads'[k]].key = k
      BY <1>2, <1>4 DEF IInv, CallsSound, TypeOK
    <2>2. \A d \in Calls : /\ calls'[d].res \in Made(calls'[d].key) \cup {None, Err}
                           /\ calls'[d].done => calls'[d].res # None
      BY <1>1, <1>4 DEF IInv, CallsSound
    <2>3. \A q \in Procs : /\ pc'[q] = "store" => calls'[mine'[q]].res \in Made(key'[q])
                           /\ pc'[q] = "signal" => calls'[mine'[q]].res # None
                           /\ pc'[q] = "cleanup" => calls'[mine'[q]].done
      BY <1>2, <1>4 DEF IInv, CallsSound, Registered
    <2>4. QED
      BY <2>1, <2>2, <2>3 DEF CallsSound
  <1>7. StoreSound' /\ ReturnsOwnKey'
    BY <1>2 DEF IInv, StoreSound, ReturnsOwnKey
  <1>8. QED
    BY <1>3, <1>5, <1>6, <1>7 DEF IInv

\* The leader deletes its own entry (l1.go:89-96), not that of another load.
LEMMA CleanupInv == ASSUME IInv, NEW p \in Procs, Cleanup(p) PROVE IInv'
  <1> USE DEF Leader, Leading
  <1>1. /\ key[p] \in Keys /\ mine[p] \in Calls /\ pc[p] = "cleanup"
        /\ calls[mine[p]].res \in Made(key[p]) \cup {Err}
    BY DEF IInv, Registered, CallsSound, Cleanup
  <1>2. /\ pc'[p] = "idle" /\ ret'[p] = calls[mine[p]].res
        /\ \A q \in Procs \ {p} : /\ pc'[q] = pc[q] /\ mine'[q] = mine[q]
                                  /\ ret'[q] = ret[q]
        /\ loads'[key[p]] = None
        /\ \A k \in Keys \ {key[p]} : loads'[k] = loads[k]
        /\ UNCHANGED <<rc, calls, key>>
    BY <1>1 DEF IInv, TypeOK, Cleanup, Return, Goto, Forget
  <1>3. TypeOK'
    BY <1>1, MadeIsPayload DEF IInv, TypeOK, Cleanup, Return, Goto, Forget
  <1>4. \A q \in Procs \ {p} : Leader(q) => key[q] # key[p]
    BY <1>1, InvSingleFlight DEF SingleFlight
  <1>5. Registered' /\ OneLeader' /\ Followers' /\ StoreSound'
    BY <1>2, <1>4 DEF IInv, Registered, OneLeader, Followers, StoreSound
  <1>6. CallsSound'
    BY <1>2 DEF IInv, CallsSound
  <1>7. ReturnsOwnKey'
    BY <1>1, <1>2 DEF IInv, ReturnsOwnKey
  <1>8. QED
    BY <1>3, <1>5, <1>6, <1>7 DEF IInv

\* Every step of the cache and of its callers preserves the invariant.
LEMMA StepInv == IInv /\ [Next]_vars => IInv'
  <1> SUFFICES ASSUME IInv, [Next]_vars PROVE IInv'
    OBVIOUS
  <1>1. ASSUME NEW p \in Procs, Step(p) PROVE IInv'
    <2>1. CASE LoaderPanic(p)
      <3>1. panicked' \subseteq Keys
        BY <2>1 DEF LoaderPanic, IInv, TypeOK, Registered, Leader, Leading
      <3>2. QED
        BY <2>1, <3>1, ReturnInv DEF LoaderPanic
    <2>2. QED
      BY <1>1, <2>1, JoinInv, LeadInv, LoaderReturnsInv, StoreInv, SignalInv,
         CleanupInv, WakeInv DEF Step
  <1>2. CASE UNCHANGED vars
    BY <1>2 DEF vars, IInv, TypeOK, Registered, OneLeader, Followers, CallsSound,
                StoreSound, ReturnsOwnKey, Leader
  <1>3. QED
    BY <1>1, <1>2, GetOrSetInv, SetInv, EvictInv DEF Next

\* The inductive invariant holds throughout.
LEMMA InvHolds == Spec => []IInv
  BY InitInv, StepInv, PTL DEF Spec

\* However many goroutines and keys there are, the cache keeps its shape and
\* GetOrSet (l1.go:63-97) is always at one of its known points.
THEOREM TypeCorrect == Spec => []TypeOK
  BY InvHolds, PTL DEF IInv

\* However many goroutines and keys there are, and whether or not loaders
\* panic, at most one goroutine at a time runs the loader of a key.
THEOREM SingleFlightHolds == Spec => []SingleFlight
  BY InvHolds, InvSingleFlight, PTL

\* However many goroutines and keys there are, GetOrSet hands out a payload
\* of the key it was asked for, or the loader's failure.
THEOREM ReturnsOwnKeyHolds == Spec => []ReturnsOwnKey
  BY InvHolds, PTL DEF IInv

-----------------------------------------------------------------------------
(***************************************************************************)
(* Who is responsible for a call, and the promise of SharedLoad.           *)
(*                                                                         *)
(* A call that a follower waits for stays registered until it is released, *)
(* so the load a follower takes part in is the one that is open for its    *)
(* key; and what is registered has a leader unless a loader panicked.      *)
(***************************************************************************)

\* A call that has not been released is still the registered one.
WaitersRegistered ==
    \A p \in Procs : pc[p] = "waiting" /\ ~calls[mine[p]].done =>
        loads[key[p]] = mine[p]

\* Before the loader returns its call has no result; after it, it has one.
ResultsInTime ==
    \A p \in Procs : Leader(p) =>
        (pc[p] = "loading" <=> calls[mine[p]].res = None)

\* Only leaders and followers hold a call.
HoldsOnlyInside ==
    \A p \in Procs : pc[p] \in {"idle", "missed"} => mine[p] = None

Inv2 ==
    /\ IInv
    /\ WaitersRegistered
    /\ ResultsInTime
    /\ HoldsOnlyInside
    /\ LoadsOwned

\* Nobody holds a call when NewL1 (l1.go:29-42) returns.
LEMMA InitInv2 == Init => Inv2
  <1> SUFFICES ASSUME Init PROVE Inv2
    OBVIOUS
  <1>1. WaitersRegistered /\ ResultsInTime /\ HoldsOnlyInside /\ LoadsOwned
    BY DEF Init, WaitersRegistered, ResultsInTime, HoldsOnlyInside, LoadsOwned,
           Leader, Leading
  <1>2. QED
    BY <1>1, InitInv DEF Inv2

\* Responsibility for waiting follows from the bookkeeping: the leader of a call
\* that is not released has not reached its cleanup (l1.go:87-91).
LEMMA NobodyInVain == Inv2 => NobodyWaitsInVain
  <1> SUFFICES ASSUME Inv2, NEW p \in Procs, pc[p] = "waiting", key[p] \notin panicked,
                      ~calls[mine[p]].done
               PROVE  \E q \in Procs : pc[q] \in Leading \ {"cleanup"} /\ mine[q] = mine[p]
    BY DEF NobodyWaitsInVain
  <1>1. /\ key[p] \in Keys /\ loads[key[p]] = mine[p] /\ mine[p] \in Calls
    BY DEF Inv2, IInv, Followers, WaitersRegistered
  <1>2. PICK q \in Procs : Leader(q) /\ mine[q] = mine[p]
    BY <1>1, ConstantsAssumption DEF Inv2, LoadsOwned
  <1>3. pc[q] # "cleanup"
    BY <1>2 DEF Inv2, IInv, CallsSound
  <1>4. QED
    BY <1>2, <1>3 DEF Leader

\* Steps that change neither loads, calls nor who holds what: the lookup, Set,
\* eviction and the store (l1.go:53-66, 85).
LEMMA QuietInv2 ==
    ASSUME Inv2, IInv', UNCHANGED <<loads, calls, mine, panicked>>,
           NEW p \in Procs, \A q \in Procs \ {p} : pc'[q] = pc[q] /\ key'[q] = key[q],
           \/ pc[p] = "idle" /\ pc'[p] \in {"idle", "missed"}
           \/ pc[p] = "store" /\ pc'[p] = "signal" /\ key'[p] = key[p]
    PROVE  Inv2'
  <1> USE DEF Leader, Leading
  <1>1. WaitersRegistered' /\ ResultsInTime' /\ HoldsOnlyInside'
    BY DEF Inv2, WaitersRegistered, ResultsInTime, HoldsOnlyInside
  <1>2. LoadsOwned'
    <2> SUFFICES ASSUME NEW k \in Keys \ panicked, loads[k] # None
                 PROVE  \E q \in Procs : Leader(q)' /\ key'[q] = k /\ mine'[q] = loads[k]
      BY DEF LoadsOwned
    <2>1. PICK q \in Procs : Leader(q) /\ key[q] = k /\ mine[q] = loads[k]
      BY DEF Inv2, LoadsOwned
    <2>2. Leader(q)' /\ key'[q] = k /\ mine'[q] = loads[k]
      BY <2>1
    <2>3. QED
      BY <2>2
  <1>3. QED
    BY <1>1, <1>2 DEF Inv2

\* Joining a call (l1.go:69-71): it is the registered one.
LEMMA JoinInv2 == ASSUME Inv2, IInv', NEW p \in Procs, Join(p) PROVE Inv2'
  <1> USE DEF Leader, Leading
  <1>1. /\ pc[p] = "missed" /\ pc'[p] = "waiting" /\ mine'[p] = loads[key[p]]
        /\ \A q \in Procs \ {p} : pc'[q] = pc[q] /\ mine'[q] = mine[q]
        /\ UNCHANGED <<loads, calls, key, panicked>>
    BY DEF Inv2, IInv, TypeOK, Join, Goto
  <1>2. WaitersRegistered' /\ ResultsInTime' /\ HoldsOnlyInside'
    BY <1>1 DEF Inv2, WaitersRegistered, ResultsInTime, HoldsOnlyInside
  <1>3. LoadsOwned'
    <2> SUFFICES ASSUME NEW k \in Keys \ panicked, loads[k] # None
                 PROVE  \E q \in Procs : Leader(q)' /\ key'[q] = k /\ mine'[q] = loads[k]
      BY <1>1 DEF LoadsOwned
    <2>1. PICK q \in Procs : Leader(q) /\ key[q] = k /\ mine[q] = loads[k]
      BY DEF Inv2, LoadsOwned
    <2>2. QED
      BY <1>1, <2>1
  <1>4. QED
    BY <1>2, <1>3 DEF Inv2

\* Registering a load (l1.go:78-81): the leader owns the entry it adds, and the
\* call is nobody else's.
LEMMA LeadInv2 == ASSUME Inv2, IInv', NEW p \in Procs, Lead(p) PROVE Inv2'
  <1> USE DEF Leader, Leading
  <1>0. PICK c \in Calls :
          /\ Unreferenced(c)
          /\ calls' = [calls EXCEPT ![c] = [key |-> key[p], done |-> FALSE, res |-> None]]
          /\ loads' = [loads EXCEPT ![key[p]] = c]
          /\ mine' = [mine EXCEPT ![p] = c]
    BY DEF Lead
  <1>1. /\ pc[p] = "missed" /\ pc'[p] = "loading" /\ mine'[p] = c
        /\ key[p] \in Keys /\ loads[key[p]] = None /\ loads'[key[p]] = c
        /\ calls'[c].res = None
        /\ \A q \in Procs \ {p} : pc'[q] = pc[q] /\ mine'[q] = mine[q] /\ mine[q] # c
        /\ \A k \in Keys \ {key[p]} : loads'[k] = loads[k]
        /\ \A d \in Calls \ {c} : calls'[d] = calls[d]
        /\ UNCHANGED <<key, panicked>>
    BY <1>0 DEF Inv2, IInv, TypeOK, Lead, Goto, Unreferenced, Followers, InFlight
  <1>2. WaitersRegistered'
    <2> SUFFICES ASSUME NEW q \in Procs, pc'[q] = "waiting", ~calls'[mine'[q]].done
                 PROVE  loads'[key'[q]] = mine'[q]
      BY DEF WaitersRegistered
    <2>1. q # p /\ pc[q] = "waiting" /\ mine'[q] = mine[q] /\ mine[q] \in Calls \ {c}
          /\ key[q] \in Keys
      BY <1>1 DEF Inv2, IInv, Followers
    <2>2. loads[key[q]] = mine[q]
      BY <1>1, <2>1 DEF Inv2, WaitersRegistered
    <2>3. key[q] # key[p]
      BY <1>1, <2>1, <2>2, ConstantsAssumption
    <2>4. QED
      BY <1>1, <2>1, <2>2, <2>3
  <1>3. ResultsInTime'
    <2> SUFFICES ASSUME NEW q \in Procs, Leader(q)'
                 PROVE  pc'[q] = "loading" <=> calls'[mine'[q]].res = None
      BY DEF ResultsInTime
    <2>1. CASE q = p
      BY <2>1, <1>1
    <2>2. CASE q # p
      <3>1. Leader(q) /\ mine'[q] = mine[q] /\ mine[q] \in Calls \ {c} /\ pc'[q] = pc[q]
        BY <2>2, <1>1 DEF Inv2, IInv, Registered
      <3>2. QED
        BY <3>1, <1>1 DEF Inv2, ResultsInTime
    <2>3. QED
      BY <2>1, <2>2
  <1>4. HoldsOnlyInside'
    BY <1>1 DEF Inv2, HoldsOnlyInside
  <1>5. LoadsOwned'
    <2> SUFFICES ASSUME NEW k \in Keys \ panicked, loads'[k] # None
                 PROVE  \E q \in Procs : Leader(q)' /\ key'[q] = k /\ mine'[q] = loads'[k]
      BY <1>1 DEF LoadsOwned
    <2>1. CASE k = key[p]
      BY <2>1, <1>1
    <2>2. CASE k # key[p]
      <3>1. PICK q \in Procs : Leader(q) /\ key[q] = k /\ mine[q] = loads[k]
        BY <2>2, <1>1 DEF Inv2, LoadsOwned
      <3>2. QED
        BY <3>1, <2>2, <1>1
    <2>3. QED
      BY <2>1, <2>2
  <1>6. QED
    BY <1>2, <1>3, <1>4, <1>5 DEF Inv2

\* The loader's return and wg.Done (l1.go:83, 87) keep the leader where it is:
\* responsible for its entry.
LEMMA LeaderStaysInv2 ==
    ASSUME Inv2, IInv', NEW p \in Procs, Leader(p), Leader(p)',
           \A q \in Procs \ {p} : pc'[q] = pc[q],
           UNCHANGED <<loads, key, mine, panicked>>,
           \A d \in Calls : calls[d].done => calls'[d].done,
           \A d \in Calls \ {mine[p]} : calls'[d] = calls[d],
           pc'[p] = "loading" <=> calls'[mine[p]].res = None
    PROVE  Inv2'
  <1> USE DEF Leader, Leading
  <1>1. WaitersRegistered'
    <2> SUFFICES ASSUME NEW q \in Procs, pc'[q] = "waiting", ~calls'[mine'[q]].done
                 PROVE  loads'[key'[q]] = mine'[q]
      BY DEF WaitersRegistered
    <2>1. pc[q] = "waiting" /\ mine[q] \in Calls
      BY DEF Inv2, IInv, Followers
    <2>2. QED
      BY <2>1 DEF Inv2, WaitersRegistered
  <1>2. ResultsInTime'
    <2> SUFFICES ASSUME NEW q \in Procs, Leader(q)', q # p
                 PROVE  pc'[q] = "loading" <=> calls'[mine'[q]].res = None
      BY DEF ResultsInTime
    <2>1. Leader(q) /\ mine[q] \in Calls \ {mine[p]}
      BY DEF Inv2, IInv, OneLeader, Registered
    <2>2. QED
      BY <2>1 DEF Inv2, ResultsInTime
  <1>3. HoldsOnlyInside'
    BY DEF Inv2, HoldsOnlyInside
  <1>4. LoadsOwned'
    <2> SUFFICES ASSUME NEW k \in Keys \ panicked, loads[k] # None
                 PROVE  \E q \in Procs : Leader(q)' /\ key'[q] = k /\ mine'[q] = loads[k]
      BY DEF LoadsOwned
    <2>1. PICK q \in Procs : Leader(q) /\ key[q] = k /\ mine[q] = loads[k]
      BY DEF Inv2, LoadsOwned
    <2>2. QED
      BY <2>1
  <1>5. QED
    BY <1>1, <1>2, <1>3, <1>4 DEF Inv2

\* Leaving GetOrSet: a follower gives up nothing (l1.go:71-75), a leader whose
\* loader panicked leaves an entry that is its no more (l1.go:83).
LEMMA LeaveInv2 ==
    ASSUME Inv2, IInv', NEW p \in Procs, Wake(p) \/ LoaderPanic(p)
    PROVE  Inv2'
  <1> USE DEF Leader, Leading
  <1>1. /\ pc'[p] = "idle" /\ mine'[p] = None
        /\ \A q \in Procs \ {p} : pc'[q] = pc[q] /\ mine'[q] = mine[q]
        /\ UNCHANGED <<loads, calls, key>>
        /\ pc[p] = "loading" => panicked' = panicked \cup {key[p]}
        /\ pc[p] = "waiting" => panicked' = panicked
        /\ pc[p] \in {"loading", "waiting"}
    BY DEF Inv2, IInv, TypeOK, Wake, LoaderPanic, Return, Goto
  <1>2. WaitersRegistered' /\ ResultsInTime' /\ HoldsOnlyInside'
    BY <1>1 DEF Inv2, WaitersRegistered, ResultsInTime, HoldsOnlyInside
  <1>3. LoadsOwned'
    <2> SUFFICES ASSUME NEW k \in Keys \ panicked', loads[k] # None
                 PROVE  \E q \in Procs : Leader(q)' /\ key'[q] = k /\ mine'[q] = loads[k]
      BY <1>1 DEF LoadsOwned
    <2>1. k \notin panicked
      BY <1>1
    <2>2. PICK q \in Procs : Leader(q) /\ key[q] = k /\ mine[q] = loads[k]
      BY <2>1 DEF Inv2, LoadsOwned
    <2>3. q # p
      BY <1>1, <2>2
    <2>4. QED
      BY <1>1, <2>2, <2>3
  <1>4. QED
    BY <1>2, <1>3 DEF Inv2

\* The delete (l1.go:89-91) takes away the leader's own entry, for which nobody
\* waits any more.
LEMMA CleanupInv2 == ASSUME Inv2, IInv', NEW p \in Procs, Cleanup(p) PROVE Inv2'
  <1> USE DEF Leader, Leading
  <1>1. /\ pc[p] = "cleanup" /\ pc'[p] = "idle" /\ mine'[p] = None
        /\ key[p] \in Keys /\ loads[key[p]] = mine[p] /\ calls[mine[p]].done
        /\ \A q \in Procs \ {p} : pc'[q] = pc[q] /\ mine'[q] = mine[q]
        /\ loads'[key[p]] = None
        /\ \A k \in Keys \ {key[p]} : loads'[k] = loads[k]
        /\ UNCHANGED <<calls, key, panicked>>
    BY DEF Inv2, IInv, TypeOK, Cleanup, Return, Goto, Forget, Registered, CallsSound
  <1>2. WaitersRegistered'
    <2> SUFFICES ASSUME NEW q \in Procs, pc'[q] = "waiting", ~calls'[mine'[q]].done
                 PROVE  loads'[key'[q]] = mine'[q]
      BY DEF WaitersRegistered
    <2>1. q # p /\ pc[q] = "waiting" /\ mine'[q] = mine[q] /\ key[q] \in Keys
          /\ loads[key[q]] = mine[q]
      BY <1>1 DEF Inv2, IInv, Followers, WaitersRegistered
    <2>2. key[q] # key[p]
      BY <1>1, <2>1
    <2>3. QED
      BY <1>1, <2>1, <2>2
  <1>3. ResultsInTime' /\ HoldsOnlyInside'
    BY <1>1 DEF Inv2, ResultsInTime, HoldsOnlyInside
  <1>4. LoadsOwned'
    <2> SUFFICES ASSUME NEW k \in Keys \ panicked, loads'[k] # None
                 PROVE  \E q \in Procs : Leader(q)' /\ key'[q] = k /\ mine'[q] = loads'[k]
      BY <1>1 DEF LoadsOwned
    <2>1. k # key[p] /\ loads'[k] = loads[k]
      BY <1>1
    <2>2. PICK q \in Procs : Leader(q) /\ key[q] = k /\ mine[q] = loads[k]
      BY <2>1 DEF Inv2, LoadsOwned
    <2>3. QED
      BY <1>1, <2>1, <2>2
  <1>5. QED
    BY <1>2, <1>3, <1>4 DEF Inv2

\* Every step preserves who is responsible for what.
LEMMA StepInv2 == Inv2 /\ [Next]_vars => Inv2'
  <1> SUFFICES ASSUME Inv2, [Next]_vars PROVE Inv2'
    OBVIOUS
  <1> USE DEF Leader, Leading
  <1>0. IInv'
    BY StepInv DEF Inv2
  <1>1. ASSUME NEW p \in Procs, NEW k \in Keys, GetOrSet(p, k) PROVE Inv2'
    <2>1. /\ pc[p] = "idle" /\ pc'[p] \in {"idle", "missed"}
          /\ \A q \in Procs \ {p} : pc'[q] = pc[q] /\ key'[q] = key[q]
          /\ UNCHANGED <<loads, calls, panicked>>
          /\ mine' = mine
      BY <1>1 DEF GetOrSet, Return, Goto, Inv2, IInv, TypeOK, HoldsOnlyInside
    <2>2. QED
      BY <2>1, <1>0, QuietInv2
  <1>2. ASSUME NEW p \in Procs, NEW k \in Keys, NEW v \in Made(k), Set(p, k, v)
        PROVE  Inv2'
    BY <1>2, <1>0, QuietInv2 DEF Set
  <1>3. ASSUME NEW p \in Procs, Step(p) PROVE Inv2'
    <2>1. ASSUME Store(p) PROVE Inv2'
      <3>1. /\ pc[p] = "store" /\ pc'[p] = "signal"
            /\ \A q \in Procs \ {p} : pc'[q] = pc[q]
            /\ UNCHANGED <<loads, calls, mine, key, panicked>>
        BY <2>1 DEF Store, Goto, Inv2, IInv, TypeOK
      <3>2. QED
        BY <3>1, <1>0, QuietInv2
    <2>2. ASSUME NEW r \in Made(key[p]) \cup {Err}, LoaderReturns(p, r) PROVE Inv2'
      <3>1. /\ mine[p] \in Calls /\ key[p] \in Keys /\ r # None
        BY <2>2, ConstantsAssumption DEF LoaderReturns, Inv2, IInv, Registered, Made
      <3>2. /\ pc[p] = "loading" /\ pc'[p] \in {"signal", "store"}
            /\ \A q \in Procs \ {p} : pc'[q] = pc[q]
            /\ UNCHANGED <<loads, key, mine, panicked>>
            /\ \A d \in Calls : calls[d].done => calls'[d].done
            /\ \A d \in Calls \ {mine[p]} : calls'[d] = calls[d]
            /\ calls'[mine[p]].res = r
        BY <2>2, <3>1 DEF LoaderReturns, Goto, AfterLoad, Inv2, IInv, TypeOK
      <3>3. QED
        BY <3>1, <3>2, <1>0, LeaderStaysInv2
    <2>3. ASSUME Signal(p) PROVE Inv2'
      <3>1. /\ mine[p] \in Calls /\ calls[mine[p]].res # None
        BY <2>3 DEF Signal, Inv2, IInv, Registered, ResultsInTime
      <3>2. /\ pc[p] = "signal" /\ pc'[p] = "cleanup"
            /\ \A q \in Procs \ {p} : pc'[q] = pc[q]
            /\ UNCHANGED <<loads, key, mine, panicked>>
            /\ \A d \in Calls : calls[d].done => calls'[d].done
            /\ \A d \in Calls \ {mine[p]} : calls'[d] = calls[d]
            /\ calls'[mine[p]].res = calls[mine[p]].res
        BY <2>3, <3>1 DEF Signal, Goto, Inv2, IInv, TypeOK
      <3>3. QED
        BY <3>1, <3>2, <1>0, LeaderStaysInv2
    <2>4. QED
      BY <1>0, <1>3, <2>1, <2>2, <2>3, JoinInv2, LeadInv2, LeaveInv2, CleanupInv2 DEF Step
  <1>4. CASE UNCHANGED <<loads, calls, mine, pc, key, panicked>>
    BY <1>0, <1>4 DEF Inv2, WaitersRegistered, ResultsInTime, HoldsOnlyInside, LoadsOwned
  <1>5. QED
    BY <1>1, <1>2, <1>3, <1>4 DEF Next, Evict, vars

\* Who is responsible for what is known throughout.
LEMMA Inv2Holds == Spec => []Inv2
  BY InitInv2, StepInv2, PTL DEF Spec

\* However many goroutines and keys there are, an entry of loads whose loader has
\* not panicked has a leader that will delete it (l1.go:89-91).
THEOREM LoadsOwnedHolds == Spec => []LoadsOwned
  BY Inv2Holds, PTL DEF Inv2

\* However many goroutines and keys there are, and whatever panics on other keys,
\* a follower (l1.go:71) waits for a call that is released or will be.
THEOREM NobodyWaitsInVainHolds == Spec => []NobodyWaitsInVain
  BY Inv2Holds, NobodyInVain, PTL

-----------------------------------------------------------------------------
\* The values SharedLoad sees, one goroutine and one key at a time.
Role == [p \in Procs |-> RoleOf(p)]
IsOpen == [k \in Keys |-> loads[k] # None]
Result == [k \in Keys |-> ResultOf(loads[k])]
Outcome == [p \in Procs |-> ResultOf(mine[p])]

\* The fresh cache (l1.go:29-42) maps to a fresh contract.
LEMMA RefinesInit == Init => Promise!Init
  BY DEF Init, Promise!Init, RoleOf, ResultOf

\* What changes nothing that SharedLoad sees is a stuttering step of it: Set,
\* eviction, storing and wg.Done (l1.go:53-58, 85, 87).
LEMMA RefinesStutter ==
    ASSUME Role' = Role, IsOpen' = IsOpen, Result' = Result, Outcome' = Outcome,
           UNCHANGED <<key, ret>>
    PROVE  UNCHANGED Promise!vars
  BY DEF Role, IsOpen, Result, Outcome, Promise!vars

\* The lookup (l1.go:64-66) answers with a stored payload, or asks.
LEMMA RefinesGetOrSet ==
    ASSUME Inv2, NEW p \in Procs, NEW k \in Keys, GetOrSet(p, k)
    PROVE  Promise!Hit(p, k) \/ Promise!Begin(p, k, "asked")
  <1>1. Role = [q \in Procs |-> RoleOf(q)] /\ RoleOf(p) = "idle" /\ mine[p] = None
    BY DEF Role, RoleOf, GetOrSet, Inv2, HoldsOnlyInside
  <1>2. CASE rc[k] # None
    <2>1. rc[k] \in {k} \X Vals
      BY <1>2 DEF Inv2, IInv, StoreSound, Made
    <2>2. /\ pc' = [pc EXCEPT ![p] = "idle"] /\ ret' = [ret EXCEPT ![p] = rc[k]]
          /\ mine' = [mine EXCEPT ![p] = None] /\ key' = [key EXCEPT ![p] = k]
          /\ UNCHANGED <<loads, calls>>
      BY <1>2 DEF GetOrSet, Return, Goto
    <2>3. Promise!Answer(p, rc[k])
      BY <1>1, <2>2 DEF Promise!Answer, RoleOf, ResultOf, Inv2, IInv, TypeOK
    <2>4. \E r \in Promise!Stored(k) : Promise!Answer(p, r)
      <3>1. rc[k] \in Promise!Stored(k)
        BY <2>1 DEF Promise!Stored
      <3>2. QED
        BY <2>3, <3>1, Zenon
    <2>5. QED
      BY <1>1, <2>2, <2>4 DEF Promise!Hit, ResultOf
  <1>3. CASE rc[k] = None
    <2>1. /\ pc' = [pc EXCEPT ![p] = "missed"] /\ ret' = [ret EXCEPT ![p] = None]
          /\ key' = [key EXCEPT ![p] = k]
          /\ UNCHANGED <<loads, calls, mine>>
      BY <1>3 DEF GetOrSet, Goto
    <2>2. Promise!Begin(p, k, "asked")
      BY <1>1, <2>1 DEF Promise!Begin, RoleOf, ResultOf, Inv2, IInv, TypeOK
    <2>3. QED
      BY <2>2
  <1>4. QED
    BY <1>2, <1>3

\* Joining (l1.go:69-71) is joining the open load, finished or not.
LEMMA RefinesJoin == ASSUME Inv2, NEW p \in Procs, Join(p) PROVE Promise!Join(p)
  <1>1. /\ pc[p] = "missed" /\ key[p] \in Keys /\ loads[key[p]] # None
        /\ pc' = [pc EXCEPT ![p] = "waiting"]
        /\ mine' = [mine EXCEPT ![p] = loads[key[p]]]
        /\ UNCHANGED <<loads, calls, key, ret>>
    BY DEF Inv2, IInv, Followers, Join, InFlight, Goto
  <1>2. QED
    BY <1>1 DEF Promise!Join, RoleOf, ResultOf, Inv2, IInv, TypeOK

\* Registering a call (l1.go:78-81) opens a load nobody has a result of.
LEMMA RefinesLead == ASSUME Inv2, NEW p \in Procs, Lead(p) PROVE Promise!Lead(p)
  <1>0. PICK c \in Calls :
          /\ Unreferenced(c)
          /\ calls' = [calls EXCEPT ![c] = [key |-> key[p], done |-> FALSE, res |-> None]]
          /\ loads' = [loads EXCEPT ![key[p]] = c]
          /\ mine' = [mine EXCEPT ![p] = c]
    BY DEF Lead
  <1>1. /\ pc[p] = "missed" /\ key[p] \in Keys /\ loads[key[p]] = None
        /\ mine[p] = None /\ c # None
        /\ pc' = [pc EXCEPT ![p] = "loading"]
        /\ UNCHANGED <<key, ret>>
    BY ConstantsAssumption DEF Inv2, IInv, Followers, Lead, InFlight, Goto, HoldsOnlyInside
  <1>2. \A d \in Calls \ {c} : calls'[d] = calls[d]
    BY <1>0 DEF Inv2, IInv, TypeOK
  <1>3. calls'[c].res = None
    BY <1>0 DEF Inv2, IInv, TypeOK
  <1>4. Outcome' = Outcome
    <2>1. \A q \in Procs : ResultOf(mine[q])' = ResultOf(mine[q])
      BY <1>0, <1>1, <1>2, <1>3 DEF ResultOf, Unreferenced, Inv2, IInv, TypeOK
    <2>2. QED
      BY <2>1 DEF Outcome
  <1>5. Result' = Result
    <2>1. \A k \in Keys : ResultOf(loads[k])' = ResultOf(loads[k])
      BY <1>0, <1>1, <1>2, <1>3 DEF ResultOf, Unreferenced, Inv2, IInv, TypeOK
    <2>2. QED
      BY <2>1 DEF Result
  <1>6. Role' = [Role EXCEPT ![p] = "leading"] /\ RoleOf(p) = "asked"
    BY <1>1 DEF Role, RoleOf, Inv2, IInv, TypeOK
  <1>7. IsOpen' = [IsOpen EXCEPT ![key[p]] = TRUE] /\ ~IsOpen[key[p]]
    BY <1>0, <1>1 DEF IsOpen, Inv2, IInv, TypeOK
  <1>8. QED
    BY <1>1, <1>4, <1>5, <1>6, <1>7 DEF Promise!Lead, Role, IsOpen, Result, Outcome

\* The loader's return (l1.go:83) decides for the leader and for everybody who
\* waits for the call, and for nobody who waits for an earlier one.
LEMMA RefinesFinish ==
    ASSUME Inv2, NEW p \in Procs, NEW r \in Made(key[p]) \cup {Err}, LoaderReturns(p, r)
    PROVE  Promise!Finish(p, r)
  <1> DEFINE Decided(q) == Promise!TakesPart(q) /\ key[q] = key[p] /\ ResultOf(mine[q]) = None
  <1>1. /\ pc[p] = "loading" /\ key[p] \in Keys /\ mine[p] \in Calls /\ mine[p] # None
        /\ loads[key[p]] = mine[p] /\ calls[mine[p]].res = None
        /\ calls' = [calls EXCEPT ![mine[p]].res = r]
        /\ pc' = [pc EXCEPT ![p] = AfterLoad(r)]
        /\ UNCHANGED <<loads, key, mine, ret>>
    BY ConstantsAssumption DEF LoaderReturns, Goto, Inv2, IInv, Registered, ResultsInTime,
                               Leader, Leading
  <1>2. /\ calls'[mine[p]].res = r
        /\ \A d \in Calls \ {mine[p]} : calls'[d] = calls[d]
    BY <1>1 DEF Inv2, IInv, TypeOK
  <1>3. Role' = Role /\ RoleOf(p) = "leading"
    BY <1>1 DEF Role, RoleOf, AfterLoad, Inv2, IInv, TypeOK
  <1>4. Result' = [Result EXCEPT ![key[p]] = r]
    <2>1. \A k \in Keys \ {key[p]} : loads[k] # mine[p]
      BY <1>1 DEF Inv2, IInv, CallsSound
    <2>2. \A k \in Keys : loads[k] \in Calls \cup {None}
      BY DEF Inv2, IInv, TypeOK
    <2>3. \A k \in Keys : ResultOf(loads[k])' = IF k = key[p] THEN r ELSE ResultOf(loads[k])
      BY <1>1, <1>2, <2>1, <2>2 DEF ResultOf
    <2>4. QED
      BY <1>1, <2>3 DEF Result
  <1>5. \A q \in Procs : Decided(q) <=> mine[q] = mine[p]
    <2> TAKE q \in Procs
    <2>1. ASSUME Decided(q) PROVE mine[q] = mine[p]
      <3>1. CASE Leader(q)
        BY <1>1, <2>1, <3>1 DEF Inv2, IInv, Registered
      <3>2. CASE pc[q] = "waiting"
        <4>1. mine[q] \in Calls /\ mine[q] # None /\ calls[mine[q]].res = None
          BY <2>1, <3>2, ConstantsAssumption DEF Inv2, IInv, Followers, ResultOf
        <4>2. ~calls[mine[q]].done
          BY <4>1 DEF Inv2, IInv, CallsSound
        <4>3. QED
          BY <1>1, <2>1, <3>2, <4>2 DEF Inv2, WaitersRegistered
      <3>3. QED
        BY <2>1, <3>1, <3>2 DEF Promise!TakesPart, RoleOf, Leader, Leading, Inv2, IInv, TypeOK
    <2>2. ASSUME mine[q] = mine[p] PROVE Decided(q)
      <3>1. pc[q] \notin {"idle", "missed"}
        BY <2>2, <1>1 DEF Inv2, HoldsOnlyInside
      <3>2. key[q] = key[p]
        BY <2>2, <1>1, <3>1 DEF Inv2, IInv, Registered, Followers, Leader, Leading, TypeOK
      <3>3. QED
        BY <1>1, <2>2, <3>1, <3>2 DEF Promise!TakesPart, RoleOf, ResultOf, Inv2, IInv, TypeOK
    <2>3. QED
      BY <2>1, <2>2
  <1>6. Outcome' = [q \in Procs |-> IF Decided(q) THEN r ELSE Outcome[q]]
    <2>1. \A q \in Procs : mine[q] \in Calls \cup {None}
      BY DEF Inv2, IInv, TypeOK
    <2>2. \A q \in Procs : ResultOf(mine[q])' = IF mine[q] = mine[p] THEN r ELSE ResultOf(mine[q])
      BY <1>1, <1>2, <2>1 DEF ResultOf
    <2>3. QED
      BY <1>5, <2>2 DEF Outcome
  <1>7. QED
    BY <1>1, <1>3, <1>4, <1>6
    DEF Promise!Finish, Promise!TakesPart, Role, IsOpen, Result, Outcome, ResultOf

\* The delete (l1.go:89-96) closes the load.
LEMMA RefinesCleanup == ASSUME Inv2, NEW p \in Procs, Cleanup(p) PROVE Promise!Close(p)
  <1>1. /\ pc[p] = "cleanup" /\ key[p] \in Keys /\ mine[p] \in Calls /\ mine[p] # None
        /\ calls[mine[p]].res # None
        /\ pc' = [pc EXCEPT ![p] = "idle"]
        /\ mine' = [mine EXCEPT ![p] = None]
        /\ ret' = [ret EXCEPT ![p] = calls[mine[p]].res]
        /\ loads' = [loads EXCEPT ![key[p]] = None]
        /\ UNCHANGED <<calls, key>>
    BY ConstantsAssumption DEF Cleanup, Forget, Return, Goto, Inv2, IInv, Registered,
                               ResultsInTime, Leader, Leading
  <1>2. Promise!Answer(p, ResultOf(mine[p]))
    BY <1>1 DEF Promise!Answer, RoleOf, ResultOf, Inv2, IInv, TypeOK
  <1>3. IsOpen' = [IsOpen EXCEPT ![key[p]] = FALSE]
    BY <1>1 DEF IsOpen, Inv2, IInv, TypeOK
  <1>4. Result' = [Result EXCEPT ![key[p]] = None]
    BY <1>1 DEF Result, ResultOf, Inv2, IInv, TypeOK
  <1>5. RoleOf(p) = "leading" /\ ResultOf(mine[p]) # None
    BY <1>1 DEF RoleOf, ResultOf
  <1>6. QED
    BY <1>1, <1>2, <1>3, <1>4, <1>5 DEF Promise!Close, IsOpen, Result

\* A released follower (l1.go:71-75) has the outcome of its load.
LEMMA RefinesWake == ASSUME Inv2, NEW p \in Procs, Wake(p) PROVE Promise!Follow(p)
  <1>1. /\ pc[p] = "waiting" /\ mine[p] \in Calls /\ mine[p] # None
        /\ calls[mine[p]].res # None
        /\ pc' = [pc EXCEPT ![p] = "idle"]
        /\ mine' = [mine EXCEPT ![p] = None]
        /\ ret' = [ret EXCEPT ![p] = calls[mine[p]].res]
        /\ UNCHANGED <<loads, calls, key>>
    BY ConstantsAssumption DEF Wake, Released, Return, Goto, Inv2, IInv, Followers, CallsSound
  <1>2. Promise!Answer(p, ResultOf(mine[p]))
    BY <1>1 DEF Promise!Answer, RoleOf, ResultOf, Inv2, IInv, TypeOK
  <1>3. RoleOf(p) = "following" /\ ResultOf(mine[p]) # None
    BY <1>1 DEF RoleOf, ResultOf
  <1>4. Result' = Result /\ IsOpen' = IsOpen
    BY <1>1 DEF Result, IsOpen, ResultOf
  <1>5. QED
    BY <1>1, <1>2, <1>3, <1>4 DEF Promise!Follow, Result, IsOpen

\* A panic of the loader (l1.go:83) leaves the load open.
LEMMA RefinesPanic == ASSUME Inv2, NEW p \in Procs, LoaderPanic(p) PROVE Promise!Abandon(p)
  <1>1. /\ pc[p] = "loading" /\ mine[p] \in Calls
        /\ calls[mine[p]].res = None
        /\ pc' = [pc EXCEPT ![p] = "idle"]
        /\ mine' = [mine EXCEPT ![p] = None]
        /\ ret' = [ret EXCEPT ![p] = Panic]
        /\ UNCHANGED <<loads, calls, key>>
    BY DEF LoaderPanic, Return, Goto, Inv2, IInv, Registered, ResultsInTime, Leader, Leading
  <1>2. Promise!Answer(p, Panic)
    BY <1>1 DEF Promise!Answer, RoleOf, ResultOf, Inv2, IInv, TypeOK
  <1>3. RoleOf(p) = "leading" /\ ResultOf(mine[p]) = None
    BY <1>1 DEF RoleOf, ResultOf
  <1>4. QED
    BY <1>1, <1>2, <1>3 DEF Promise!Abandon, ResultOf

\* Every step of the cache is a step of the contract, or invisible to it.
LEMMA RefinesNext == Inv2 /\ [Next]_vars => [Promise!Next]_(Promise!vars)
  <1> SUFFICES ASSUME Inv2, [Next]_vars PROVE Promise!Next \/ UNCHANGED Promise!vars
    OBVIOUS
  <1>1. ASSUME NEW p \in Procs, NEW k \in Keys, GetOrSet(p, k) PROVE Promise!Next
    BY <1>1, RefinesGetOrSet DEF Promise!Next
  <1>2. CASE UNCHANGED <<loads, calls, pc, key, mine, ret>>
    BY <1>2, RefinesStutter DEF Role, IsOpen, Result, Outcome, RoleOf, ResultOf
  <1>3. ASSUME NEW p \in Procs, Step(p) PROVE Promise!Next \/ UNCHANGED Promise!vars
    <2>1. CASE Join(p)
      BY <2>1, RefinesJoin DEF Promise!Next
    <2>2. CASE Lead(p)
      BY <2>2, RefinesLead DEF Promise!Next
    <2>3. ASSUME NEW r \in Made(key[p]) \cup {Err}, LoaderReturns(p, r) PROVE Promise!Next
      BY <2>3, RefinesFinish DEF Promise!Next, Promise!Stored, Made
    <2>4. CASE LoaderPanic(p)
      BY <2>4, RefinesPanic DEF Promise!Next
    <2>5. CASE Store(p)
      <3>1. Role' = Role
        BY <2>5 DEF Store, Goto, Role, RoleOf, Inv2, IInv, TypeOK
      <3>2. QED
        BY <2>5, <3>1, RefinesStutter DEF Store, IsOpen, Result, Outcome, ResultOf
    <2>6. CASE Signal(p)
      <3>1. Role' = Role
        BY <2>6 DEF Signal, Goto, Role, RoleOf, Inv2, IInv, TypeOK
      <3>2. mine[p] \in Calls
        BY <2>6 DEF Signal, Inv2, IInv, Registered, Leader, Leading
      <3>3. \A d \in Calls : calls'[d].res = calls[d].res
        BY <2>6, <3>2 DEF Signal, Inv2, IInv, TypeOK
      <3>4. Result' = Result /\ Outcome' = Outcome
        BY <2>6, <3>3 DEF Signal, Result, Outcome, ResultOf, Inv2, IInv, TypeOK
      <3>5. QED
        BY <2>6, <3>1, <3>4, RefinesStutter DEF Signal, IsOpen
    <2>7. CASE Cleanup(p)
      BY <2>7, RefinesCleanup DEF Promise!Next
    <2>8. CASE Wake(p)
      BY <2>8, RefinesWake DEF Promise!Next
    <2>9. QED
      BY <1>3, <2>1, <2>2, <2>3, <2>4, <2>5, <2>6, <2>7, <2>8 DEF Step
  <1>4. QED
    BY <1>1, <1>2, <1>3 DEF Next, Evict, Set, vars

\* However many goroutines and keys there are, and with panicking loaders, L1
\* (l1.go:63-97) keeps the promise of GetOrSet (cache.go:19-21).
THEOREM L1KeepsPromise == Spec => KeepsPromise
  BY RefinesInit, RefinesNext, Inv2Holds, PTL DEF Spec, KeepsPromise, Promise!Spec

=============================================================================
