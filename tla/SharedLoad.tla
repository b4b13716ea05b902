----------------------------- MODULE SharedLoad -----------------------------
(***************************************************************************)
(* What Get and GetOrSet promise their callers (cache/cache.go), whatever  *)
(* the layers underneath: a call is answered with a stored payload of its  *)
(* key, or, for GetOrSet, with the outcome of a load of its key.  At most  *)
(* one load of a key is open at a time; whoever asks meanwhile may join    *)
(* it, and everybody who takes part gets the outcome its leader got.       *)
(*                                                                         *)
(* A load whose leader panics is never finished.  It stays open: the code  *)
(* does not take it back, and this specification records that.             *)
(*                                                                         *)
(* There are no stores here.  L1Cache and TieredCache implement this       *)
(* module; how long values are kept, and where, is theirs.                 *)
(***************************************************************************)
CONSTANTS Procs, Keys, Vals, None, Miss, Err, Panic

VARIABLES
    role,      \* idle, looking, asked, leading or following
    want,      \* the key of the latest call
    open,      \* open[k]: a load of k is registered
    result,    \* result[k]: how the open load of k came out, None before
    outcome,   \* outcome[p]: how the load p takes part in came out
    answer     \* what the latest call of p returned

vars == <<role, want, open, result, outcome, answer>>

Stored(k) == {k} \X Vals

Init ==
    /\ role = [p \in Procs |-> "idle"]
    /\ want = [p \in Procs |-> None]
    /\ open = [k \in Keys |-> FALSE]
    /\ result = [k \in Keys |-> None]
    /\ outcome = [p \in Procs |-> None]
    /\ answer = [p \in Procs |-> None]

TakesPart(p) == role[p] \in {"leading", "following"}

Answer(p, r) ==
    /\ role' = [role EXCEPT ![p] = "idle"]
    /\ outcome' = [outcome EXCEPT ![p] = None]
    /\ answer' = [answer EXCEPT ![p] = r]

\* A call finds a stored payload at once.
Hit(p, k) ==
    /\ role[p] = "idle"
    /\ want' = [want EXCEPT ![p] = k]
    /\ \E r \in Stored(k) : Answer(p, r)
    /\ UNCHANGED <<open, result>>

\* Get ("looking") or GetOrSet ("asked") is called and finds nothing at once.
Begin(p, k, as) ==
    /\ role[p] = "idle"
    /\ role' = [role EXCEPT ![p] = as]
    /\ want' = [want EXCEPT ![p] = k]
    /\ answer' = [answer EXCEPT ![p] = None]
    /\ UNCHANGED <<open, result, outcome>>

\* It finds something after all, in a slower layer.
Find(p) ==
    /\ role[p] \in {"looking", "asked"}
    /\ \E r \in Stored(want[p]) : Answer(p, r)
    /\ UNCHANGED <<want, open, result>>

\* Only a Get may come back empty-handed.
NotFound(p) ==
    /\ role[p] = "looking"
    /\ Answer(p, Miss)
    /\ UNCHANGED <<want, open, result>>

Lead(p) ==
    /\ role[p] = "asked" /\ ~open[want[p]]
    /\ role' = [role EXCEPT ![p] = "leading"]
    /\ open' = [open EXCEPT ![want[p]] = TRUE]
    /\ UNCHANGED <<want, result, outcome, answer>>

\* Joining a load that has come out already is joining all the same.
Join(p) ==
    /\ role[p] = "asked" /\ open[want[p]]
    /\ role' = [role EXCEPT ![p] = "following"]
    /\ outcome' = [outcome EXCEPT ![p] = result[want[p]]]
    /\ UNCHANGED <<want, open, result, answer>>

\* The loader returns: that is the outcome for everybody taking part.
Finish(p, r) ==
    /\ role[p] = "leading" /\ outcome[p] = None
    /\ result' = [result EXCEPT ![want[p]] = r]
    /\ outcome' = [q \in Procs |->
                     IF TakesPart(q) /\ want[q] = want[p] /\ outcome[q] = None
                     THEN r ELSE outcome[q]]
    /\ UNCHANGED <<role, want, open, answer>>

\* The leader closes the load and returns.
Close(p) ==
    /\ role[p] = "leading" /\ outcome[p] # None
    /\ open' = [open EXCEPT ![want[p]] = FALSE]
    /\ result' = [result EXCEPT ![want[p]] = None]
    /\ Answer(p, outcome[p])
    /\ UNCHANGED want

\* A follower returns, before or after its leader does.
Follow(p) ==
    /\ role[p] = "following" /\ outcome[p] # None
    /\ Answer(p, outcome[p])
    /\ UNCHANGED <<want, open, result>>

\* The loader panics through the leader; the load stays open for good.
Abandon(p) ==
    /\ role[p] = "leading" /\ outcome[p] = None
    /\ Answer(p, Panic)
    /\ UNCHANGED <<want, open, result>>

Next ==
    \E p \in Procs :
        \/ \E k \in Keys : Hit(p, k) \/ Begin(p, k, "looking") \/ Begin(p, k, "asked")
        \/ Find(p) \/ NotFound(p) \/ Lead(p) \/ Join(p)
        \/ \E r \in Stored(want[p]) \cup {Err} : Finish(p, r)
        \/ Close(p) \/ Follow(p) \/ Abandon(p)

Spec == Init /\ [][Next]_vars

=============================================================================
