------------------------------ MODULE KeyLock ------------------------------
(***************************************************************************)
(* CommonMap.LockKey / UnLockKey / IsLock (goutil): a lock per string key, *)
(* kept in the map that also holds the "_lock_" flag of the key.           *)
(*                                                                         *)
(* The map's own RWMutex is held for the whole of UnLockKey and IsLock and *)
(* for all of LockKey but the wait on the mutex of the key: each of those  *)
(* stretches is one action, and the wait is an action of its own.          *)
(***************************************************************************)
EXTENDS FiniteSets

CONSTANTS
    Procs,      \* goroutines that call LockKey ... UnLockKey
    Keys,       \* lock keys: a file path, "AutoRepair", ...
    Mutexes,    \* heap addresses a *sync.Mutex can have
    NoMutex,    \* nil
    NoKey       \* not a key: the process is outside LockKey ... UnLockKey

ASSUME NoMutexAssumption == NoMutex \notin Mutexes
ASSUME NoKeyAssumption == NoKey \notin Keys

VARIABLES
    slot,       \* slot[k]: the *sync.Mutex stored under k, or NoMutex
    flag,       \* flag[k]: the key k+"_lock_" is in the map
    locked,     \* the mutexes that are locked
    pc,         \* pc[p]: "idle", "wait" (in mutex.Lock()), "crit" (LockKey returned)
    key,        \* key[p]: the key of p's current call, or NoKey
    mtx,        \* mtx[p]: the mutex p waits for, or was given
    handoff     \* history: an UnLockKey(k) ran while another call waited for k

vars == <<slot, flag, locked, pc, key, mtx, handoff>>

-----------------------------------------------------------------------------

Init ==
    /\ slot = [k \in Keys |-> NoMutex]
    /\ flag = [k \in Keys |-> FALSE]
    /\ locked = {}
    /\ pc = [p \in Procs |-> "idle"]
    /\ key = [p \in Procs |-> NoKey]
    /\ mtx = [p \in Procs |-> NoMutex]
    /\ handoff = [k \in Keys |-> FALSE]

\* A mutex is garbage when neither the map nor a running call refers to it.
Live(m) ==
    \/ \E k \in Keys : slot[k] = m
    \/ \E p \in Procs : mtx[p] = m

-----------------------------------------------------------------------------
\* Mutated forms of the actions below; each breaks a property of a run.

\* The mutex is stored but locked only by the next caller.
LockNewUnlocked(p, k) ==
    /\ pc[p] = "idle"
    /\ slot[k] = NoMutex
    /\ \E m \in Mutexes :
         /\ ~Live(m)
         /\ slot' = [slot EXCEPT ![k] = m]
         /\ mtx' = [mtx EXCEPT ![p] = m]
    /\ flag' = [flag EXCEPT ![k] = TRUE]
    /\ pc' = [pc EXCEPT ![p] = "crit"]
    /\ key' = [key EXCEPT ![p] = k]
    /\ UNCHANGED <<locked, handoff>>

\* UnLockKey with its parts as parameters: the mutex unlocked and what the
\* map holds under the key afterwards.
UnLockKeyWith(p, unlocked, after) ==
    LET k == key[p] IN
    /\ pc[p] = "crit"
    /\ locked' = locked \ unlocked
    /\ slot' = [slot EXCEPT ![k] = after]
    /\ flag' = IF slot[k] = NoMutex THEN flag ELSE [flag EXCEPT ![k] = FALSE]
    /\ pc' = [pc EXCEPT ![p] = "idle"]
    /\ handoff' = [handoff EXCEPT ![k] =
                     \/ @
                     \/ \E q \in Procs \ {p} : pc[q] = "wait" /\ key[q] = k]
    /\ key' = [key EXCEPT ![p] = NoKey]
    /\ mtx' = [mtx EXCEPT ![p] = NoMutex]

\* delete(s.m, k) forgotten / the call's own mutex unlocked.
UnLockKeyKept(p)   == UnLockKeyWith(p, {slot[key[p]]}, slot[key[p]])
UnLockKeyOwn(p)    == UnLockKeyWith(p, {mtx[p]}, NoMutex)

\* The wait polls IsLock, so a waiter can be passed over again and again.
AcquirePolled(p) ==
    /\ pc[p] = "wait"
    /\ ~flag[key[p]]
    /\ mtx[p] \notin locked
    /\ locked' = locked \cup {mtx[p]}
    /\ pc' = [pc EXCEPT ![p] = "crit"]
    /\ UNCHANGED <<slot, flag, key, mtx, handoff>>

-----------------------------------------------------------------------------
\* LockKey(k), key absent: store a new mutex and lock it before s.Unlock().
LockNew(p, k) ==
    /\ pc[p] = "idle"
    /\ slot[k] = NoMutex
    /\ \E m \in Mutexes :
         /\ ~Live(m)
         /\ slot' = [slot EXCEPT ![k] = m]
         /\ locked' = locked \cup {m}
         /\ mtx' = [mtx EXCEPT ![p] = m]
    /\ flag' = [flag EXCEPT ![k] = TRUE]
    /\ pc' = [pc EXCEPT ![p] = "crit"]
    /\ key' = [key EXCEPT ![p] = k]
    /\ UNCHANGED handoff

\* LockKey(k), key present: keep its mutex, leave the map, wait for it.
LockFound(p, k) ==
    /\ pc[p] = "idle"
    /\ slot[k] # NoMutex
    /\ flag' = [flag EXCEPT ![k] = TRUE]
    /\ pc' = [pc EXCEPT ![p] = "wait"]
    /\ key' = [key EXCEPT ![p] = k]
    /\ mtx' = [mtx EXCEPT ![p] = slot[k]]
    /\ UNCHANGED <<slot, locked, handoff>>

\* mutex.Lock() returns: nobody holds the mutex this call kept.
Acquire(p) ==
    /\ pc[p] = "wait"
    /\ mtx[p] \notin locked
    /\ locked' = locked \cup {mtx[p]}
    /\ pc' = [pc EXCEPT ![p] = "crit"]
    /\ UNCHANGED <<slot, flag, key, mtx, handoff>>

\* UnLockKey(k): unlock the mutex the MAP holds now, which need not be the one
\* this call was given, and delete both entries; nothing if the key is gone.
UnLockKey(p) ==
    LET k == key[p] IN
    /\ pc[p] = "crit"
    /\ locked' = locked \ {slot[k]}
    /\ slot' = [slot EXCEPT ![k] = NoMutex]
    /\ flag' = IF slot[k] = NoMutex THEN flag ELSE [flag EXCEPT ![k] = FALSE]
    /\ pc' = [pc EXCEPT ![p] = "idle"]
    /\ handoff' = [handoff EXCEPT ![k] =
                     \/ @
                     \/ \E q \in Procs \ {p} : pc[q] = "wait" /\ key[q] = k]
    /\ key' = [key EXCEPT ![p] = NoKey]
    /\ mtx' = [mtx EXCEPT ![p] = NoMutex]

Next ==
    \E p \in Procs :
        \/ \E k \in Keys : LockNew(p, k) \/ LockFound(p, k)
        \/ Acquire(p)
        \/ UnLockKey(p)

Spec == Init /\ [][Next]_vars

\* Every critical section in src/server ends (UnLockKey is deferred) and
\* sync.Mutex hands a free mutex to a waiter (starvation mode).
Fairness ==
    \A p \in Procs : WF_vars(Acquire(p)) /\ WF_vars(UnLockKey(p))

FairSpec == Spec /\ Fairness

-----------------------------------------------------------------------------

\* IsLock(k), as AutoRepair and RepairFileInfoFromFile ask it.
IsLock(k) == flag[k]

Holds(p, k) == pc[p] = "crit" /\ key[p] = k

TypeOK ==
    /\ slot \in [Keys -> Mutexes \cup {NoMutex}]
    /\ flag \in [Keys -> BOOLEAN]
    /\ locked \subseteq Mutexes
    /\ pc \in [Procs -> {"idle", "wait", "crit"}]
    /\ key \in [Procs -> Keys \cup {NoKey}]
    /\ mtx \in [Procs -> Mutexes \cup {NoMutex}]
    /\ handoff \in [Keys -> BOOLEAN]

\* The mutex stored in the map is locked and stored under one key only: the
\* Unlock() in UnLockKey never meets an unlocked mutex, which would be a fatal
\* error of the Go runtime that no recover() catches.
NoFatalUnlock ==
    \A k \in Keys : slot[k] # NoMutex =>
        /\ slot[k] \in locked
        /\ \A j \in Keys \ {k} : slot[j] # slot[k]

\* LockKey is a lock, and IsLock tells whether it is taken, for as long as no
\* UnLockKey of the key ran while another call was waiting for it.
ExclusiveUntilHandoff ==
    \A k \in Keys : ~handoff[k] =>
        /\ \A p, q \in Procs : Holds(p, k) /\ Holds(q, k) => p = q
        /\ IsLock(k) <=> \E p \in Procs : Holds(p, k)

\* A call is stranded when the mutex it waits for is locked and no longer in
\* the map: UnLockKey only unlocks mutexes it finds in the map.
Stranded(p) ==
    /\ pc[p] = "wait"
    /\ mtx[p] \in locked
    /\ \A k \in Keys : slot[k] # mtx[p]

\* A stranded LockKey never returns, whatever the other calls do: the
\* goroutine, and the request it serves, are lost until the process ends.
StrandedForever ==
    [][\A p \in Procs : Stranded(p) => Stranded(p)']_vars

\* Every LockKey returns, unless it is stranded: what its caller waits for is
\* never merely taken away again and again by others.
EveryCallReturns ==
    \A p \in Procs : pc[p] = "wait" ~> pc[p] = "crit" \/ Stranded(p)
=============================================================================
