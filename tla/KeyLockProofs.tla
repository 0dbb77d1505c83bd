--------------------------- MODULE KeyLockProofs ---------------------------
(***************************************************************************)
(* What LockKey / UnLockKey guarantee for any number of goroutines, keys   *)
(* and mutexes.                                                            *)
(***************************************************************************)
EXTENDS KeyLock, TLAPS

\* The "_lock_" entry and the mutex are put and deleted together.
FlagIsSlot == \A k \in Keys : flag[k] <=> slot[k] # NoMutex

\* A call has a key and a mutex from LockKey to UnLockKey, and only then.
CallState == \A p \in Procs :
    /\ pc[p] = "idle" <=> key[p] = NoKey
    /\ pc[p] # "idle" => mtx[p] \in Mutexes

\* Before the first handoff every call of k is on the mutex of the map, and
\* one of them holds it.
OneMutexUntilHandoff == \A k \in Keys : ~handoff[k] =>
    /\ \A p \in Procs : key[p] = k => slot[k] # NoMutex /\ mtx[p] = slot[k]
    /\ \A p, q \in Procs : Holds(p, k) /\ Holds(q, k) => p = q
    /\ slot[k] # NoMutex => \E p \in Procs : Holds(p, k)

IInv == TypeOK /\ FlagIsSlot /\ CallState /\ NoFatalUnlock /\ OneMutexUntilHandoff

LEMMA InitIInv == Init => IInv
BY NoMutexAssumption, NoKeyAssumption
   DEF Init, IInv, TypeOK, FlagIsSlot, CallState, NoFatalUnlock,
       OneMutexUntilHandoff, Holds

LEMMA LockNewIInv ==
    ASSUME IInv, NEW p \in Procs, NEW k \in Keys, LockNew(p, k)
    PROVE  IInv'
<1>. USE NoMutexAssumption, NoKeyAssumption
<1>1. PICK m \in Mutexes :
          /\ ~Live(m)
          /\ slot' = [slot EXCEPT ![k] = m]
          /\ locked' = locked \cup {m}
          /\ mtx' = [mtx EXCEPT ![p] = m]
  BY DEF LockNew
<1>2. TypeOK'
  BY <1>1 DEF IInv, TypeOK, LockNew
<1>3. FlagIsSlot'
  BY <1>1 DEF IInv, TypeOK, FlagIsSlot, LockNew
<1>4. CallState'
  BY <1>1 DEF IInv, TypeOK, CallState, LockNew
<1>5. NoFatalUnlock'
  BY <1>1 DEF IInv, TypeOK, NoFatalUnlock, LockNew, Live
<1>6. OneMutexUntilHandoff'
  BY <1>1 DEF IInv, TypeOK, CallState, OneMutexUntilHandoff, LockNew, Holds
<1>. QED BY <1>2, <1>3, <1>4, <1>5, <1>6 DEF IInv

LEMMA LockFoundIInv ==
    ASSUME IInv, NEW p \in Procs, NEW k \in Keys, LockFound(p, k)
    PROVE  IInv'
<1>. USE NoMutexAssumption, NoKeyAssumption
<1>1. TypeOK'
  BY DEF IInv, TypeOK, LockFound
<1>2. FlagIsSlot'
  BY DEF IInv, TypeOK, FlagIsSlot, LockFound
<1>3. CallState'
  BY DEF IInv, TypeOK, CallState, LockFound
<1>4. NoFatalUnlock'
  BY DEF IInv, TypeOK, NoFatalUnlock, LockFound
<1>5. OneMutexUntilHandoff'
  BY DEF IInv, TypeOK, CallState, OneMutexUntilHandoff, LockFound, Holds
<1>. QED BY <1>1, <1>2, <1>3, <1>4, <1>5 DEF IInv

LEMMA AcquireIInv ==
    ASSUME IInv, NEW p \in Procs, Acquire(p)
    PROVE  IInv'
<1>. USE NoMutexAssumption, NoKeyAssumption
<1>1. TypeOK'
  BY DEF IInv, TypeOK, CallState, Acquire
<1>2. FlagIsSlot' /\ CallState' /\ NoFatalUnlock'
  BY DEF IInv, TypeOK, FlagIsSlot, CallState, NoFatalUnlock, Acquire
\* The mutex of the map is locked: only after a handoff can p be waiting for
\* a mutex that is free.
<1>3. key[p] \in Keys /\ handoff[key[p]]
  BY DEF IInv, TypeOK, CallState, NoFatalUnlock, OneMutexUntilHandoff, Acquire
<1>4. OneMutexUntilHandoff'
  BY <1>3 DEF IInv, TypeOK, OneMutexUntilHandoff, Acquire, Holds
<1>. QED BY <1>1, <1>2, <1>4 DEF IInv

LEMMA UnLockKeyIInv ==
    ASSUME IInv, NEW p \in Procs, UnLockKey(p)
    PROVE  IInv'
<1>. USE NoMutexAssumption, NoKeyAssumption
<1>1. key[p] \in Keys
  BY DEF IInv, TypeOK, CallState, UnLockKey
<1>2. TypeOK'
  BY <1>1 DEF IInv, TypeOK, UnLockKey
<1>3. FlagIsSlot'
  BY <1>1 DEF IInv, TypeOK, FlagIsSlot, UnLockKey
<1>4. CallState'
  BY <1>1 DEF IInv, TypeOK, CallState, UnLockKey
<1>5. NoFatalUnlock'
  BY <1>1 DEF IInv, TypeOK, NoFatalUnlock, UnLockKey
<1>6. OneMutexUntilHandoff'
  <2>1. SUFFICES ASSUME NEW k \in Keys, ~handoff'[k]
        PROVE  /\ \A q \in Procs : key'[q] = k => slot'[k] # NoMutex /\ mtx'[q] = slot'[k]
               /\ \A q, r \in Procs : Holds(q, k)' /\ Holds(r, k)' => q = r
               /\ slot'[k] # NoMutex => \E q \in Procs : Holds(q, k)'
    BY DEF OneMutexUntilHandoff
  <2>2. ~handoff[k]
    BY <1>1, <2>1 DEF IInv, TypeOK, UnLockKey
  <2>3. CASE k # key[p]
    BY <1>1, <2>2, <2>3 DEF IInv, TypeOK, OneMutexUntilHandoff, UnLockKey, Holds
  <2>4. CASE k = key[p]
    \* No other call of k waits, and p was the only holder.
    <3>1. \A q \in Procs : key'[q] # k
      BY <1>1, <2>1, <2>2, <2>4
         DEF IInv, TypeOK, CallState, OneMutexUntilHandoff, UnLockKey, Holds
    <3>2. slot'[k] = NoMutex
      BY <1>1, <2>4 DEF IInv, TypeOK, UnLockKey
    <3>. QED BY <3>1, <3>2 DEF Holds
  <2>. QED BY <2>3, <2>4
<1>. QED BY <1>2, <1>3, <1>4, <1>5, <1>6 DEF IInv

LEMMA KeptIInv ==
    ASSUME IInv, UNCHANGED vars
    PROVE  IInv'
BY DEF vars, IInv, TypeOK, FlagIsSlot, CallState, NoFatalUnlock,
       OneMutexUntilHandoff, Holds

\* The inductive invariant: types, the shape of the map and of the calls, a
\* locked mutex under each key, and one mutex per key until a handoff.
THEOREM Invariance == Spec => []IInv
<1>1. IInv /\ [Next]_vars => IInv'
  <2>1. SUFFICES ASSUME IInv, [Next]_vars PROVE IInv'
    OBVIOUS
  <2>2. CASE UNCHANGED vars
    BY <2>1, <2>2, KeptIInv
  <2>3. CASE Next
    BY <2>1, <2>3, LockNewIInv, LockFoundIInv, AcquireIInv, UnLockKeyIInv DEF Next
  <2>. QED BY <2>1, <2>2, <2>3
<1>. QED BY InitIInv, <1>1, PTL DEF Spec

\* Types.
THEOREM TypeCorrect == Spec => []TypeOK
BY Invariance, PTL DEF IInv

\* UnLockKey never unlocks an unlocked mutex: no fatal error of the runtime.
THEOREM UnlockIsSafe == Spec => []NoFatalUnlock
BY Invariance, PTL DEF IInv

\* Mutual exclusion, and an exact IsLock, until an UnLockKey runs while another
\* call waits for the key.
THEOREM ExclusionUntilHandoff == Spec => []ExclusiveUntilHandoff
<1>1. IInv => ExclusiveUntilHandoff
  BY DEF IInv, TypeOK, CallState, FlagIsSlot, OneMutexUntilHandoff,
         ExclusiveUntilHandoff, Holds, IsLock
<1>. QED BY Invariance, <1>1, PTL

\* A LockKey call whose mutex left the map locked never returns.
THEOREM StrandedIsForever == Spec => StrandedForever
<1>1. IInv /\ [Next]_vars => [\A p \in Procs : Stranded(p) => Stranded(p)']_vars
  <2>1. SUFFICES ASSUME IInv, Next, NEW p \in Procs, Stranded(p) PROVE Stranded(p)'
    OBVIOUS
  <2>2. PICK q \in Procs : \/ \E k \in Keys : LockNew(q, k) \/ LockFound(q, k)
                           \/ Acquire(q)
                           \/ UnLockKey(q)
    BY <2>1 DEF Next
  <2>3. CASE \E k \in Keys : LockNew(q, k)
    BY <2>1, <2>3 DEF IInv, TypeOK, Stranded, LockNew, Live
  <2>4. CASE \E k \in Keys : LockFound(q, k)
    BY <2>1, <2>4 DEF IInv, TypeOK, Stranded, LockFound
  <2>5. CASE Acquire(q)
    BY <2>1, <2>5 DEF IInv, TypeOK, Stranded, Acquire
  <2>6. CASE UnLockKey(q)
    <3>1. key[q] \in Keys
      BY <2>1, <2>6 DEF UnLockKey, IInv, TypeOK, CallState
    <3>2. p # q /\ pc'[p] = "wait" /\ mtx'[p] = mtx[p]
      BY <2>1, <2>6 DEF IInv, TypeOK, Stranded, UnLockKey
    <3>3. mtx[p] \in locked'
      BY <2>1, <2>6, <3>1 DEF IInv, TypeOK, Stranded, UnLockKey
    <3>4. \A k \in Keys : slot'[k] # mtx[p]
      BY <2>1, <2>6, <3>1, NoMutexAssumption DEF IInv, TypeOK, Stranded, UnLockKey
    <3>. QED BY <3>2, <3>3, <3>4 DEF Stranded
  <2>. QED BY <2>2, <2>3, <2>4, <2>5, <2>6
<1>. QED BY Invariance, <1>1, PTL DEF Spec, StrandedForever

\* A mutex in the map belongs to a call in progress, which will unlock it.
SlotIsHeld == \A k \in Keys : slot[k] # NoMutex => \E p \in Procs : Holds(p, k)

\* The call q unlocks the mutex p waits for when it ends.
WillUnlock(q, p) == pc[q] = "crit" /\ slot[key[q]] = mtx[p]

\* What a waiting call waits for: the handoff of a key lost its mutex, or the mutex
\* is free, or a call in progress unlocks it at its end, which nothing holds up. So
\* no call waits for one that waits, on any number of keys: there is no deadlock
\* but the one of stranded calls, and no call is stranded before a handoff of its
\* key.
THEOREM WaitsAreForSomeone ==
    Spec => [](\A p \in Procs : pc[p] = "wait" =>
                 \/ Stranded(p) /\ handoff[key[p]]
                 \/ mtx[p] \notin locked
                 \/ \E q \in Procs : WillUnlock(q, p))
<1>1. Init => SlotIsHeld
  BY DEF Init, SlotIsHeld
<1>2. IInv /\ SlotIsHeld /\ [Next]_vars => SlotIsHeld'
  <2>1. SUFFICES ASSUME IInv, SlotIsHeld, [Next]_vars, NEW k \in Keys, slot'[k] # NoMutex
        PROVE  \E p \in Procs : Holds(p, k)'
    BY DEF SlotIsHeld
  <2>2. CASE UNCHANGED vars
    BY <2>1, <2>2 DEF vars, SlotIsHeld, Holds
  <2>3. ASSUME NEW p \in Procs, NEW j \in Keys, LockNew(p, j)
        PROVE  \E q \in Procs : Holds(q, k)'
    <3>1. slot'[k] = slot[k] \/ k = j
      BY <2>1, <2>3 DEF LockNew, IInv, TypeOK
    <3>. QED BY <2>1, <2>3, <3>1 DEF LockNew, SlotIsHeld, Holds, IInv, TypeOK
  <2>4. ASSUME NEW p \in Procs, (\E j \in Keys : LockFound(p, j)) \/ Acquire(p)
        PROVE  \E q \in Procs : Holds(q, k)'
    BY <2>1, <2>4 DEF LockFound, Acquire, SlotIsHeld, Holds, IInv, TypeOK
  <2>5. ASSUME NEW p \in Procs, UnLockKey(p)
        PROVE  \E q \in Procs : Holds(q, k)'
    <3>1. key[p] \in Keys
      BY <2>1, <2>5 DEF UnLockKey, IInv, TypeOK, CallState
    <3>2. k # key[p] /\ slot[k] # NoMutex
      BY <2>1, <2>5, <3>1 DEF UnLockKey, IInv, TypeOK
    <3>3. PICK q \in Procs : Holds(q, k)
      BY <2>1, <3>2 DEF SlotIsHeld
    <3>. QED BY <2>1, <2>5, <3>2, <3>3 DEF UnLockKey, Holds, IInv, TypeOK
  <2>. QED BY <2>1, <2>2, <2>3, <2>4, <2>5 DEF Next
<1>3. IInv /\ SlotIsHeld =>
        \A p \in Procs : pc[p] = "wait" =>
            \/ Stranded(p) /\ handoff[key[p]]
            \/ mtx[p] \notin locked
            \/ \E q \in Procs : WillUnlock(q, p)
  <2>1. SUFFICES ASSUME IInv, SlotIsHeld, NEW p \in Procs, pc[p] = "wait", mtx[p] \in locked
        PROVE  \/ Stranded(p) /\ handoff[key[p]]
               \/ \E q \in Procs : WillUnlock(q, p)
    OBVIOUS
  <2>2. key[p] \in Keys /\ mtx[p] \in Mutexes
    BY <2>1 DEF IInv, TypeOK, CallState
  <2>3. CASE \E k \in Keys : slot[k] = mtx[p]
    BY <2>1, <2>2, <2>3, NoMutexAssumption DEF SlotIsHeld, Holds, WillUnlock
  <2>4. CASE \A k \in Keys : slot[k] # mtx[p]
    BY <2>1, <2>2, <2>4 DEF Stranded, IInv, OneMutexUntilHandoff
  <2>. QED BY <2>3, <2>4
<1>. QED BY <1>1, <1>2, <1>3, Invariance, PTL DEF Spec
=============================================================================
