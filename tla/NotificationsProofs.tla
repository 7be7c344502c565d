------------------------- MODULE NotificationsProofs -------------------------
(***************************************************************************)
(* Retainable counts exactly, for any sets of objects and locks and in     *)
(* whatever order QML sets, clears and destroys the locks.  RetainInv is   *)
(* inductive: CountExact alone says nothing of what an object that is      *)
(* dropped still owes.  Every operation changes the count of an object by  *)
(* at most one, and what it owes by the same (Counts), so one lemma        *)
(* (CountsInv) carries the invariant through all of them.                  *)
(*                                                                         *)
(* The notification server keeps its lists together and tells its clients  *)
(* once, whatever QML does with locks and handlers (NotificationsCorrect), *)
(* and the counts are as exact through its operations.                     *)
(***************************************************************************)
EXTENDS Notifications, FiniteSetTheorems, TLAPS

-----------------------------------------------------------------------------
(* Numbers and sets.                                                       *)

\* The modulus of a number that is nearer to zero than its base.
LEMMA ModNear ==
    ASSUME NEW a \in Int, NEW w \in Nat, -w < a, a < w
    PROVE  /\ ((a % w) + 1) % w = (a + 1) % w
           /\ ((a % w) - 1) % w = (a - 1) % w
           /\ a % w = 0 <=> a = 0
           /\ a % w \in 0 .. w - 1
           /\ a >= 0 => a % w = a
BY Z3

\* The result of a modulus is below it.
LEMMA ModRange ==
    ASSUME NEW a \in Int, NEW w \in Nat, 0 < w
    PROVE  a % w \in 0 .. w - 1
BY Z3

\* The bounds are numbers, and keep what an object owes below Wrap.
LEMMA LocksBound ==
    /\ Cardinality(Locks) \in Nat
    /\ MaxLocks \in Nat
    /\ MaxStray \in Nat
    /\ Wrap \in Nat
    /\ MaxLocks + 2 * Cardinality(Locks) + MaxStray < Wrap
    /\ 0 < Wrap
BY LocksAssumption, BoundsAssumption, FS_CardinalityType

\* Some of the locks are finitely many, no more than there are.
LEMMA SubsetBound ==
    ASSUME NEW S \in SUBSET Locks
    PROVE  /\ IsFiniteSet(S)
           /\ Cardinality(S) \in Nat
           /\ Cardinality(S) <= Cardinality(Locks)
           /\ Cardinality(S) = 0 <=> S = {}
<1>1. IsFiniteSet(S) /\ Cardinality(S) <= Cardinality(Locks)
  BY LocksAssumption, FS_Subset
<1> QED
  BY <1>1, FS_CardinalityType, FS_EmptySet

\* One lock more, or one less, or neither.
LEMMA MemberCount ==
    ASSUME NEW S \in SUBSET Locks, NEW T \in SUBSET Locks, NEW l, S \ {l} = T \ {l}
    PROVE  Cardinality(T) = Cardinality(S) + One(l \in T) - One(l \in S)
<1>1. /\ IsFiniteSet(S) /\ Cardinality(S) \in Nat
      /\ IsFiniteSet(T) /\ Cardinality(T) \in Nat
  BY SubsetBound
<1>2. CASE (l \in S) <=> (l \in T)
  <2>1. S = T
    BY <1>2
  <2>2. One(l \in S) = One(l \in T) /\ One(l \in S) \in Nat
    BY <1>2 DEF One
  <2> QED
    BY <1>1, <2>1, <2>2
<1>3. CASE l \in S /\ l \notin T
  <2>1. T = S \ {l}
    BY <1>3
  <2>2. Cardinality(T) = Cardinality(S) - 1
    BY <1>1, <1>3, <2>1, FS_RemoveElement
  <2> QED
    BY <1>1, <1>3, <2>2 DEF One
<1>4. CASE l \notin S /\ l \in T
  <2>1. T = S \cup {l}
    BY <1>4
  <2>2. Cardinality(T) = Cardinality(S) + 1
    BY <1>1, <1>4, <2>1, FS_AddElement
  <2> QED
    BY <1>1, <1>4, <2>2 DEF One
<1> QED
  BY <1>2, <1>3, <1>4

\* What an object may owe is nearer to zero than Wrap.
LEMMA TotalBound ==
    ASSUME NEW x \in 0 .. MaxLocks, NEW S \in SUBSET Locks, NEW T \in SUBSET Locks,
           NEW y \in -MaxStray .. MaxStray
    PROVE  /\ x + Cardinality(S) + Cardinality(T) + y \in Int
           /\ -Wrap < x + Cardinality(S) + Cardinality(T) + y
           /\ x + Cardinality(S) + Cardinality(T) + y < Wrap
           /\ y >= 0 => x + Cardinality(S) + Cardinality(T) + y >= 0
<1>1. /\ Cardinality(S) \in Nat /\ Cardinality(S) <= Cardinality(Locks)
      /\ Cardinality(T) \in Nat /\ Cardinality(T) <= Cardinality(Locks)
  BY SubsetBound
<1> QED
  BY <1>1, LocksBound

-----------------------------------------------------------------------------
(* What hooks and locks do to the life of an object.                       *)

\* No lock has an object that was never created or is gone.
AttachedExists == \A l \in Locks : object[l] # None => Exists(object[l])

\* What a step of hooks and locks may do to the life of an object.
LaterLife(o) ==
    \/ life'[o] = life[o]
    \/ life[o] = "dropped" /\ life'[o] = "deleting"
    \/ life[o] = "deleting" /\ life'[o] = "gone"

HistoryTypeOK ==
    /\ early \in [Locks -> BOOLEAN]
    /\ stray \in [Objects -> -MaxStray .. MaxStray]
    /\ robbed \subseteq Objects

\* What locks leave behind is counted within its bounds.
LEMMA LeaveTypes ==
    ASSUME RetainTypeOK, NEW l \in Locks, NEW given \in Int, LeaveBehind(l, given)
    PROVE  /\ stray' \in [Objects -> -MaxStray .. MaxStray]
           /\ robbed' \subseteq Objects
           /\ robbed \subseteq robbed'
           /\ \A p \in Objects : stray'[p] < 0 => p \in robbed'
<1>1. stray' = [p \in Objects |-> stray'[p]]
  BY DEF LeaveBehind
<1> QED
  BY <1>1 DEF LeaveBehind, RetainTypeOK

\* unref keeps the types, and may begin the deletion of a dropped object.
LEMMA UnrefLife ==
    ASSUME RetainTypeOK, NEW o \in Objects, Exists(o), Unref(o)
    PROVE  /\ refcount' \in [Objects -> 0 .. Wrap - 1]
           /\ life' \in [Objects -> Lives]
           /\ \A p \in Objects : LaterLife(p)
           /\ \A p \in Objects : Exists(p) => Exists(p)'
<1>1. (refcount[o] - 1) % Wrap \in 0 .. Wrap - 1
  BY LocksBound, ModRange DEF RetainTypeOK
<1> QED
  BY <1>1 DEF Unref, Unlocked, LaterLife, RetainTypeOK, Exists, Lives

\* No operation of hooks and locks brings an object to life, or drops one.
LEMMA LockNextLife ==
    ASSUME RetainTypeOK, AttachedExists, LockNext
    PROVE  /\ RetainTypeOK'
           /\ AttachedExists'
           /\ \A p \in Objects : LaterLife(p)
           /\ robbed \subseteq robbed'
           /\ (\A p \in Objects : stray[p] < 0 => p \in robbed)
                  => (\A p \in Objects : stray'[p] < 0 => p \in robbed')
<1> DEFINE Goal == /\ RetainTypeOK'
                   /\ AttachedExists'
                   /\ \A p \in Objects : LaterLife(p)
       Known == \A p \in Objects : stray[p] < 0 => p \in robbed
<1>1. ASSUME NEW o \in Objects, Lock(o)
      PROVE  Goal
  <2>1. (refcount[o] + 1) % Wrap \in 0 .. Wrap - 1
    BY LocksBound, ModRange DEF RetainTypeOK
  <2>2. refcount' \in [Objects -> 0 .. Wrap - 1] /\ explicit' \in [Objects -> 0 .. MaxLocks]
    BY <1>1, <2>1, LocksBound DEF Lock, Ref, RetainTypeOK
  <2> QED
    BY <1>1, <2>2 DEF Lock, historyVars, RetainTypeOK, AttachedExists, Exists, LaterLife
<1>2. ASSUME NEW o \in Objects, Unlock(o)
      PROVE  Goal
  <2>1. explicit' \in [Objects -> 0 .. MaxLocks]
    BY <1>2, LocksBound DEF Unlock, RetainTypeOK
  <2> QED
    BY <1>2, <2>1, UnrefLife, LocksAssumption DEF Unlock, historyVars, RetainTypeOK, AttachedExists
<1>3. ASSUME NEW o \in Objects, ForceUnlock(o)
      PROVE  Goal
  BY <1>3 DEF ForceUnlock, historyVars, Unlocked, RetainTypeOK, AttachedExists, Exists, LaterLife, Lives
<1>4. ASSUME NEW l \in Locks, NEW o \in Objects \cup {None}, SetObject(l, o)
      PROVE  Goal
  <2>1. PICK old : old = object[l]
    OBVIOUS
  <2>2. old \in Objects => Exists(old)
    BY <2>1, LocksAssumption DEF AttachedExists
  <2>3. \A p \in Objects : refcount'[p] = refcount[p]
                           \/ refcount'[p] = (refcount[p] + 1) % Wrap
                           \/ refcount'[p] = (refcount[p] - 1) % Wrap
    BY <1>4, <2>1 DEF SetObject
  <2>4. refcount' \in [Objects -> 0 .. Wrap - 1]
    <3>1. \A p \in Objects : /\ (refcount[p] + 1) % Wrap \in 0 .. Wrap - 1
                             /\ (refcount[p] - 1) % Wrap \in 0 .. Wrap - 1
      BY LocksBound, ModRange DEF RetainTypeOK
    <3>2. refcount' = [p \in Objects |-> refcount'[p]]
      BY <1>4 DEF SetObject
    <3> QED
      BY <2>3, <3>1, <3>2 DEF RetainTypeOK
  <2>5. \A p \in Objects : life'[p] = life[p] \/ (p = old /\ life'[p] = Unlocked(life[p]))
    BY <1>4, <2>1 DEF SetObject
  <2>6. life' = [p \in Objects |-> life'[p]]
    BY <1>4 DEF SetObject
  <2>7. life' \in [Objects -> Lives] /\ \A p \in Objects : LaterLife(p)
    BY <2>2, <2>5, <2>6 DEF RetainTypeOK, Unlocked, LaterLife, Exists, Lives
  <2>8. object' \in [Locks -> Objects \cup {None}]
    BY <1>4 DEF SetObject, RetainTypeOK
  <2>9. AttachedExists'
    <3> SUFFICES ASSUME NEW m \in Locks, NEW p \in Objects, p = object'[m]
                 PROVE  Exists(p)'
      BY <2>8 DEF AttachedExists, Exists
    <3>1. Exists(p)
      BY <1>4, LocksAssumption DEF SetObject, AttachedExists, RetainTypeOK
    <3> QED
      BY <2>2, <2>5, <3>1 DEF Exists, Unlocked
  <2>10. /\ early' \in [Locks -> BOOLEAN]
         /\ stray' \in [Objects -> -MaxStray .. MaxStray]
         /\ robbed' \subseteq Objects
    BY <1>4, LeaveTypes DEF SetObject, RetainTypeOK
  <2> QED
    BY <1>4, <2>4, <2>7, <2>8, <2>9, <2>10 DEF SetObject, RetainTypeOK
<1>5. ASSUME NEW l \in Locks, NEW locked \in BOOLEAN, SetLocked(l, locked)
      PROVE  Goal
  <2>0. enabled' \in [Locks -> BOOLEAN] /\ UNCHANGED <<explicit, object, early, stray, robbed>>
    BY <1>5 DEF SetLocked, historyVars, RetainTypeOK
  <2>1. CASE object[l] = None
    BY <1>5, <2>0, <2>1 DEF SetLocked, RetainTypeOK, AttachedExists, Exists, LaterLife
  <2>2. CASE object[l] # None /\ locked = TRUE
    <3>1. object[l] \in Objects
      BY <2>2 DEF RetainTypeOK
    <3>2. (refcount[object[l]] + 1) % Wrap \in 0 .. Wrap - 1
      BY <3>1, LocksBound, ModRange DEF RetainTypeOK
    <3>3. Ref(object[l]) /\ life' = life
      BY <1>5, <2>2 DEF SetLocked
    <3> QED
      BY <2>0, <3>1, <3>2, <3>3 DEF Ref, RetainTypeOK, AttachedExists, Exists, LaterLife
  <2>3. CASE object[l] # None /\ locked = FALSE
    <3>1. object[l] \in Objects /\ Exists(object[l]) /\ Unref(object[l])
      BY <1>5, <2>3 DEF SetLocked, RetainTypeOK, AttachedExists
    <3> QED
      BY <2>0, <3>1, UnrefLife DEF RetainTypeOK, AttachedExists
  <2> QED
    BY <2>1, <2>2, <2>3
<1>6. ASSUME NEW l \in Locks, DestroyLock(l)
      PROVE  Goal
  <2>0. /\ early' \in [Locks -> BOOLEAN]
        /\ stray' \in [Objects -> -MaxStray .. MaxStray]
        /\ robbed' \subseteq Objects
    <3>1. One(enabled[l]) \in Int
      BY DEF One
    <3> QED
      BY <1>6, <3>1, LeaveTypes DEF DestroyLock, RetainTypeOK
  <2>1. CASE enabled[l] /\ object[l] # None
    <3>1. object[l] \in Objects /\ Exists(object[l]) /\ Unref(object[l])
      BY <1>6, <2>1 DEF DestroyLock, RetainTypeOK, AttachedExists
    <3> QED
      BY <1>6, <2>0, <3>1, UnrefLife DEF DestroyLock, RetainTypeOK, AttachedExists
  <2>2. CASE ~(enabled[l] /\ object[l] # None)
    BY <1>6, <2>0, <2>2 DEF DestroyLock, RetainTypeOK, AttachedExists, Exists, LaterLife
  <2> QED
    BY <2>1, <2>2
<1>7. ASSUME NEW o \in Objects, DeferredDelete(o)
      PROVE  Goal
  BY <1>7, LocksAssumption
     DEF DeferredDelete, Delete, historyVars, RetainTypeOK, AttachedExists, Exists, LaterLife, Lives
<1>8. robbed \subseteq robbed' /\ (Known => Known')
  <2>1. ASSUME NEW l \in Locks, NEW given \in Int, LeaveBehind(l, given)
        PROVE  robbed \subseteq robbed' /\ (Known => Known')
    BY <2>1, LeaveTypes
  <2>2. \A l \in Locks : One(enabled[l]) \in Int
    BY DEF One
  <2>3. CASE UNCHANGED historyVars
    BY <2>3 DEF historyVars
  <2>4. CASE \E l \in Locks, given \in Int : LeaveBehind(l, given)
    BY <2>1, <2>4
  <2> QED
    BY <2>2, <2>3, <2>4
       DEF LockNext, Lock, Unlock, ForceUnlock, DeferredDelete, Delete, SetObject, SetLocked,
           DestroyLock
<1> QED
  BY <1>1, <1>2, <1>3, <1>4, <1>5, <1>6, <1>7, <1>8 DEF LockNext

-----------------------------------------------------------------------------
(* Delayed destruction.                                                    *)

\* What locks have taken too many is on record.
StrayKnown == \A o \in Objects : stray[o] < 0 => o \in robbed

\* Something is owed to an object that is retained.
DroppedOwed == \A o \in Objects \ robbed : life[o] = "dropped" => Owed(o) > 0

RetainInv ==
    /\ RetainTypeOK
    /\ CountExact
    /\ StrayKnown
    /\ DroppedOwed

\* What an object owes is a number within the bounds.
LEMMA OwedBound ==
    ASSUME RetainTypeOK, NEW o \in Objects
    PROVE  /\ Owed(o) \in Int /\ -Wrap < Owed(o) /\ Owed(o) < Wrap
           /\ stray[o] >= 0 => Owed(o) >= 0
<1>1. Enabled(o) \in SUBSET Locks /\ Early(o) \in SUBSET Locks
  BY DEF Enabled, Early, Attached
<1>2. explicit[o] \in 0 .. MaxLocks /\ stray[o] \in -MaxStray .. MaxStray
  BY DEF RetainTypeOK
<1> QED
  BY <1>1, <1>2, TotalBound DEF Owed

\* So is what it owes after a step.
LEMMA OwedBoundNext ==
    ASSUME RetainTypeOK', NEW o \in Objects
    PROVE  /\ Owed(o)' \in Int /\ -Wrap < Owed(o)' /\ Owed(o)' < Wrap
           /\ stray'[o] >= 0 => Owed(o)' >= 0
<1>1. Enabled(o)' \in SUBSET Locks /\ Early(o)' \in SUBSET Locks
  BY DEF Enabled, Early, Attached
<1>2. explicit'[o] \in 0 .. MaxLocks /\ stray'[o] \in -MaxStray .. MaxStray
  BY DEF RetainTypeOK
<1> QED
  BY <1>1, <1>2, TotalBound DEF Owed

\* The count of o, and what it owes, change by d, and o is retained only if
\* the count is not zero, or o was retained and nothing was given back.
Counts(o, d) ==
    /\ Exists(o)
    /\ refcount'[o] = (refcount[o] + d) % Wrap
    /\ Owed(o)' = Owed(o) + d
    /\ life'[o] = "dropped" => refcount'[o] # 0 \/ (life[o] = "dropped" /\ d >= 0)

\* A count that changes with what is owed stays exact.
LEMMA CountsInv ==
    ASSUME RetainInv, RetainTypeOK', AttachedExists', StrayKnown', robbed \subseteq robbed',
           \A o \in Objects : Exists(o)' => \E d \in -1 .. 1 : Counts(o, d)
    PROVE  RetainInv'
<1>1. ASSUME NEW o \in Objects, Exists(o)'
      PROVE  /\ refcount'[o] = Owed(o)' % Wrap
             /\ o \notin robbed' /\ life'[o] = "dropped" => Owed(o)' > 0
  <2>1. PICK d \in -1 .. 1 : Counts(o, d)
    BY <1>1
  <2>2. Exists(o) /\ refcount[o] = Owed(o) % Wrap /\ RetainTypeOK
    BY <2>1 DEF RetainInv, CountExact, Counts
  <2>3. /\ Owed(o) \in Int /\ -Wrap < Owed(o) /\ Owed(o) < Wrap
        /\ Owed(o)' \in Int /\ -Wrap < Owed(o)' /\ Owed(o)' < Wrap
    BY <2>2, OwedBound, OwedBoundNext
  <2>4. Wrap \in Nat /\ refcount[o] \in 0 .. Wrap - 1
    BY <2>2, LocksBound DEF RetainTypeOK
  <2>5. refcount'[o] = Owed(o)' % Wrap
    <3>1. CASE d = 1
      <4>1. ((Owed(o) % Wrap) + 1) % Wrap = (Owed(o) + 1) % Wrap
        BY <2>3, <2>4, ModNear
      <4> QED
        BY <2>1, <2>2, <3>1, <4>1 DEF Counts
    <3>2. CASE d = -1
      <4>1. ((Owed(o) % Wrap) - 1) % Wrap = (Owed(o) - 1) % Wrap
        BY <2>3, <2>4, ModNear
      <4>2. Owed(o)' = Owed(o) - 1 /\ refcount'[o] = (refcount[o] - 1) % Wrap
        <5>1. refcount[o] + (-1) = refcount[o] - 1 /\ Owed(o) + (-1) = Owed(o) - 1
          BY <2>3, <2>4
        <5> QED
          BY <2>1, <3>2, <5>1 DEF Counts
      <4> QED
        BY <2>2, <4>1, <4>2
    <3>3. CASE d = 0
      <4>1. refcount[o] + 0 = refcount[o] /\ Owed(o) + 0 = Owed(o)
        BY <2>3, <2>4
      <4>2. refcount[o] % Wrap = refcount[o]
        <5>1. refcount[o] \in Int /\ -Wrap < refcount[o] /\ refcount[o] < Wrap /\ refcount[o] >= 0
          BY <2>4
        <5> QED
          BY <2>4, <5>1, ModNear
      <4> QED
        BY <2>1, <2>2, <3>3, <4>1, <4>2 DEF Counts
    <3> QED
      BY <3>1, <3>2, <3>3
  <2>6. ASSUME o \notin robbed', life'[o] = "dropped"
        PROVE  Owed(o)' > 0
    <3>1. stray'[o] >= 0 /\ o \notin robbed
      <4>1. stray'[o] \in Int
        BY LocksBound DEF RetainTypeOK
      <4> QED
        BY <2>6, <4>1 DEF StrayKnown
    <3>2. Owed(o)' >= 0
      BY <3>1, OwedBoundNext
    <3>3. CASE refcount'[o] # 0
      <4>1. Owed(o)' # 0
        BY <2>3, <2>4, <2>5, <3>3, ModNear
      <4> QED
        BY <2>3, <3>2, <4>1
    <3>4. CASE life[o] = "dropped" /\ d >= 0
      <4>1. Owed(o) > 0
        BY <3>1, <3>4 DEF RetainInv, DroppedOwed
      <4>2. Owed(o)' = Owed(o) + d
        BY <2>1 DEF Counts
      <4> QED
        BY <2>3, <3>4, <4>1, <4>2
    <3> QED
      BY <2>1, <2>6, <3>3, <3>4 DEF Counts
  <2> QED
    BY <2>5, <2>6
<1>2. ASSUME NEW o \in Objects, ~Exists(o)'
      PROVE  Attached(o)' = {}
  BY <1>2, LocksAssumption DEF Attached, AttachedExists
<1>3. CountExact'
  BY <1>1, <1>2 DEF CountExact
<1>4. DroppedOwed'
  BY <1>1 DEF DroppedOwed, Exists
<1> QED
  BY <1>3, <1>4 DEF RetainInv

\* The inductive invariant holds of fresh objects and locks.
LEMMA RetainInitInv == RetainInit => RetainInv
<1> SUFFICES ASSUME RetainInit PROVE RetainInv
  OBVIOUS
<1>1. \A o \in Objects : Attached(o) = {} /\ Enabled(o) = {} /\ Early(o) = {}
  BY LocksAssumption DEF RetainInit, Attached, Enabled, Early
<1>2. RetainTypeOK
  BY LocksBound DEF RetainInit, RetainTypeOK, Lives
<1>3. \A o \in Objects : Owed(o) = 0
  BY <1>1, FS_EmptySet DEF RetainInit, Owed
<1>4. 0 % Wrap = 0
  BY LocksBound, ModNear
<1>5. CountExact
  BY <1>1, <1>3, <1>4 DEF RetainInit, CountExact
<1> QED
  BY <1>2, <1>5 DEF RetainInv, StrayKnown, DroppedOwed, RetainInit

\* The invariant implies the property.
LEMMA RetainInvHeld == RetainInv => RetainedOnlyIfHeld
<1> SUFFICES ASSUME RetainInv, NEW o \in Objects \ robbed, life[o] = "dropped",
                    ~Locked(o), Early(o) = {}, stray[o] = 0
             PROVE  FALSE
  BY DEF RetainedOnlyIfHeld
<1>1. Owed(o) > 0
  BY DEF RetainInv, DroppedOwed
<1>2. explicit[o] = 0 /\ Enabled(o) = {}
  BY LocksBound DEF RetainInv, RetainTypeOK, Locked
<1> QED
  BY <1>1, <1>2, FS_EmptySet DEF Owed

-----------------------------------------------------------------------------
(* How each operation counts.                                              *)

\* A step that leaves the locks of o alone changes what it owes with its
\* explicit locks.
LEMMA SameLocks ==
    ASSUME RetainTypeOK, NEW o \in Objects, stray'[o] = stray[o],
           explicit'[o] \in Int,
           \A l \in Locks : /\ object'[l] = o <=> object[l] = o
                            /\ object[l] = o => enabled'[l] = enabled[l] /\ early'[l] = early[l]
    PROVE  Owed(o)' = Owed(o) + (explicit'[o] - explicit[o])
<1>1. Enabled(o)' = Enabled(o) /\ Early(o)' = Early(o)
  BY DEF Enabled, Early, Attached
<1>2. Enabled(o) \in SUBSET Locks /\ Early(o) \in SUBSET Locks
  BY DEF Enabled, Early, Attached
<1>3. Cardinality(Enabled(o)) \in Int /\ Cardinality(Early(o)) \in Int
  BY <1>2, SubsetBound
<1>4. explicit[o] \in Int /\ stray[o] \in Int
  BY LocksBound DEF RetainTypeOK
<1> QED
  BY <1>1, <1>3, <1>4 DEF Owed

\* A step that changes one lock.
LEMMA OneLock ==
    ASSUME RetainTypeOK, RetainTypeOK', NEW o \in Objects, NEW l \in Locks,
           explicit'[o] = explicit[o],
           \A m \in Locks \ {l} : /\ object'[m] = object[m]
                                  /\ enabled'[m] = enabled[m]
                                  /\ early'[m] = early[m]
    PROVE  Owed(o)' = Owed(o) + (One(object'[l] = o /\ enabled'[l]) - One(object[l] = o /\ enabled[l]))
                              + (One(object'[l] = o /\ early'[l]) - One(object[l] = o /\ early[l]))
                              + (stray'[o] - stray[o])
<1>1. /\ Enabled(o) \in SUBSET Locks /\ Early(o) \in SUBSET Locks
      /\ Enabled(o)' \in SUBSET Locks /\ Early(o)' \in SUBSET Locks
  BY DEF Enabled, Early, Attached
<1>2. Enabled(o) \ {l} = Enabled(o)' \ {l} /\ Early(o) \ {l} = Early(o)' \ {l}
  BY DEF Enabled, Early, Attached
<1>3. /\ Cardinality(Enabled(o)') = Cardinality(Enabled(o)) + One(l \in Enabled(o)') - One(l \in Enabled(o))
      /\ Cardinality(Early(o)') = Cardinality(Early(o)) + One(l \in Early(o)') - One(l \in Early(o))
  BY <1>1, <1>2, MemberCount
<1>4. /\ l \in Enabled(o) <=> object[l] = o /\ enabled[l]
      /\ l \in Enabled(o)' <=> object'[l] = o /\ enabled'[l]
      /\ l \in Early(o) <=> object[l] = o /\ early[l]
      /\ l \in Early(o)' <=> object'[l] = o /\ early'[l]
  BY DEF Enabled, Early, Attached
<1>5. /\ One(l \in Enabled(o)) = One(object[l] = o /\ enabled[l])
      /\ One(l \in Enabled(o)') = One(object'[l] = o /\ enabled'[l])
      /\ One(l \in Early(o)) = One(object[l] = o /\ early[l])
      /\ One(l \in Early(o)') = One(object'[l] = o /\ early'[l])
  BY <1>4 DEF One
<1>6. \A b : One(b) \in Int
  BY DEF One
<1>7. Cardinality(Enabled(o)) \in Int /\ Cardinality(Early(o)) \in Int
  BY <1>1, SubsetBound
<1>8. explicit[o] \in Int /\ stray[o] \in Int /\ stray'[o] \in Int
  BY LocksBound DEF RetainTypeOK
<1> DEFINE a == One(object[l] = o /\ enabled[l])
           b == One(object'[l] = o /\ enabled'[l])
           c == One(object[l] = o /\ early[l])
           d == One(object'[l] = o /\ early'[l])
<1>9. a \in Int /\ b \in Int /\ c \in Int /\ d \in Int
  BY <1>6
<1>10. /\ Cardinality(Enabled(o)') = Cardinality(Enabled(o)) + b - a
       /\ Cardinality(Early(o)') = Cardinality(Early(o)) + d - c
  BY <1>3, <1>5
<1>11. /\ Owed(o) = explicit[o] + Cardinality(Enabled(o)) + Cardinality(Early(o)) + stray[o]
       /\ Owed(o)' = explicit[o] + Cardinality(Enabled(o)') + Cardinality(Early(o)') + stray'[o]
  BY DEF Owed
<1> HIDE DEF a, b, c, d
<1>12. Owed(o)' = Owed(o) + (b - a) + (d - c) + (stray'[o] - stray[o])
  BY <1>7, <1>8, <1>9, <1>10, <1>11
<1> QED
  BY <1>12 DEF a, b, c, d

\* Adding nothing to a count leaves it.
LEMMA CountsNothing ==
    ASSUME RetainTypeOK, NEW o \in Objects, Exists(o), refcount'[o] = refcount[o],
           Owed(o)' = Owed(o), life'[o] = "dropped" => life[o] = "dropped"
    PROVE  Counts(o, 0)
<1>1. /\ refcount[o] \in Int /\ -Wrap < refcount[o] /\ refcount[o] < Wrap /\ refcount[o] >= 0
      /\ Wrap \in Nat /\ Owed(o) \in Int
  BY LocksBound, OwedBound DEF RetainTypeOK
<1>2. refcount[o] + 0 = refcount[o] /\ Owed(o) + 0 = Owed(o)
  BY <1>1
<1>3. refcount[o] % Wrap = refcount[o]
  BY <1>1, ModNear
<1> QED
  BY <1>2, <1>3 DEF Counts

\* A reference taken or given back: the object it is of, and the others.
LEMMA UnrefEffect ==
    ASSUME RetainTypeOK, NEW o \in Objects, Unref(o)
    PROVE  /\ refcount'[o] = (refcount[o] + (-1)) % Wrap
           /\ life'[o] = IF refcount'[o] = 0 THEN Unlocked(life[o]) ELSE life[o]
           /\ \A p \in Objects \ {o} : refcount'[p] = refcount[p] /\ life'[p] = life[p]
<1>1. refcount[o] - 1 = refcount[o] + (-1)
  BY LocksBound DEF RetainTypeOK
<1> QED
  BY <1>1 DEF Unref, RetainTypeOK

\* RetainableHook.lock, unlock and forceUnlock, and Retainable.retainedDestroy,
\* whatever a handler of `dropped` locks.
LEMMA HookCounts ==
    ASSUME RetainTypeOK, RetainTypeOK', NEW o \in Objects,
           Lock(o) \/ Unlock(o) \/ ForceUnlock(o) \/ Drop(o),
           NEW p \in Objects, Exists(p)'
    PROVE  \E d \in -1 .. 1 : Counts(p, d)
<1>0. /\ UNCHANGED <<object, enabled, early, stray>>
      /\ Exists(o)
      /\ explicit'[p] \in Int /\ explicit[p] \in Int /\ Owed(p) \in Int
  BY LocksBound, OwedBound
     DEF Lock, Unlock, ForceUnlock, Drop, historyVars, Exists, RetainTypeOK
<1>1. Owed(p)' = Owed(p) + (explicit'[p] - explicit[p])
  BY <1>0, SameLocks
<1>2. CASE p # o
  <2>1. refcount'[p] = refcount[p] /\ explicit'[p] = explicit[p] /\ life'[p] = life[p]
    BY <1>2 DEF Lock, Unlock, ForceUnlock, Drop, Ref, Unref, RetainTypeOK
  <2>2. Owed(p)' = Owed(p)
    BY <1>0, <1>1, <2>1
  <2>3. Exists(p)
    BY <2>1 DEF Exists
  <2> QED
    BY <2>1, <2>2, <2>3, CountsNothing
<1>3. CASE p = o /\ Lock(o)
  <2>1. /\ refcount'[o] = (refcount[o] + 1) % Wrap /\ life'[o] = life[o]
        /\ explicit'[o] = explicit[o] + 1
    BY <1>3 DEF Lock, Ref, RetainTypeOK
  <2>2. Owed(o)' = Owed(o) + 1
    BY <1>0, <1>1, <1>3, <2>1
  <2>3. Counts(p, 1)
    BY <1>0, <1>3, <2>1, <2>2 DEF Counts
  <2> QED
    BY <2>3
<1>4. CASE p = o /\ Unlock(o)
  <2>1. /\ refcount'[o] = (refcount[o] + (-1)) % Wrap
        /\ life'[o] = IF refcount'[o] = 0 THEN Unlocked(life[o]) ELSE life[o]
        /\ explicit'[o] = explicit[o] - 1
    BY <1>4, UnrefEffect DEF Unlock, RetainTypeOK
  <2>2. Owed(o)' = Owed(o) + (-1)
    BY <1>0, <1>1, <1>4, <2>1
  <2>3. Counts(p, -1)
    BY <1>0, <1>4, <2>1, <2>2 DEF Counts, Unlocked
  <2> QED
    BY <2>3
<1>5. CASE p = o /\ ForceUnlock(o)
  <2>1. /\ refcount'[o] = refcount[o] /\ explicit'[o] = explicit[o]
        /\ life'[o] # "dropped"
    BY <1>5 DEF ForceUnlock, Unlocked, RetainTypeOK
  <2>2. Owed(o)' = Owed(o)
    BY <1>0, <1>1, <1>5, <2>1
  <2> QED
    BY <1>0, <1>5, <2>1, <2>2, CountsNothing
<1>6. CASE p = o /\ Drop(o)
  <2>1. PICK locks \in 0 .. 1 :
          /\ explicit'[o] = explicit[o] + locks
          /\ refcount'[o] = (refcount[o] + locks) % Wrap
          /\ life'[o] = IF refcount'[o] = 0 THEN "deleting" ELSE "dropped"
    BY <1>6 DEF Drop, RetainTypeOK
  <2>2. Owed(o)' = Owed(o) + locks
    BY <1>0, <1>1, <1>6, <2>1
  <2>3. Counts(p, locks)
    BY <1>0, <1>6, <2>1, <2>2 DEF Counts
  <2> QED
    BY <2>3
<1> QED
  BY <1>2, <1>3, <1>4, <1>5, <1>6

\* The deletion of any set of objects, which their locks lose: the others are
\* counted as before.
LEMMA GoneCounts ==
    ASSUME RetainTypeOK, RetainTypeOK', NEW gone \in SUBSET Objects, NEW p \in Objects \ gone,
           Exists(p), life'[p] = life[p],
           object' = [l \in Locks |-> IF object[l] \in gone THEN None ELSE object[l]],
           UNCHANGED <<refcount, explicit, enabled, historyVars>>
    PROVE  \E d \in -1 .. 1 : Counts(p, d)
<1>1. \A l \in Locks : object'[l] = p <=> object[l] = p
  BY LocksAssumption DEF RetainTypeOK
<1>2. explicit'[p] \in Int /\ explicit'[p] - explicit[p] = 0 /\ Owed(p) \in Int
  BY LocksBound, OwedBound DEF RetainTypeOK
<1>3. Owed(p)' = Owed(p) + (explicit'[p] - explicit[p])
  BY <1>1, <1>2, SameLocks DEF historyVars
<1>4. Owed(p)' = Owed(p)
  BY <1>2, <1>3
<1>5. Counts(p, 0)
  BY <1>4, CountsNothing
<1> QED
  BY <1>5

\* RetainableLock: setObject, setLocked and the destructor.
LEMMA SetObjectCounts ==
    ASSUME RetainTypeOK, RetainTypeOK', AttachedExists,
           NEW l \in Locks, NEW o \in Objects \cup {None}, SetObject(l, o),
           NEW p \in Objects, Exists(p)'
    PROVE  \E d \in -1 .. 1 : Counts(p, d)
<1>0. PICK old : old = object[l]
  OBVIOUS
<1>1. /\ object'[l] = o /\ enabled'[l] = enabled[l] /\ early'[l] = (o # None /\ ~enabled[l])
      /\ \A m \in Locks \ {l} : object'[m] = object[m] /\ enabled'[m] = enabled[m]
                                                       /\ early'[m] = early[m]
      /\ explicit' = explicit /\ o # old /\ p # None
      /\ early[l] \in BOOLEAN /\ enabled[l] \in BOOLEAN
  BY <1>0, LocksAssumption DEF SetObject, RetainTypeOK
<1>2. stray'[p] = IF p = old THEN stray[p] + Held(l) - 1 ELSE stray[p]
  BY <1>0 DEF SetObject, LeaveBehind
<1>3. Owed(p)' = Owed(p) + (One(o = p /\ enabled[l]) - One(old = p /\ enabled[l]))
                         + (One(o = p /\ ~enabled[l]) - One(old = p /\ early[l]))
                         + (stray'[p] - stray[p])
  <2>1. Owed(p)' = Owed(p) + (One(object'[l] = p /\ enabled'[l]) - One(object[l] = p /\ enabled[l]))
                           + (One(object'[l] = p /\ early'[l]) - One(object[l] = p /\ early[l]))
                           + (stray'[p] - stray[p])
    BY <1>1, OneLock
  <2>2. /\ One(object'[l] = p /\ enabled'[l]) = One(o = p /\ enabled[l])
        /\ One(object'[l] = p /\ early'[l]) = One(o = p /\ ~enabled[l])
    BY <1>1 DEF One
  <2> QED
    BY <1>0, <2>1, <2>2
<1>4. Owed(p) \in Int /\ stray[p] \in Int /\ refcount[p] \in Int
  BY LocksBound, OwedBound DEF RetainTypeOK
<1>5. CASE p = old
  <2>1. /\ refcount'[p] = (refcount[p] - 1) % Wrap
        /\ life'[p] = IF refcount'[p] = 0 THEN Unlocked(life[p]) ELSE life[p]
    BY <1>0, <1>5 DEF SetObject
  <2>2. Exists(p) /\ refcount[p] + (-1) = refcount[p] - 1
    BY <1>0, <1>1, <1>4, <1>5 DEF AttachedExists
  <2>3. /\ One(o = p /\ enabled[l]) = 0 /\ One(o = p /\ ~enabled[l]) = 0
        /\ One(old = p /\ enabled[l]) = One(enabled[l])
        /\ One(old = p /\ early[l]) = One(early[l])
        /\ One(enabled[l]) \in Int /\ One(early[l]) \in Int
    BY <1>1, <1>5 DEF One
  <2>4. stray'[p] = stray[p] + (One(early[l]) + One(enabled[l])) - 1
    BY <1>2, <1>5 DEF Held
  <2>5. Owed(p)' = Owed(p) + (0 - One(enabled[l])) + (0 - One(early[l])) + (stray'[p] - stray[p])
    BY <1>3, <2>3
  <2>6. Owed(p)' = Owed(p) + (-1)
    <3> DEFINE e == One(enabled[l])
               r == One(early[l])
               s == stray'[p]
    <3>1. e \in Int /\ r \in Int
      BY <2>3
    <3>2. s = stray[p] + (r + e) - 1
      BY <2>4
    <3>3. Owed(p)' = Owed(p) + (0 - e) + (0 - r) + (s - stray[p])
      BY <2>5
    <3> HIDE DEF e, r, s
    <3> QED
      BY <1>4, <3>1, <3>2, <3>3
  <2>7. Counts(p, -1)
    BY <2>1, <2>2, <2>6 DEF Counts, Unlocked
  <2> QED
    BY <2>7
<1>6. CASE p = o
  <2>1. refcount'[p] = (refcount[p] + 1) % Wrap /\ life'[p] = life[p]
    BY <1>0, <1>1, <1>6 DEF SetObject
  <2>2. Exists(p)
    BY <2>1 DEF Exists
  <2>3. /\ One(o = p /\ enabled[l]) + One(o = p /\ ~enabled[l]) = 1
        /\ One(old = p /\ enabled[l]) = 0 /\ One(old = p /\ early[l]) = 0
        /\ One(o = p /\ enabled[l]) \in Int /\ One(o = p /\ ~enabled[l]) \in Int
    BY <1>1, <1>6 DEF One
  <2>4. stray'[p] = stray[p]
    BY <1>1, <1>2, <1>6
  <2>5. Owed(p)' = Owed(p) + (One(o = p /\ enabled[l]) - 0) + (One(o = p /\ ~enabled[l]) - 0)
                           + (stray[p] - stray[p])
    BY <1>3, <2>3, <2>4
  <2>6. Owed(p)' = Owed(p) + 1
    BY <1>4, <2>3, <2>5
  <2>7. Counts(p, 1)
    BY <2>1, <2>2, <2>6 DEF Counts
  <2> QED
    BY <2>7
<1>7. CASE p # o /\ p # old
  <2>1. refcount'[p] = refcount[p] /\ life'[p] = life[p] /\ stray'[p] = stray[p]
    BY <1>0, <1>2, <1>7 DEF SetObject
  <2>2. Exists(p)
    BY <2>1 DEF Exists
  <2>3. /\ One(o = p /\ enabled[l]) = 0 /\ One(o = p /\ ~enabled[l]) = 0
        /\ One(old = p /\ enabled[l]) = 0 /\ One(old = p /\ early[l]) = 0
    BY <1>7 DEF One
  <2>4. Owed(p)' = Owed(p)
    BY <1>3, <1>4, <2>1, <2>3
  <2> QED
    BY <2>1, <2>2, <2>4, CountsNothing
<1> QED
  BY <1>5, <1>6, <1>7

LEMMA SetLockedCounts ==
    ASSUME RetainTypeOK, RetainTypeOK', AttachedExists,
           NEW l \in Locks, NEW locked \in BOOLEAN, SetLocked(l, locked),
           NEW p \in Objects, Exists(p)'
    PROVE  \E d \in -1 .. 1 : Counts(p, d)
<1>1. /\ enabled'[l] = locked /\ enabled[l] = ~locked /\ object' = object /\ early' = early
      /\ \A m \in Locks \ {l} : enabled'[m] = enabled[m]
      /\ explicit' = explicit /\ stray' = stray /\ p # None
  BY LocksAssumption DEF SetLocked, historyVars, RetainTypeOK
<1>2. Owed(p) \in Int /\ stray[p] \in Int /\ refcount[p] \in Int
  BY LocksBound, OwedBound DEF RetainTypeOK
<1>3. Owed(p)' = Owed(p) + (One(object[l] = p /\ locked) - One(object[l] = p /\ ~locked))
  <2>1. Owed(p)' = Owed(p) + (One(object'[l] = p /\ enabled'[l]) - One(object[l] = p /\ enabled[l]))
                           + (One(object'[l] = p /\ early'[l]) - One(object[l] = p /\ early[l]))
                           + (stray'[p] - stray[p])
    BY <1>1, OneLock
  <2>2. /\ One(object'[l] = p /\ enabled'[l]) = One(object[l] = p /\ locked)
        /\ One(object[l] = p /\ enabled[l]) = One(object[l] = p /\ ~locked)
        /\ One(object'[l] = p /\ early'[l]) = One(object[l] = p /\ early[l])
    BY <1>1
  <2>3. \A b : One(b) \in Int
    BY DEF One
  <2> DEFINE x == One(object[l] = p /\ locked)
             y == One(object[l] = p /\ ~locked)
             z == One(object[l] = p /\ early[l])
  <2>4. x \in Int /\ y \in Int /\ z \in Int
    BY <2>3
  <2>5. Owed(p)' = Owed(p) + (x - y) + (z - z) + (stray[p] - stray[p])
    BY <1>1, <2>1, <2>2
  <2> HIDE DEF x, y, z
  <2>6. Owed(p)' = Owed(p) + (x - y)
    BY <1>2, <2>4, <2>5
  <2> QED
    BY <2>6 DEF x, y
<1>4. CASE object[l] # p
  <2>1. refcount'[p] = refcount[p] /\ life'[p] = life[p]
    BY <1>4 DEF SetLocked, Ref, Unref, RetainTypeOK
  <2>2. Exists(p)
    BY <2>1 DEF Exists
  <2>3. One(object[l] = p /\ locked) = 0 /\ One(object[l] = p /\ ~locked) = 0
    BY <1>4 DEF One
  <2>4. Owed(p)' = Owed(p)
    BY <1>2, <1>3, <2>3
  <2> QED
    BY <2>1, <2>2, <2>4, CountsNothing
<1>5. CASE object[l] = p /\ locked = TRUE
  <2>1. refcount'[p] = (refcount[p] + 1) % Wrap /\ life'[p] = life[p]
    BY <1>1, <1>5 DEF SetLocked, Ref, RetainTypeOK
  <2>2. Exists(p)
    BY <2>1 DEF Exists
  <2>3. One(object[l] = p /\ locked) = 1 /\ One(object[l] = p /\ ~locked) = 0
    BY <1>5 DEF One
  <2>4. Owed(p)' = Owed(p) + 1
    BY <1>2, <1>3, <2>3
  <2>5. Counts(p, 1)
    BY <2>1, <2>2, <2>4 DEF Counts
  <2> QED
    BY <2>5
<1>6. CASE object[l] = p /\ locked = FALSE
  <2>1. Unref(p)
    BY <1>1, <1>6 DEF SetLocked
  <2>2. Exists(p)
    BY <1>1, <1>6 DEF AttachedExists
  <2>3. One(object[l] = p /\ locked) = 0 /\ One(object[l] = p /\ ~locked) = 1
    BY <1>6 DEF One
  <2>4. Owed(p)' = Owed(p) + (-1)
    BY <1>2, <1>3, <2>3
  <2>5. Counts(p, -1)
    BY <2>1, <2>2, <2>4, UnrefEffect DEF Counts, Unlocked
  <2> QED
    BY <2>5
<1> QED
  BY <1>4, <1>5, <1>6

LEMMA DestroyLockCounts ==
    ASSUME RetainTypeOK, RetainTypeOK', AttachedExists, NEW l \in Locks, DestroyLock(l),
           NEW p \in Objects, Exists(p)'
    PROVE  \E d \in -1 .. 1 : Counts(p, d)
<1>1. /\ object'[l] = None /\ enabled'[l] = FALSE /\ early'[l] = FALSE
      /\ \A m \in Locks \ {l} : object'[m] = object[m] /\ enabled'[m] = enabled[m]
                                                       /\ early'[m] = early[m]
      /\ explicit' = explicit /\ p # None
      /\ early[l] \in BOOLEAN /\ enabled[l] \in BOOLEAN
  BY LocksAssumption DEF DestroyLock, RetainTypeOK
<1>2. stray'[p] = IF p = object[l] THEN stray[p] + Held(l) - One(enabled[l]) ELSE stray[p]
  BY DEF DestroyLock, LeaveBehind
<1>3. Owed(p) \in Int /\ stray[p] \in Int /\ refcount[p] \in Int
  BY LocksBound, OwedBound DEF RetainTypeOK
<1>4. Owed(p)' = Owed(p) + (0 - One(object[l] = p /\ enabled[l]))
                         + (0 - One(object[l] = p /\ early[l])) + (stray'[p] - stray[p])
  <2>1. Owed(p)' = Owed(p) + (One(object'[l] = p /\ enabled'[l]) - One(object[l] = p /\ enabled[l]))
                           + (One(object'[l] = p /\ early'[l]) - One(object[l] = p /\ early[l]))
                           + (stray'[p] - stray[p])
    BY <1>1, OneLock
  <2>2. One(object'[l] = p /\ enabled'[l]) = 0 /\ One(object'[l] = p /\ early'[l]) = 0
    BY <1>1 DEF One
  <2> QED
    BY <2>1, <2>2
<1>5. CASE object[l] # p
  <2>1. refcount'[p] = refcount[p] /\ life'[p] = life[p] /\ stray'[p] = stray[p]
    BY <1>2, <1>5 DEF DestroyLock, Unref, RetainTypeOK
  <2>2. Exists(p)
    BY <2>1 DEF Exists
  <2>3. One(object[l] = p /\ enabled[l]) = 0 /\ One(object[l] = p /\ early[l]) = 0
    BY <1>5 DEF One
  <2>4. Owed(p)' = Owed(p)
    BY <1>3, <1>4, <2>1, <2>3
  <2> QED
    BY <2>1, <2>2, <2>4, CountsNothing
<1>6. CASE object[l] = p
  <2>1. /\ One(object[l] = p /\ enabled[l]) = One(enabled[l])
        /\ One(object[l] = p /\ early[l]) = One(early[l])
        /\ One(enabled[l]) \in Int /\ One(early[l]) \in Int
    BY <1>6 DEF One
  <2>2. stray'[p] = stray[p] + (One(early[l]) + One(enabled[l])) - One(enabled[l])
    BY <1>2, <1>6 DEF Held
  <2>3. Owed(p)' = Owed(p) + (0 - One(enabled[l])) + (0 - One(early[l])) + (stray'[p] - stray[p])
    BY <1>4, <2>1
  <2>4. Owed(p)' = Owed(p) + (0 - One(enabled[l]))
    BY <1>3, <2>1, <2>2, <2>3
  <2>5. Exists(p)
    BY <1>1, <1>6 DEF AttachedExists
  <2>6. CASE enabled[l] = TRUE
    <3>1. Unref(p)
      BY <1>1, <1>6, <2>6 DEF DestroyLock
    <3>2. Owed(p)' = Owed(p) + (-1)
      BY <1>3, <2>4, <2>6 DEF One
    <3>3. Counts(p, -1)
      BY <2>5, <3>1, <3>2, UnrefEffect DEF Counts, Unlocked
    <3> QED
      BY <3>3
  <2>7. CASE enabled[l] = FALSE
    <3>1. refcount'[p] = refcount[p] /\ life'[p] = life[p]
      BY <2>7 DEF DestroyLock
    <3>2. Owed(p)' = Owed(p)
      BY <1>3, <2>4, <2>7 DEF One
    <3> QED
      BY <2>5, <3>1, <3>2, CountsNothing
  <2> QED
    BY <1>1, <2>6, <2>7
<1> QED
  BY <1>5, <1>6

-----------------------------------------------------------------------------
(* The specification.                                                      *)

\* The invariant holds of locks that have objects which exist.
LEMMA RetainAttached == RetainInv => RetainTypeOK /\ AttachedExists
<1> SUFFICES ASSUME RetainInv, NEW l \in Locks, object[l] # None
             PROVE  Exists(object[l])
  BY DEF RetainInv, AttachedExists
<1>1. object[l] \in Objects /\ l \in Attached(object[l])
  BY DEF RetainInv, RetainTypeOK, Attached
<1> QED
  BY <1>1 DEF RetainInv, CountExact

\* The operations of hooks and locks keep the invariant.
LEMMA LockNextInv ==
    ASSUME RetainInv, LockNext
    PROVE  RetainInv'
<1>0. RetainTypeOK /\ AttachedExists
  BY RetainAttached
<1>1. RetainTypeOK' /\ AttachedExists' /\ StrayKnown' /\ robbed \subseteq robbed'
  BY <1>0, LockNextLife DEF RetainInv, StrayKnown
<1>2. ASSUME NEW p \in Objects, Exists(p)'
      PROVE  \E d \in -1 .. 1 : Counts(p, d)
  <2>1. ASSUME NEW o \in Objects, Lock(o) \/ Unlock(o) \/ ForceUnlock(o)
        PROVE  \E d \in -1 .. 1 : Counts(p, d)
    BY <1>0, <1>1, <1>2, <2>1, HookCounts
  <2>2. ASSUME NEW l \in Locks, NEW o \in Objects \cup {None}, SetObject(l, o)
        PROVE  \E d \in -1 .. 1 : Counts(p, d)
    BY <1>0, <1>1, <1>2, <2>2, SetObjectCounts
  <2>3. ASSUME NEW l \in Locks, NEW locked \in BOOLEAN, SetLocked(l, locked)
        PROVE  \E d \in -1 .. 1 : Counts(p, d)
    BY <1>0, <1>1, <1>2, <2>3, SetLockedCounts
  <2>4. ASSUME NEW l \in Locks, DestroyLock(l)
        PROVE  \E d \in -1 .. 1 : Counts(p, d)
    BY <1>0, <1>1, <1>2, <2>4, DestroyLockCounts
  <2>5. ASSUME NEW o \in Objects, DeferredDelete(o)
        PROVE  \E d \in -1 .. 1 : Counts(p, d)
    <3>1. p # o
      BY <1>0, <1>2, <2>5 DEF DeferredDelete, Delete, Exists, RetainTypeOK
    <3>2. life'[p] = life[p] /\ Exists(p)
      BY <1>0, <1>2, <2>5, <3>1 DEF DeferredDelete, Delete, Exists, RetainTypeOK
    <3>3. PICK gone \in SUBSET Objects : gone = {o}
      OBVIOUS
    <3>4. /\ object' = [l \in Locks |-> IF object[l] \in gone THEN None ELSE object[l]]
          /\ UNCHANGED <<refcount, explicit, enabled, historyVars>>
      BY <2>5, <3>3 DEF DeferredDelete, Delete
    <3> QED
      BY <1>0, <1>1, <3>1, <3>2, <3>3, <3>4, GoneCounts
  <2> QED
    BY <2>1, <2>2, <2>3, <2>4, <2>5 DEF LockNext
<1> QED
  BY <1>1, <1>2, CountsInv

\* Dropping an object keeps the types, and what the locks have.
LEMMA DropTypes ==
    ASSUME RetainTypeOK, NEW o \in Objects, Drop(o)
    PROVE  /\ RetainTypeOK'
           /\ life'[o] \in {"deleting", "dropped"}
           /\ \A p \in Objects \ {o} : life'[p] = life[p]
<1>1. PICK locks \in 0 .. 1 :
        /\ explicit[o] + locks <= MaxLocks
        /\ explicit' = [explicit EXCEPT ![o] = @ + locks]
        /\ refcount' = [refcount EXCEPT ![o] = (@ + locks) % Wrap]
        /\ life' = [life EXCEPT ![o] = IF refcount'[o] = 0 THEN "deleting" ELSE "dropped"]
  BY DEF Drop
<1>2. (refcount[o] + locks) % Wrap \in 0 .. Wrap - 1
  BY LocksBound, ModRange DEF RetainTypeOK
<1>3. explicit' \in [Objects -> 0 .. MaxLocks]
  BY <1>1, LocksBound DEF RetainTypeOK
<1>4. life' \in [Objects -> Lives]
  BY <1>1 DEF RetainTypeOK, Lives
<1>5. refcount' \in [Objects -> 0 .. Wrap - 1]
  BY <1>1, <1>2 DEF RetainTypeOK
<1>6. UNCHANGED <<object, enabled, early, stray, robbed>>
  BY DEF Drop, historyVars
<1> QED
  BY <1>1, <1>3, <1>4, <1>5, <1>6 DEF RetainTypeOK

\* So does a drop keep the invariant.
LEMMA DropInv ==
    ASSUME RetainInv, NEW o \in Objects, Drop(o)
    PROVE  RetainInv'
<1>0. RetainTypeOK /\ AttachedExists /\ RetainTypeOK'
  BY RetainAttached, DropTypes
<1>1. UNCHANGED <<object, stray, robbed>>
  BY DEF Drop, historyVars
<1>2. AttachedExists'
  <2> SUFFICES ASSUME NEW l \in Locks, object[l] # None
               PROVE  Exists(object[l])'
    BY <1>1 DEF AttachedExists, Exists
  <2>1. object[l] \in Objects /\ Exists(object[l]) /\ object'[l] = object[l]
    BY <1>0, <1>1 DEF AttachedExists, RetainTypeOK
  <2>2. life'[object[l]] \in {"alive", "dropped", "deleting"}
    BY <2>1, DropTypes, <1>0 DEF Exists
  <2> QED
    BY <2>1, <2>2 DEF Exists
<1>3. StrayKnown' /\ robbed \subseteq robbed'
  BY <1>1 DEF RetainInv, StrayKnown
<1> QED
  BY <1>0, <1>2, <1>3, HookCounts, CountsInv

\* The invariant speaks of these variables only.
LEMMA RetainStutterInv ==
    ASSUME RetainInv, UNCHANGED retainVars
    PROVE  RetainInv'
<1>1. UNCHANGED <<life, refcount, explicit, object, enabled, early, stray, robbed>>
  BY DEF retainVars, historyVars
<1> QED
  BY <1>1 DEF RetainInv, RetainTypeOK, CountExact, StrayKnown, DroppedOwed, Owed, Exists,
              Attached, Enabled, Early

\* LockedIsRetained says this of every step.
KeepsLocked ==
    \A o \in Objects :
        life[o] \in {"alive", "dropped"} /\ life'[o] = "deleting"
            => Locked(o)' = FALSE \/ ForceUnlock(o) \/ stray'[o] < 0

\* No step but forceUnlock begins to delete what is still counted.
LEMMA StepKeepsLocked ==
    ASSUME RetainInv, RetainInv', LockNext \/ \E o \in Objects : Drop(o)
    PROVE  KeepsLocked
<1> SUFFICES ASSUME NEW o \in Objects, life[o] \in {"alive", "dropped"}, life'[o] = "deleting",
                    ~ForceUnlock(o), ~(stray'[o] < 0)
             PROVE  Locked(o)' = FALSE
  BY DEF KeepsLocked
<1>0. RetainTypeOK
  BY DEF RetainInv
<1>1. ASSUME NEW p \in Objects, Drop(p)
      PROVE  refcount'[o] = 0
  BY <1>0, <1>1 DEF Drop, RetainTypeOK
<1>2. ASSUME NEW p \in Objects, Unref(p)
      PROVE  refcount'[o] = 0
  BY <1>0, <1>2 DEF Unref, RetainTypeOK
<1>3. ASSUME NEW p \in Objects, Lock(p) \/ Unlock(p) \/ ForceUnlock(p) \/ DeferredDelete(p)
      PROVE  refcount'[o] = 0
  BY <1>0, <1>2, <1>3 DEF Lock, Unlock, ForceUnlock, DeferredDelete, Delete, RetainTypeOK
<1>4. ASSUME NEW l \in Locks, NEW p \in Objects \cup {None}, SetObject(l, p)
      PROVE  refcount'[o] = 0
  BY <1>0, <1>4 DEF SetObject, RetainTypeOK
<1>5. ASSUME NEW l \in Locks, DestroyLock(l) \/ \E locked \in BOOLEAN : SetLocked(l, locked)
      PROVE  refcount'[o] = 0
  <2>1. UNCHANGED life \/ (object[l] # None /\ Unref(object[l]))
    BY <1>5 DEF DestroyLock, SetLocked
  <2> QED
    BY <1>0, <1>2, <2>1 DEF RetainTypeOK
<1>6. refcount'[o] = 0
  BY <1>1, <1>3, <1>4, <1>5 DEF LockNext
<1>7. Owed(o)' = 0
  <2>1. Exists(o)'
    BY DEF Exists
  <2>2. Owed(o)' % Wrap = 0
    BY <1>6, <2>1 DEF RetainInv, CountExact
  <2>3. Owed(o)' \in Int /\ -Wrap < Owed(o)' /\ Owed(o)' < Wrap
    BY OwedBoundNext DEF RetainInv
  <2> QED
    BY <2>2, <2>3, LocksBound, ModNear
<1>8. /\ Enabled(o)' \in SUBSET Locks /\ Early(o)' \in SUBSET Locks
      /\ explicit'[o] \in Nat /\ stray'[o] \in Nat
  <2>1. Enabled(o)' \in SUBSET Locks /\ Early(o)' \in SUBSET Locks
    BY DEF Enabled, Early, Attached
  <2>2. explicit'[o] \in 0 .. MaxLocks /\ stray'[o] \in -MaxStray .. MaxStray
    BY DEF RetainInv, RetainTypeOK
  <2> QED
    BY <2>1, <2>2, LocksBound
<1>9. /\ Cardinality(Enabled(o)') \in Nat /\ Cardinality(Early(o)') \in Nat
      /\ Cardinality(Enabled(o)') = 0 => Enabled(o)' = {}
  BY <1>8, SubsetBound
<1>10. explicit'[o] + Cardinality(Enabled(o)') + Cardinality(Early(o)') + stray'[o] = 0
  BY <1>7 DEF Owed
<1>11. explicit'[o] = 0 /\ Cardinality(Enabled(o)') = 0
  BY <1>8, <1>9, <1>10
<1> QED
  BY <1>9, <1>11 DEF Locked

\* The hook of every object counts its explicit locks, what its locks hold and
\* what locks have left behind, whatever QML does with them, for any sets of
\* objects and locks; and it is retained for no longer than that.
THEOREM RetainExact == RetainSpec => [](CountExact /\ RetainedOnlyIfHeld)
<1>1. RetainInit => RetainInv
  BY RetainInitInv
<1>2. RetainInv /\ [RetainNext]_retainVars => RetainInv'
  BY LockNextInv, DropInv, RetainStutterInv DEF RetainNext
<1>3. RetainInv => CountExact /\ RetainedOnlyIfHeld
  BY RetainInvHeld DEF RetainInv
<1> QED
  BY <1>1, <1>2, <1>3, PTL DEF RetainSpec

\* Nothing but forceUnlock deletes an object that is locked, as long as the
\* locks that have let go of it took no more than they held.
THEOREM RetainKeepsLocked == RetainSpec => LockedIsRetained
<1>1. RetainInit => RetainInv
  BY RetainInitInv
<1>2. RetainInv /\ [RetainNext]_retainVars => RetainInv'
  BY LockNextInv, DropInv, RetainStutterInv DEF RetainNext
<1>3. RetainInv /\ RetainInv' /\ [RetainNext]_retainVars => [KeepsLocked]_retainVars
  BY StepKeepsLocked DEF RetainNext
<1> QED
  BY <1>1, <1>2, <1>3, PTL DEF RetainSpec, LockedIsRetained, KeepsLocked

-----------------------------------------------------------------------------
(* The server.                                                             *)

\* A notification that was not closed was not closed by its `closed` signal.
NotReentered == \A n \in Objects : life[n] \in {"none", "alive"} => reentered[n] = 0

Inv ==
    /\ TypeOK
    /\ AttachedExists
    /\ NotReentered
    /\ ListsAgree
    /\ ToldOnce

-----------------------------------------------------------------------------
(* The lists and the clients.                                              *)

\* The invariant holds of a server without notifications.
LEMMA InitInv == Init => Inv
BY LocksAssumption, LocksBound
   DEF Init, Inv, TypeOK, RetainTypeOK, AttachedExists, NotReentered, ListsAgree,
       ToldOnce, Lives, Tracked, Dismissed, CloseRequested

\* A notification that is closed leaves the lists, its client is told.
LEMMA DeleteNotificationInv ==
    ASSUME Inv, NEW n \in Objects, NEW reason \in Tracked .. CloseRequested,
           NEW handler \in Handlers, n \in idMap, DeleteNotification(n, reason, handler)
    PROVE  Inv'
<1>1. TypeOK /\ RetainTypeOK /\ life[n] = "alive" /\ Drop(n)
  BY DEF Inv, TypeOK, DeleteNotification, Drop
<1>3. /\ life'[n] \in {"deleting", "dropped"}
      /\ \A p \in Objects \ {n} : life'[p] = life[p]
      /\ RetainTypeOK'
      /\ UNCHANGED object
  BY <1>1, DropTypes DEF Drop
<1>4. PICK again \in Nat :
        /\ told' = [told EXCEPT ![n] = @ + again + 1]
        /\ reentered' = [reentered EXCEPT ![n] = @ + again]
  <2>1. PICK again \in IF handler = "close" THEN 1 .. MaxAgain ELSE {0} :
          /\ told' = [told EXCEPT ![n] = @ + again + 1]
          /\ reentered' = [reentered EXCEPT ![n] = @ + again]
    BY DEF DeleteNotification
  <2>2. again \in Nat
    BY HandlersAssumption
  <2> QED
    BY <2>1, <2>2
<1>5. TypeOK'
  <2>1. closeReason' \in [Objects -> Tracked .. CloseRequested]
    BY <1>1 DEF DeleteNotification, TypeOK, Tracked, Dismissed, CloseRequested
  <2>2. told' \in [Objects -> Nat] /\ reentered' \in [Objects -> Nat]
    BY <1>1, <1>4 DEF TypeOK
  <2> QED
    BY <1>1, <1>3, <2>1, <2>2 DEF DeleteNotification, TypeOK
<1>6. AttachedExists'
  BY <1>1, <1>3, LocksAssumption DEF Inv, AttachedExists, Exists, RetainTypeOK
<1>7. ListsAgree'
  BY <1>1, <1>3 DEF Inv, ListsAgree, DeleteNotification
<1>8. ToldOnce'
  <2> SUFFICES ASSUME NEW p \in Objects
               PROVE  told'[p] = IF life'[p] \in {"none", "alive"} THEN 0 ELSE 1 + reentered'[p]
    BY DEF ToldOnce
  <2>1. CASE p = n
    <3>1. told[n] = 0 /\ reentered[n] = 0
      BY <1>1 DEF Inv, ToldOnce, NotReentered
    <3> QED
      BY <1>1, <1>3, <1>4, <2>1, <3>1 DEF TypeOK, Inv
  <2>2. CASE p # n
    BY <1>1, <1>3, <1>4, <2>2 DEF Inv, ToldOnce, TypeOK
  <2> QED
    BY <2>1, <2>2
<1>9. NotReentered'
  BY <1>1, <1>3, <1>4 DEF Inv, NotReentered, TypeOK
<1> QED
  BY <1>5, <1>6, <1>7, <1>8, <1>9 DEF Inv

\* The notifications a server emits are tracked afterwards, or told and gone.
LEMMA SettleInv ==
    ASSUME Inv, NEW emitted \in SUBSET Objects, NEW kept \in SUBSET emitted,
           Settle(emitted, kept),
           \A n \in emitted : life[n] \in {"none", "alive"},
           idMap' = (idMap \ emitted) \cup kept,
           notifications' = idMap'
    PROVE  Inv'
<1>1. TypeOK /\ RetainTypeOK
  BY DEF Inv, TypeOK
<1>2. \A n \in Objects : life'[n] = IF n \in kept THEN "alive"
                                    ELSE IF n \in emitted THEN "gone" ELSE life[n]
  BY DEF Settle
<1>3. RetainTypeOK'
  BY <1>1 DEF Settle, RetainTypeOK, historyVars, Lives
<1>4. TypeOK'
  BY <1>1, <1>3 DEF Settle, TypeOK, Tracked, Dismissed, CloseRequested
<1>5. AttachedExists'
  BY <1>1, <1>2, LocksAssumption DEF Settle, Inv, AttachedExists, Exists, RetainTypeOK
<1>6. ListsAgree'
  BY <1>1, <1>2 DEF Inv, ListsAgree, TypeOK
<1>7. ToldOnce' /\ NotReentered'
  BY <1>1, <1>2 DEF Settle, Inv, ToldOnce, NotReentered, TypeOK
<1> QED
  BY <1>4, <1>5, <1>6, <1>7 DEF Inv

\* A new notification.
LEMMA NotifyInv ==
    ASSUME Inv, NEW n \in Objects, Notify(n)
    PROVE  Inv'
<1>1. PICK kept \in SUBSET {n} :
        /\ Settle({n}, kept)
        /\ idMap' = idMap \cup kept
        /\ notifications' = notifications \cup kept
  BY DEF Notify
<1>2. PICK emitted \in SUBSET Objects : emitted = {n}
  OBVIOUS
<1>3. life[n] = "none" /\ n \notin idMap /\ notifications = idMap
  BY DEF Notify, Inv, ListsAgree
<1>4. Settle(emitted, kept) /\ kept \in SUBSET emitted
  BY <1>1, <1>2
<1>5. idMap' = (idMap \ emitted) \cup kept /\ notifications' = idMap'
  BY <1>1, <1>2, <1>3
<1> QED
  BY <1>2, <1>3, <1>4, <1>5, SettleInv

\* A new generation.
LEMMA SwitchGenerationInv ==
    ASSUME Inv, NEW keepOnReload \in BOOLEAN, SwitchGeneration(keepOnReload)
    PROVE  Inv'
<1>1. PICK kept \in SUBSET notifications :
        Settle(notifications, kept) /\ idMap' = kept /\ notifications' = kept
  BY DEF SwitchGeneration
<1>2. /\ notifications \in SUBSET Objects
      /\ notifications = idMap
      /\ \A n \in notifications : life[n] = "alive"
  BY DEF Inv, ListsAgree
<1>3. idMap' = (idMap \ notifications) \cup kept /\ notifications' = idMap'
  BY <1>1, <1>2
<1> QED
  BY <1>1, <1>2, <1>3, SettleInv

\* Every step keeps the invariant.
LEMMA NextInv ==
    ASSUME Inv, [Next]_vars
    PROVE  Inv'
<1>1. ASSUME NEW n \in Objects, Notify(n) PROVE Inv'
  BY <1>1, NotifyInv
<1>2. ASSUME NEW n \in Objects, NEW handler \in Handlers, CloseNotification(n, handler)
      PROVE  Inv'
  <2>1. closeReason[n] \in Tracked .. CloseRequested
    BY DEF Inv, TypeOK
  <2> QED
    BY <1>2, <2>1, DeleteNotificationInv DEF CloseNotification
<1>3. ASSUME NEW n \in Objects, NEW reason \in {Expired, Dismissed},
             NEW handler \in Handlers, Close(n, reason, handler)
      PROVE  Inv'
  <2>1. reason \in Tracked .. CloseRequested
    BY DEF Expired, Dismissed, Tracked, CloseRequested
  <2> QED
    BY <1>3, <2>1, DeleteNotificationInv DEF Close
<1>4. ASSUME NEW keepOnReload \in BOOLEAN, SwitchGeneration(keepOnReload) PROVE Inv'
  BY <1>4, SwitchGenerationInv
<1>5. ASSUME LockNext, UNCHANGED serverVars PROVE Inv'
  <2>1. RetainTypeOK' /\ AttachedExists' /\ \A p \in Objects : LaterLife(p)
    BY <1>5, LockNextLife DEF Inv, TypeOK
  <2>2. TypeOK'
    BY <1>5, <2>1 DEF Inv, TypeOK, serverVars
  <2>3. \A p \in Objects : /\ life'[p] = "alive" <=> life[p] = "alive"
                           /\ life'[p] = "none" <=> life[p] = "none"
    BY <2>1 DEF LaterLife
  <2> QED
    BY <1>5, <2>1, <2>2, <2>3 DEF Inv, ListsAgree, ToldOnce, NotReentered, serverVars
<1>6. ASSUME UNCHANGED vars PROVE Inv'
  BY <1>6 DEF vars, retainVars, historyVars, serverVars, Inv, TypeOK, RetainTypeOK,
              AttachedExists, ListsAgree, ToldOnce, NotReentered, Exists
<1> QED
  BY <1>1, <1>2, <1>3, <1>4, <1>5, <1>6 DEF Next

\* The server's lists are one and hold the living notifications, and every
\* client is told once of a close, for any notifications, locks and handlers.
THEOREM NotificationsCorrect == Spec => [](TypeOK /\ ListsAgree /\ ToldOnce)
<1>1. Init => Inv
  BY InitInv
<1>2. Inv /\ [Next]_vars => Inv'
  BY NextInv
<1>3. Inv => TypeOK /\ ListsAgree /\ ToldOnce
  BY DEF Inv
<1> QED
  BY <1>1, <1>2, <1>3, PTL DEF Spec

-----------------------------------------------------------------------------
(* The reference counts.                                                   *)

\* Nobody counts a notification that was not created yet.
Fresh == \A n \in Objects : life[n] = "none" => refcount[n] = 0 /\ explicit[n] = 0 /\ stray[n] = 0

CountInv == Inv /\ RetainInv /\ Fresh

\* A notification that is created owes nothing.
LEMMA FreshOwed ==
    ASSUME NEW n \in Objects, Attached(n) = {}, explicit[n] = 0, stray[n] = 0
    PROVE  Owed(n) = 0
<1>1. Enabled(n) = {} /\ Early(n) = {}
  BY DEF Enabled, Early
<1> QED
  BY <1>1, FS_EmptySet DEF Owed

\* Every notification is counted when it is created, and gone uncounted.
LEMMA SettleCountInv ==
    ASSUME CountInv, NEW emitted \in SUBSET Objects, NEW kept \in SUBSET emitted,
           Settle(emitted, kept),
           \A n \in emitted : life[n] \in {"none", "alive"}
    PROVE  RetainInv' /\ Fresh'
<1>1. RetainTypeOK /\ CountExact /\ AttachedExists /\ Fresh
  BY RetainAttached DEF CountInv, RetainInv
<1>2. /\ \A n \in Objects : life'[n] = IF n \in kept THEN "alive"
                                       ELSE IF n \in emitted THEN "gone" ELSE life[n]
      /\ object' = [l \in Locks |-> IF object[l] \in emitted \ kept THEN None ELSE object[l]]
      /\ UNCHANGED <<refcount, explicit, enabled, historyVars>>
      /\ UNCHANGED <<early, stray, robbed>>
  BY DEF Settle, historyVars
<1>3. RetainTypeOK'
  BY <1>1 DEF Settle, RetainTypeOK, historyVars, Lives
<1>4. Fresh'
  BY <1>1, <1>2 DEF Fresh
<1>5. StrayKnown'
  BY <1>2 DEF CountInv, RetainInv, StrayKnown
<1>6. \A n \in emitted \ kept : Attached(n)' = {} /\ ~Exists(n)'
  BY <1>2, LocksAssumption DEF Attached, Exists
<1>7. \A n \in (Objects \ emitted) \cup kept : Owed(n)' = Owed(n) /\ Attached(n)' = Attached(n)
  <2> TAKE n \in (Objects \ emitted) \cup kept
  <2>1. Attached(n)' = Attached(n) /\ Enabled(n)' = Enabled(n) /\ Early(n)' = Early(n)
    BY <1>2, LocksAssumption DEF Attached, Enabled, Early
  <2> QED
    BY <1>2, <2>1 DEF Owed
<1>8. CountExact'
  <2> SUFFICES ASSUME NEW n \in Objects
               PROVE  /\ Exists(n)' => refcount'[n] = Owed(n)' % Wrap
                      /\ ~Exists(n)' => Attached(n)' = {}
    BY DEF CountExact
  <2>1. CASE n \in emitted \ kept
    BY <1>6, <2>1
  <2>2. CASE n \notin emitted
    <3>1. Exists(n)' <=> Exists(n)
      BY <1>2, <2>2 DEF Exists
    <3> QED
      BY <1>1, <1>2, <1>7, <2>2, <3>1 DEF CountExact
  <2>3. CASE n \in kept /\ life[n] = "alive"
    BY <1>1, <1>2, <1>7, <2>3 DEF CountExact, Exists
  <2>4. CASE n \in kept /\ life[n] = "none"
    <3>1. Exists(n)'
      BY <1>2, <2>4 DEF Exists
    <3>2. Attached(n) = {} /\ refcount[n] = 0 /\ explicit[n] = 0 /\ stray[n] = 0
      BY <1>1, <2>4 DEF CountExact, Exists, Fresh
    <3>3. Owed(n)' = 0
      BY <1>7, <2>4, <3>2, FreshOwed
    <3>4. 0 % Wrap = 0
      BY LocksBound, ModNear
    <3> QED
      BY <1>2, <3>1, <3>2, <3>3, <3>4
  <2> QED
    BY <2>1, <2>2, <2>3, <2>4
<1>9. DroppedOwed'
  <2> SUFFICES ASSUME NEW n \in Objects \ robbed, life'[n] = "dropped"
               PROVE  Owed(n)' > 0
    BY <1>2 DEF DroppedOwed
  <2>1. n \notin emitted /\ life[n] = "dropped"
    BY <1>2
  <2> QED
    BY <1>7, <2>1 DEF CountInv, RetainInv, DroppedOwed
<1> QED
  BY <1>3, <1>4, <1>5, <1>8, <1>9 DEF RetainInv

\* Locks and drops leave what was not created uncounted.
LEMMA FreshStep ==
    ASSUME Inv, Fresh, LockNext \/ \E n \in Objects : Drop(n)
    PROVE  Fresh'
<1>0. RetainTypeOK /\ AttachedExists
  BY DEF Inv, TypeOK
<1> DEFINE Goal(p) == refcount'[p] = 0 /\ explicit'[p] = 0 /\ stray'[p] = 0
<1> SUFFICES ASSUME NEW p \in Objects, life'[p] = "none"
             PROVE  Goal(p)
  BY DEF Fresh
<1>1. ASSUME NEW n \in Objects, Drop(n)
      PROVE  Goal(p)
  <2>1. n # p
    BY <1>0, <1>1 DEF Drop, RetainTypeOK
  <2> QED
    BY <1>0, <1>1, <2>1 DEF Drop, historyVars, RetainTypeOK, Fresh
<1>2. CASE LockNext
  <2>1. life[p] = "none" /\ refcount[p] = 0 /\ explicit[p] = 0 /\ stray[p] = 0
    BY <1>0, <1>2, LockNextLife DEF LaterLife, Fresh
  <2>2. ~Exists(p) /\ \A l \in Locks : object[l] # p
    BY <1>0, <2>1, LocksAssumption DEF Exists, AttachedExists
  <2>3. ASSUME NEW o \in Objects, Lock(o) \/ Unlock(o) \/ ForceUnlock(o) \/ DeferredDelete(o)
        PROVE  Goal(p)
    <3>1. o # p
      BY <2>1, <2>2, <2>3 DEF Lock, Unlock, ForceUnlock, DeferredDelete
    <3> QED
      BY <1>0, <2>1, <2>3, <3>1
         DEF Lock, Unlock, ForceUnlock, DeferredDelete, Delete, Ref, Unref, historyVars,
             RetainTypeOK
  <2>4. ASSUME NEW l \in Locks, NEW o \in Objects \cup {None}, SetObject(l, o)
        PROVE  Goal(p)
    <3>1. o # p /\ object[l] # p
      BY <2>2, <2>4, LocksAssumption DEF SetObject
    <3> QED
      BY <2>1, <2>4, <3>1 DEF SetObject, LeaveBehind
  <2>5. ASSUME NEW l \in Locks, DestroyLock(l) \/ \E locked \in BOOLEAN : SetLocked(l, locked)
        PROVE  Goal(p)
    <3>1. object[l] # p
      BY <2>2
    <3> QED
      BY <1>0, <2>1, <2>5, <3>1
         DEF DestroyLock, SetLocked, Ref, Unref, LeaveBehind, historyVars, RetainTypeOK
  <2> QED
    BY <1>2, <2>3, <2>4, <2>5 DEF LockNext
<1> QED
  BY <1>1, <1>2

\* The counts are exact when the server starts.
LEMMA InitCount ==
    ASSUME Init
    PROVE  CountInv
<1>1. \A n \in Objects : Attached(n) = {}
  BY LocksAssumption DEF Init, Attached
<1>2. RetainInv
  BY <1>1, InitInv
     DEF Init, Inv, TypeOK, RetainInv, CountExact, StrayKnown, DroppedOwed, Exists
<1> QED
  BY <1>2, InitInv DEF CountInv, Fresh, Init

\* Every step keeps them exact.
LEMMA NextCount ==
    ASSUME CountInv, [Next]_vars
    PROVE  CountInv'
<1>1. ASSUME NEW n \in Objects, Notify(n) PROVE RetainInv' /\ Fresh'
  <2>1. PICK emitted \in SUBSET Objects : emitted = {n}
    OBVIOUS
  <2>2. PICK kept \in SUBSET emitted : Settle(emitted, kept)
    BY <1>1, <2>1 DEF Notify
  <2>3. \A m \in emitted : life[m] \in {"none", "alive"}
    BY <1>1, <2>1 DEF Notify
  <2> QED
    BY <2>2, <2>3, SettleCountInv
<1>2. ASSUME NEW n \in Objects, Drop(n) PROVE RetainInv' /\ Fresh'
  BY <1>2, DropInv, FreshStep DEF CountInv
<1>3. ASSUME NEW keepOnReload \in BOOLEAN, SwitchGeneration(keepOnReload)
      PROVE  RetainInv' /\ Fresh'
  <2>1. PICK kept \in SUBSET notifications : Settle(notifications, kept)
    BY <1>3 DEF SwitchGeneration
  <2>2. notifications \in SUBSET Objects /\ \A n \in notifications : life[n] = "alive"
    BY DEF CountInv, Inv, ListsAgree
  <2> QED
    BY <2>1, <2>2, SettleCountInv
<1>4. ASSUME LockNext PROVE RetainInv' /\ Fresh'
  BY <1>4, LockNextInv, FreshStep DEF CountInv
<1>5. ASSUME UNCHANGED vars PROVE RetainInv' /\ Fresh'
  <2>1. UNCHANGED <<life, refcount, explicit, stray>>
    BY <1>5 DEF vars, retainVars, historyVars
  <2> QED
    BY <1>5, <2>1, RetainStutterInv DEF CountInv, Fresh, vars
<1>6. RetainInv' /\ Fresh'
  BY <1>1, <1>2, <1>3, <1>4, <1>5
     DEF Next, CloseNotification, Close, DeleteNotification
<1>7. Inv'
  BY NextInv DEF CountInv
<1> QED
  BY <1>6, <1>7 DEF CountInv

\* The hook of a notification counts its explicit locks, what its locks hold and
\* what locks have left behind, through closes, reloads and takeovers, and it is
\* retained for no longer than that.
THEOREM NotificationsRetained == Spec => [](CountExact /\ RetainedOnlyIfHeld)
<1>1. Init => CountInv
  BY InitCount
<1>2. CountInv /\ [Next]_vars => CountInv'
  BY NextCount
<1>3. CountInv => CountExact /\ RetainedOnlyIfHeld
  BY RetainInvHeld DEF CountInv, RetainInv
<1> QED
  BY <1>1, <1>2, <1>3, PTL DEF Spec

\* A notification that is locked is not deleted with deleteLater, except by
\* forceUnlock, as long as the locks that have let go of it took no more than
\* they held.
THEOREM NotificationsKeepLocked == Spec => LockedIsRetained
<1>1. Init => CountInv
  BY InitCount
<1>2. CountInv /\ [Next]_vars => CountInv'
  BY NextCount
<1>3. CountInv /\ CountInv' /\ [Next]_vars => [KeepsLocked]_retainVars
  <2> SUFFICES ASSUME CountInv, CountInv', [Next]_vars
               PROVE  KeepsLocked \/ UNCHANGED retainVars
    OBVIOUS
  <2>1. RetainInv /\ RetainInv'
    BY DEF CountInv
  <2>2. ASSUME NEW emitted, NEW kept, Settle(emitted, kept) PROVE KeepsLocked
    BY <2>2 DEF Settle, KeepsLocked
  <2>3. CASE (\E n \in Objects : Notify(n))
             \/ (\E keepOnReload \in BOOLEAN : SwitchGeneration(keepOnReload))
    BY <2>2, <2>3 DEF Notify, SwitchGeneration
  <2>4. CASE LockNext \/ \E n \in Objects : Drop(n)
    BY <2>1, <2>4, StepKeepsLocked
  <2>5. CASE UNCHANGED vars
    BY <2>5 DEF vars
  <2> QED
    BY <2>3, <2>4, <2>5 DEF Next, CloseNotification, Close, DeleteNotification
<1> QED
  BY <1>1, <1>2, <1>3, PTL DEF Spec, LockedIsRetained, KeepsLocked
=============================================================================
