----------------------------- MODULE Retainable -----------------------------
(***************************************************************************)
(* Delayed destruction: Retainable, RetainableHook and RetainableLock      *)
(* (core/retainable.cpp).  An object that is dropped is kept for as long   *)
(* as its hook counts a reference, whether taken by RetainableHook.lock()  *)
(* or by a RetainableLock that has the object.                             *)
(***************************************************************************)
EXTENDS Integers, FiniteSets

CONSTANTS
    Objects,      (* retainable objects                                      *)
    Locks,        (* RetainableLock instances                                *)
    None,         (* in place of a lock's object: null                       *)
    Wrap,         (* refcount is a uint, it counts modulo this               *)
    MaxLocks,     (* bound: explicit locks an object has at a time           *)
    MaxStray      (* bound: references locks leave behind, or take too many  *)

ASSUME LocksAssumption == /\ IsFiniteSet(Locks)
                          /\ None \notin Objects
ASSUME BoundsAssumption == /\ MaxLocks \in Nat
                           /\ Wrap \in Nat
                           /\ MaxStray \in Nat
                           /\ MaxLocks + 2 * Cardinality(Locks) + MaxStray < Wrap

VARIABLES
    life,       (* of an object: none, alive, dropped (the hook is no longer *)
                (* inactive), deleting (deleteLater is posted) or gone       *)
    refcount,   (* RetainableHook::refcount                                  *)
    explicit,   (* RetainableHook::explicitRefcount                          *)
    object,     (* RetainableLock::mObject                                   *)
    enabled,    (* RetainableLock::mEnabled                                  *)
    early,      (* history: the lock was not locked when it got its object   *)
    stray,      (* history: the references to an object that were left       *)
                (* behind by locks that have let go of it; below zero, the   *)
                (* references of others that they have taken with them       *)
    robbed      (* history: the objects of which stray was below zero once   *)

historyVars == <<early, stray, robbed>>
retainVars == <<life, refcount, explicit, object, enabled, historyVars>>

Lives == {"none", "alive", "dropped", "deleting", "gone"}
Exists(o) == life[o] \in {"alive", "dropped", "deleting"}

\* The locks that have o, and those of them that say it is locked.
Attached(o) == {l \in Locks : object[l] = o}
Enabled(o) == {l \in Attached(o) : enabled[l]}
Locked(o) == explicit[o] > 0 \/ Enabled(o) # {}

\* setObject takes a reference, locked or not, and setLocked one more: a lock
\* that was locked only after it got its object holds two.
Early(o) == {l \in Attached(o) : early[l]}
One(b) == IF b THEN 1 ELSE 0
Held(l) == One(early[l]) + One(enabled[l])

\* l lets go of its object and gives `given` references back.
LeaveBehind(l, given) ==
    /\ stray' = [p \in Objects |-> IF p = object[l] THEN stray[p] + Held(l) - given
                                   ELSE stray[p]]
    /\ \A p \in Objects : stray'[p] \in -MaxStray .. MaxStray        \* bound
    /\ robbed' = robbed \cup {p \in Objects : stray'[p] < 0}

-----------------------------------------------------------------------------
(* RetainableHook.                                                         *)

Ref(o) == refcount' = [refcount EXCEPT ![o] = (@ + 1) % Wrap]

\* unlocked(): nothing while the object is in use, deletion once it is not.
Unlocked(state) == IF state = "alive" THEN "alive" ELSE "deleting"

\* Variant: deletion begins when one reference is left.
UnrefEarly(o) ==
    /\ refcount' = [refcount EXCEPT ![o] = (@ - 1) % Wrap]
    /\ life' = [life EXCEPT ![o] = IF refcount[o] - 1 <= 1 THEN Unlocked(@) ELSE @]

\* Variant: unref never ends in unlocked(), what is dropped stays.
UnrefOnly(o) ==
    /\ refcount' = [refcount EXCEPT ![o] = (@ - 1) % Wrap]
    /\ life' = life

Unref(o) ==
    /\ refcount' = [refcount EXCEPT ![o] = (@ - 1) % Wrap]
    /\ life' = [life EXCEPT ![o] = IF refcount'[o] = 0 THEN Unlocked(@) ELSE @]

Lock(o) ==
    /\ Exists(o)
    /\ explicit[o] < MaxLocks           \* bound
    /\ explicit' = [explicit EXCEPT ![o] = @ + 1]
    /\ Ref(o)
    /\ UNCHANGED <<life, object, enabled, historyVars>>

Unlock(o) ==
    /\ Exists(o)
    /\ explicit[o] >= 1
    /\ explicit' = [explicit EXCEPT ![o] = @ - 1]
    /\ Unref(o)
    /\ UNCHANGED <<object, enabled, historyVars>>

ForceUnlock(o) ==
    /\ Exists(o)
    /\ life' = [life EXCEPT ![o] = Unlocked(@)]
    /\ UNCHANGED <<refcount, explicit, object, enabled, historyVars>>

-----------------------------------------------------------------------------
(* Retainable.                                                             *)

\* retainedDestroy: a handler of `dropped` may still lock the object.
Drop(o) ==
    /\ life[o] = "alive"
    /\ \E locks \in 0 .. 1 :
        /\ explicit[o] + locks <= MaxLocks           \* bound
        /\ explicit' = [explicit EXCEPT ![o] = @ + locks]
        /\ refcount' = [refcount EXCEPT ![o] = (@ + locks) % Wrap]
        /\ life' = [life EXCEPT ![o] = IF refcount'[o] = 0 THEN "deleting" ELSE "dropped"]
    /\ UNCHANGED <<object, enabled, historyVars>>

\* The object is deleted, by the event loop or by its owner; its locks lose it.
Delete(o) ==
    /\ life' = [life EXCEPT ![o] = "gone"]
    /\ object' = [l \in Locks |-> IF object[l] = o THEN None ELSE object[l]]
    /\ UNCHANGED <<refcount, explicit, enabled, historyVars>>

DeferredDelete(o) == life[o] = "deleting" /\ Delete(o)

-----------------------------------------------------------------------------
(* RetainableLock.                                                         *)

\* setObject refers to the object, and forgets the last one, whether or not
\* the lock is locked.
SetObject(l, o) ==
    LET old == object[l]
        left == (refcount[old] - 1) % Wrap
    IN /\ o # old
       /\ o # None => Exists(o)
       /\ object' = [object EXCEPT ![l] = o]
       /\ refcount' = [p \in Objects |-> IF p = old THEN left
                                         ELSE IF p = o THEN (refcount[p] + 1) % Wrap
                                         ELSE refcount[p]]
       /\ life' = [p \in Objects |-> IF p = old /\ left = 0 THEN Unlocked(life[p])
                                     ELSE life[p]]
       /\ early' = [early EXCEPT ![l] = o # None /\ ~enabled[l]]
       /\ LeaveBehind(l, 1)
       /\ UNCHANGED <<explicit, enabled>>

SetLocked(l, locked) ==
    /\ locked # enabled[l]
    /\ enabled' = [enabled EXCEPT ![l] = locked]
    /\ IF object[l] = None THEN UNCHANGED <<life, refcount>>
       ELSE IF locked THEN Ref(object[l]) /\ UNCHANGED life
       ELSE Unref(object[l])
    /\ UNCHANGED <<explicit, object, historyVars>>

\* Variant: a lock that is destroyed keeps its reference.
DestroyLockOnly(l) ==
    /\ LeaveBehind(l, One(enabled[l]))
    /\ object' = [object EXCEPT ![l] = None]
    /\ enabled' = [enabled EXCEPT ![l] = FALSE]
    /\ early' = [early EXCEPT ![l] = FALSE]
    /\ UNCHANGED <<life, refcount, explicit>>

\* The lock is destroyed; a new one may be created in its place.
DestroyLock(l) ==
    /\ IF enabled[l] /\ object[l] # None THEN Unref(object[l]) ELSE UNCHANGED <<life, refcount>>
    /\ LeaveBehind(l, One(enabled[l]))
    /\ object' = [object EXCEPT ![l] = None]
    /\ enabled' = [enabled EXCEPT ![l] = FALSE]
    /\ early' = [early EXCEPT ![l] = FALSE]
    /\ UNCHANGED explicit

-----------------------------------------------------------------------------
RetainInit ==
    /\ life = [o \in Objects |-> "alive"]
    /\ refcount = [o \in Objects |-> 0]
    /\ explicit = [o \in Objects |-> 0]
    /\ object = [l \in Locks |-> None]
    /\ enabled = [l \in Locks |-> FALSE]
    /\ early = [l \in Locks |-> FALSE]
    /\ stray = [o \in Objects |-> 0]
    /\ robbed = {}

LockNext ==
    \/ \E o \in Objects : Lock(o) \/ Unlock(o) \/ ForceUnlock(o)
    \/ \E l \in Locks : \E o \in Objects \cup {None} : SetObject(l, o)
    \/ \E l \in Locks : \E locked \in BOOLEAN : SetLocked(l, locked)
    \/ \E l \in Locks : DestroyLock(l)
    \/ \E o \in Objects : DeferredDelete(o)

RetainNext == LockNext \/ \E o \in Objects : Drop(o)

RetainSpec == RetainInit /\ [][RetainNext]_retainVars

-----------------------------------------------------------------------------
(* Correctness.                                                            *)

RetainTypeOK ==
    /\ life \in [Objects -> Lives]
    /\ refcount \in [Objects -> 0 .. Wrap - 1]
    /\ explicit \in [Objects -> 0 .. MaxLocks]
    /\ object \in [Locks -> Objects \cup {None}]
    /\ enabled \in [Locks -> BOOLEAN]
    /\ early \in [Locks -> BOOLEAN]
    /\ stray \in [Objects -> -MaxStray .. MaxStray]
    /\ robbed \subseteq Objects

\* What the hook of o should have counted: its explicit locks, what its locks
\* hold, and what those before them have left behind.
Owed(o) == explicit[o] + Cardinality(Enabled(o)) + Cardinality(Early(o)) + stray[o]

\* The hook counts just that, in whatever order QML sets, clears and destroys,
\* and no lock has an object that is gone.
CountExact ==
    \A o \in Objects :
        /\ Exists(o) => refcount[o] = Owed(o) % Wrap
        /\ ~Exists(o) => Attached(o) = {}

\* What is dropped is kept only while something holds it: a lock, a lock that
\* was not locked when it got it, or what such locks left behind.  Once locks
\* have taken more than they held the count may wrap, and pass zero unnoticed.
RetainedOnlyIfHeld ==
    \A o \in Objects \ robbed :
        life[o] = "dropped" => Locked(o) \/ Early(o) # {} \/ stray[o] # 0

\* But for forceUnlock, no step begins to delete an object that is locked when
\* the step is done, unless locks have let go of it with more references than
\* they held, by then.
LockedIsRetained ==
    [][\A o \in Objects :
        life[o] \in {"alive", "dropped"} /\ life'[o] = "deleting"
            => Locked(o)' = FALSE \/ ForceUnlock(o) \/ stray'[o] < 0]_retainVars

=============================================================================
