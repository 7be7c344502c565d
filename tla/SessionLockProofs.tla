------------------------- MODULE SessionLockProofs --------------------------
(***************************************************************************)
(* Proofs about SessionLock, for any elements, outputs and bounds, and any *)
(* QML and compositor: its types, that the element that is locked holds    *)
(* the active lock, that it covers the screens, and that a patient QML is  *)
(* neither disconnected nor aborted.                                       *)
(*                                                                         *)
(* The first two need each other, and what a reload has yet to do: an      *)
(* element takes a lock when none is active, which has to mean that no     *)
(* other element has one, and an element that is locked shows its surfaces *)
(* once its turn in the reload has come.  The methods are functions of a   *)
(* state c of the client, so both are stated of any c.                     *)
(***************************************************************************)
EXTENDS SessionLock, SequenceTheorems, TLAPS

LockStates == {"requested", "secure", "gone"}

Requests == [type : {"lock", "surfaces", "unlock", "destroy"}, lock : Nat,
             outputs : SUBSET Outputs]

Clients == [process : {"runs", "aborted", "killed"}, screens : SUBSET Outputs, active : Nat,
            locks : Seq(LockStates), targets : SUBSET Elements, mLock : [Elements -> Nat],
            component : [Elements -> Components], created : [Elements -> SUBSET Outputs],
            shown : [Elements -> SUBSET Outputs], reloading : BOOLEAN,
            pending : SUBSET Elements, orphans : SUBSET Nat, abandoned : BOOLEAN,
            sent : Seq(Requests)]

\* An element has the active lock or none, and shares it with no other nor
\* with an old element that is yet to be destroyed; the active lock is one of
\* those, and is not gone, unless one was abandoned.
Held(c) ==
    /\ \A e \in Elements : c.mLock[e] # 0 =>
           /\ c.mLock[e] = c.active /\ c.mLock[e] \notin c.orphans
           /\ c.active \in 1..Len(c.locks) /\ c.locks[c.active] # "gone"
           /\ \A f \in Elements : c.mLock[f] # 0 => f = e
    /\ c.active # 0 /\ ~c.abandoned =>
           /\ c.locks[c.active] # "gone"
           /\ c.active \in c.orphans \/ \E e \in Elements : c.mLock[e] = c.active
    /\ c.orphans \subseteq 1..Len(c.locks)
    /\ ~c.reloading => c.orphans = {}

\* What e shows; in a reload it is nothing, until its turn has come.
ShowsRight(c, e) ==
    c.shown[e] = IF IsLocked(c, e) /\ e \notin c.pending THEN c.screens ELSE {}

Shown(c) == c.process = "runs" => \A e \in Elements : ShowsRight(c, e)

\* All but e show what they should; e may show anything if it is locked.
ShownExcept(c, e) ==
    /\ e \notin c.pending
    /\ c.process = "runs" => /\ \A f \in Elements : f # e => ShowsRight(c, f)
                             /\ ~IsLocked(c, e) => c.shown[e] = {}

\* What the methods leave alone.
Kept(n, c) ==
    /\ n.pending = c.pending /\ n.component = c.component /\ n.screens = c.screens
    /\ n.reloading = c.reloading /\ n.targets = c.targets

Good(c) == c \in Clients /\ Held(c) /\ Shown(c)
Loose(c, e) == c \in Clients /\ Held(c) /\ ShownExcept(c, e)

\* An index past the end changes nothing.
LEMMA ExceptAt ==
    ASSUME NEW S, NEW s \in Seq(S), NEW l \in Nat, NEW v \in S
    PROVE  /\ [s EXCEPT ![l] = v] \in Seq(S)
           /\ Len([s EXCEPT ![l] = v]) = Len(s)
           /\ \A k \in 1..Len(s) : [s EXCEPT ![l] = v][k] = IF k = l THEN v ELSE s[k]
  <1>1. CASE l \in 1..Len(s)
    BY <1>1, ExceptSeq
  <1>2. CASE l \notin 1..Len(s)
    <2>1. [s EXCEPT ![l] = v] = s
      BY <1>2
    <2> QED
      BY <2>1, <1>2
  <1> QED
    BY <1>1, <1>2

LEMMA GoodIsLoose ==
    ASSUME NEW c, Good(c), NEW e \in Elements, e \notin c.pending
    PROVE  Loose(c, e)
  BY DEF Good, Loose, Shown, ShownExcept, ShowsRight

-----------------------------------------------------------------------------
(* The ways in which a lock is taken and let go of, s being what has been  *)
(* sent by then.                                                           *)

Taken(c, e, s, created, shown) ==
    [c EXCEPT !.sent = s, !.locks = Append(@, "requested"), !.active = Len(c.locks) + 1,
              !.mLock[e] = Len(c.locks) + 1, !.created[e] = created, !.shown[e] = shown]

LetGo(c, e, s, active, abandoned) ==
    [c EXCEPT !.sent = s, !.locks[c.mLock[e]] = "gone", !.active = active, !.mLock[e] = 0,
              !.created[e] = {}, !.shown[e] = {}, !.abandoned = abandoned]

\* Release, by the element that has the lock.
LEMMA ReleasedGood ==
    ASSUME NEW c, NEW e \in Elements, Loose(c, e), IsLocked(c, e), NEW s \in Seq(Requests)
    PROVE  /\ Good(LetGo(c, e, s, 0, c.abandoned))
           /\ Kept(LetGo(c, e, s, 0, c.abandoned), c)
  <1> DEFINE n == LetGo(c, e, s, 0, c.abandoned)
             l == c.mLock[e]
             locksNow == [c.locks EXCEPT ![l] = "gone"]
             mLockNow == [c.mLock EXCEPT ![e] = 0]
             createdNow == [c.created EXCEPT ![e] = {}]
             shownNow == [c.shown EXCEPT ![e] = {}]
  <1>a. c \in Clients /\ c.locks \in Seq(LockStates) /\ c.mLock \in [Elements -> Nat]
        /\ c.shown \in [Elements -> SUBSET Outputs] /\ c.created \in [Elements -> SUBSET Outputs]
        /\ l \in Nat
    BY DEF Loose, Clients
  <1>b. locksNow \in Seq(LockStates) /\ Len(locksNow) = Len(c.locks)
    <2>1. "gone" \in LockStates
      BY DEF LockStates
    <2> QED
      BY <1>a, <2>1, ExceptAt
  <1>c. mLockNow \in [Elements -> Nat] /\ createdNow \in [Elements -> SUBSET Outputs]
        /\ shownNow \in [Elements -> SUBSET Outputs]
        /\ \A f \in Elements : /\ mLockNow[f] = IF f = e THEN 0 ELSE c.mLock[f]
                               /\ shownNow[f] = IF f = e THEN {} ELSE c.shown[f]
    BY <1>a
  <1> HIDE DEF locksNow, mLockNow, createdNow, shownNow
  <1>d. n = [c EXCEPT !.sent = s, !.locks = locksNow, !.active = 0, !.mLock = mLockNow,
                      !.created = createdNow, !.shown = shownNow, !.abandoned = c.abandoned]
    BY <1>a DEF LetGo, Clients, locksNow, mLockNow, createdNow, shownNow
  <1> HIDE DEF n
  <1>1. /\ n \in Clients /\ n.locks = locksNow /\ n.active = 0 /\ n.mLock = mLockNow
        /\ n.shown = shownNow /\ n.abandoned = c.abandoned /\ n.process = c.process
        /\ n.screens = c.screens /\ n.pending = c.pending /\ n.orphans = c.orphans
        /\ n.reloading = c.reloading /\ n.component = c.component /\ n.targets = c.targets
    BY <1>a, <1>b, <1>c, <1>d DEF Clients
  <1>2. \A f \in Elements : n.mLock[f] = 0
    BY <1>1, <1>c DEF Loose, Held, IsLocked
  <1>3. Held(n)
    BY <1>1, <1>2, <1>b DEF Loose, Held
  <1>4. Shown(n)
    BY <1>1, <1>2, <1>c DEF Loose, ShownExcept, Shown, ShowsRight, IsLocked
  <1> QED
    BY <1>1, <1>3, <1>4 DEF Good, Kept, n

\* The outer of two calls of Unlock drops a lock that the inner one's handler
\* has taken.
LEMMA DroppedGood ==
    ASSUME NEW c, NEW e \in Elements, Loose(c, e), IsLocked(c, e), NEW s \in Seq(Requests)
    PROVE  /\ Good(LetGo(c, e, s, c.active, TRUE))
           /\ Kept(LetGo(c, e, s, c.active, TRUE), c)
  <1> DEFINE n == LetGo(c, e, s, c.active, TRUE)
             l == c.mLock[e]
             locksNow == [c.locks EXCEPT ![l] = "gone"]
             mLockNow == [c.mLock EXCEPT ![e] = 0]
             createdNow == [c.created EXCEPT ![e] = {}]
             shownNow == [c.shown EXCEPT ![e] = {}]
  <1>a. c \in Clients /\ c.locks \in Seq(LockStates) /\ c.mLock \in [Elements -> Nat]
        /\ c.shown \in [Elements -> SUBSET Outputs] /\ c.created \in [Elements -> SUBSET Outputs]
        /\ l \in Nat /\ c.active \in Nat
    BY DEF Loose, Clients
  <1>b. locksNow \in Seq(LockStates) /\ Len(locksNow) = Len(c.locks)
    <2>1. "gone" \in LockStates
      BY DEF LockStates
    <2> QED
      BY <1>a, <2>1, ExceptAt
  <1>c. mLockNow \in [Elements -> Nat] /\ createdNow \in [Elements -> SUBSET Outputs]
        /\ shownNow \in [Elements -> SUBSET Outputs]
        /\ \A f \in Elements : /\ mLockNow[f] = IF f = e THEN 0 ELSE c.mLock[f]
                               /\ shownNow[f] = IF f = e THEN {} ELSE c.shown[f]
    BY <1>a
  <1> HIDE DEF locksNow, mLockNow, createdNow, shownNow
  <1>d. n = [c EXCEPT !.sent = s, !.locks = locksNow, !.active = c.active, !.mLock = mLockNow,
                      !.created = createdNow, !.shown = shownNow, !.abandoned = TRUE]
    BY <1>a DEF LetGo, Clients, locksNow, mLockNow, createdNow, shownNow
  <1> HIDE DEF n
  <1>1. /\ n \in Clients /\ n.locks = locksNow /\ n.mLock = mLockNow
        /\ n.shown = shownNow /\ n.abandoned = TRUE /\ n.process = c.process
        /\ n.screens = c.screens /\ n.pending = c.pending /\ n.orphans = c.orphans
        /\ n.reloading = c.reloading /\ n.component = c.component /\ n.targets = c.targets
    BY <1>a, <1>b, <1>c, <1>d DEF Clients
  <1>2. \A f \in Elements : n.mLock[f] = 0
    BY <1>1, <1>c DEF Loose, Held, IsLocked
  <1>3. Held(n)
    BY <1>1, <1>2, <1>b DEF Loose, Held
  <1>4. Shown(n)
    BY <1>1, <1>2, <1>c DEF Loose, ShownExcept, Shown, ShowsRight, IsLocked
  <1> QED
    BY <1>1, <1>3, <1>4 DEF Good, Kept, n

\* Acquire, and the surfaces that may be shown at once.
LEMMA TakenGood ==
    ASSUME NEW c, NEW e \in Elements, Loose(c, e), c.active = 0, NEW s \in Seq(Requests),
           NEW created \in SUBSET Outputs, NEW shown \in SUBSET Outputs
    PROVE  LET n == Taken(c, e, s, created, shown)
           IN  /\ Loose(n, e)
               /\ shown = c.screens => Good(n)
               /\ Kept(n, c)
  <1> DEFINE n == Taken(c, e, s, created, shown)
             l == Len(c.locks) + 1
             locksNow == Append(c.locks, "requested")
             mLockNow == [c.mLock EXCEPT ![e] = l]
             createdNow == [c.created EXCEPT ![e] = created]
             shownNow == [c.shown EXCEPT ![e] = shown]
  <1>a. c \in Clients /\ c.locks \in Seq(LockStates) /\ c.mLock \in [Elements -> Nat]
        /\ c.shown \in [Elements -> SUBSET Outputs] /\ c.created \in [Elements -> SUBSET Outputs]
        /\ l \in Nat /\ l # 0 /\ l = Len(c.locks) + 1 /\ Len(c.locks) \in Nat
    BY DEF Loose, Clients
  <1>b. locksNow \in Seq(LockStates) /\ Len(locksNow) = l /\ locksNow[l] = "requested"
    BY <1>a, AppendProperties DEF LockStates
  <1> HIDE DEF l
  <1>c. mLockNow \in [Elements -> Nat] /\ createdNow \in [Elements -> SUBSET Outputs]
        /\ shownNow \in [Elements -> SUBSET Outputs]
        /\ \A f \in Elements : /\ mLockNow[f] = IF f = e THEN l ELSE c.mLock[f]
                               /\ shownNow[f] = IF f = e THEN shown ELSE c.shown[f]
    BY <1>a
  <1> HIDE DEF locksNow, mLockNow, createdNow, shownNow
  <1>d. n = [c EXCEPT !.sent = s, !.locks = locksNow, !.active = l, !.mLock = mLockNow,
                      !.created = createdNow, !.shown = shownNow]
    BY <1>a DEF Taken, Clients, locksNow, mLockNow, createdNow, shownNow, l
  <1> HIDE DEF n
  <1>1. /\ n \in Clients /\ n.locks = locksNow /\ n.active = l /\ n.mLock = mLockNow
        /\ n.shown = shownNow /\ n.abandoned = c.abandoned /\ n.process = c.process
        /\ n.screens = c.screens /\ n.pending = c.pending /\ n.orphans = c.orphans
        /\ n.reloading = c.reloading /\ n.component = c.component /\ n.targets = c.targets
    BY <1>a, <1>b, <1>c, <1>d DEF Clients
  <1>2. \A f \in Elements : n.mLock[f] = IF f = e THEN l ELSE 0
    BY <1>1, <1>a, <1>c DEF Loose, Held
  <1>3. c.orphans \subseteq 1..Len(c.locks) /\ l \notin c.orphans /\ (~c.reloading => c.orphans = {})
    BY <1>a DEF Loose, Held
  <1>4. n.orphans \subseteq 1..Len(n.locks) /\ n.active \in 1..Len(n.locks)
    BY <1>1, <1>3, <1>a, <1>b
  <1>5. Held(n)
    BY <1>1, <1>2, <1>3, <1>4, <1>a, <1>b DEF Held
  <1>6. ShownExcept(n, e) /\ (shown = c.screens => Shown(n))
    BY <1>1, <1>2, <1>a, <1>c DEF Loose, Held, ShownExcept, Shown, ShowsRight, IsLocked
  <1> QED
    BY <1>1, <1>5, <1>6 DEF Good, Loose, Kept, n

\* Unlocked, of an element without a lock: there is nothing it shows.
LEMMA EmptiedGood ==
    ASSUME NEW c, NEW e \in Elements, Loose(c, e), ~IsLocked(c, e)
    PROVE  LET n == Unlocked(c, e)
           IN  /\ Good(n)
               /\ Kept(n, c)
  <1> DEFINE n == Unlocked(c, e)
             mLockNow == [c.mLock EXCEPT ![e] = 0]
             createdNow == [c.created EXCEPT ![e] = {}]
             shownNow == [c.shown EXCEPT ![e] = {}]
  <1>a. c \in Clients /\ c.mLock \in [Elements -> Nat] /\ c.mLock[e] = 0
        /\ c.shown \in [Elements -> SUBSET Outputs] /\ c.created \in [Elements -> SUBSET Outputs]
    BY DEF Loose, Clients, IsLocked
  <1>b. mLockNow = c.mLock /\ createdNow \in [Elements -> SUBSET Outputs]
        /\ shownNow \in [Elements -> SUBSET Outputs]
        /\ \A f \in Elements : shownNow[f] = IF f = e THEN {} ELSE c.shown[f]
    BY <1>a
  <1>c. n = [c EXCEPT !.mLock = mLockNow, !.created = createdNow, !.shown = shownNow]
    BY <1>a DEF Unlocked, Clients
  <1> HIDE DEF n, mLockNow, createdNow, shownNow
  <1>1. /\ n \in Clients /\ n.locks = c.locks /\ n.active = c.active /\ n.mLock = c.mLock
        /\ n.shown = shownNow /\ n.abandoned = c.abandoned /\ n.process = c.process
        /\ n.screens = c.screens /\ n.pending = c.pending /\ n.orphans = c.orphans
        /\ n.reloading = c.reloading /\ n.component = c.component /\ n.targets = c.targets
    BY <1>a, <1>b, <1>c DEF Clients
  <1>2. Held(n)
    BY <1>1 DEF Loose, Held
  <1>3. Shown(n)
    BY <1>1, <1>a, <1>b DEF Loose, ShownExcept, Shown, ShowsRight, IsLocked
  <1> QED
    BY <1>1, <1>2, <1>3 DEF Good, Kept, n

\* What updateSurfaces does to the surfaces of an element.
Redrawn(c, e, s, created, shown) ==
    [c EXCEPT !.sent = s, !.created[e] = created, !.shown[e] = shown]

LEMMA RedrawnLoose ==
    ASSUME NEW c, NEW e \in Elements, Loose(c, e), NEW s \in Seq(Requests),
           NEW created \in SUBSET Outputs, NEW shown \in SUBSET Outputs,
           c.process = "runs" /\ ~IsLocked(c, e) => shown = {}
    PROVE  LET n == Redrawn(c, e, s, created, shown)
           IN  /\ Loose(n, e)
               /\ IsLocked(c, e) /\ shown = c.screens => Good(n)
               /\ n.mLock = c.mLock /\ n.active = c.active /\ n.locks = c.locks
               /\ Kept(n, c)
  <1> DEFINE n == Redrawn(c, e, s, created, shown)
             createdNow == [c.created EXCEPT ![e] = created]
             shownNow == [c.shown EXCEPT ![e] = shown]
  <1>a. c \in Clients /\ c.mLock \in [Elements -> Nat]
        /\ c.shown \in [Elements -> SUBSET Outputs] /\ c.created \in [Elements -> SUBSET Outputs]
    BY DEF Loose, Clients
  <1>b. createdNow \in [Elements -> SUBSET Outputs] /\ shownNow \in [Elements -> SUBSET Outputs]
        /\ \A f \in Elements : shownNow[f] = IF f = e THEN shown ELSE c.shown[f]
    BY <1>a
  <1>c. n = [c EXCEPT !.sent = s, !.created = createdNow, !.shown = shownNow]
    BY <1>a DEF Redrawn, Clients
  <1> HIDE DEF n, createdNow, shownNow
  <1>1. /\ n \in Clients /\ n.locks = c.locks /\ n.active = c.active /\ n.mLock = c.mLock
        /\ n.shown = shownNow /\ n.abandoned = c.abandoned /\ n.process = c.process
        /\ n.screens = c.screens /\ n.pending = c.pending /\ n.orphans = c.orphans
        /\ n.reloading = c.reloading /\ n.component = c.component /\ n.targets = c.targets
    BY <1>a, <1>b, <1>c DEF Clients
  <1>2. Held(n)
    BY <1>1 DEF Loose, Held
  <1>3. ShownExcept(n, e) /\ (IsLocked(c, e) /\ shown = c.screens => Shown(n))
    BY <1>1, <1>a, <1>b DEF Loose, ShownExcept, Shown, ShowsRight, IsLocked
  <1> QED
    BY <1>1, <1>2, <1>3 DEF Good, Loose, Kept, n

-----------------------------------------------------------------------------
(* The methods.                                                            *)

LEMMA RequestsAppended ==
    ASSUME NEW s \in Seq(Requests), NEW type \in {"lock", "surfaces", "unlock", "destroy"},
           NEW l \in Nat, NEW outputs \in SUBSET Outputs
    PROVE  Append(s, [type |-> type, lock |-> l, outputs |-> outputs]) \in Seq(Requests)
  <1>1. [type |-> type, lock |-> l, outputs |-> outputs] \in Requests
    BY DEF Requests
  <1> QED
    BY <1>1, AppendProperties

LEMMA AbortGood ==
    ASSUME NEW c, c \in Clients, Held(c)
    PROVE  Good(Abort(c)) /\ Kept(Abort(c), c)
  <1>1. /\ Abort(c) \in Clients /\ Abort(c).process = "aborted"
        /\ Abort(c).mLock = c.mLock /\ Abort(c).locks = c.locks /\ Abort(c).active = c.active
        /\ Abort(c).orphans = c.orphans /\ Abort(c).abandoned = c.abandoned
        /\ Kept(Abort(c), c)
    BY DEF Abort, Clients, Kept
  <1> QED
    BY <1>1 DEF Good, Held, Shown, Kept

\* A handler that locks does so when no lock is active, or aborts.
LEMMA HandlerGood ==
    ASSUME NEW c, Good(c), NEW e \in Elements, e \notin c.pending
    PROVE  Good(OnLockStateChanged(c, e)) /\ Kept(OnLockStateChanged(c, e), c)
  <1> DEFINE n == OnLockStateChanged(c, e)
             l == Len(c.locks) + 1
             asked == Append(c.sent, [type |-> "lock", lock |-> l, outputs |-> {}])
             s == Append(asked, [type |-> "surfaces", lock |-> l, outputs |-> c.screens])
  <1>1. CASE n = c
    BY <1>1 DEF Kept
  <1>2. CASE n = Abort(c)
    BY <1>2, AbortGood DEF Good
  <1>3. CASE c.active = 0 /\ n = [Request(Acquire(c, e), "surfaces", l, c.screens)
                                    EXCEPT !.created[e] = c.screens, !.shown[e] = c.screens]
    <2>1. c \in Clients /\ l \in Nat /\ c.sent \in Seq(Requests) /\ c.screens \in SUBSET Outputs
      BY DEF Good, Clients
    <2>2. s \in Seq(Requests)
      BY <2>1, RequestsAppended
    <2>3. n = Taken(c, e, s, c.screens, c.screens)
      <3> DEFINE mLockNow == [c.mLock EXCEPT ![e] = l]
                 locksNow == Append(c.locks, "requested")
                 acquired == [c EXCEPT !.sent = asked, !.locks = locksNow,
                                       !.active = l, !.mLock = mLockNow]
                 createdNow == [c.created EXCEPT ![e] = c.screens]
                 shownNow == [c.shown EXCEPT ![e] = c.screens]
      <3> HIDE DEF n, l
      <3>1. Request(c, "lock", l, {}) = [c EXCEPT !.sent = asked]
        BY DEF Request
      <3> HIDE DEF asked
      <3>2. Acquire(c, e) = acquired
        BY <2>1, <3>1 DEF Acquire, Clients, l
      <3> HIDE DEF mLockNow, locksNow
      <3>3. acquired.sent = asked /\ acquired.created = c.created /\ acquired.shown = c.shown
        BY <2>1 DEF Clients
      <3>4. Request(acquired, "surfaces", l, c.screens) = [acquired EXCEPT !.sent = s]
        BY <3>3 DEF Request
      <3> HIDE DEF s
      <3>5. n = [[acquired EXCEPT !.sent = s] EXCEPT !.created = createdNow, !.shown = shownNow]
        <4>1. n = [[acquired EXCEPT !.sent = s] EXCEPT !.created[e] = c.screens,
                                                       !.shown[e] = c.screens]
          BY <1>3, <3>2, <3>4
        <4>2. [acquired EXCEPT !.sent = s].created = c.created
              /\ [acquired EXCEPT !.sent = s].shown = c.shown
          BY <2>1 DEF Clients
        <4> HIDE DEF acquired
        <4> QED
          BY <4>1, <4>2
      <3>6. Taken(c, e, s, c.screens, c.screens)
                = [c EXCEPT !.sent = s, !.locks = locksNow, !.active = l, !.mLock = mLockNow,
                            !.created = createdNow, !.shown = shownNow]
        BY <2>1 DEF Taken, Clients, locksNow, mLockNow, l
      <3> HIDE DEF createdNow, shownNow
      <3> QED
        BY <2>1, <3>5, <3>6 DEF Clients
    <2> HIDE DEF s, n
    <2>4. Loose(c, e)
      BY GoodIsLoose
    <2> QED
      BY <1>3, <2>1, <2>2, <2>3, <2>4, TakenGood DEF n
  <1> QED
    BY <1>1, <1>2, <1>3 DEF OnLockStateChanged, SessionLocked

\* The inner call lets go of the lock, and the outer one of one that the
\* handler has taken.
LEMMA UnlockGood ==
    ASSUME NEW c, NEW e \in Elements, Loose(c, e)
    PROVE  Good(Unlock(c, e)) /\ Kept(Unlock(c, e), c)
  <1>1. CASE ~IsLocked(c, e)
    <2>1. Unlock(c, e) = c
      BY <1>1 DEF Unlock
    <2> QED
      BY <1>1, <2>1 DEF Loose, Good, Shown, ShownExcept, ShowsRight, Kept
  <1>2. CASE IsLocked(c, e)
    <2> DEFINE l == c.mLock[e]
               freed == Unlocked(Release(c, l), e)
               inner == OnLockStateChanged(freed, e)
               outer == Unlocked(Discard(inner, inner.mLock[e]), e)
               s == Append(c.sent, [type |-> "unlock", lock |-> l, outputs |-> {}])
    <2>1. c \in Clients /\ l \in Nat /\ c.sent \in Seq(Requests) /\ e \notin c.pending
          /\ c.locks[l] # "gone" /\ c.locks[l] # "finished"
      <3>1. c \in Clients /\ l \in Nat /\ c.sent \in Seq(Requests) /\ e \notin c.pending
        BY DEF Loose, ShownExcept, Clients
      <3>2. l \in 1..Len(c.locks) /\ c.locks[l] # "gone"
        BY <1>2 DEF Loose, Held, IsLocked
      <3>3. c.locks[l] \in LockStates
        BY <3>1, <3>2 DEF Clients
      <3> QED
        BY <3>1, <3>2, <3>3 DEF LockStates
    <2>2. freed = LetGo(c, e, s, 0, c.abandoned)
      <3>1. Request(c, "unlock", l, {}) = [c EXCEPT !.sent = s]
        BY DEF Request
      <3> HIDE DEF s
      <3>2. Release(c, l) = [[c EXCEPT !.sent = s] EXCEPT !.locks[l] = "gone", !.active = 0]
        BY <2>1, <3>1 DEF Release
      <3>3. freed = [[[c EXCEPT !.sent = s] EXCEPT !.locks[l] = "gone", !.active = 0]
                        EXCEPT !.mLock[e] = 0, !.created[e] = {}, !.shown[e] = {}]
        BY <3>2 DEF Unlocked
      <3> HIDE DEF freed
      <3> QED
        BY <2>1, <3>3 DEF LetGo, Clients
    <2>3. s \in Seq(Requests)
      BY <2>1, RequestsAppended
    <2>4. Good(freed) /\ Kept(freed, c)
      <3> HIDE DEF s, freed
      <3> QED
        BY <1>2, <2>2, <2>3, ReleasedGood
    <2>5. Good(inner) /\ Kept(inner, c) /\ e \notin inner.pending
      <3> HIDE DEF freed
      <3> QED
        BY <2>1, <2>4, HandlerGood DEF Kept
    <2>6. Loose(inner, e)
      <3> HIDE DEF inner
      <3> QED
        BY <2>5, GoodIsLoose
    <2>7. Good(outer) /\ Kept(outer, c) /\ e \notin outer.pending
      <3> HIDE DEF inner
      <3>1. CASE ~IsLocked(inner, e)
        <4>1. outer = Unlocked(inner, e)
          BY <3>1 DEF Discard, IsLocked
        <4> QED
          BY <3>1, <4>1, <2>1, <2>5, <2>6, EmptiedGood DEF Kept
      <3>2. CASE IsLocked(inner, e)
        <4> DEFINE t == Append(inner.sent,
                               [type |-> "destroy", lock |-> inner.mLock[e], outputs |-> {}])
        <4>1. /\ inner \in Clients /\ inner.mLock[e] \in Nat /\ inner.mLock[e] # 0
              /\ inner.sent \in Seq(Requests)
          BY <3>2, <2>5 DEF Good, Clients, IsLocked
        <4>2. inner.locks[inner.mLock[e]] # "gone"
          BY <4>1, <2>5 DEF Good, Held
        <4>3. outer = LetGo(inner, e, t, inner.active, TRUE)
          <5>1. Request(inner, "destroy", inner.mLock[e], {}) = [inner EXCEPT !.sent = t]
            BY DEF Request
          <5> HIDE DEF t
          <5>2. Discard(inner, inner.mLock[e])
                    = [[inner EXCEPT !.sent = t]
                          EXCEPT !.locks[inner.mLock[e]] = "gone", !.abandoned = TRUE]
            BY <4>1, <4>2, <5>1 DEF Discard
          <5>3. outer = [[[inner EXCEPT !.sent = t]
                             EXCEPT !.locks[inner.mLock[e]] = "gone", !.abandoned = TRUE]
                           EXCEPT !.mLock[e] = 0, !.created[e] = {}, !.shown[e] = {}]
            BY <5>2 DEF Unlocked
          <5> HIDE DEF outer
          <5> QED
            BY <4>1, <5>3 DEF LetGo, Clients
        <4>4. t \in Seq(Requests)
          BY <4>1, RequestsAppended
        <4> HIDE DEF t, outer
        <4> QED
          BY <3>2, <4>3, <4>4, <2>1, <2>5, <2>6, DroppedGood DEF Kept
      <3> QED
        BY <3>1, <3>2
    <2>8. Good(OnLockStateChanged(outer, e)) /\ Kept(OnLockStateChanged(outer, e), c)
      <3> HIDE DEF outer
      <3> QED
        BY <2>7, HandlerGood DEF Kept
    <2>9. Unlock(c, e) = OnLockStateChanged(outer, e)
      BY <1>2 DEF Unlock
    <2> QED
      BY <2>8, <2>9
  <1> QED
    BY <1>1, <1>2

LEMMA UpdateSurfacesGood ==
    ASSUME NEW c, NEW e \in Elements, Loose(c, e), NEW show \in BOOLEAN
    PROVE  /\ Loose(UpdateSurfaces(c, e, show), e)
           /\ show => Good(UpdateSurfaces(c, e, show))
           /\ Kept(UpdateSurfaces(c, e, show), c)
  <1> DEFINE kept == [c EXCEPT !.created[e] = @ \cap c.screens, !.shown[e] = @ \cap c.screens]
             all == [kept EXCEPT !.created[e] = c.screens]
             s == Append(c.sent, [type |-> "surfaces", lock |-> c.mLock[e],
                                  outputs |-> c.screens \ kept.shown[e]])
             asked == [Request(all, "surfaces", c.mLock[e], c.screens \ kept.shown[e])
                         EXCEPT !.shown[e] = c.screens]
             n == UpdateSurfaces(c, e, show)
             created == c.created[e] \cap c.screens
             shown == c.shown[e] \cap c.screens
  <1>a. /\ c \in Clients /\ c.sent \in Seq(Requests) /\ c.screens \in SUBSET Outputs
        /\ c.mLock[e] \in Nat /\ created \in SUBSET Outputs /\ shown \in SUBSET Outputs
        /\ c.created \in [Elements -> SUBSET Outputs] /\ c.shown \in [Elements -> SUBSET Outputs]
    BY DEF Loose, Clients
  <1>b. c.process = "runs" /\ ~IsLocked(c, e) => shown = {}
    BY DEF Loose, ShownExcept
  <1>1. /\ Loose(kept, e) /\ Kept(kept, c)
        /\ IsLocked(kept, e) <=> IsLocked(c, e)
    <2>1. kept = Redrawn(c, e, c.sent, created, shown)
      BY <1>a DEF Redrawn, Clients
    <2> HIDE DEF kept, created, shown
    <2> QED
      BY <1>a, <1>b, <2>1, RedrawnLoose DEF IsLocked
  <1>2. /\ Loose(all, e) /\ Kept(all, c)
        /\ IsLocked(all, e) <=> IsLocked(c, e)
        /\ IsLocked(c, e) /\ kept.shown[e] = c.screens => Good(all)
    <2>1. all = Redrawn(c, e, c.sent, c.screens, shown) /\ kept.shown[e] = shown
      BY <1>a DEF Redrawn, Clients
    <2> HIDE DEF kept, all, created, shown
    <2> QED
      BY <1>a, <1>b, <2>1, RedrawnLoose DEF IsLocked
  <1>3. IsLocked(c, e) => Good(asked) /\ Loose(asked, e) /\ Kept(asked, c)
    <2>1. s \in Seq(Requests)
      <3>1. c.screens \ kept.shown[e] \in SUBSET Outputs
        BY <1>a
      <3> HIDE DEF kept
      <3> QED
        BY <1>a, <3>1, RequestsAppended
    <2>2. asked = Redrawn(c, e, s, c.screens, c.screens)
      <3>1. Request(all, "surfaces", c.mLock[e], c.screens \ kept.shown[e])
                = [all EXCEPT !.sent = s]
        <4>1. all.sent = c.sent
          BY <1>a DEF Clients
        <4> HIDE DEF all, kept
        <4> QED
          BY <4>1 DEF Request
      <3> HIDE DEF s
      <3>2. asked = [[all EXCEPT !.sent = s] EXCEPT !.shown[e] = c.screens]
        <4> HIDE DEF all, kept
        <4> QED
          BY <3>1
      <3> HIDE DEF asked
      <3> QED
        BY <1>a, <3>2 DEF Redrawn, Clients
    <2> HIDE DEF asked, s
    <2> QED
      BY <1>a, <2>1, <2>2, RedrawnLoose
  <1>4. CASE n = Unlock(kept, e)
    <2>1. Good(n) /\ Kept(n, kept)
      <3> HIDE DEF kept, n
      <3> QED
        BY <1>1, <1>4, UnlockGood
    <2>2. e \notin c.pending
      BY DEF Loose, ShownExcept
    <2> HIDE DEF kept, n
    <2> QED
      BY <1>1, <2>1, <2>2, GoodIsLoose DEF Kept, n
  <1>5. CASE ~show /\ n = all
    BY <1>2, <1>5
  <1>6. CASE n = Abort(all)
    <2> HIDE DEF all
    <2>1. Good(Abort(all)) /\ Kept(Abort(all), all)
      BY <1>2, AbortGood DEF Loose
    <2>2. e \notin Abort(all).pending
      BY <1>2, <2>1 DEF Loose, ShownExcept, Kept
    <2> QED
      BY <1>2, <1>6, <2>1, <2>2, GoodIsLoose DEF Kept
  <1>7. CASE IsLocked(c, e) /\ kept.shown[e] = c.screens /\ n = all
    BY <1>2, <1>7
  <1>8. CASE IsLocked(c, e) /\ n = asked
    BY <1>3, <1>8
  <1> HIDE DEF s, created, shown
  <1> QED
    BY <1>4, <1>5, <1>6, <1>7, <1>8 DEF UpdateSurfaces

LEMMA RealizeLockTargetGood ==
    ASSUME NEW c, NEW e \in Elements, Loose(c, e), NEW target \in BOOLEAN
    PROVE  Good(RealizeLockTarget(c, e, target)) /\ Kept(RealizeLockTarget(c, e, target), c)
  <1> DEFINE preloaded == UpdateSurfaces(c, e, FALSE)
             locked == IF IsLocked(preloaded, e) \/ SessionLocked(preloaded) THEN preloaded
                       ELSE Acquire(preloaded, e)
  <1>1. CASE RealizeLockTarget(c, e, target) = Unlock(c, e)
    BY <1>1, UnlockGood
  <1>2. CASE RealizeLockTarget(c, e, target) = UpdateSurfaces(locked, e, TRUE)
    <2>1. Loose(preloaded, e) /\ Kept(preloaded, c)
      BY UpdateSurfacesGood
    <2>2. Loose(locked, e) /\ Kept(locked, c)
      <3>1. CASE locked = preloaded
        BY <2>1, <3>1
      <3>2. CASE preloaded.active = 0 /\ locked = Acquire(preloaded, e)
        <4> DEFINE l == Len(preloaded.locks) + 1
                   s == Append(preloaded.sent, [type |-> "lock", lock |-> l, outputs |-> {}])
        <4> HIDE DEF preloaded
        <4>1. /\ preloaded \in Clients /\ l \in Nat /\ preloaded.sent \in Seq(Requests)
              /\ preloaded.created[e] \in SUBSET Outputs /\ preloaded.shown[e] \in SUBSET Outputs
          BY <2>1 DEF Loose, Clients
        <4>2. Acquire(preloaded, e)
                  = Taken(preloaded, e, s, preloaded.created[e], preloaded.shown[e])
          <5>1. Request(preloaded, "lock", l, {}) = [preloaded EXCEPT !.sent = s]
            BY DEF Request
          <5> HIDE DEF s
          <5>2. Acquire(preloaded, e)
                    = [[preloaded EXCEPT !.sent = s]
                          EXCEPT !.locks = Append(@, "requested"), !.active = l, !.mLock[e] = l]
            BY <5>1 DEF Acquire
          <5>3. /\ [preloaded.created EXCEPT ![e] = preloaded.created[e]] = preloaded.created
                /\ [preloaded.shown EXCEPT ![e] = preloaded.shown[e]] = preloaded.shown
            <6>1. /\ preloaded.created \in [Elements -> SUBSET Outputs]
                  /\ preloaded.shown \in [Elements -> SUBSET Outputs]
              BY <4>1 DEF Clients
            <6> QED
              BY <6>1
          <5>4. Taken(preloaded, e, s, preloaded.created[e], preloaded.shown[e])
                    = [preloaded EXCEPT !.sent = s, !.locks = Append(@, "requested"),
                                        !.active = l, !.mLock[e] = l,
                                        !.created = preloaded.created,
                                        !.shown = preloaded.shown]
            BY <4>1, <5>3 DEF Taken, Clients
          <5> DEFINE locksNow == Append(preloaded.locks, "requested")
                     mLockNow == [preloaded.mLock EXCEPT ![e] = l]
          <5> HIDE DEF l
          <5>5. Acquire(preloaded, e)
                    = [preloaded EXCEPT !.sent = s, !.locks = locksNow, !.active = l,
                                        !.mLock = mLockNow]
            BY <4>1, <5>2 DEF Clients
          <5>6. Taken(preloaded, e, s, preloaded.created[e], preloaded.shown[e])
                    = [preloaded EXCEPT !.sent = s, !.locks = locksNow, !.active = l,
                                        !.mLock = mLockNow, !.created = preloaded.created,
                                        !.shown = preloaded.shown]
            BY <4>1, <5>4 DEF Clients
          <5> HIDE DEF locksNow, mLockNow
          <5> QED
            BY <4>1, <5>5, <5>6 DEF Clients
        <4>3. s \in Seq(Requests)
          BY <4>1, RequestsAppended
        <4> HIDE DEF s, locked
        <4>4. Loose(Acquire(preloaded, e), e) /\ Kept(Acquire(preloaded, e), preloaded)
          BY <3>2, <2>1, <4>1, <4>2, <4>3, TakenGood
        <4> QED
          BY <2>1, <3>2, <4>4 DEF Kept
      <3> QED
        BY <3>1, <3>2 DEF SessionLocked
    <2> HIDE DEF locked
    <2>3. Good(UpdateSurfaces(locked, e, TRUE)) /\ Kept(UpdateSurfaces(locked, e, TRUE), locked)
      BY <2>2, UpdateSurfacesGood
    <2> QED
      BY <1>2, <2>2, <2>3 DEF Kept
  <1> QED
    BY <1>1, <1>2 DEF RealizeLockTarget

-----------------------------------------------------------------------------
(* The actions.  Between two handlers, no element awaits its turn.         *)

Events == [type : {"locked", "finished"}, lock : Nat \ {0}]

CompositorStates == {"locking", "locked", "denied", "evicted", "gone"}

Calm == client.reloading \/ client.pending = {}

IInv ==
    /\ Good(client)
    /\ Calm
    /\ client.targets \subseteq client.pending
    /\ covered \subseteq Outputs
    /\ compositor \in Seq(CompositorStates)
    /\ events \in Seq(Events)
    /\ qml \in {"patient", "hasty", "stubborn"}

LEMMA IInvImplies == IInv => TypeOK /\ LockedIsCovered /\ ActiveIsHeld
  <1> SUFFICES ASSUME IInv
               PROVE  TypeOK /\ LockedIsCovered /\ ActiveIsHeld
    OBVIOUS
  <1>1. TypeOK
    <2>1. \A s \in Seq(Events) : s \in Seq([type : {"locked", "finished"}, lock : Nat])
      <3> DEFINE Weaker == [type : {"locked", "finished"}, lock : Nat]
      <3>1. \A x \in Events : x \in Weaker
        BY DEF Events
      <3>2. ASSUME NEW s \in Seq(Events)
            PROVE  s \in Seq(Weaker)
        <4>1. Len(s) \in Nat /\ s \in [1..Len(s) -> Events]
          OBVIOUS
        <4> HIDE DEF Weaker
        <4>2. s \in [1..Len(s) -> Weaker]
          BY <3>1, <4>1
        <4> QED
          BY <4>1, <4>2, SeqDef
      <3> QED
        BY <3>2
    <2> QED
      BY <2>1 DEF IInv, Good, Clients, Requests, LockStates, CompositorStates, TypeOK
  <1>2. LockedIsCovered
    BY DEF IInv, Calm, Good, Shown, ShowsRight, LockedIsCovered
  <1>3. ActiveIsHeld
    <2>1. Held(client)
      BY DEF IInv, Good
    <2> QED
      BY <2>1 DEF Held, IsLocked, ActiveIsHeld
  <1> QED
    BY <1>1, <1>2, <1>3

LEMMA InitHolds == Init => IInv
  <1> SUFFICES ASSUME Init
               PROVE  IInv
    OBVIOUS
  <1>1. client \in Clients
    BY ConstantsAssumption DEF Init, Clients
  <1>2. Held(client) /\ Shown(client)
    BY DEF Init, Held, Shown, ShowsRight, IsLocked
  <1> QED
    BY <1>1, <1>2 DEF Init, IInv, Good, Calm

\* A handler that changes the client only, and leaves it good.
LEMMA HandlesGood ==
    ASSUME IInv, Good(client'), Kept(client', client),
           UNCHANGED <<compositor, covered, events, qml>>
    PROVE  IInv'
  BY DEF IInv, Kept, Calm

LEMMA SetLockedStep ==
    ASSUME IInv, NEW e \in Elements, NEW locked \in BOOLEAN, SetLocked(e, locked)
    PROVE  IInv'
  <1>1. Good(client) /\ e \notin client.pending
    BY DEF IInv, Calm, SetLocked, Handles
  <1>2. Loose(client, e)
    BY <1>1, GoodIsLoose
  <1>3. Good(client') /\ Kept(client', client)
    <2>1. CASE client' = client
      BY <1>1, <2>1 DEF Kept
    <2>2. CASE client' = RealizeLockTarget(client, e, locked)
      BY <1>2, <2>2, RealizeLockTargetGood
    <2> QED
      BY <2>1, <2>2 DEF SetLocked
  <1> QED
    BY <1>3, HandlesGood DEF SetLocked, Handles

LEMMA SetSurfaceComponentStep ==
    ASSUME IInv, NEW e \in Elements, NEW component \in Components,
           SetSurfaceComponent(e, component)
    PROVE  IInv'
  <1>1. Good(client)
    BY DEF IInv
  <1>2. CASE client' = client
    BY <1>2 DEF SetSurfaceComponent, Handles, IInv, Calm
  <1>3. CASE client' = [client EXCEPT !.component[e] = component]
    <2> DEFINE componentNow == [client.component EXCEPT ![e] = component]
    <2>1. componentNow \in [Elements -> Components]
      BY <1>1 DEF Good, Clients
    <2>2. client' = [client EXCEPT !.component = componentNow]
      BY <1>1, <1>3 DEF Good, Clients
    <2> HIDE DEF componentNow
    <2>3. /\ client' \in Clients /\ client'.mLock = client.mLock /\ client'.locks = client.locks
          /\ client'.active = client.active /\ client'.orphans = client.orphans
          /\ client'.abandoned = client.abandoned /\ client'.shown = client.shown
          /\ client'.process = client.process /\ client'.screens = client.screens
          /\ client'.pending = client.pending /\ client'.reloading = client.reloading
          /\ client'.targets = client.targets
      BY <1>1, <2>1, <2>2 DEF Good, Clients
    <2>4. Good(client')
      BY <1>1, <2>3 DEF Good, Held, Shown, ShowsRight, IsLocked
    <2> QED
      BY <2>3, <2>4 DEF SetSurfaceComponent, Handles, IInv, Calm
  <1> QED
    BY <1>2, <1>3 DEF SetSurfaceComponent

\* The element that is locked, if there is one, is the only one to hear.
LEMMA OnScreensChangedStep ==
    ASSUME IInv, NEW screen \in Outputs, OnScreensChanged(screen)
    PROVE  IInv'
  <1> DEFINE plugged == Plug(client, screen)
  <1>1. /\ client \in Clients /\ Held(client) /\ Shown(client) /\ client.pending = {}
        /\ client.process = "runs"
    BY DEF IInv, Good, Calm, OnScreensChanged, Handles
  <1>2. /\ plugged \in Clients /\ plugged.mLock = client.mLock /\ plugged.locks = client.locks
        /\ plugged.active = client.active /\ plugged.orphans = client.orphans
        /\ plugged.abandoned = client.abandoned /\ plugged.shown = client.shown
        /\ plugged.process = client.process
        /\ plugged.pending = client.pending /\ plugged.reloading = client.reloading
        /\ plugged.targets = client.targets
    <2> DEFINE screens == IF screen \in client.screens THEN client.screens \ {screen}
                          ELSE client.screens \cup {screen}
               sent == [i \in DOMAIN client.sent |->
                          [client.sent[i] EXCEPT !.outputs = @ \cap screens]]
    <2>1. screens \in SUBSET Outputs /\ client.sent \in Seq(Requests)
      BY <1>1 DEF Clients
    <2> HIDE DEF screens
    <2>2. sent \in Seq(Requests)
      <3>1. \A r \in Requests : [r EXCEPT !.outputs = @ \cap screens] \in Requests
        BY <2>1 DEF Requests
      <3>2. /\ Len(client.sent) \in Nat /\ DOMAIN client.sent = 1..Len(client.sent)
            /\ \A i \in 1..Len(client.sent) : client.sent[i] \in Requests
        BY <2>1
      <3>3. sent \in [1..Len(client.sent) -> Requests]
        BY <3>1, <3>2
      <3> HIDE DEF sent
      <3> QED
        BY <3>2, <3>3, SeqDef
    <2>3. plugged = [client EXCEPT !.screens = screens, !.sent = sent]
      BY DEF Plug, screens
    <2> HIDE DEF sent, plugged
    <2> QED
      BY <1>1, <2>1, <2>2, <2>3 DEF Clients
  <1> HIDE DEF plugged
  <1>3. Held(plugged)
    BY <1>1, <1>2 DEF Held
  <1>4. covered' \subseteq Outputs
    BY DEF IInv, OnScreensChanged
  <1>5. ASSUME NEW e \in Elements, IsLocked(client, e),
               client' = UpdateSurfaces(plugged, e, TRUE)
        PROVE  IInv'
    <2>1. \A f \in Elements : f # e => ~IsLocked(client, f)
      BY <1>1, <1>5 DEF Held, IsLocked
    <2>2. Loose(plugged, e)
      BY <1>1, <1>2, <1>3, <1>5, <2>1 DEF Loose, ShownExcept, Shown, ShowsRight, IsLocked
    <2>3. Good(client') /\ Kept(client', plugged)
      BY <1>5, <2>2, UpdateSurfacesGood
    <2> QED
      BY <1>2, <1>4, <2>3 DEF IInv, Kept, Calm, OnScreensChanged, Handles
  <1>6. ASSUME \A e \in Elements : ~IsLocked(client, e), client' = plugged
        PROVE  IInv'
    <2>1. Good(client')
      BY <1>1, <1>2, <1>3, <1>6 DEF Good, Shown, ShowsRight, IsLocked
    <2> QED
      BY <1>2, <1>4, <1>6, <2>1 DEF IInv, Calm, OnScreensChanged, Handles
  <1> QED
    BY <1>5, <1>6 DEF OnScreensChanged, plugged

\* The lock of an element that is not matched goes to an old element.
LEMMA BeginReloadStep ==
    ASSUME IInv, NEW matched \in SUBSET Elements, NEW targets \in SUBSET Elements,
           NEW component \in [Elements -> Components], BeginReload(matched, targets, component)
    PROVE  IInv'
  <1> DEFINE orphans == {client.mLock[e] : e \in Elements \ matched} \ {0}
             mLockNow == [e \in Elements |-> IF e \in matched THEN client.mLock[e] ELSE 0]
             none == [e \in Elements |-> {}]
  <1>1. /\ client \in Clients /\ Held(client) /\ client.mLock \in [Elements -> Nat]
        /\ client.orphans = {}
    BY DEF IInv, Good, Held, Clients, BeginReload, Handles
  <1>2. /\ orphans \in SUBSET Nat /\ mLockNow \in [Elements -> Nat]
        /\ none \in [Elements -> SUBSET Outputs]
    BY <1>1
  <1>3. client' = [client EXCEPT !.reloading = TRUE, !.pending = Elements, !.orphans = orphans,
                                 !.targets = targets, !.component = component,
                                 !.mLock = mLockNow, !.created = none, !.shown = none]
    BY <1>1 DEF BeginReload, Clients
  <1>4. /\ \A e \in Elements : mLockNow[e] = (IF e \in matched THEN client.mLock[e] ELSE 0)
        /\ \A e \in Elements : none[e] = {}
        /\ \A l : l \in orphans <=> l # 0 /\ \E e \in Elements \ matched : client.mLock[e] = l
    OBVIOUS
  <1> HIDE DEF orphans, mLockNow, none
  <1>5. /\ client' \in Clients /\ client'.mLock = mLockNow /\ client'.locks = client.locks
        /\ client'.active = client.active /\ client'.orphans = orphans
        /\ client'.abandoned = client.abandoned /\ client'.shown = none
        /\ client'.pending = Elements /\ client'.reloading = TRUE /\ client'.targets = targets
    BY <1>1, <1>2, <1>3 DEF Clients
  <1>6. Held(client')
    <2>1. ASSUME NEW e \in Elements, mLockNow[e] # 0
          PROVE  /\ mLockNow[e] = client.active /\ mLockNow[e] \notin orphans
                 /\ client.active \in 1..Len(client.locks) /\ client.locks[client.active] # "gone"
                 /\ \A f \in Elements : mLockNow[f] # 0 => f = e
      <3>1. e \in matched /\ client.mLock[e] # 0 /\ mLockNow[e] = client.mLock[e]
        BY <1>4, <2>1
      <3>2. \A f \in Elements : client.mLock[f] # 0 => f = e
        BY <1>1, <3>1 DEF Held
      <3>3. mLockNow[e] \notin orphans
        BY <1>4, <2>1, <3>1, <3>2
      <3> QED
        BY <1>1, <1>4, <3>1, <3>2, <3>3 DEF Held
    <2>2. ASSUME client.active # 0, ~client.abandoned
          PROVE  /\ client.locks[client.active] # "gone"
                 /\ client.active \in orphans \/ \E e \in Elements : mLockNow[e] = client.active
      <3>1. PICK e \in Elements : client.mLock[e] = client.active
        BY <1>1, <2>2 DEF Held
      <3> QED
        BY <1>1, <1>4, <2>2, <3>1 DEF Held
    <2>3. orphans \subseteq 1..Len(client.locks)
      BY <1>1, <1>4 DEF Held
    <2> QED
      BY <1>5, <2>1, <2>2, <2>3 DEF Held
  <1>7. Shown(client')
    BY <1>4, <1>5 DEF Shown, ShowsRight
  <1> QED
    BY <1>5, <1>6, <1>7 DEF IInv, Good, Calm, BeginReload, Handles

LEMMA OnReloadStep ==
    ASSUME IInv, NEW e \in Elements, OnReload(e)
    PROVE  IInv'
  <1> DEFINE c == [client EXCEPT !.pending = @ \ {e}, !.targets = @ \ {e}]
  <1>1. client \in Clients /\ Held(client) /\ Shown(client) /\ e \in client.pending
    BY DEF IInv, Good, OnReload
  <1>2. /\ c \in Clients /\ c.mLock = client.mLock /\ c.locks = client.locks
        /\ c.active = client.active /\ c.orphans = client.orphans
        /\ c.abandoned = client.abandoned /\ c.shown = client.shown
        /\ c.process = client.process /\ c.screens = client.screens
        /\ c.pending = client.pending \ {e} /\ c.reloading = client.reloading
        /\ c.targets = client.targets \ {e}
    BY <1>1 DEF Clients
  <1>3. client' = RealizeLockTarget(c, e, e \in client.targets)
    BY DEF OnReload
  <1> HIDE DEF c
  <1>4. Loose(c, e)
    <2>1. Held(c)
      BY <1>1, <1>2 DEF Held
    <2>2. ShownExcept(c, e)
      BY <1>1, <1>2 DEF ShownExcept, Shown, ShowsRight, IsLocked
    <2> QED
      BY <1>2, <2>1, <2>2 DEF Loose
  <1>5. Good(client') /\ Kept(client', c)
    <2>1. (e \in client.targets) \in BOOLEAN
      OBVIOUS
    <2>2. ASSUME NEW target \in BOOLEAN
          PROVE  Good(RealizeLockTarget(c, e, target)) /\ Kept(RealizeLockTarget(c, e, target), c)
      BY <1>4, RealizeLockTargetGood
    <2> QED
      BY <1>3, <2>1, <2>2, Zenon
  <1>6. client.reloading
    BY <1>1 DEF IInv, Calm
  <1> QED
    BY <1>2, <1>5, <1>6 DEF IInv, Kept, Calm, OnReload

\* The lock of an old element is not one that an element has.
LEMMA DestroyOldStep ==
    ASSUME IInv, DestroyOld
    PROVE  IInv'
  <1>1. client \in Clients /\ Held(client) /\ Shown(client) /\ client.pending = {}
    BY DEF IInv, Good, DestroyOld
  <1>2. ASSUME NEW l \in client.orphans,
               client' = Discard([client EXCEPT !.orphans = @ \ {l}], l)
        PROVE  IInv'
    <2> DEFINE c == [client EXCEPT !.orphans = @ \ {l}]
               s == Append(c.sent, [type |-> "destroy", lock |-> l, outputs |-> {}])
               locksNow == [client.locks EXCEPT ![l] = "gone"]
    <2>1. /\ client.orphans \subseteq 1..Len(client.locks) /\ client.locks \in Seq(LockStates)
          /\ l \in 1..Len(client.locks) /\ l # 0 /\ l \in Nat /\ Len(client.locks) \in Nat
      BY <1>1 DEF Held, Clients
    <2>2. /\ c \in Clients /\ c.mLock = client.mLock /\ c.locks = client.locks
          /\ c.active = client.active /\ c.orphans = client.orphans \ {l}
          /\ c.abandoned = client.abandoned /\ c.shown = client.shown
          /\ c.process = client.process /\ c.screens = client.screens
          /\ c.pending = client.pending /\ c.reloading = client.reloading
          /\ c.targets = client.targets /\ c.sent \in Seq(Requests)
      BY <1>1 DEF Clients
    <2>3. CASE client.locks[l] = "gone"
      <3>1. client' = c
        BY <1>2, <2>2, <2>3 DEF Discard
      <3> HIDE DEF c
      <3>2. Held(c) /\ Shown(c)
        BY <1>1, <2>2, <2>3 DEF Held, Shown, ShowsRight, IsLocked
      <3> QED
        BY <2>2, <3>1, <3>2 DEF IInv, Good, Calm, DestroyOld
    <2>4. CASE client.locks[l] # "gone"
      <3>1. s \in Seq(Requests)
        BY <2>1, <2>2, RequestsAppended
      <3>2. /\ locksNow \in Seq(LockStates) /\ Len(locksNow) = Len(client.locks)
            /\ \A k \in 1..Len(client.locks) :
                   locksNow[k] = IF k = l THEN "gone" ELSE client.locks[k]
        <4>1. "gone" \in LockStates
          BY DEF LockStates
        <4> QED
          BY <2>1, <4>1, ExceptAt
      <3>3. Request(c, "destroy", l, {}) = [c EXCEPT !.sent = s]
        BY DEF Request
      <3> HIDE DEF s
      <3>4. client' = [[c EXCEPT !.sent = s] EXCEPT !.locks[l] = "gone", !.abandoned = TRUE]
        BY <1>2, <2>1, <2>2, <2>4, <3>3 DEF Discard
      <3> HIDE DEF c
      <3>5. client' = [c EXCEPT !.sent = s, !.locks = locksNow, !.abandoned = TRUE]
        BY <2>2, <3>4 DEF Clients
      <3> HIDE DEF locksNow
      <3>6. /\ client' \in Clients /\ client'.mLock = client.mLock /\ client'.locks = locksNow
            /\ client'.active = client.active /\ client'.orphans = client.orphans \ {l}
            /\ client'.abandoned = TRUE /\ client'.shown = client.shown
            /\ client'.process = client.process /\ client'.screens = client.screens
            /\ client'.pending = client.pending /\ client'.reloading = client.reloading
            /\ client'.targets = client.targets
        BY <2>2, <3>1, <3>2, <3>5 DEF Clients
      <3>7. Held(client')
        BY <1>1, <2>1, <3>2, <3>6 DEF Held
      <3>8. Shown(client')
        BY <1>1, <3>6 DEF Shown, ShowsRight, IsLocked
      <3> QED
        BY <3>6, <3>7, <3>8 DEF IInv, Good, Calm, DestroyOld
    <2> QED
      BY <2>3, <2>4
  <1>3. ASSUME client.orphans = {}, client' = [client EXCEPT !.reloading = FALSE]
        PROVE  IInv'
    <2>1. /\ client' \in Clients /\ client'.mLock = client.mLock /\ client'.locks = client.locks
          /\ client'.active = client.active /\ client'.orphans = client.orphans
          /\ client'.abandoned = client.abandoned /\ client'.shown = client.shown
          /\ client'.process = client.process /\ client'.screens = client.screens
          /\ client'.pending = client.pending /\ client'.targets = client.targets
      BY <1>1, <1>3 DEF Clients
    <2>2. Good(client')
      BY <1>1, <1>3, <2>1 DEF Good, Held, Shown, ShowsRight, IsLocked
    <2> QED
      BY <1>1, <2>1, <2>2 DEF IInv, Calm, DestroyOld
  <1> QED
    BY <1>2, <1>3 DEF DestroyOld

\* The end of a lock or of what has been heard of it.
LEMMA ReceivedTypes ==
    ASSUME IInv, NEW type, Receive(type)
    PROVE  /\ Head(events) \in Events /\ events' \in Seq(Events)
           /\ UNCHANGED <<compositor, covered>>
  <1>1. events \in Seq(Events) /\ events # <<>>
    BY DEF IInv, Receive
  <1> QED
    BY <1>1, HeadTailProperties DEF Receive

LEMMA OnLockedStep ==
    ASSUME IInv, OnLocked
    PROVE  IInv'
  <1> DEFINE l == Head(events).lock
             locksNow == [client.locks EXCEPT ![l] = "secure"]
  <1>1. /\ l \in Nat /\ events' \in Seq(Events) /\ UNCHANGED <<compositor, covered, qml>>
        /\ client \in Clients /\ Held(client) /\ Shown(client)
    BY ReceivedTypes DEF Events, IInv, Good, OnLocked, Handles
  <1>2. CASE client' = client
    BY <1>1, <1>2 DEF IInv, Calm
  <1>3. CASE client' = [client EXCEPT !.locks[l] = "secure"]
    <2>1. /\ locksNow \in Seq(LockStates) /\ Len(locksNow) = Len(client.locks)
          /\ \A k \in 1..Len(client.locks) :
                 locksNow[k] = IF k = l THEN "secure" ELSE client.locks[k]
      <3>1. client.locks \in Seq(LockStates) /\ "secure" \in LockStates
        BY <1>1 DEF Clients, LockStates
      <3> QED
        BY <1>1, <3>1, ExceptAt
    <2>2. client' = [client EXCEPT !.locks = locksNow]
      BY <1>1, <1>3 DEF Clients
    <2> HIDE DEF locksNow, l
    <2>3. /\ client' \in Clients /\ client'.mLock = client.mLock /\ client'.locks = locksNow
          /\ client'.active = client.active /\ client'.orphans = client.orphans
          /\ client'.abandoned = client.abandoned /\ client'.shown = client.shown
          /\ client'.process = client.process /\ client'.screens = client.screens
          /\ client'.pending = client.pending /\ client'.reloading = client.reloading
          /\ client'.targets = client.targets
      BY <1>1, <2>1, <2>2 DEF Clients
    <2>4. Held(client')
      <3>1. client.active # 0 /\ ~client.abandoned => client.active \in 1..Len(client.locks)
        BY <1>1 DEF Held
      <3>2. \A k \in 1..Len(client.locks) : client.locks[k] # "gone" => locksNow[k] # "gone"
        BY <2>1
      <3> QED
        BY <1>1, <2>1, <2>3, <3>1, <3>2 DEF Held
    <2>5. Shown(client')
      BY <1>1, <2>3 DEF Shown, ShowsRight, IsLocked
    <2> QED
      BY <1>1, <2>3, <2>4, <2>5 DEF IInv, Good, Calm
  <1> QED
    BY <1>2, <1>3 DEF OnLocked

\* A lock that has ended is let go of as it would be by unlock, but destroyed.
LEMMA FinishedIsLetGo ==
    ASSUME NEW c \in Clients, Held(c), NEW e \in Elements, NEW l, l = c.mLock[e], l # 0
    PROVE  Unlocked(Release([c EXCEPT !.locks[l] = "finished"], l), e)
               = LetGo(c, e, Append(c.sent, [type |-> "destroy", lock |-> l, outputs |-> {}]),
                       0, c.abandoned)
  <1> DEFINE ended == [c EXCEPT !.locks[l] = "finished"]
             freed == Unlocked(Release(ended, l), e)
             s == Append(c.sent, [type |-> "destroy", lock |-> l, outputs |-> {}])
             locksEnded == [c.locks EXCEPT ![l] = "finished"]
  <1>1. l \in 1..Len(c.locks) /\ c.locks[l] # "gone" /\ c.locks \in Seq(LockStates)
    BY DEF Held, Clients
  <1>2. /\ ended = [c EXCEPT !.locks = locksEnded] /\ locksEnded[l] = "finished"
        /\ [locksEnded EXCEPT ![l] = "gone"] = [c.locks EXCEPT ![l] = "gone"]
    <2>1. DOMAIN c.locks = 1..Len(c.locks) /\ c.locks \in [1..Len(c.locks) -> LockStates]
      BY <1>1
    <2> QED
      BY <1>1, <2>1 DEF Clients
  <1> HIDE DEF ended, locksEnded
  <1>3. ended.locks[l] = "finished" /\ ended.sent = c.sent
    BY <1>2 DEF Clients
  <1>4. Request(ended, "destroy", l, {}) = [ended EXCEPT !.sent = s]
    BY <1>3 DEF Request
  <1> HIDE DEF s
  <1>5. Release(ended, l) = [[ended EXCEPT !.sent = s] EXCEPT !.locks[l] = "gone", !.active = 0]
    BY <1>3, <1>4 DEF Release
  <1>6. freed = [[[ended EXCEPT !.sent = s] EXCEPT !.locks[l] = "gone", !.active = 0]
                    EXCEPT !.mLock[e] = 0, !.created[e] = {}, !.shown[e] = {}]
    BY <1>5 DEF Unlocked
  <1> HIDE DEF freed
  <1>7. freed = [c EXCEPT !.sent = s, !.locks = [locksEnded EXCEPT ![l] = "gone"],
                          !.active = 0, !.mLock[e] = 0, !.created[e] = {}, !.shown[e] = {}]
    BY <1>2, <1>6 DEF Clients
  <1>8. freed = [c EXCEPT !.sent = s, !.locks = [c.locks EXCEPT ![l] = "gone"],
                          !.active = 0, !.mLock[e] = 0, !.created[e] = {}, !.shown[e] = {}]
    BY <1>2, <1>7
  <1>9. freed = LetGo(c, e, s, 0, c.abandoned)
    BY <1>8 DEF LetGo, Clients
  <1> QED
    BY <1>9 DEF freed, ended, s

LEMMA OnFinishedStep ==
    ASSUME IInv, OnFinished
    PROVE  IInv'
  <1> DEFINE l == Head(events).lock
             ended == [client EXCEPT !.locks[l] = "finished"]
  <1>1. /\ l \in Nat /\ l # 0 /\ events' \in Seq(Events)
        /\ UNCHANGED <<compositor, covered, qml>>
        /\ Good(client) /\ client.pending = {}
    BY ReceivedTypes DEF Events, IInv, Calm, OnFinished, Handles
  <1>2. CASE client' = client
    BY <1>1, <1>2 DEF IInv, Calm
  <1>3. ASSUME NEW e \in Elements, client.mLock[e] = l,
               client' = OnLockStateChanged(Unlocked(Release(ended, l), e), e)
        PROVE  IInv'
    <2> DEFINE freed == Unlocked(Release(ended, l), e)
               s == Append(client.sent, [type |-> "destroy", lock |-> l, outputs |-> {}])
    <2>1. client \in Clients /\ Held(client) /\ client.sent \in Seq(Requests)
      BY <1>1 DEF Good, Clients
    <2>2. freed = LetGo(client, e, s, 0, client.abandoned)
      BY <1>1, <1>3, <2>1, FinishedIsLetGo
    <2>3. s \in Seq(Requests)
      BY <1>1, <2>1, RequestsAppended
    <2>4. Loose(client, e)
      BY <1>1, GoodIsLoose
    <2> HIDE DEF freed, s
    <2>5. Good(freed) /\ Kept(freed, client)
      BY <1>1, <1>3, <2>2, <2>3, <2>4, ReleasedGood DEF IsLocked
    <2>6. Good(client') /\ Kept(client', freed)
      BY <1>1, <1>3, <2>5, HandlerGood DEF Kept, freed
    <2> QED
      BY <1>1, <2>5, <2>6 DEF IInv, Kept, Calm
  <1> QED
    BY <1>2, <1>3 DEF OnFinished

-----------------------------------------------------------------------------
(* The compositor takes what was sent, and may end the process.            *)

LEMMA CompositorServesStep ==
    ASSUME IInv, CompositorServes
    PROVE  IInv'
  <1>1. /\ client \in Clients /\ Held(client) /\ Shown(client) /\ client.sent \in Seq(Requests)
        /\ client.sent # <<>> /\ UNCHANGED <<events, qml>>
    BY DEF IInv, Good, Clients, CompositorServes, ServeLock, ServeSurfaces, ServeUnlock,
           ServeDestroy, Serve
  <1>2. Lock \in Nat /\ Tail(client.sent) \in Seq(Requests)
    <2>1. Head(client.sent) \in Requests /\ Tail(client.sent) \in Seq(Requests)
      BY <1>1, HeadTailProperties
    <2> QED
      BY <2>1 DEF Requests, Lock
  <1>3. ASSUME Served
        PROVE  Good(client') /\ Kept(client', client)
    <2>1. client' = [client EXCEPT !.sent = Tail(client.sent)]
      BY <1>3 DEF Served
    <2>2. /\ client' \in Clients /\ client'.mLock = client.mLock /\ client'.locks = client.locks
          /\ client'.active = client.active /\ client'.orphans = client.orphans
          /\ client'.abandoned = client.abandoned /\ client'.shown = client.shown
          /\ client'.process = client.process /\ client'.screens = client.screens
          /\ Kept(client', client)
      BY <1>1, <1>2, <2>1 DEF Clients, Kept
    <2> QED
      BY <1>1, <2>2 DEF Good, Held, Shown, ShowsRight, IsLocked, Kept
  <1>4. ASSUME Refused
        PROVE  Good(client') /\ Kept(client', client)
    <2>1. /\ client' \in Clients /\ client'.mLock = client.mLock /\ client'.locks = client.locks
          /\ client'.active = client.active /\ client'.orphans = client.orphans
          /\ client'.abandoned = client.abandoned /\ client'.process = "killed"
          /\ Kept(client', client)
      BY <1>1, <1>4 DEF Refused, Clients, Kept
    <2> QED
      BY <1>1, <2>1 DEF Good, Held, Shown, Kept
  <1>5. ASSUME Good(client') /\ Kept(client', client), compositor' \in Seq(CompositorStates),
               covered' \subseteq Outputs
        PROVE  IInv'
    BY <1>1, <1>5 DEF IInv, Kept, Calm
  <1>6. compositor \in Seq(CompositorStates) /\ covered \subseteq Outputs
    BY DEF IInv
  <1>7. ASSUME Ended
        PROVE  compositor' \in Seq(CompositorStates) /\ covered' \subseteq Outputs
    <2>1. "gone" \in CompositorStates
      BY DEF CompositorStates
    <2> QED
      BY <1>2, <1>6, <1>7, <2>1, ExceptAt DEF Ended
  <1>8. CASE ServeLock
    <2>1. "locking" \in CompositorStates
      BY DEF CompositorStates
    <2>2. compositor' \in Seq(CompositorStates) /\ covered' = covered
      BY <1>6, <1>8, <2>1, AppendProperties DEF ServeLock
    <2> QED
      BY <1>3, <1>5, <1>6, <1>8, <2>2 DEF ServeLock
  <1>9. CASE ServeSurfaces
    <2>1. CASE Refused
      BY <1>4, <1>5, <1>6, <2>1 DEF Refused
    <2>2. CASE Served /\ UNCHANGED compositor
      <3>1. covered' \subseteq Outputs
        BY <1>1, <1>6, <1>9 DEF ServeSurfaces, Served, Refused, Clients
      <3> QED
        BY <1>3, <1>5, <1>6, <2>2, <3>1
    <2> QED
      BY <1>9, <2>1, <2>2 DEF ServeSurfaces
  <1>10. CASE ServeUnlock
    BY <1>3, <1>4, <1>5, <1>6, <1>7, <1>10 DEF ServeUnlock, Ended, Refused
  <1>11. CASE ServeDestroy
    BY <1>3, <1>4, <1>5, <1>6, <1>7, <1>11 DEF ServeDestroy, Ended, Refused
  <1> QED
    BY <1>8, <1>9, <1>10, <1>11 DEF CompositorServes

LEMMA DecideStep ==
    ASSUME IInv, NEW from, NEW to \in CompositorStates, NEW event \in {"locked", "finished"},
           Decide(from, to, event)
    PROVE  IInv'
  <1>1. /\ compositor \in Seq(CompositorStates) /\ covered \subseteq Outputs
        /\ events \in Seq(Events)
    BY DEF IInv
  <1>2. PICK l \in DOMAIN compositor :
            /\ compositor' = [compositor EXCEPT ![l] = to]
            /\ events' = Append(events, [type |-> event, lock |-> l])
    BY DEF Decide
  <1>3. l \in Nat \ {0}
    BY <1>1, <1>2
  <1>4. compositor' \in Seq(CompositorStates)
    BY <1>1, <1>2, <1>3, ExceptAt
  <1>5. events' \in Seq(Events)
    <2>1. [type |-> event, lock |-> l] \in Events
      BY <1>3 DEF Events
    <2> QED
      BY <1>1, <1>2, <2>1, AppendProperties
  <1>6. covered' \subseteq Outputs
    BY <1>1 DEF Decide
  <1> QED
    BY <1>4, <1>5, <1>6 DEF IInv, Calm, Decide

LEMMA StutterStep == IInv /\ UNCHANGED vars => IInv'
  BY DEF IInv, Calm, vars

LEMMA IInvStep == IInv /\ [Next]_vars => IInv'
  <1> SUFFICES ASSUME IInv, [Next]_vars
               PROVE  IInv'
    OBVIOUS
  <1>1. CASE SetLockedByQml
    BY <1>1, SetLockedStep DEF SetLockedByQml
  <1>2. CASE SetSurfaceByQml
    BY <1>2, SetSurfaceComponentStep DEF SetSurfaceByQml
  <1>3. CASE Hotplug
    BY <1>3, OnScreensChangedStep DEF Hotplug
  <1>4. CASE Reload
    BY <1>4, BeginReloadStep DEF Reload
  <1>5. CASE ReloadGoesOn
    BY <1>5, DestroyOldStep, OnReloadStep DEF ReloadGoesOn
  <1>6. CASE OnLocked
    BY <1>6, OnLockedStep
  <1>7. CASE OnFinished
    BY <1>7, OnFinishedStep
  <1>8. CASE CompositorServes
    BY <1>8, CompositorServesStep
  <1>9. CASE Confirm
    BY <1>9, DecideStep DEF Confirm, CompositorStates
  <1>10. CASE Deny
    BY <1>10, DecideStep DEF Deny, CompositorStates
  <1>11. CASE Evict
    BY <1>11, DecideStep DEF Evict, CompositorStates
  <1>12. CASE UNCHANGED vars
    BY <1>12, StutterStep
  <1> QED
    BY <1>1, <1>2, <1>3, <1>4, <1>5, <1>6, <1>7, <1>8, <1>9, <1>10, <1>11, <1>12 DEF Next

LEMMA IInvAlways == Spec => []IInv
  <1> QED
    BY InitHolds, IInvStep, PTL DEF Spec

-----------------------------------------------------------------------------
\* The elements, the locks, the requests and the events stay what they are,
\* whatever a reload, the outputs and the compositor do meanwhile.
THEOREM SessionLockTypeCorrect == Spec => []TypeOK
  <1> QED
    BY IInvAlways, IInvImplies, PTL

\* The lock of an element is the active one, and the active one is held by an
\* element, so that it can be unlocked, unless one was abandoned.
THEOREM SessionLockHeld == Spec => []ActiveIsHeld
  <1> QED
    BY IInvAlways, IInvImplies, PTL

\* Between two handlers the element that is locked shows a surface on each
\* screen, and on no other; the others show none.
THEOREM SessionLockCovers == Spec => []LockedIsCovered
  <1> QED
    BY IInvAlways, IInvImplies, PTL

-----------------------------------------------------------------------------
(* A patient QML survives.  Requests and events cross, so that this is     *)
(* about what is on its way: s has been sent, k is how the locks stand     *)
(* with the compositor and v the outputs that have a surface there, and ev *)
(* is what has not been read.                                              *)

Ends == {"unlock", "destroy"}

\* The requests for a lock come together, the end last.
InOrder(s) ==
    \A i, j \in 1..Len(s) : i < j =>
        /\ s[i].lock <= s[j].lock
        /\ s[j].type = "lock" \/ s[i].type \in Ends => s[i].lock < s[j].lock

\* Of the m locks, the compositor knows the first n, and is yet to be asked
\* for each of the others; it gets no request for one before the n-th.
LocksAhead(s, m, n) ==
    /\ n <= m
    /\ \A i \in 1..Len(s) : /\ s[i].lock \in 1..m /\ s[i].lock >= n
                            /\ s[i].type = "lock" => s[i].lock > n
    /\ \A l \in n + 1..m : \E i \in 1..Len(s) : s[i].type = "lock" /\ s[i].lock = l

\* A lock is gone when its end has been sent; and the end is on its way
\* until the compositor has none of the lock's surfaces.
EndsAhead(s, locks, k) ==
    /\ \A i \in 1..Len(s) : s[i].type \in Ends => locks[s[i].lock] = "gone"
    /\ \A l \in 1..Len(locks) :
          locks[l] = "gone" /\ (l > Len(k) \/ k[l] \in {"locking", "locked"})
              => \E i \in 1..Len(s) : s[i].type \in Ends /\ s[i].lock = l

\* No output is asked for twice by a lock, nor when it has a surface.
Apart(s, screens, k, v) ==
    /\ \A i, j \in 1..Len(s) :
          i < j /\ s[i].lock = s[j].lock => s[i].outputs \cap s[j].outputs = {}
    /\ \A i \in 1..Len(s) : s[i].lock <= Len(k) => s[i].outputs \cap v = {}
    /\ \A i \in 1..Len(s) : s[i].outputs \subseteq screens
    /\ v \subseteq screens
    /\ v # {} => Len(k) > 0 /\ k[Len(k)] \in {"locking", "locked"}

WasLocked(k, l) == l \in 1..Len(k) /\ k[l] \notin {"locking", "denied"}
WasEnded(k, l) == l \in 1..Len(k) /\ k[l] \notin {"locking", "locked"}

\* A lock is unlocked, or destroyed, as the compositor has it.
Heard(s, locks, k, ev) ==
    /\ \A i \in 1..Len(s) : /\ s[i].type = "unlock" => WasLocked(k, s[i].lock)
                            /\ s[i].type = "destroy" => WasEnded(k, s[i].lock)
    /\ \A l \in 1..Len(locks) : locks[l] = "secure" => WasLocked(k, l)
    /\ \A i \in 1..Len(ev) : /\ ev[i].type = "locked" => WasLocked(k, ev[i].lock)
                             /\ ev[i].type = "finished" => WasEnded(k, ev[i].lock)

InStep(s, locks, screens, k, v, ev) ==
    /\ InOrder(s)
    /\ LocksAhead(s, Len(locks), Len(k))
    /\ EndsAhead(s, locks, k)
    /\ Apart(s, screens, k, v)
    /\ Heard(s, locks, k, ev)

\* A request at the end is in order if it is of a lock no other comes after, or
\* of a later one where it asks for a lock or the lock has ended.
LEMMA InOrderAtEnd ==
    ASSUME NEW s, NEW t, NEW r, Len(s) \in Nat, InOrder(s),
           Len(t) = Len(s) + 1, t[Len(s) + 1] = r, \A i \in 1..Len(s) : t[i] = s[i],
           \A i \in 1..Len(s) : /\ s[i].lock <= r.lock
                                /\ r.type = "lock" \/ s[i].type \in Ends => s[i].lock < r.lock
    PROVE  InOrder(t)
  <1> SUFFICES ASSUME NEW i \in 1..Len(t), NEW j \in 1..Len(t), i < j
               PROVE  /\ t[i].lock <= t[j].lock
                      /\ t[j].type = "lock" \/ t[i].type \in Ends => t[i].lock < t[j].lock
    BY DEF InOrder
  <1>1. i \in 1..Len(s) /\ (j \in 1..Len(s) \/ j = Len(s) + 1)
    OBVIOUS
  <1>2. CASE j \in 1..Len(s)
    <2>1. t[i] = s[i] /\ t[j] = s[j]
      BY <1>1, <1>2
    <2> QED
      BY <1>1, <1>2, <2>1 DEF InOrder
  <1>3. CASE j = Len(s) + 1
    <2>1. t[i] = s[i] /\ t[j] = r
      BY <1>1, <1>3
    <2> QED
      BY <1>1, <2>1
  <1> QED
    BY <1>1, <1>2, <1>3

\* A lock is asked for.
LEMMA AskedInStep ==
    ASSUME NEW s \in Seq(Requests), NEW locks \in Seq(LockStates), NEW screens,
           NEW k \in Seq(CompositorStates), NEW v, NEW ev, InStep(s, locks, screens, k, v, ev)
    PROVE  InStep(Append(s, [type |-> "lock", lock |-> Len(locks) + 1, outputs |-> {}]),
                  Append(locks, "requested"), screens, k, v, ev)
  <1> DEFINE l == Len(locks) + 1
             r == [type |-> "lock", lock |-> l, outputs |-> {}]
             t == Append(s, r)
             locksNow == Append(locks, "requested")
  <1>1. /\ Len(t) = Len(s) + 1 /\ Len(s) \in Nat /\ t[Len(s) + 1] = r
        /\ \A i \in 1..Len(s) : t[i] = s[i]
        /\ \A i \in 1..Len(t) : i \in 1..Len(s) \/ i = Len(s) + 1
    <2>1. r \in Requests
      BY DEF Requests
    <2> HIDE DEF r
    <2> QED
      BY <2>1, AppendProperties
  <1>2. /\ Len(locksNow) = l /\ Len(locks) \in Nat /\ locksNow[l] = "requested" /\ l > Len(locks)
        /\ \A m \in 1..Len(locks) : locksNow[m] = locks[m]
        /\ \A m \in 1..l : m \in 1..Len(locks) \/ m = l
    BY AppendProperties DEF LockStates
  <1>3. r.type = "lock" /\ r.lock = l /\ r.outputs = {}
    OBVIOUS
  <1>4. \A i \in 1..Len(s) : s[i].lock \in 1..Len(locks)
    BY DEF InStep, LocksAhead
  <1>5. Len(k) \in Nat
    OBVIOUS
  <1> HIDE DEF t, r, l, locksNow
  <1>6. InOrder(t)
    <2>1. \A i \in 1..Len(s) : s[i].lock <= r.lock /\ s[i].lock < r.lock
      BY <1>2, <1>3, <1>4
    <2> QED
      BY <1>1, <2>1, InOrderAtEnd DEF InStep
  <1>7. LocksAhead(t, l, Len(k))
    <2>1. Len(k) < l /\ l \in 1..l /\ 1..Len(locks) \subseteq 1..l
      BY <1>2, <1>5 DEF InStep, LocksAhead, l
    <2>2. \A i \in 1..Len(t) : /\ t[i].lock \in 1..l /\ t[i].lock >= Len(k)
                               /\ t[i].type = "lock" => t[i].lock > Len(k)
      BY <1>1, <1>3, <1>5, <2>1 DEF InStep, LocksAhead
    <2>3. ASSUME NEW m \in Len(k) + 1..l
          PROVE  \E i \in 1..Len(t) : t[i].type = "lock" /\ t[i].lock = m
      <3>1. CASE m = l
        BY <1>1, <1>3, <3>1
      <3>2. CASE m # l
        <4>1. m \in Len(k) + 1..Len(locks)
          BY <1>2, <1>5, <3>2 DEF l
        <4>2. PICK i \in 1..Len(s) : s[i].type = "lock" /\ s[i].lock = m
          BY <4>1 DEF InStep, LocksAhead
        <4> QED
          BY <1>1, <4>2
      <3> QED
        BY <3>1, <3>2
    <2> QED
      BY <1>5, <2>1, <2>2, <2>3 DEF LocksAhead
  <1>8. EndsAhead(t, locksNow, k)
    <2>1. \A i \in 1..Len(t) : t[i].type \in Ends => locksNow[t[i].lock] = "gone"
      BY <1>1, <1>2, <1>3, <1>4 DEF InStep, EndsAhead, Ends
    <2>2. ASSUME NEW m \in 1..l, locksNow[m] = "gone", m > Len(k) \/ k[m] \in {"locking", "locked"}
          PROVE  \E i \in 1..Len(t) : t[i].type \in Ends /\ t[i].lock = m
      <3>1. m \in 1..Len(locks) /\ locks[m] = "gone"
        BY <1>2, <2>2
      <3>2. PICK i \in 1..Len(s) : s[i].type \in Ends /\ s[i].lock = m
        BY <2>2, <3>1 DEF InStep, EndsAhead
      <3> QED
        BY <1>1, <3>2
    <2> QED
      BY <1>2, <2>1, <2>2 DEF EndsAhead
  <1>9. Apart(t, screens, k, v)
    <2>1. \A i, j \in 1..Len(t) :
             i < j /\ t[i].lock = t[j].lock => t[i].outputs \cap t[j].outputs = {}
      BY <1>1, <1>3 DEF InStep, Apart
    <2>2. \A i \in 1..Len(t) : /\ t[i].lock <= Len(k) => t[i].outputs \cap v = {}
                               /\ t[i].outputs \subseteq screens
      BY <1>1, <1>3 DEF InStep, Apart
    <2> QED
      BY <2>1, <2>2 DEF InStep, Apart
  <1>10. Heard(t, locksNow, k, ev)
    <2>1. \A i \in 1..Len(t) : /\ t[i].type = "unlock" => WasLocked(k, t[i].lock)
                               /\ t[i].type = "destroy" => WasEnded(k, t[i].lock)
      BY <1>1, <1>3 DEF InStep, Heard
    <2>2. \A m \in 1..l : locksNow[m] = "secure" => WasLocked(k, m)
      BY <1>2 DEF InStep, Heard
    <2> QED
      BY <1>2, <2>1, <2>2 DEF InStep, Heard
  <1> QED
    BY <1>2, <1>6, <1>7, <1>8, <1>9, <1>10 DEF InStep, t, r, l, locksNow

\* Surfaces are asked for, on outputs that have none.
LEMMA ShowsInStep ==
    ASSUME NEW s \in Seq(Requests), NEW locks \in Seq(LockStates), NEW screens,
           NEW k \in Seq(CompositorStates), NEW v, NEW ev, InStep(s, locks, screens, k, v, ev),
           NEW l, l = Len(locks), l > 0, locks[l] # "gone",
           NEW outputs \in SUBSET Outputs, outputs \subseteq screens,
           l <= Len(k) => outputs \cap v = {},
           \A i \in 1..Len(s) : s[i].lock = l => s[i].outputs \cap outputs = {}
    PROVE  InStep(Append(s, [type |-> "surfaces", lock |-> l, outputs |-> outputs]),
                  locks, screens, k, v, ev)
  <1> DEFINE r == [type |-> "surfaces", lock |-> l, outputs |-> outputs]
             t == Append(s, r)
  <1>0. l \in Nat /\ Len(k) \in Nat
    OBVIOUS
  <1>1. /\ Len(t) = Len(s) + 1 /\ Len(s) \in Nat /\ t[Len(s) + 1] = r
        /\ \A i \in 1..Len(s) : t[i] = s[i]
        /\ \A i \in 1..Len(t) : i \in 1..Len(s) \/ i = Len(s) + 1
    <2>1. r \in Requests
      BY <1>0 DEF Requests
    <2> HIDE DEF r
    <2> QED
      BY <2>1, AppendProperties
  <1>2. r.type = "surfaces" /\ r.lock = l /\ r.outputs = outputs
    OBVIOUS
  <1>3. /\ \A i \in 1..Len(s) : s[i].lock \in 1..l /\ s[i].lock >= Len(k)
        /\ Len(k) <= l
    BY DEF InStep, LocksAhead
  <1>4. \A i \in 1..Len(s) : s[i].type \in Ends => s[i].lock # l
    BY DEF InStep, EndsAhead
  <1> HIDE DEF t, r
  <1>5. InOrder(t)
    <2>1. \A i \in 1..Len(s) : /\ s[i].lock <= r.lock
                               /\ r.type = "lock" \/ s[i].type \in Ends => s[i].lock < r.lock
      BY <1>0, <1>2, <1>3, <1>4
    <2> QED
      BY <1>1, <2>1, InOrderAtEnd DEF InStep
  <1>6. LocksAhead(t, Len(locks), Len(k))
    <2>1. \A i \in 1..Len(t) : /\ t[i].lock \in 1..Len(locks) /\ t[i].lock >= Len(k)
                               /\ t[i].type = "lock" => t[i].lock > Len(k)
      BY <1>0, <1>1, <1>2, <1>3 DEF InStep, LocksAhead
    <2>2. ASSUME NEW m \in Len(k) + 1..Len(locks)
          PROVE  \E i \in 1..Len(t) : t[i].type = "lock" /\ t[i].lock = m
      <3>1. PICK i \in 1..Len(s) : s[i].type = "lock" /\ s[i].lock = m
        BY DEF InStep, LocksAhead
      <3> QED
        BY <1>1, <3>1
    <2> QED
      BY <1>3, <2>1, <2>2 DEF LocksAhead
  <1>7. EndsAhead(t, locks, k)
    <2>1. \A i \in 1..Len(t) : t[i].type \in Ends => locks[t[i].lock] = "gone"
      BY <1>1, <1>2 DEF InStep, EndsAhead, Ends
    <2>2. ASSUME NEW m \in 1..Len(locks), locks[m] = "gone",
                 m > Len(k) \/ k[m] \in {"locking", "locked"}
          PROVE  \E i \in 1..Len(t) : t[i].type \in Ends /\ t[i].lock = m
      <3>1. PICK i \in 1..Len(s) : s[i].type \in Ends /\ s[i].lock = m
        BY <2>2 DEF InStep, EndsAhead
      <3> QED
        BY <1>1, <3>1
    <2> QED
      BY <2>1, <2>2 DEF EndsAhead
  <1>8. Apart(t, screens, k, v)
    <2>1. ASSUME NEW i \in 1..Len(t), NEW j \in 1..Len(t), i < j, t[i].lock = t[j].lock
          PROVE  t[i].outputs \cap t[j].outputs = {}
      <3>1. CASE j \in 1..Len(s)
        <4>1. i \in 1..Len(s) /\ t[i] = s[i] /\ t[j] = s[j]
          BY <1>1, <2>1, <3>1
        <4> QED
          BY <2>1, <3>1, <4>1 DEF InStep, Apart
      <3>2. CASE j = Len(s) + 1
        BY <1>1, <1>2, <2>1, <3>2
      <3> QED
        BY <1>1, <3>1, <3>2
    <2>2. \A i \in 1..Len(t) : /\ t[i].lock <= Len(k) => t[i].outputs \cap v = {}
                               /\ t[i].outputs \subseteq screens
      BY <1>1, <1>2 DEF InStep, Apart
    <2> QED
      BY <2>1, <2>2 DEF InStep, Apart
  <1>9. Heard(t, locks, k, ev)
    <2>1. \A i \in 1..Len(t) : /\ t[i].type = "unlock" => WasLocked(k, t[i].lock)
                               /\ t[i].type = "destroy" => WasEnded(k, t[i].lock)
      BY <1>1, <1>2 DEF InStep, Heard
    <2> QED
      BY <2>1 DEF InStep, Heard
  <1> QED
    BY <1>5, <1>6, <1>7, <1>8, <1>9 DEF InStep, t, r

\* A lock ends: unlocked, since it was heard to be locked, or destroyed, since
\* it was heard to be denied or ended.
LEMMA EndsInStep ==
    ASSUME NEW s \in Seq(Requests), NEW locks \in Seq(LockStates), NEW screens,
           NEW k \in Seq(CompositorStates), NEW v, NEW ev, InStep(s, locks, screens, k, v, ev),
           NEW l, l = Len(locks), l > 0, locks[l] # "gone", NEW type \in Ends,
           type = "unlock" => WasLocked(k, l), type = "destroy" => WasEnded(k, l)
    PROVE  InStep(Append(s, [type |-> type, lock |-> l, outputs |-> {}]),
                  [locks EXCEPT ![l] = "gone"], screens, k, v, ev)
  <1> DEFINE r == [type |-> type, lock |-> l, outputs |-> {}]
             t == Append(s, r)
             locksNow == [locks EXCEPT ![l] = "gone"]
  <1>0. l \in Nat /\ Len(k) \in Nat
    OBVIOUS
  <1>1. /\ Len(t) = Len(s) + 1 /\ Len(s) \in Nat /\ t[Len(s) + 1] = r
        /\ \A i \in 1..Len(s) : t[i] = s[i]
        /\ \A i \in 1..Len(t) : i \in 1..Len(s) \/ i = Len(s) + 1
    <2>1. r \in Requests
      BY <1>0 DEF Requests, Ends
    <2> HIDE DEF r
    <2> QED
      BY <2>1, AppendProperties
  <1>2. r.type = type /\ r.lock = l /\ r.outputs = {}
    OBVIOUS
  <1>3. /\ \A i \in 1..Len(s) : s[i].lock \in 1..l /\ s[i].lock >= Len(k)
        /\ Len(k) <= l
    BY DEF InStep, LocksAhead
  <1>4. \A i \in 1..Len(s) : s[i].type \in Ends => s[i].lock # l
    BY DEF InStep, EndsAhead
  <1>5. /\ Len(locksNow) = l /\ l \in 1..l
        /\ \A m \in 1..l : locksNow[m] = IF m = l THEN "gone" ELSE locks[m]
    <2>1. "gone" \in LockStates
      BY DEF LockStates
    <2> QED
      BY <1>0, <2>1, ExceptAt
  <1> HIDE DEF t, r, locksNow
  <1>6. InOrder(t)
    <2>1. type # "lock"
      BY DEF Ends
    <2> QED
      BY <1>0, <1>1, <1>2, <1>3, <1>4, <2>1 DEF InStep, InOrder
  <1>7. LocksAhead(t, l, Len(k))
    <2>1. type # "lock"
      BY DEF Ends
    <2>2. \A i \in 1..Len(t) : /\ t[i].lock \in 1..l /\ t[i].lock >= Len(k)
                               /\ t[i].type = "lock" => t[i].lock > Len(k)
      BY <1>0, <1>1, <1>2, <1>3, <1>5, <2>1 DEF InStep, LocksAhead
    <2>3. ASSUME NEW m \in Len(k) + 1..l
          PROVE  \E i \in 1..Len(t) : t[i].type = "lock" /\ t[i].lock = m
      <3>1. PICK i \in 1..Len(s) : s[i].type = "lock" /\ s[i].lock = m
        BY DEF InStep, LocksAhead
      <3> QED
        BY <1>1, <3>1
    <2> QED
      BY <1>3, <2>2, <2>3 DEF LocksAhead
  <1>8. EndsAhead(t, locksNow, k)
    <2>1. \A i \in 1..Len(t) : t[i].type \in Ends => locksNow[t[i].lock] = "gone"
      BY <1>1, <1>2, <1>3, <1>5 DEF InStep, EndsAhead
    <2>2. ASSUME NEW m \in 1..l, locksNow[m] = "gone",
                 m > Len(k) \/ k[m] \in {"locking", "locked"}
          PROVE  \E i \in 1..Len(t) : t[i].type \in Ends /\ t[i].lock = m
      <3>1. CASE m = l
        BY <1>1, <1>2, <3>1
      <3>2. CASE m # l
        <4>1. PICK i \in 1..Len(s) : s[i].type \in Ends /\ s[i].lock = m
          BY <1>5, <2>2, <3>2 DEF InStep, EndsAhead
        <4> QED
          BY <1>1, <4>1
      <3> QED
        BY <3>1, <3>2
    <2> QED
      BY <1>5, <2>1, <2>2 DEF EndsAhead
  <1>9. Apart(t, screens, k, v)
    <2>1. \A i, j \in 1..Len(t) :
             i < j /\ t[i].lock = t[j].lock => t[i].outputs \cap t[j].outputs = {}
      BY <1>1, <1>2 DEF InStep, Apart
    <2>2. \A i \in 1..Len(t) : /\ t[i].lock <= Len(k) => t[i].outputs \cap v = {}
                               /\ t[i].outputs \subseteq screens
      BY <1>1, <1>2 DEF InStep, Apart
    <2> QED
      BY <2>1, <2>2 DEF InStep, Apart
  <1>10. Heard(t, locksNow, k, ev)
    <2>1. \A i \in 1..Len(t) : /\ t[i].type = "unlock" => WasLocked(k, t[i].lock)
                               /\ t[i].type = "destroy" => WasEnded(k, t[i].lock)
      BY <1>1, <1>2 DEF InStep, Heard
    <2>2. \A m \in 1..l : locksNow[m] = "secure" => WasLocked(k, m)
      BY <1>5 DEF InStep, Heard
    <2> QED
      BY <1>5, <2>1, <2>2 DEF InStep, Heard
  <1> QED
    BY <1>5, <1>6, <1>7, <1>8, <1>9, <1>10 DEF InStep, t, r, locksNow

\* An output comes or goes: what has been sent asks for none that is gone.
Cropped(s, now) == [i \in DOMAIN s |-> [s[i] EXCEPT !.outputs = @ \cap now]]

LEMMA PluggedInStep ==
    ASSUME NEW s \in Seq(Requests), NEW locks \in Seq(LockStates), NEW screens, NEW now,
           NEW k \in Seq(CompositorStates), NEW v, NEW ev, InStep(s, locks, screens, k, v, ev)
    PROVE  /\ InStep(Cropped(s, now), locks, now, k, v \cap now, ev)
           /\ Len(Cropped(s, now)) = Len(s) /\ Cropped(s, now) \in Seq(Requests)
           /\ \A i \in 1..Len(s) : Cropped(s, now)[i].outputs \subseteq screens
  <1> DEFINE t == Cropped(s, now)
             Cut(r) == [r EXCEPT !.outputs = @ \cap now]
  <1>a. /\ Len(s) \in Nat /\ DOMAIN s = 1..Len(s)
        /\ \A i \in 1..Len(s) : s[i] \in Requests
    OBVIOUS
  <1>2. \A r \in Requests : /\ Cut(r).type = r.type /\ Cut(r).lock = r.lock
                            /\ Cut(r).outputs = r.outputs \cap now
                            /\ Cut(r) \in Requests
    BY DEF Requests
  <1>b. t = [i \in 1..Len(s) |-> Cut(s[i])]
    <2>1. t = [i \in DOMAIN s |-> Cut(s[i])]
      BY DEF Cropped
    <2> HIDE DEF Cut
    <2> QED
      BY <1>a, <2>1
  <1> HIDE DEF Cut, t
  <1>c. t \in [1..Len(s) -> Requests] /\ \A i \in 1..Len(s) : t[i] = Cut(s[i])
    BY <1>a, <1>b, <1>2
  <1>1. /\ Len(s) \in Nat /\ Len(t) = Len(s) /\ t \in Seq(Requests)
        /\ \A i \in 1..Len(s) : s[i] \in Requests
    <2>1. t \in Seq(Requests)
      BY <1>a, <1>c, SeqDef
    <2>2. Len(t) = Len(s)
      BY <1>a, <1>c, <2>1, LenProperties
    <2> QED
      BY <1>a, <2>1, <2>2
  <1>3. \A i \in 1..Len(s) : /\ t[i].type = s[i].type /\ t[i].lock = s[i].lock
                             /\ t[i].outputs = s[i].outputs \cap now
    BY <1>1, <1>2, <1>c
  <1>4. InOrder(t)
    BY <1>1, <1>3 DEF InStep, InOrder
  <1>5. LocksAhead(t, Len(locks), Len(k))
    <2>1. ASSUME NEW l \in Len(k) + 1..Len(locks)
          PROVE  \E i \in 1..Len(t) : t[i].type = "lock" /\ t[i].lock = l
      <3>1. PICK i \in 1..Len(s) : s[i].type = "lock" /\ s[i].lock = l
        BY DEF InStep, LocksAhead
      <3> QED
        BY <1>1, <1>3, <3>1
    <2> QED
      BY <1>1, <1>3, <2>1 DEF InStep, LocksAhead
  <1>6. EndsAhead(t, locks, k)
    <2>1. \A i \in 1..Len(t) : t[i].type \in Ends => locks[t[i].lock] = "gone"
      BY <1>1, <1>3 DEF InStep, EndsAhead
    <2>2. ASSUME NEW l \in 1..Len(locks), locks[l] = "gone",
                 l > Len(k) \/ k[l] \in {"locking", "locked"}
          PROVE  \E i \in 1..Len(t) : t[i].type \in Ends /\ t[i].lock = l
      <3>1. PICK i \in 1..Len(s) : s[i].type \in Ends /\ s[i].lock = l
        BY <2>2 DEF InStep, EndsAhead
      <3> QED
        BY <1>1, <1>3, <3>1
    <2> QED
      BY <2>1, <2>2 DEF EndsAhead
  <1>7. Apart(t, now, k, v \cap now)
    <2>1. ASSUME NEW i \in 1..Len(t), NEW j \in 1..Len(t), i < j, t[i].lock = t[j].lock
          PROVE  t[i].outputs \cap t[j].outputs = {}
      <3>1. s[i].outputs \cap s[j].outputs = {}
        BY <1>1, <1>3, <2>1 DEF InStep, Apart
      <3> QED
        BY <1>1, <1>3, <3>1
    <2>2. ASSUME NEW i \in 1..Len(t)
          PROVE  /\ t[i].lock <= Len(k) => t[i].outputs \cap (v \cap now) = {}
                 /\ t[i].outputs \subseteq now
      <3>1. s[i].lock <= Len(k) => s[i].outputs \cap v = {}
        BY <1>1 DEF InStep, Apart
      <3> QED
        BY <1>1, <1>3, <3>1
    <2>3. v \cap now # {} => Len(k) > 0 /\ k[Len(k)] \in {"locking", "locked"}
      BY DEF InStep, Apart
    <2> QED
      BY <2>1, <2>2, <2>3 DEF Apart
  <1>8. Heard(t, locks, k, ev)
    BY <1>1, <1>3 DEF InStep, Heard
  <1>9. \A i \in 1..Len(s) : t[i].outputs \subseteq screens
    BY <1>3 DEF InStep, Apart
  <1> QED
    BY <1>1, <1>4, <1>5, <1>6, <1>7, <1>8, <1>9 DEF InStep, t

\* The request that the compositor serves is for a lock that it knows, the
\* last one, or asks for the next one; and the others come after it.
HeadIsFirst(s, locks, screens, k) ==
    /\ Len(Tail(s)) = Len(s) - 1 /\ Tail(s) \in Seq(Requests) /\ Head(s) = s[1]
    /\ 1 \in 1..Len(s) /\ Len(s) \in Nat /\ Len(s) # 0
    /\ \A i \in 1..Len(Tail(s)) :
          /\ i + 1 \in 1..Len(s) /\ Tail(s)[i] = s[i + 1]
          /\ Head(s).lock <= Tail(s)[i].lock
          /\ Tail(s)[i].type = "lock" \/ Head(s).type \in Ends
                 => Head(s).lock < Tail(s)[i].lock
    /\ Head(s).type = "lock" => Head(s).lock = Len(k) + 1 /\ Len(k) < Len(locks)
    /\ Head(s).type # "lock" => Head(s).lock = Len(k) /\ Len(k) \in 1..Len(k)
    /\ Head(s).lock \in 1..Len(locks) /\ Head(s).outputs \subseteq screens

LEMMA HeadFirst ==
    ASSUME NEW s \in Seq(Requests), s # <<>>, NEW locks \in Seq(LockStates), NEW screens,
           NEW k \in Seq(CompositorStates), NEW v, NEW ev, InStep(s, locks, screens, k, v, ev)
    PROVE  HeadIsFirst(s, locks, screens, k)
  <1>1. /\ Len(Tail(s)) = Len(s) - 1 /\ Tail(s) \in Seq(Requests) /\ Head(s) = s[1]
        /\ 1 \in 1..Len(s) /\ Len(s) \in Nat /\ Len(s) # 0
    BY HeadTailProperties
  <1>2. \A i \in 1..Len(Tail(s)) : i + 1 \in 1..Len(s) /\ Tail(s)[i] = s[i + 1] /\ 1 < i + 1
    BY <1>1, HeadTailProperties
  <1>3. \A i \in 1..Len(Tail(s)) :
           /\ Head(s).lock <= Tail(s)[i].lock
           /\ Tail(s)[i].type = "lock" \/ Head(s).type \in Ends => Head(s).lock < Tail(s)[i].lock
    BY <1>1, <1>2 DEF InStep, InOrder
  <1>4. /\ Len(k) \in Nat /\ Len(locks) \in Nat /\ Len(k) <= Len(locks)
        /\ Head(s).lock \in 1..Len(locks) /\ Head(s).lock >= Len(k)
        /\ Head(s).type = "lock" => Head(s).lock > Len(k)
    BY <1>1 DEF InStep, LocksAhead
  <1>5. Head(s).lock \in Nat /\ \A i \in 1..Len(s) : s[i].lock \in Nat
    BY <1>4 DEF InStep, LocksAhead
  <1>6. ASSUME NEW i \in 1..Len(s), i # 1
        PROVE  i - 1 \in 1..Len(Tail(s)) /\ s[i] = Tail(s)[i - 1]
    <2>1. i - 1 \in 1..Len(Tail(s)) /\ (i - 1) + 1 = i
      BY <1>1, <1>6
    <2> QED
      BY <1>2, <2>1
  <1>7. CASE Head(s).type = "lock"
    <2>1. Len(k) + 1 \in Len(k) + 1..Len(locks)
      BY <1>4, <1>7
    <2>2. PICK i \in 1..Len(s) : s[i].type = "lock" /\ s[i].lock = Len(k) + 1
      BY <2>1 DEF InStep, LocksAhead
    <2>3. Head(s).lock <= Len(k) + 1
      <3>1. CASE i = 1
        BY <1>1, <1>4, <2>2, <3>1
      <3>2. CASE i # 1
        BY <1>3, <1>6, <2>2, <3>2
      <3> QED
        BY <3>1, <3>2
    <2>4. Head(s).lock = Len(k) + 1 /\ Len(k) < Len(locks)
      BY <1>4, <1>7, <2>3
    <2>5. Head(s).outputs \subseteq screens
      BY <1>1 DEF InStep, Apart
    <2> QED
      BY <1>1, <1>2, <1>3, <1>4, <1>7, <2>4, <2>5 DEF HeadIsFirst
  <1>8. CASE Head(s).type # "lock"
    <2>1. ASSUME Head(s).lock > Len(k)
          PROVE  FALSE
      <3>1. Head(s).lock \in Len(k) + 1..Len(locks)
        BY <1>4, <2>1
      <3>2. PICK i \in 1..Len(s) : s[i].type = "lock" /\ s[i].lock = Head(s).lock
        BY <3>1 DEF InStep, LocksAhead
      <3>3. i # 1
        BY <1>1, <1>8, <3>2
      <3>4. s[i].lock > Head(s).lock
        BY <1>3, <1>6, <3>2, <3>3
      <3> QED
        BY <1>5, <3>2, <3>4
    <2>2. Head(s).lock = Len(k) /\ Len(k) \in 1..Len(k)
      BY <1>4, <2>1
    <2>3. Head(s).outputs \subseteq screens
      BY <1>1 DEF InStep, Apart
    <2> QED
      BY <1>1, <1>2, <1>3, <1>4, <1>8, <2>2, <2>3 DEF HeadIsFirst
  <1> QED
    BY <1>7, <1>8

\* What is left of what has been sent.
LEMMA LeftInStep ==
    ASSUME NEW s \in Seq(Requests), s # <<>>, NEW locks \in Seq(LockStates), NEW screens,
           NEW k \in Seq(CompositorStates), NEW v, NEW ev, InStep(s, locks, screens, k, v, ev)
    PROVE  /\ InOrder(Tail(s))
           /\ Apart(Tail(s), screens, k, v)
           /\ Heard(Tail(s), locks, k, ev)
           /\ Head(s).type # "lock" => LocksAhead(Tail(s), Len(locks), Len(k))
           /\ Head(s).type \notin Ends => EndsAhead(Tail(s), locks, k)
  <1> DEFINE t == Tail(s)
  <1>1. /\ Len(t) = Len(s) - 1 /\ Len(s) \in Nat
        /\ \A i \in 1..Len(t) : i + 1 \in 1..Len(s) /\ t[i] = s[i + 1]
        /\ Head(s) = s[1]
    BY HeadFirst DEF HeadIsFirst
  <1> HIDE DEF t
  <1>2. ASSUME NEW i \in 1..Len(s), i # 1
        PROVE  i - 1 \in 1..Len(t) /\ s[i] = t[i - 1]
    <2>1. i - 1 \in 1..Len(t) /\ (i - 1) + 1 = i
      BY <1>1, <1>2
    <2> QED
      BY <1>1, <2>1
  <1>3. InOrder(t)
    <2>1. ASSUME NEW i \in 1..Len(t), NEW j \in 1..Len(t), i < j
          PROVE  /\ t[i].lock <= t[j].lock
                 /\ t[j].type = "lock" \/ t[i].type \in Ends => t[i].lock < t[j].lock
      <3>1. i + 1 \in 1..Len(s) /\ j + 1 \in 1..Len(s) /\ i + 1 < j + 1
            /\ t[i] = s[i + 1] /\ t[j] = s[j + 1]
        BY <1>1, <2>1
      <3> QED
        BY <3>1 DEF InStep, InOrder
    <2> QED
      BY <2>1 DEF InOrder
  <1>4. Apart(t, screens, k, v)
    <2>1. ASSUME NEW i \in 1..Len(t), NEW j \in 1..Len(t), i < j, t[i].lock = t[j].lock
          PROVE  t[i].outputs \cap t[j].outputs = {}
      <3>1. i + 1 \in 1..Len(s) /\ j + 1 \in 1..Len(s) /\ i + 1 < j + 1
            /\ t[i] = s[i + 1] /\ t[j] = s[j + 1]
        BY <1>1, <2>1
      <3> QED
        BY <2>1, <3>1 DEF InStep, Apart
    <2>2. \A i \in 1..Len(t) : /\ t[i].lock <= Len(k) => t[i].outputs \cap v = {}
                               /\ t[i].outputs \subseteq screens
      BY <1>1 DEF InStep, Apart
    <2> QED
      BY <2>1, <2>2 DEF InStep, Apart
  <1>5. Heard(t, locks, k, ev)
    <2>1. \A i \in 1..Len(t) : /\ t[i].type = "unlock" => WasLocked(k, t[i].lock)
                               /\ t[i].type = "destroy" => WasEnded(k, t[i].lock)
      BY <1>1 DEF InStep, Heard
    <2> QED
      BY <2>1 DEF InStep, Heard
  <1>6. ASSUME Head(s).type # "lock"
        PROVE  LocksAhead(t, Len(locks), Len(k))
    <2>1. \A i \in 1..Len(t) : /\ t[i].lock \in 1..Len(locks) /\ t[i].lock >= Len(k)
                               /\ t[i].type = "lock" => t[i].lock > Len(k)
      BY <1>1 DEF InStep, LocksAhead
    <2>2. ASSUME NEW l \in Len(k) + 1..Len(locks)
          PROVE  \E i \in 1..Len(t) : t[i].type = "lock" /\ t[i].lock = l
      <3>1. PICK i \in 1..Len(s) : s[i].type = "lock" /\ s[i].lock = l
        BY DEF InStep, LocksAhead
      <3>2. i # 1
        BY <1>1, <1>6, <3>1
      <3> QED
        BY <1>2, <3>1, <3>2
    <2> QED
      BY <2>1, <2>2 DEF InStep, LocksAhead
  <1>7. ASSUME Head(s).type \notin Ends
        PROVE  EndsAhead(t, locks, k)
    <2>1. \A i \in 1..Len(t) : t[i].type \in Ends => locks[t[i].lock] = "gone"
      BY <1>1 DEF InStep, EndsAhead
    <2>2. ASSUME NEW l \in 1..Len(locks), locks[l] = "gone",
                 l > Len(k) \/ k[l] \in {"locking", "locked"}
          PROVE  \E i \in 1..Len(t) : t[i].type \in Ends /\ t[i].lock = l
      <3>1. PICK i \in 1..Len(s) : s[i].type \in Ends /\ s[i].lock = l
        BY <2>2 DEF InStep, EndsAhead
      <3>2. i # 1
        BY <1>1, <1>7, <3>1
      <3> QED
        BY <1>2, <3>1, <3>2
    <2> QED
      BY <2>1, <2>2 DEF EndsAhead
  <1> QED
    BY <1>3, <1>4, <1>5, <1>6, <1>7 DEF t

\* The compositor begins to lock; the outputs were bare by then, as the end
\* of the lock before has been served.
LEMMA LockingInStep ==
    ASSUME NEW s \in Seq(Requests), s # <<>>, NEW locks \in Seq(LockStates), NEW screens,
           NEW k \in Seq(CompositorStates), NEW v, NEW ev, InStep(s, locks, screens, k, v, ev),
           Head(s).type = "lock", \A l \in 1..Len(locks) : l # Len(locks) => locks[l] = "gone"
    PROVE  InStep(Tail(s), locks, screens, Append(k, "locking"), v, ev)
  <1> DEFINE t == Tail(s)
             n == Len(k) + 1
             known == Append(k, "locking")
  <1>0. HeadIsFirst(s, locks, screens, k)
    BY HeadFirst
  <1>1. /\ Len(t) = Len(s) - 1 /\ Len(s) \in Nat /\ Head(s).lock = n /\ n <= Len(locks)
        /\ \A i \in 1..Len(t) : /\ i + 1 \in 1..Len(s) /\ t[i] = s[i + 1]
                                /\ n <= t[i].lock /\ (t[i].type = "lock" => n < t[i].lock)
        /\ Head(s) = s[1] /\ 1 \in 1..Len(s) /\ Len(k) \in Nat /\ Len(locks) \in Nat
    BY <1>0 DEF HeadIsFirst
  <1>2. /\ Len(known) = n /\ known[n] = "locking" /\ n \in Nat
        /\ \A l \in 1..Len(k) : known[l] = k[l]
    BY AppendProperties DEF CompositorStates
  <1>3. /\ InOrder(t) /\ Apart(t, screens, k, v) /\ Heard(t, locks, k, ev)
        /\ EndsAhead(t, locks, k)
    BY LeftInStep DEF Ends
  <1> HIDE DEF t, known
  <1>4. LocksAhead(t, Len(locks), n)
    <2>1. \A i \in 1..Len(t) : /\ t[i].lock \in 1..Len(locks) /\ t[i].lock >= n
                               /\ t[i].type = "lock" => t[i].lock > n
      <3>1. \A i \in 1..Len(s) : s[i].lock \in 1..Len(locks)
        BY DEF InStep, LocksAhead
      <3> HIDE DEF n
      <3> QED
        BY <1>1, <1>2, <3>1
    <2>2. ASSUME NEW l \in n + 1..Len(locks)
          PROVE  \E i \in 1..Len(t) : t[i].type = "lock" /\ t[i].lock = l
      <3>1. l \in Len(k) + 1..Len(locks) /\ l # n
        BY <1>1, <1>2
      <3>2. PICK i \in 1..Len(s) : s[i].type = "lock" /\ s[i].lock = l
        BY <3>1 DEF InStep, LocksAhead
      <3>3. i # 1
        BY <1>1, <3>1, <3>2
      <3>4. i - 1 \in 1..Len(t) /\ (i - 1) + 1 = i
        BY <1>1, <3>3
      <3>5. t[i - 1] = s[i]
        BY <1>1, <3>4
      <3> QED
        BY <3>2, <3>4, <3>5
    <2> QED
      BY <1>1, <2>1, <2>2 DEF LocksAhead
  <1>5. EndsAhead(t, locks, known)
    <2>1. ASSUME NEW l \in 1..Len(locks), locks[l] = "gone",
                 l > n \/ known[l] \in {"locking", "locked"}
          PROVE  l > Len(k) \/ k[l] \in {"locking", "locked"}
      BY <1>1, <1>2, <2>1
    <2> QED
      BY <1>2, <1>3, <2>1 DEF EndsAhead
  <1>6. v = {}
    <2>1. ASSUME v # {}
          PROVE  FALSE
      <3>1. /\ Len(k) \in 1..Len(k) /\ k[Len(k)] \in {"locking", "locked"}
            /\ Len(k) \in 1..Len(locks)
        BY <1>1, <2>1 DEF InStep, Apart
      <3>2. locks[Len(k)] = "gone"
        BY <1>1, <3>1
      <3>3. PICK i \in 1..Len(t) : t[i].lock = Len(k)
        BY <1>3, <3>1, <3>2 DEF EndsAhead
      <3>4. n <= Len(k)
        BY <1>1, <3>3
      <3> QED
        BY <1>2, <3>4
    <2> QED
      BY <2>1
  <1>7. Apart(t, screens, known, v)
    BY <1>3, <1>6 DEF Apart
  <1>8. Heard(t, locks, known, ev)
    <2>1. \A l : /\ WasLocked(k, l) => WasLocked(known, l)
                 /\ WasEnded(k, l) => WasEnded(known, l)
      BY <1>1, <1>2 DEF WasLocked, WasEnded
    <2> QED
      BY <1>3, <2>1 DEF Heard
  <1> QED
    BY <1>2, <1>3, <1>4, <1>5, <1>7, <1>8 DEF InStep, t, known

\* Surfaces are shown, or ignored.
LEMMA ShownInStep ==
    ASSUME NEW s \in Seq(Requests), s # <<>>, NEW locks \in Seq(LockStates), NEW screens,
           NEW k \in Seq(CompositorStates), NEW v, NEW ev, InStep(s, locks, screens, k, v, ev),
           Head(s).type = "surfaces"
    PROVE  /\ InStep(Tail(s), locks, screens, k, v, ev)
           /\ Head(s).lock \in 1..Len(k) /\ Head(s).outputs \cap v = {}
           /\ k[Head(s).lock] \in {"locking", "locked"} =>
                 InStep(Tail(s), locks, screens, k,
                        v \cup (Head(s).outputs \cap screens), ev)
  <1> DEFINE t == Tail(s)
             shown == v \cup (Head(s).outputs \cap screens)
  <1>0. HeadIsFirst(s, locks, screens, k)
    BY HeadFirst
  <1>1. /\ Len(t) = Len(s) - 1 /\ Len(s) \in Nat /\ Len(k) \in 1..Len(k)
        /\ Head(s).lock = Len(k) /\ Head(s).lock \in 1..Len(k)
        /\ \A i \in 1..Len(t) : /\ i + 1 \in 1..Len(s) /\ t[i] = s[i + 1] /\ 1 < i + 1
                                /\ Head(s).lock <= t[i].lock
        /\ Head(s) = s[1] /\ 1 \in 1..Len(s) /\ Head(s).outputs \subseteq screens
    BY <1>0 DEF HeadIsFirst
  <1>2. /\ InOrder(t) /\ LocksAhead(t, Len(locks), Len(k)) /\ EndsAhead(t, locks, k)
        /\ Apart(t, screens, k, v) /\ Heard(t, locks, k, ev)
    BY LeftInStep DEF Ends
  <1>3. Head(s).outputs \cap v = {}
    BY <1>1 DEF InStep, Apart
  <1>4. ASSUME k[Head(s).lock] \in {"locking", "locked"}
        PROVE  Apart(t, screens, k, shown)
    <2>1. ASSUME NEW i \in 1..Len(t), t[i].lock <= Len(k)
          PROVE  t[i].outputs \cap shown = {}
      <3>1. t[i].outputs \cap v = {}
        BY <1>2, <2>1 DEF Apart
      <3>2. s[i + 1].lock \in Nat /\ s[1].lock = Len(k)
        BY <1>1 DEF InStep, LocksAhead
      <3>3. s[i + 1].lock = s[1].lock
        BY <1>1, <2>1, <3>2
      <3>4. s[1].outputs \cap s[i + 1].outputs = {}
        BY <1>1, <3>3 DEF InStep, Apart
      <3> QED
        BY <1>1, <3>1, <3>4
    <2>2. shown \subseteq screens /\ Len(k) > 0 /\ k[Len(k)] \in {"locking", "locked"}
      BY <1>1, <1>2, <1>4 DEF Apart
    <2> HIDE DEF shown, t
    <2> QED
      BY <1>2, <2>1, <2>2 DEF Apart
  <1> QED
    BY <1>1, <1>2, <1>3, <1>4 DEF InStep

\* A lock ends with the compositor.
LEMMA EndedInStep ==
    ASSUME NEW s \in Seq(Requests), s # <<>>, NEW locks \in Seq(LockStates), NEW screens,
           NEW k \in Seq(CompositorStates), NEW v, NEW ev, InStep(s, locks, screens, k, v, ev),
           Head(s).type \in Ends
    PROVE  InStep(Tail(s), locks, screens, [k EXCEPT ![Head(s).lock] = "gone"], {}, ev)
  <1> DEFINE t == Tail(s)
             n == Head(s).lock
             known == [k EXCEPT ![n] = "gone"]
  <1>0. HeadIsFirst(s, locks, screens, k)
    BY HeadFirst
  <1>1. /\ Len(t) = Len(s) - 1 /\ Len(s) \in Nat /\ Len(k) \in Nat
        /\ n = Len(k) /\ n \in 1..Len(k)
        /\ \A i \in 1..Len(t) : i + 1 \in 1..Len(s) /\ t[i] = s[i + 1]
        /\ Head(s) = s[1]
    BY <1>0 DEF HeadIsFirst, Ends
  <1>2. /\ InOrder(t) /\ LocksAhead(t, Len(locks), Len(k))
        /\ Apart(t, screens, k, v) /\ Heard(t, locks, k, ev)
    BY LeftInStep DEF Ends
  <1>3. /\ Len(known) = Len(k)
        /\ \A l \in 1..Len(k) : known[l] = IF l = n THEN "gone" ELSE k[l]
    <2>1. "gone" \in CompositorStates /\ n \in Nat
      BY <1>1 DEF CompositorStates
    <2> HIDE DEF n
    <2> QED
      BY <2>1, ExceptAt
  <1> HIDE DEF t, n, known
  <1>4. EndsAhead(t, locks, known)
    <2>1. \A i \in 1..Len(t) : t[i].type \in Ends => locks[t[i].lock] = "gone"
      BY <1>1 DEF InStep, EndsAhead
    <2>2. ASSUME NEW l \in 1..Len(locks), locks[l] = "gone",
                 l > Len(known) \/ known[l] \in {"locking", "locked"}
          PROVE  \E i \in 1..Len(t) : t[i].type \in Ends /\ t[i].lock = l
      <3>1. l # n /\ (l > Len(k) \/ k[l] \in {"locking", "locked"})
        BY <1>1, <1>3, <2>2
      <3>2. PICK i \in 1..Len(s) : s[i].type \in Ends /\ s[i].lock = l
        BY <2>2, <3>1 DEF InStep, EndsAhead
      <3>3. i # 1
        BY <1>1, <3>1, <3>2 DEF n
      <3>4. i - 1 \in 1..Len(t) /\ (i - 1) + 1 = i
        BY <1>1, <3>3
      <3>5. t[i - 1] = s[i]
        BY <1>1, <3>4
      <3> QED
        BY <3>2, <3>4, <3>5
    <2> QED
      BY <2>1, <2>2 DEF EndsAhead
  <1>5. Apart(t, screens, known, {})
    BY <1>2 DEF Apart
  <1>6. Heard(t, locks, known, ev)
    <2>1. \A l : /\ WasLocked(k, l) => WasLocked(known, l)
                 /\ WasEnded(k, l) => WasEnded(known, l)
      BY <1>3 DEF WasLocked, WasEnded
    <2> QED
      BY <1>2, <2>1 DEF Heard
  <1> QED
    BY <1>2, <1>3, <1>4, <1>5, <1>6 DEF InStep, t, n, known

\* The compositor decides about a lock, and the client is to hear of it.
LEMMA DecidedInStep ==
    ASSUME NEW s, NEW locks, NEW screens, NEW k \in Seq(CompositorStates), NEW v,
           NEW ev \in Seq(Events), InStep(s, locks, screens, k, v, ev),
           NEW l \in 1..Len(k), NEW to \in CompositorStates, NEW event \in {"locked", "finished"},
           \/ k[l] = "locking" /\ to = "locked" /\ event = "locked"
           \/ k[l] = "locking" /\ to = "denied" /\ event = "finished"
           \/ k[l] = "locked" /\ to = "evicted" /\ event = "finished"
    PROVE  InStep(s, locks, screens, [k EXCEPT ![l] = to], IF event = "finished" THEN {} ELSE v,
                  Append(ev, [type |-> event, lock |-> l]))
  <1> DEFINE known == [k EXCEPT ![l] = to]
             heard == Append(ev, [type |-> event, lock |-> l])
             shown == IF event = "finished" THEN {} ELSE v
  <1>1. /\ Len(known) = Len(k) /\ Len(k) \in Nat
        /\ \A m \in 1..Len(k) : known[m] = IF m = l THEN to ELSE k[m]
    BY ExceptAt
  <1>2. /\ Len(heard) = Len(ev) + 1 /\ heard[Len(ev) + 1].type = event
        /\ heard[Len(ev) + 1].lock = l /\ Len(ev) \in Nat
        /\ \A i \in 1..Len(ev) : heard[i] = ev[i]
        /\ \A i \in 1..Len(heard) : i \in 1..Len(ev) \/ i = Len(ev) + 1
    <2>1. [type |-> event, lock |-> l] \in Events
      BY DEF Events
    <2> QED
      BY <2>1, AppendProperties
  <1> HIDE DEF known, heard
  <1>3. EndsAhead(s, locks, known)
    <2>1. ASSUME NEW m \in 1..Len(locks), locks[m] = "gone",
                 m > Len(known) \/ known[m] \in {"locking", "locked"}
          PROVE  m > Len(k) \/ k[m] \in {"locking", "locked"}
      BY <1>1, <2>1
    <2> QED
      BY <1>1, <2>1 DEF InStep, EndsAhead
  <1>4. Apart(s, screens, known, shown)
    <2>1. CASE event = "finished"
      BY <1>1, <2>1 DEF InStep, Apart
    <2>2. CASE event # "finished"
      <3>1. Len(k) > 0 => known[Len(k)] \in {"locking", "locked"}
                          \/ k[Len(k)] \notin {"locking", "locked"}
        BY <1>1, <2>2
      <3> QED
        BY <1>1, <2>2, <3>1 DEF InStep, Apart
    <2> QED
      BY <2>1, <2>2
  <1>5. Heard(s, locks, known, heard)
    <2>1. \A m : /\ WasLocked(k, m) => WasLocked(known, m)
                 /\ WasEnded(k, m) => WasEnded(known, m)
      BY <1>1 DEF WasLocked, WasEnded
    <2>2. /\ event = "locked" => WasLocked(known, l)
          /\ event = "finished" => WasEnded(known, l)
      BY <1>1 DEF WasLocked, WasEnded
    <2>3. \A i \in 1..Len(heard) :
             /\ heard[i].type = "locked" => WasLocked(known, heard[i].lock)
             /\ heard[i].type = "finished" => WasEnded(known, heard[i].lock)
      BY <1>2, <2>1, <2>2 DEF InStep, Heard
    <2> QED
      BY <2>1, <2>3 DEF InStep, Heard
  <1> QED
    BY <1>1, <1>3, <1>4, <1>5 DEF InStep, known, heard

\* The client reads of a lock.
LEMMA ReadInStep ==
    ASSUME NEW s, NEW locks \in Seq(LockStates), NEW screens, NEW k, NEW v,
           NEW ev \in Seq(Events), ev # <<>>, InStep(s, locks, screens, k, v, ev)
    PROVE  /\ InStep(s, locks, screens, k, v, Tail(ev))
           /\ Head(ev).type = "locked" => WasLocked(k, Head(ev).lock)
           /\ Head(ev).type = "finished" => WasEnded(k, Head(ev).lock)
  <1>1. /\ Head(ev) = ev[1] /\ 1 \in 1..Len(ev)
        /\ \A i \in 1..Len(Tail(ev)) : i + 1 \in 1..Len(ev) /\ Tail(ev)[i] = ev[i + 1]
    BY HeadTailProperties
  <1>2. Heard(s, locks, k, Tail(ev))
    BY <1>1 DEF InStep, Heard
  <1> QED
    BY <1>1, <1>2 DEF InStep, Heard

\* A lock is heard to be locked.
LEMMA SecureInStep ==
    ASSUME NEW s, NEW locks \in Seq(LockStates), NEW screens, NEW k, NEW v, NEW ev,
           InStep(s, locks, screens, k, v, ev),
           NEW l \in Nat, locks[l] # "gone", WasLocked(k, l)
    PROVE  InStep(s, [locks EXCEPT ![l] = "secure"], screens, k, v, ev)
  <1> DEFINE locksNow == [locks EXCEPT ![l] = "secure"]
  <1>1. /\ Len(locksNow) = Len(locks)
        /\ \A m \in 1..Len(locks) : locksNow[m] = IF m = l THEN "secure" ELSE locks[m]
    <2>1. "secure" \in LockStates
      BY DEF LockStates
    <2> QED
      BY <2>1, ExceptAt
  <1> HIDE DEF locksNow
  <1>2. EndsAhead(s, locksNow, k)
    <2>1. ASSUME NEW i \in 1..Len(s), s[i].type \in Ends
          PROVE  locksNow[s[i].lock] = "gone"
      <3>1. locks[s[i].lock] = "gone" /\ s[i].lock \in 1..Len(locks)
        BY <2>1 DEF InStep, EndsAhead, LocksAhead
      <3> QED
        BY <1>1, <3>1
    <2>2. \A m \in 1..Len(locks) : locksNow[m] = "gone" => locks[m] = "gone"
      BY <1>1
    <2> QED
      BY <1>1, <2>1, <2>2 DEF InStep, EndsAhead
  <1>3. Heard(s, locksNow, k, ev)
    BY <1>1 DEF InStep, Heard
  <1> QED
    BY <1>1, <1>2, <1>3 DEF InStep, locksNow

-----------------------------------------------------------------------------
(* The methods, as a patient QML has them called.                          *)

\* What the methods do not change, unless it is the lock.
Alike(n, c) ==
    /\ n.process = c.process /\ n.screens = c.screens /\ n.targets = c.targets
    /\ n.component = c.component /\ n.pending = c.pending /\ n.orphans = c.orphans
    /\ n.abandoned = c.abandoned

\* unlock lets go of the lock, and its handlers do nothing.
LEMMA UnlockedFields ==
    ASSUME NEW c, NEW e \in Elements, Loose(c, e), IsLocked(c, e), qml = "patient"
    PROVE  LET n == Unlock(c, e)
           IN  /\ Alike(n, c) /\ n.active = 0 /\ n.mLock = [c.mLock EXCEPT ![e] = 0]
               /\ n.locks = [c.locks EXCEPT ![c.mLock[e]] = "gone"]
               /\ n.sent = Append(c.sent, [type |-> "unlock", lock |-> c.mLock[e],
                                           outputs |-> {}])
  <1> DEFINE l == c.mLock[e]
             s == Append(c.sent, [type |-> "unlock", lock |-> l, outputs |-> {}])
             freed == Unlocked(Release(c, l), e)
             outer == Unlocked(Discard(freed, freed.mLock[e]), e)
  <1>1. /\ c \in Clients /\ l \in Nat /\ c.mLock \in [Elements -> Nat]
        /\ c.locks[l] # "gone" /\ c.locks[l] # "finished"
        /\ c.created \in [Elements -> SUBSET Outputs] /\ c.shown \in [Elements -> SUBSET Outputs]
    <2>1. c \in Clients /\ l \in Nat
      BY DEF Loose, Clients
    <2>2. l \in 1..Len(c.locks) /\ c.locks[l] # "gone"
      BY DEF Loose, Held, IsLocked
    <2>3. c.locks[l] \in LockStates
      BY <2>1, <2>2 DEF Clients
    <2> QED
      BY <2>1, <2>2, <2>3 DEF LockStates, Clients
  <1> DEFINE locksNow == [c.locks EXCEPT ![l] = "gone"]
             mLockNow == [c.mLock EXCEPT ![e] = 0]
             createdNow == [c.created EXCEPT ![e] = {}]
             shownNow == [c.shown EXCEPT ![e] = {}]
  <1>2. Request(c, "unlock", l, {}) = [c EXCEPT !.sent = s]
    BY DEF Request
  <1> HIDE DEF s
  <1>3. Release(c, l) = [[c EXCEPT !.sent = s] EXCEPT !.locks[l] = "gone", !.active = 0]
    BY <1>1, <1>2 DEF Release
  <1>4. freed = [[[c EXCEPT !.sent = s] EXCEPT !.locks[l] = "gone", !.active = 0]
                    EXCEPT !.mLock[e] = 0, !.created[e] = {}, !.shown[e] = {}]
    BY <1>3 DEF Unlocked
  <1> HIDE DEF freed
  <1>5. freed = [c EXCEPT !.sent = s, !.locks = locksNow, !.active = 0, !.mLock = mLockNow,
                          !.created = createdNow, !.shown = shownNow]
    BY <1>1, <1>4 DEF Clients
  <1>6. /\ mLockNow[e] = 0 /\ [mLockNow EXCEPT ![e] = 0] = mLockNow
        /\ [createdNow EXCEPT ![e] = {}] = createdNow /\ [shownNow EXCEPT ![e] = {}] = shownNow
    BY <1>1
  <1> HIDE DEF locksNow, mLockNow, createdNow, shownNow
  <1>7. /\ Alike(freed, c) /\ freed.active = 0 /\ freed.mLock = mLockNow
        /\ freed.locks = locksNow /\ freed.sent = s
        /\ freed.created = createdNow /\ freed.shown = shownNow
    BY <1>1, <1>5 DEF Clients, Alike
  <1>8. OnLockStateChanged(freed, e) = freed
    BY DEF OnLockStateChanged
  <1>9. outer = Unlocked(freed, e)
    BY <1>6, <1>7 DEF Discard
  <1>10. Unlock(c, e) = OnLockStateChanged(Unlocked(freed, e), e)
    BY <1>8, <1>9 DEF Unlock, freed
  <1>11. Unlock(c, e) = Unlocked(freed, e)
    BY <1>10 DEF OnLockStateChanged
  <1>12. /\ Alike(Unlocked(freed, e), freed) /\ Unlocked(freed, e).active = freed.active
         /\ Unlocked(freed, e).mLock = [mLockNow EXCEPT ![e] = 0]
         /\ Unlocked(freed, e).locks = freed.locks /\ Unlocked(freed, e).sent = freed.sent
    BY <1>1, <1>5, <1>7 DEF Unlocked, Alike, Clients
  <1> QED
    BY <1>6, <1>7, <1>11, <1>12 DEF Alike, s, locksNow, mLockNow

\* updateSurfaces of an element that is locked asks for what it lacks.
LEMMA ShownFields ==
    ASSUME NEW c \in Clients, NEW e \in Elements, IsLocked(c, e), c.component[e] = "good"
    PROVE  LET n == UpdateSurfaces(c, e, TRUE)
           IN  /\ Alike(n, c) /\ n.active = c.active /\ n.mLock = c.mLock /\ n.locks = c.locks
               /\ \/ n.sent = c.sent
                  \/ n.sent = Append(c.sent, [type |-> "surfaces", lock |-> c.mLock[e],
                                              outputs |-> c.screens \ c.shown[e]])
  <1> DEFINE kept == [c EXCEPT !.created[e] = @ \cap c.screens, !.shown[e] = @ \cap c.screens]
             all == [kept EXCEPT !.created[e] = c.screens]
             s == Append(c.sent, [type |-> "surfaces", lock |-> c.mLock[e],
                                  outputs |-> c.screens \ c.shown[e]])
             asked == [Request(all, "surfaces", c.mLock[e], c.screens \ kept.shown[e])
                         EXCEPT !.shown[e] = c.screens]
             n == UpdateSurfaces(c, e, TRUE)
  <1>1. c.created \in [Elements -> SUBSET Outputs] /\ c.shown \in [Elements -> SUBSET Outputs]
    BY DEF Clients
  <1>2. /\ Alike(all, c) /\ all.active = c.active /\ all.mLock = c.mLock /\ all.locks = c.locks
        /\ all.sent = c.sent /\ kept.shown[e] = c.shown[e] \cap c.screens
    BY <1>1 DEF Clients, Alike
  <1>3. c.screens \ kept.shown[e] = c.screens \ c.shown[e]
    BY <1>2
  <1>4. n = all \/ n = asked
    BY DEF UpdateSurfaces
  <1>5. /\ Alike(asked, c) /\ asked.active = c.active /\ asked.mLock = c.mLock
        /\ asked.locks = c.locks /\ asked.sent = s
    <2> HIDE DEF kept
    <2>1. Request(all, "surfaces", c.mLock[e], c.screens \ kept.shown[e])
              = [all EXCEPT !.sent = s]
      BY <1>2, <1>3 DEF Request
    <2>2. all = [c EXCEPT !.created = all.created, !.shown = all.shown]
      BY <1>1 DEF Clients, kept
    <2> HIDE DEF s, all
    <2>3. asked = [[all EXCEPT !.sent = s] EXCEPT !.shown[e] = c.screens]
      BY <2>1
    <2> HIDE DEF asked
    <2>4. /\ asked.process = all.process /\ asked.screens = all.screens
          /\ asked.targets = all.targets /\ asked.component = all.component
          /\ asked.pending = all.pending /\ asked.orphans = all.orphans
          /\ asked.abandoned = all.abandoned /\ asked.active = all.active
          /\ asked.mLock = all.mLock /\ asked.locks = all.locks /\ asked.sent = s
      BY <2>2, <2>3 DEF Clients
    <2> QED
      BY <1>2, <2>4 DEF Alike
  <1> HIDE DEF asked, all, n
  <1> QED
    BY <1>2, <1>4, <1>5 DEF n

\* realizeLockTarget takes a lock when there is none.
LEMMA LockedFields ==
    ASSUME NEW c, NEW e \in Elements, Loose(c, e), c.active = 0, c.component[e] = "good"
    PROVE  LET n == RealizeLockTarget(c, e, TRUE)
               l == Len(c.locks) + 1
               s == Append(c.sent, [type |-> "lock", lock |-> l, outputs |-> {}])
           IN  /\ Alike(n, c) /\ n.active = l /\ n.mLock = [c.mLock EXCEPT ![e] = l]
               /\ n.locks = Append(c.locks, "requested")
               /\ \/ n.sent = s
                  \/ \E outputs \in SUBSET c.screens :
                        n.sent = Append(s, [type |-> "surfaces", lock |-> l,
                                            outputs |-> outputs])
  <1> DEFINE l == Len(c.locks) + 1
             s == Append(c.sent, [type |-> "lock", lock |-> l, outputs |-> {}])
             preloaded == UpdateSurfaces(c, e, FALSE)
             locked == Acquire(preloaded, e)
             n == RealizeLockTarget(c, e, TRUE)
  <1>1. /\ c \in Clients /\ Held(c) /\ c.created \in [Elements -> SUBSET Outputs]
        /\ c.shown \in [Elements -> SUBSET Outputs] /\ c.mLock \in [Elements -> Nat]
    BY DEF Loose, Clients
  <1>2. c.mLock[e] = 0
    BY <1>1 DEF Held
  <1>3. /\ Loose(preloaded, e) /\ Alike(preloaded, c) /\ preloaded.active = 0
        /\ preloaded.mLock = c.mLock /\ preloaded.locks = c.locks /\ preloaded.sent = c.sent
    <2> DEFINE kept == [c EXCEPT !.created[e] = @ \cap c.screens, !.shown[e] = @ \cap c.screens]
    <2>1. preloaded = [kept EXCEPT !.created[e] = c.screens]
      BY DEF UpdateSurfaces
    <2>2. Loose(preloaded, e)
      BY UpdateSurfacesGood
    <2>3. preloaded = [c EXCEPT !.created = preloaded.created, !.shown = preloaded.shown]
      BY <1>1, <2>1 DEF Clients
    <2> HIDE DEF preloaded
    <2> QED
      BY <1>1, <2>2, <2>3 DEF Clients, Alike
  <1>4. n = UpdateSurfaces(locked, e, TRUE)
    <2>1. ~IsLocked(preloaded, e) /\ ~SessionLocked(preloaded)
      BY <1>2, <1>3 DEF IsLocked, SessionLocked
    <2> QED
      BY <2>1 DEF RealizeLockTarget
  <1>5. preloaded \in Clients
    BY <1>3 DEF Loose
  <1> HIDE DEF preloaded
  <1>6. /\ locked \in Clients /\ Alike(locked, c) /\ locked.active = l
        /\ locked.mLock = [c.mLock EXCEPT ![e] = l]
        /\ locked.locks = Append(c.locks, "requested") /\ locked.sent = s
    <2> DEFINE locksNow == Append(c.locks, "requested")
               mLockNow == [c.mLock EXCEPT ![e] = l]
    <2>1. l \in Nat /\ locksNow \in Seq(LockStates) /\ mLockNow \in [Elements -> Nat]
      BY <1>1, AppendProperties DEF Clients, LockStates
    <2>2. s \in Seq(Requests)
      BY <1>1, <2>1, RequestsAppended DEF Clients
    <2>3. Request(preloaded, "lock", Len(preloaded.locks) + 1, {}) = [preloaded EXCEPT !.sent = s]
      BY <1>3 DEF Request
    <2> HIDE DEF s
    <2>4. locked = [[preloaded EXCEPT !.sent = s]
                       EXCEPT !.locks = Append(@, "requested"), !.active = Len(preloaded.locks) + 1,
                              !.mLock[e] = Len(preloaded.locks) + 1]
      BY <2>3 DEF Acquire
    <2>5. locked = [preloaded EXCEPT !.sent = s, !.locks = locksNow, !.active = l,
                                     !.mLock = mLockNow]
      BY <1>3, <1>5, <2>4 DEF Clients
    <2> HIDE DEF l, locksNow, mLockNow, locked
    <2>6. /\ locked.active = l /\ locked.mLock = mLockNow /\ locked.locks = locksNow
          /\ locked.sent = s /\ Alike(locked, preloaded)
      BY <1>5, <2>5 DEF Clients, Alike
    <2>7. locked \in Clients
      BY <1>5, <2>1, <2>2, <2>5 DEF Clients
    <2> QED
      BY <1>3, <2>6, <2>7 DEF Alike, locksNow, mLockNow
  <1> HIDE DEF locked
  <1>7. l \in Nat /\ l # 0 /\ locked.mLock[e] = l
    BY <1>1, <1>6 DEF Clients
  <1> HIDE DEF l, s, n
  <1>8. locked.component[e] = "good" /\ IsLocked(locked, e)
    BY <1>6, <1>7 DEF Alike, IsLocked
  <1>9. /\ Alike(n, locked) /\ n.active = locked.active /\ n.mLock = locked.mLock
        /\ n.locks = locked.locks
        /\ \/ n.sent = locked.sent
           \/ n.sent = Append(locked.sent, [type |-> "surfaces", lock |-> locked.mLock[e],
                                            outputs |-> locked.screens \ locked.shown[e]])
    BY <1>4, <1>6, <1>8, ShownFields
  <1>10. locked.screens = c.screens
    BY <1>6 DEF Alike
  <1> QED
    BY <1>6, <1>7, <1>9, <1>10 DEF Alike, n, l, s

-----------------------------------------------------------------------------
(* The actions, with a patient QML.                                        *)

\* What a patient QML makes of the client: there is one lock at a time, the
\* last one, and a reload may lock one element, when none is.
Single(c) ==
    /\ \A e \in Elements : c.component[e] = "good"
    /\ ~c.abandoned /\ c.orphans = {}
    /\ \A e, f \in c.targets : e = f
    /\ c.targets # {} => c.active = 0
    /\ \A e \in c.pending : c.mLock[e] = 0
    /\ c.active \in {0, Len(c.locks)}
    /\ \A l \in 1..Len(c.locks) : l # c.active => c.locks[l] = "gone"

Surviving(c, k, v, ev) ==
    c.process = "runs" /\ Single(c) /\ InStep(c.sent, c.locks, c.screens, k, v, ev)

Survives ==
    qml = "patient" =>
        \/ Surviving(client, compositor, covered, events)
        \/ client.process # "runs" /\ \E l \in DOMAIN compositor : compositor[l] = "evicted"

\* The requests that there are, as far as they matter here.
LEMMA AppendedRequests ==
    ASSUME NEW c \in Clients
    PROVE  /\ c.sent \in Seq(Requests) /\ c.locks \in Seq(LockStates) /\ Len(c.locks) \in Nat
           /\ c.screens \subseteq Outputs /\ c.mLock \in [Elements -> Nat] /\ c.active \in Nat
  BY DEF Clients

LEMMA UnlockSurvives ==
    ASSUME NEW c, NEW e \in Elements, Loose(c, e), IsLocked(c, e), qml = "patient",
           NEW k \in Seq(CompositorStates), NEW v, NEW ev, Surviving(c, k, v, ev),
           c.locks[c.active] = "secure"
    PROVE  Surviving(Unlock(c, e), k, v, ev)
  <1> DEFINE n == Unlock(c, e)
             l == c.mLock[e]
             s == Append(c.sent, [type |-> "unlock", lock |-> l, outputs |-> {}])
             locksNow == [c.locks EXCEPT ![l] = "gone"]
  <1>1. /\ Alike(n, c) /\ n.active = 0 /\ n.mLock = [c.mLock EXCEPT ![e] = 0]
        /\ n.locks = locksNow /\ n.sent = s
    BY UnlockedFields
  <1>2. /\ c \in Clients /\ l = c.active /\ l = Len(c.locks) /\ l > 0 /\ c.locks[l] # "gone"
        /\ l \in 1..Len(c.locks)
    BY DEF Loose, Held, IsLocked, Surviving, Single
  <1>3. c.sent \in Seq(Requests) /\ c.locks \in Seq(LockStates) /\ c.mLock \in [Elements -> Nat]
    BY <1>2 DEF Clients
  <1>4. WasLocked(k, l)
    BY <1>2 DEF Surviving, InStep, Heard
  <1> HIDE DEF n
  <1>5. InStep(s, locksNow, c.screens, k, v, ev)
    <2>1. InStep(c.sent, c.locks, c.screens, k, v, ev)
      BY DEF Surviving
    <2>2. "unlock" \in Ends
      BY DEF Ends
    <2> HIDE DEF l
    <2> QED
      BY <1>2, <1>3, <1>4, <2>1, <2>2, EndsInStep
  <1>6. Single(n)
    <2>1. "gone" \in LockStates /\ l \in Nat
      BY <1>2 DEF LockStates
    <2>2. Len(locksNow) = Len(c.locks)
          /\ \A m \in 1..Len(c.locks) : locksNow[m] = IF m = l THEN "gone" ELSE c.locks[m]
      <3> HIDE DEF l
      <3> QED
        BY <1>3, <2>1, ExceptAt
    <2> HIDE DEF locksNow, l
    <2> QED
      BY <1>1, <1>2, <1>3, <2>2 DEF Alike, Surviving, Single
  <1> QED
    BY <1>1, <1>5, <1>6 DEF Surviving, Alike, n

LEMMA LockSurvives ==
    ASSUME NEW c, NEW e \in Elements, Loose(c, e), c.active = 0, c.targets = {},
           NEW k \in Seq(CompositorStates), NEW v, NEW ev, Surviving(c, k, v, ev)
    PROVE  Surviving(RealizeLockTarget(c, e, TRUE), k, v, ev)
  <1> DEFINE n == RealizeLockTarget(c, e, TRUE)
             l == Len(c.locks) + 1
             s == Append(c.sent, [type |-> "lock", lock |-> l, outputs |-> {}])
             locksNow == Append(c.locks, "requested")
  <1>0. c \in Clients /\ e \notin c.pending /\ c.component[e] = "good"
    BY DEF Loose, ShownExcept, Surviving, Single
  <1>1. /\ Alike(n, c) /\ n.active = l /\ n.mLock = [c.mLock EXCEPT ![e] = l]
        /\ n.locks = locksNow
        /\ \/ n.sent = s
           \/ \E outputs \in SUBSET c.screens :
                 n.sent = Append(s, [type |-> "surfaces", lock |-> l, outputs |-> outputs])
    BY <1>0, LockedFields
  <1>2. /\ c.sent \in Seq(Requests) /\ c.locks \in Seq(LockStates)
        /\ c.mLock \in [Elements -> Nat] /\ Len(c.locks) \in Nat /\ c.screens \subseteq Outputs
    BY <1>0 DEF Clients
  <1>3. /\ locksNow \in Seq(LockStates) /\ Len(locksNow) = l /\ locksNow[l] = "requested"
        /\ \A m \in 1..Len(c.locks) : locksNow[m] = c.locks[m]
        /\ \A m \in 1..l : m \in 1..Len(c.locks) \/ m = l
        /\ l > 0 /\ l \in Nat
    BY <1>2, AppendProperties DEF LockStates
  <1>4. s \in Seq(Requests)
    BY <1>2, <1>3, RequestsAppended
  <1>5. InStep(s, locksNow, c.screens, k, v, ev)
    BY <1>2, AskedInStep DEF Surviving
  <1>6. \A i \in 1..Len(s) : s[i].lock = l => s[i].outputs = {}
    <2>1. /\ Len(s) = Len(c.sent) + 1 /\ Len(c.sent) \in Nat
          /\ s[Len(c.sent) + 1] = [type |-> "lock", lock |-> l, outputs |-> {}]
          /\ \A i \in 1..Len(c.sent) : s[i] = c.sent[i]
      <3>1. [type |-> "lock", lock |-> l, outputs |-> {}] \in Requests
        BY <1>3 DEF Requests
      <3> QED
        BY <1>2, <3>1, AppendProperties
    <2>2. \A i \in 1..Len(c.sent) : c.sent[i].lock # l
      BY <1>2 DEF Surviving, InStep, LocksAhead
    <2>3. \A i \in 1..Len(s) : i \in 1..Len(c.sent) \/ i = Len(c.sent) + 1
      BY <2>1
    <2> HIDE DEF s
    <2> QED
      BY <2>1, <2>2, <2>3
  <1>7. ~(l <= Len(k))
    BY <1>2 DEF Surviving, InStep, LocksAhead
  <1> HIDE DEF n, l, s, locksNow
  <1>8. InStep(n.sent, locksNow, c.screens, k, v, ev)
    <2>1. ASSUME NEW outputs \in SUBSET c.screens,
                 n.sent = Append(s, [type |-> "surfaces", lock |-> l, outputs |-> outputs])
          PROVE  InStep(n.sent, locksNow, c.screens, k, v, ev)
      <3>1. outputs \in SUBSET Outputs /\ outputs \subseteq c.screens
        BY <1>2
      <3>2. \A i \in 1..Len(s) : s[i].lock = l => s[i].outputs \cap outputs = {}
        BY <1>6
      <3>3. l = Len(locksNow) /\ l > 0 /\ locksNow[l] # "gone"
        BY <1>3
      <3>4. l <= Len(k) => outputs \cap v = {}
        BY <1>7
      <3>5. InStep(Append(s, [type |-> "surfaces", lock |-> l, outputs |-> outputs]),
                   locksNow, c.screens, k, v, ev)
        BY <1>3, <1>4, <1>5, <3>1, <3>2, <3>3, <3>4, ShowsInStep
      <3> QED
        BY <2>1, <3>5
    <2> QED
      BY <1>1, <1>5, <2>1
  <1>9. Single(n)
    <2>1. \A f \in c.pending : n.mLock[f] = 0
      BY <1>0, <1>1, <1>2 DEF Surviving, Single, Clients
    <2>2. \A m \in 1..Len(n.locks) : m # l => n.locks[m] = "gone"
      BY <1>1, <1>3 DEF Surviving, Single
    <2> QED
      BY <1>1, <1>3, <2>1, <2>2 DEF Alike, Surviving, Single
  <1> QED
    BY <1>1, <1>8, <1>9 DEF Surviving, Alike, n

LEMMA ShowSurvives ==
    ASSUME NEW c, NEW e \in Elements, Loose(c, e), IsLocked(c, e),
           NEW k \in Seq(CompositorStates), NEW v, NEW ev, Surviving(c, k, v, ev),
           v \subseteq c.shown[e], \A i \in 1..Len(c.sent) : c.sent[i].outputs \subseteq c.shown[e]
    PROVE  Surviving(UpdateSurfaces(c, e, TRUE), k, v, ev)
  <1> DEFINE n == UpdateSurfaces(c, e, TRUE)
             l == c.mLock[e]
             outputs == c.screens \ c.shown[e]
             s == Append(c.sent, [type |-> "surfaces", lock |-> l, outputs |-> outputs])
  <1>0. /\ c \in Clients /\ e \notin c.pending /\ c.component[e] = "good"
        /\ l = c.active /\ l = Len(c.locks) /\ l > 0 /\ c.locks[l] # "gone"
    BY DEF Loose, Held, ShownExcept, IsLocked, Surviving, Single
  <1>1. /\ Alike(n, c) /\ n.active = c.active /\ n.mLock = c.mLock /\ n.locks = c.locks
        /\ n.sent = c.sent \/ n.sent = s
    BY <1>0, ShownFields
  <1>2. c.sent \in Seq(Requests) /\ c.locks \in Seq(LockStates) /\ outputs \in SUBSET Outputs
        /\ outputs \subseteq c.screens
    BY <1>0 DEF Clients
  <1>3. InStep(c.sent, c.locks, c.screens, k, v, ev)
    BY DEF Surviving
  <1>4. InStep(s, c.locks, c.screens, k, v, ev)
    <2>1. /\ l <= Len(k) => outputs \cap v = {}
          /\ \A i \in 1..Len(c.sent) : c.sent[i].lock = l => c.sent[i].outputs \cap outputs = {}
      OBVIOUS
    <2> HIDE DEF l, outputs
    <2> QED
      BY <1>0, <1>2, <1>3, <2>1, ShowsInStep
  <1> HIDE DEF n, s
  <1>5. Single(n)
    BY <1>1 DEF Surviving, Single, Alike
  <1> QED
    BY <1>1, <1>3, <1>4, <1>5 DEF Surviving, Alike, n

\* The client, when it runs, as the actions find it.
LEMMA PatientNow ==
    ASSUME IInv, Survives, qml = "patient", client.process = "runs"
    PROVE  /\ Surviving(client, compositor, covered, events)
           /\ client \in Clients /\ Held(client) /\ Shown(client)
           /\ compositor \in Seq(CompositorStates) /\ events \in Seq(Events)
           /\ client.sent \in Seq(Requests) /\ client.locks \in Seq(LockStates)
           /\ client.mLock \in [Elements -> Nat] /\ client.active \in Nat
           /\ client.active = 0 => \A e \in Elements : client.mLock[e] = 0
           /\ ~client.reloading => client.pending = {} /\ client.targets = {}
  <1>1. /\ client \in Clients /\ Held(client) /\ Shown(client)
        /\ client.mLock \in [Elements -> Nat]
    BY DEF IInv, Good, Clients
  <1>2. client.active = 0 => \A e \in Elements : client.mLock[e] = 0
    BY <1>1 DEF Held
  <1>3. ~client.reloading => client.pending = {} /\ client.targets = {}
    BY DEF IInv, Calm
  <1> QED
    BY <1>1, <1>2, <1>3, AppendedRequests DEF IInv, Survives

LEMMA SetLockedSurvives ==
    ASSUME IInv, Survives, qml = "patient", NEW e \in Elements, NEW locked \in BOOLEAN,
           SetLocked(e, locked)
    PROVE  Survives'
  <1>1. client.process = "runs" /\ ~client.reloading
    BY DEF SetLocked, Handles
  <1>2. /\ Surviving(client, compositor, covered, events)
        /\ compositor \in Seq(CompositorStates)
        /\ client.active = 0 => \A f \in Elements : client.mLock[f] = 0
        /\ client.pending = {} /\ client.targets = {}
    BY <1>1, PatientNow
  <1>3. Loose(client, e)
    BY <1>2, GoodIsLoose DEF IInv
  <1>4. CASE client' = client
    BY <1>2, <1>4 DEF SetLocked, Survives
  <1>5. CASE locked /\ client' = RealizeLockTarget(client, e, TRUE)
    <2>1. client.active = 0
      BY <1>5 DEF SetLocked, SessionLocked
    <2>2. Surviving(client', compositor, covered, events)
      BY <1>2, <1>3, <1>5, <2>1, LockSurvives
    <2> QED
      BY <2>2 DEF SetLocked, Survives
  <1>6. CASE ~locked /\ IsLocked(client, e) /\ client' = RealizeLockTarget(client, e, FALSE)
    <2>1. client.locks[client.active] = "secure"
      BY <1>6 DEF SetLocked, IsSecure
    <2>2. client' = Unlock(client, e)
      BY <1>6 DEF RealizeLockTarget
    <2>3. Surviving(Unlock(client, e), compositor, covered, events)
      BY <1>2, <1>3, <1>6, <2>1, UnlockSurvives
    <2> QED
      BY <2>2, <2>3 DEF SetLocked, Survives
  <1> QED
    BY <1>4, <1>5, <1>6 DEF SetLocked, IsLocked

LEMMA SetSurfaceSurvives ==
    ASSUME IInv, Survives, qml = "patient", NEW e \in Elements, NEW component \in Components,
           SetSurfaceComponent(e, component)
    PROVE  Survives'
  <1>1. client.process = "runs" /\ component = "good"
    BY DEF SetSurfaceComponent, Handles
  <1>2. Surviving(client, compositor, covered, events) /\ client \in Clients
    BY <1>1, PatientNow
  <1>3. CASE client' = client
    BY <1>2, <1>3 DEF SetSurfaceComponent, Survives
  <1>4. CASE client' = [client EXCEPT !.component[e] = component]
    <2>1. \A f \in Elements : client'.component[f] = "good"
      BY <1>1, <1>2, <1>4 DEF Surviving, Single, Clients
    <2>2. /\ client'.process = client.process /\ client'.screens = client.screens
          /\ client'.targets = client.targets /\ client'.pending = client.pending
          /\ client'.orphans = client.orphans /\ client'.abandoned = client.abandoned
          /\ client'.active = client.active /\ client'.mLock = client.mLock
          /\ client'.locks = client.locks /\ client'.sent = client.sent
      BY <1>2, <1>4 DEF Clients
    <2>3. Surviving(client', compositor, covered, events)
      BY <1>2, <2>1, <2>2 DEF Surviving, Single
    <2> QED
      BY <2>3 DEF SetSurfaceComponent, Survives
  <1> QED
    BY <1>3, <1>4 DEF SetSurfaceComponent

LEMMA OnScreensChangedSurvives ==
    ASSUME IInv, Survives, qml = "patient", NEW screen \in Outputs, OnScreensChanged(screen)
    PROVE  Survives'
  <1> DEFINE plugged == Plug(client, screen)
             now == IF screen \in client.screens THEN client.screens \ {screen}
                    ELSE client.screens \cup {screen}
             t == Cropped(client.sent, now)
             v == covered \cap now
  <1>1. client.process = "runs" /\ ~client.reloading
    BY DEF OnScreensChanged, Handles
  <1>2. /\ Surviving(client, compositor, covered, events)
        /\ client \in Clients /\ Held(client) /\ Shown(client)
        /\ compositor \in Seq(CompositorStates)
        /\ client.sent \in Seq(Requests) /\ client.locks \in Seq(LockStates)
        /\ client.pending = {} /\ client.targets = {} /\ client.screens \subseteq Outputs
    BY <1>1, PatientNow, AppendedRequests
  <1>3. /\ InStep(t, client.locks, now, compositor, v, events) /\ Len(t) = Len(client.sent)
        /\ \A i \in 1..Len(client.sent) : t[i].outputs \subseteq client.screens
        /\ t \in Seq(Requests)
    <2>1. InStep(client.sent, client.locks, client.screens, compositor, covered, events)
      BY <1>2 DEF Surviving
    <2> HIDE DEF now
    <2> QED
      BY <1>2, <2>1, PluggedInStep
  <1>4. now \in SUBSET Outputs
    BY <1>2
  <1>6. plugged = [client EXCEPT !.screens = now, !.sent = t]
    BY DEF Plug, Cropped
  <1> HIDE DEF t, now, plugged
  <1>7. /\ plugged \in Clients
        /\ plugged.process = "runs" /\ plugged.screens = now /\ plugged.targets = {}
        /\ plugged.component = client.component /\ plugged.pending = {}
        /\ plugged.orphans = client.orphans /\ plugged.abandoned = client.abandoned
        /\ plugged.active = client.active /\ plugged.mLock = client.mLock
        /\ plugged.locks = client.locks /\ plugged.sent = t /\ plugged.shown = client.shown
        /\ plugged.reloading = client.reloading
    BY <1>1, <1>2, <1>3, <1>4, <1>6 DEF Clients
  <1>8. Surviving(plugged, compositor, v, events)
    BY <1>2, <1>3, <1>7 DEF Surviving, Single
  <1>9. covered' = v /\ UNCHANGED <<compositor, events, qml>>
    BY <1>7 DEF OnScreensChanged, Handles, plugged
  <1>10. ASSUME NEW e \in Elements, IsLocked(client, e),
                client' = UpdateSurfaces(plugged, e, TRUE)
         PROVE  Survives'
    <2>1. \A f \in Elements : f # e => ~IsLocked(client, f)
      BY <1>2, <1>10 DEF Held, IsLocked
    <2>2. Loose(plugged, e)
      <3>1. Held(plugged)
        BY <1>2, <1>7 DEF Held
      <3>2. \A f \in Elements : f # e => client.shown[f] = {}
        BY <1>1, <1>2, <2>1 DEF Shown, ShowsRight
      <3>3. IsLocked(plugged, e) /\ \A f \in Elements : f # e => ~IsLocked(plugged, f)
        BY <1>7, <1>10, <2>1 DEF IsLocked
      <3>4. ShownExcept(plugged, e)
        BY <1>7, <3>2, <3>3 DEF ShownExcept, ShowsRight
      <3> QED
        BY <1>7, <3>1, <3>4 DEF Loose
    <2>3. client.shown[e] = client.screens
      BY <1>1, <1>2, <1>10 DEF Shown, ShowsRight
    <2>4. covered \subseteq client.screens
      BY <1>2 DEF Surviving, InStep, Apart
    <2>5. /\ v \subseteq plugged.shown[e]
          /\ \A i \in 1..Len(plugged.sent) : plugged.sent[i].outputs \subseteq plugged.shown[e]
      BY <1>3, <1>7, <2>3, <2>4
    <2>6. IsLocked(plugged, e)
      BY <1>7, <1>10 DEF IsLocked
    <2>7. Surviving(client', compositor, v, events)
      BY <1>2, <1>8, <1>10, <2>2, <2>5, <2>6, ShowSurvives
    <2> QED
      BY <1>9, <2>7 DEF Survives
  <1>11. CASE client' = plugged
    BY <1>8, <1>9, <1>11 DEF Survives
  <1> QED
    BY <1>10, <1>11 DEF OnScreensChanged, plugged

LEMMA BeginReloadSurvives ==
    ASSUME IInv, Survives, qml = "patient", NEW matched \in SUBSET Elements,
           NEW targets \in SUBSET Elements, NEW component \in [Elements -> Components],
           BeginReload(matched, targets, component)
    PROVE  Survives'
  <1> DEFINE orphans == {client.mLock[e] : e \in Elements \ matched} \ {0}
             mLockNow == [e \in Elements |-> IF e \in matched THEN client.mLock[e] ELSE 0]
             none == [e \in Elements |-> {}]
  <1>1. /\ client.process = "runs" /\ client.active = 0
        /\ \A e \in Elements : component[e] = "good"
        /\ \A e, f \in targets : e = f
    BY DEF BeginReload, Handles, SessionLocked
  <1>2. /\ Surviving(client, compositor, covered, events) /\ client \in Clients
        /\ client.mLock \in [Elements -> Nat] /\ \A e \in Elements : client.mLock[e] = 0
    BY <1>1, PatientNow
  <1>3. orphans = {} /\ \A e \in Elements : mLockNow[e] = 0
    BY <1>2
  <1>4. client' = [client EXCEPT !.reloading = TRUE, !.pending = Elements, !.orphans = orphans,
                                 !.targets = targets, !.component = component,
                                 !.mLock = mLockNow, !.created = none, !.shown = none]
    BY <1>2 DEF BeginReload, Clients
  <1> HIDE DEF orphans, mLockNow, none
  <1>5. /\ client'.process = client.process /\ client'.screens = client.screens
        /\ client'.targets = targets /\ client'.pending = Elements
        /\ client'.orphans = orphans /\ client'.abandoned = client.abandoned
        /\ client'.active = client.active /\ client'.mLock = mLockNow
        /\ client'.component = component
        /\ client'.locks = client.locks /\ client'.sent = client.sent
    BY <1>2, <1>4 DEF Clients
  <1>6. Single(client')
    BY <1>1, <1>2, <1>3, <1>5 DEF Surviving, Single
  <1>7. Surviving(client', compositor, covered, events)
    BY <1>2, <1>5, <1>6 DEF Surviving
  <1> QED
    BY <1>7 DEF BeginReload, Handles, Survives

LEMMA OnReloadSurvives ==
    ASSUME IInv, Survives, qml = "patient", NEW e \in Elements, OnReload(e)
    PROVE  Survives'
  <1> DEFINE c == [client EXCEPT !.pending = @ \ {e}, !.targets = @ \ {e}]
  <1>1. client.process = "runs" /\ e \in client.pending
    BY DEF OnReload
  <1>2. /\ Surviving(client, compositor, covered, events) /\ client \in Clients
        /\ Held(client) /\ Shown(client) /\ compositor \in Seq(CompositorStates)
    BY <1>1, PatientNow
  <1>3. /\ c \in Clients /\ c.mLock = client.mLock /\ c.locks = client.locks
        /\ c.active = client.active /\ c.orphans = client.orphans
        /\ c.abandoned = client.abandoned /\ c.shown = client.shown
        /\ c.process = client.process /\ c.screens = client.screens
        /\ c.pending = client.pending \ {e} /\ c.reloading = client.reloading
        /\ c.targets = client.targets \ {e} /\ c.component = client.component
        /\ c.sent = client.sent
    BY <1>2 DEF Clients
  <1>4. client' = RealizeLockTarget(c, e, e \in client.targets)
    BY DEF OnReload
  <1> HIDE DEF c
  <1>5. Surviving(c, compositor, covered, events)
    BY <1>2, <1>3 DEF Surviving, Single
  <1>6. CASE e \in client.targets
    <2>1. Loose(c, e)
      <3>1. Held(c)
        BY <1>2, <1>3 DEF Held
      <3>2. ShownExcept(c, e)
        BY <1>1, <1>2, <1>3 DEF ShownExcept, Shown, ShowsRight, IsLocked
      <3> QED
        BY <1>3, <3>1, <3>2 DEF Loose
    <2>2. c.active = 0 /\ c.targets = {}
      BY <1>2, <1>3, <1>6 DEF Surviving, Single
    <2>3. Surviving(RealizeLockTarget(c, e, TRUE), compositor, covered, events)
      BY <1>2, <1>5, <2>1, <2>2, LockSurvives
    <2>4. client' = RealizeLockTarget(c, e, TRUE)
      BY <1>4, <1>6
    <2> QED
      BY <2>3, <2>4 DEF OnReload, Survives
  <1>7. CASE e \notin client.targets
    <2>1. ~IsLocked(c, e)
      BY <1>1, <1>2, <1>3 DEF Surviving, Single, IsLocked
    <2>2. client' = c
      BY <1>4, <1>7, <2>1 DEF RealizeLockTarget, Unlock
    <2> QED
      BY <1>5, <2>2 DEF OnReload, Survives
  <1> QED
    BY <1>6, <1>7

LEMMA DestroyOldSurvives ==
    ASSUME IInv, Survives, qml = "patient", DestroyOld
    PROVE  Survives'
  <1>1. client.process = "runs"
    BY DEF DestroyOld
  <1>2. Surviving(client, compositor, covered, events) /\ client \in Clients
    BY <1>1, PatientNow
  <1>3. client' = [client EXCEPT !.reloading = FALSE]
    BY <1>2 DEF DestroyOld, Surviving, Single
  <1>4. /\ client'.process = client.process /\ client'.screens = client.screens
        /\ client'.targets = client.targets /\ client'.pending = client.pending
        /\ client'.orphans = client.orphans /\ client'.abandoned = client.abandoned
        /\ client'.active = client.active /\ client'.mLock = client.mLock
        /\ client'.component = client.component
        /\ client'.locks = client.locks /\ client'.sent = client.sent
    BY <1>2, <1>3 DEF Clients
  <1>5. Surviving(client', compositor, covered, events)
    BY <1>2, <1>4 DEF Surviving, Single
  <1> QED
    BY <1>5 DEF DestroyOld, Survives

LEMMA OnLockedSurvives ==
    ASSUME IInv, Survives, qml = "patient", OnLocked
    PROVE  Survives'
  <1> DEFINE l == Head(events).lock
             locksNow == [client.locks EXCEPT ![l] = "secure"]
  <1>1. client.process = "runs" /\ events # <<>> /\ Head(events).type = "locked"
        /\ events' = Tail(events) /\ UNCHANGED <<compositor, covered, qml>>
    BY DEF OnLocked, Handles, Receive
  <1>2. /\ Surviving(client, compositor, covered, events) /\ client \in Clients
        /\ events \in Seq(Events) /\ client.locks \in Seq(LockStates)
    BY <1>1, PatientNow
  <1>3. /\ InStep(client.sent, client.locks, client.screens, compositor, covered, Tail(events))
        /\ WasLocked(compositor, l)
    BY <1>1, <1>2, ReadInStep DEF Surviving
  <1>4. l \in Nat
    BY <1>3 DEF WasLocked
  <1>5. CASE client' = client
    BY <1>1, <1>2, <1>3, <1>5 DEF Survives, Surviving
  <1>6. CASE client.locks[l] # "gone" /\ client' = [client EXCEPT !.locks[l] = "secure"]
    <2>1. InStep(client.sent, locksNow, client.screens, compositor, covered, Tail(events))
      <3> HIDE DEF l
      <3> QED
        BY <1>2, <1>3, <1>4, <1>6, SecureInStep
    <2>2. /\ Len(locksNow) = Len(client.locks)
          /\ \A m \in 1..Len(client.locks) :
                 locksNow[m] = IF m = l THEN "secure" ELSE client.locks[m]
      <3>1. "secure" \in LockStates
        BY DEF LockStates
      <3> HIDE DEF l
      <3> QED
        BY <1>2, <1>4, <3>1, ExceptAt
    <2>3. client' = [client EXCEPT !.locks = locksNow]
      BY <1>2, <1>6 DEF Clients
    <2> HIDE DEF locksNow, l
    <2>4. /\ client'.process = client.process /\ client'.screens = client.screens
          /\ client'.targets = client.targets /\ client'.pending = client.pending
          /\ client'.orphans = client.orphans /\ client'.abandoned = client.abandoned
          /\ client'.active = client.active /\ client'.mLock = client.mLock
          /\ client'.component = client.component
          /\ client'.locks = locksNow /\ client'.sent = client.sent
      BY <1>2, <2>3 DEF Clients
    <2>5. Single(client')
      BY <1>2, <1>6, <2>2, <2>4 DEF Surviving, Single
    <2>6. Surviving(client', compositor, covered, Tail(events))
      BY <1>2, <2>1, <2>4, <2>5 DEF Surviving
    <2> QED
      BY <1>1, <2>6 DEF Survives
  <1> QED
    BY <1>5, <1>6 DEF OnLocked

LEMMA OnFinishedSurvives ==
    ASSUME IInv, Survives, qml = "patient", OnFinished
    PROVE  Survives'
  <1> DEFINE l == Head(events).lock
             ended == [client EXCEPT !.locks[l] = "finished"]
             locksNow == [client.locks EXCEPT ![l] = "gone"]
             s == Append(client.sent, [type |-> "destroy", lock |-> l, outputs |-> {}])
  <1>1. client.process = "runs" /\ events # <<>> /\ Head(events).type = "finished"
        /\ events' = Tail(events) /\ UNCHANGED <<compositor, covered, qml>>
    BY DEF OnFinished, Handles, Receive
  <1>2. /\ Surviving(client, compositor, covered, events)
        /\ client \in Clients /\ Held(client) /\ events \in Seq(Events)
        /\ compositor \in Seq(CompositorStates)
        /\ client.sent \in Seq(Requests) /\ client.locks \in Seq(LockStates)
        /\ client.mLock \in [Elements -> Nat]
    BY <1>1, PatientNow
  <1>3. /\ InStep(client.sent, client.locks, client.screens, compositor, covered, Tail(events))
        /\ WasEnded(compositor, l)
    BY <1>1, <1>2, ReadInStep DEF Surviving
  <1>4. l \in Nat /\ l # 0
    BY <1>2, <1>3 DEF WasEnded
  <1>5. CASE client' = client
    BY <1>1, <1>2, <1>3, <1>5 DEF Survives, Surviving
  <1>6. ASSUME NEW e \in Elements, client.mLock[e] = l,
               client' = OnLockStateChanged(Unlocked(Release(ended, l), e), e)
        PROVE  Survives'
    <2>1. client' = LetGo(client, e, s, 0, client.abandoned)
      <3>1. client' = Unlocked(Release(ended, l), e)
        BY <1>6 DEF OnLockStateChanged
      <3> QED
        BY <1>2, <1>4, <1>6, <3>1, FinishedIsLetGo
    <2>2. l = client.active /\ l = Len(client.locks) /\ l > 0 /\ client.locks[l] # "gone"
      BY <1>2, <1>4, <1>6 DEF Held, Surviving, Single
    <2>3. InStep(s, locksNow, client.screens, compositor, covered, Tail(events))
      <3>1. "destroy" \in Ends
        BY DEF Ends
      <3> HIDE DEF l
      <3> QED
        BY <1>2, <1>3, <2>2, <3>1, EndsInStep
    <2>4. /\ Len(locksNow) = Len(client.locks)
          /\ \A m \in 1..Len(client.locks) :
                 locksNow[m] = IF m = l THEN "gone" ELSE client.locks[m]
      <3>1. "gone" \in LockStates
        BY DEF LockStates
      <3> HIDE DEF l
      <3> QED
        BY <1>2, <1>4, <3>1, ExceptAt
    <2> HIDE DEF s, locksNow, l
    <2>5. /\ client'.process = client.process /\ client'.screens = client.screens
          /\ client'.targets = client.targets /\ client'.pending = client.pending
          /\ client'.orphans = client.orphans /\ client'.abandoned = client.abandoned
          /\ client'.active = 0 /\ client'.mLock = [client.mLock EXCEPT ![e] = 0]
          /\ client'.component = client.component
          /\ client'.locks = [client.locks EXCEPT ![l] = "gone"] /\ client'.sent = s
      BY <1>2, <1>6, <2>1 DEF Clients, LetGo
    <2>6. Single(client')
      BY <1>2, <2>2, <2>4, <2>5 DEF Surviving, Single, locksNow
    <2>7. Surviving(client', compositor, covered, Tail(events))
      BY <1>2, <2>3, <2>5, <2>6 DEF Surviving, locksNow
    <2> QED
      BY <1>1, <2>7 DEF Survives
  <1> QED
    BY <1>5, <1>6 DEF OnFinished

LEMMA CompositorServesSurvives ==
    ASSUME IInv, Survives, qml = "patient", CompositorServes
    PROVE  Survives'
  <1> DEFINE s == client.sent
             locks == client.locks
             screens == client.screens
  <1>1. /\ client.process = "runs" /\ s # <<>> /\ UNCHANGED <<events, qml>>
    BY DEF CompositorServes, ServeLock, ServeSurfaces, ServeUnlock, ServeDestroy, Serve
  <1>2. /\ Surviving(client, compositor, covered, events) /\ client \in Clients
        /\ compositor \in Seq(CompositorStates) /\ events \in Seq(Events)
        /\ s \in Seq(Requests) /\ locks \in Seq(LockStates)
        /\ InStep(s, locks, screens, compositor, covered, events)
    BY <1>1, PatientNow DEF Surviving
  <1>3. ASSUME Served, InStep(Tail(s), locks, screens, compositor', covered', events)
        PROVE  Survives'
    <2>1. /\ client'.process = client.process /\ client'.screens = screens
          /\ client'.targets = client.targets /\ client'.pending = client.pending
          /\ client'.orphans = client.orphans /\ client'.abandoned = client.abandoned
          /\ client'.active = client.active /\ client'.mLock = client.mLock
          /\ client'.component = client.component
          /\ client'.locks = locks /\ client'.sent = Tail(s)
      BY <1>2, <1>3 DEF Clients, Served
    <2>2. Surviving(client', compositor', covered', events)
      BY <1>2, <1>3, <2>1 DEF Surviving, Single
    <2> QED
      BY <1>1, <2>2 DEF Survives
  <1>4. HeadIsFirst(s, locks, screens, compositor)
    BY <1>1, <1>2, HeadFirst
  <1>5. CASE ServeLock
    <2>1. Head(s).type = "lock" /\ Served /\ compositor' = Append(compositor, "locking")
          /\ covered' = covered
      BY <1>5 DEF ServeLock, Serve
    <2>2. Len(locks) \in 1..Len(locks)
      BY <1>2, <1>4, <2>1 DEF HeadIsFirst
    <2>3. \A l \in 1..Len(locks) : l # Len(locks) => locks[l] = "gone"
      BY <1>2 DEF Surviving, Single
    <2> HIDE DEF s, locks, screens
    <2>4. InStep(Tail(s), locks, screens, Append(compositor, "locking"), covered, events)
      BY <1>1, <1>2, <2>1, <2>3, LockingInStep
    <2> QED
      BY <1>3, <2>1, <2>4
  <1>6. CASE ServeSurfaces
    <2>1. Head(s).type = "surfaces" /\ Lock = Head(s).lock
      BY <1>6 DEF ServeSurfaces, Serve, Lock
    <2> HIDE DEF s, locks, screens
    <2>2. /\ InStep(Tail(s), locks, screens, compositor, covered, events)
          /\ Head(s).outputs \cap covered = {}
          /\ compositor[Head(s).lock] \in {"locking", "locked"} =>
                InStep(Tail(s), locks, screens, compositor,
                       covered \cup (Head(s).outputs \cap screens), events)
      BY <1>1, <1>2, <2>1, ShownInStep
    <2>3. CASE compositor[Lock] \notin {"locking", "locked"}
      BY <1>3, <1>6, <2>2, <2>3 DEF ServeSurfaces
    <2>4. CASE compositor[Lock] \in {"locking", "locked"}
      <3>1. Served /\ covered' = covered \cup (Head(s).outputs \cap screens)
            /\ compositor' = compositor
        BY <1>6, <2>2, <2>4 DEF ServeSurfaces, s, screens
      <3> QED
        BY <1>3, <2>1, <2>2, <2>4, <3>1
    <2> QED
      BY <2>3, <2>4
  <1>7. ASSUME Head(s).type \in Ends, Ended
        PROVE  Survives'
    <2>1. Served /\ compositor' = [compositor EXCEPT ![Head(s).lock] = "gone"] /\ covered' = {}
      BY <1>7 DEF Ended, Lock
    <2> HIDE DEF s, locks, screens
    <2>2. InStep(Tail(s), locks, screens, [compositor EXCEPT ![Head(s).lock] = "gone"], {}, events)
      BY <1>1, <1>2, <1>7, EndedInStep
    <2> QED
      BY <1>3, <2>1, <2>2
  <1>8. Head(s) = s[1] /\ 1 \in 1..Len(s) /\ Lock = Head(s).lock
    BY <1>4 DEF HeadIsFirst, Lock
  <1>9. CASE ServeUnlock
    <2>1. Head(s).type = "unlock"
      BY <1>9 DEF ServeUnlock, Serve
    <2>2. WasLocked(compositor, Lock)
      BY <1>2, <1>8, <2>1 DEF InStep, Heard
    <2>3. Ended
      BY <1>9, <2>2 DEF ServeUnlock, WasLocked
    <2> QED
      BY <1>7, <2>1, <2>3 DEF Ends
  <1>10. CASE ServeDestroy
    <2>1. Head(s).type = "destroy"
      BY <1>10 DEF ServeDestroy, Serve
    <2>2. WasEnded(compositor, Lock)
      BY <1>2, <1>8, <2>1 DEF InStep, Heard
    <2>3. CASE Ended
      BY <1>7, <2>1, <2>3 DEF Ends
    <2>4. CASE compositor[Lock] = "evicted" /\ Refused
      <3>1. client'.process = "killed" /\ compositor' = compositor
        BY <1>2, <2>4 DEF Refused, Clients
      <3>2. Lock \in DOMAIN compositor
        BY <1>2, <2>2 DEF WasEnded
      <3> QED
        BY <2>4, <3>1, <3>2 DEF Survives
    <2> QED
      BY <1>10, <2>2, <2>3, <2>4 DEF ServeDestroy, WasEnded
  <1> QED
    BY <1>5, <1>6, <1>9, <1>10 DEF CompositorServes

LEMMA DecideSurvives ==
    ASSUME IInv, Survives, qml = "patient", Confirm \/ Deny \/ Evict
    PROVE  Survives'
  <1>1. client.process = "runs" /\ UNCHANGED <<client, qml>>
    BY DEF Confirm, Deny, Evict, Decide
  <1>2. /\ Surviving(client, compositor, covered, events)
        /\ compositor \in Seq(CompositorStates) /\ events \in Seq(Events)
        /\ InStep(client.sent, client.locks, client.screens, compositor, covered, events)
        /\ DOMAIN compositor = 1..Len(compositor)
    BY <1>1, PatientNow DEF Surviving
  <1>3. ASSUME NEW from, NEW to \in CompositorStates, NEW event \in {"locked", "finished"},
               Decide(from, to, event),
               \/ from = "locking" /\ to = "locked" /\ event = "locked"
               \/ from = "locking" /\ to = "denied" /\ event = "finished"
               \/ from = "locked" /\ to = "evicted" /\ event = "finished"
        PROVE  Survives'
    <2>1. PICK l \in 1..Len(compositor) :
              /\ compositor[l] = from
              /\ compositor' = [compositor EXCEPT ![l] = to]
              /\ events' = Append(events, [type |-> event, lock |-> l])
      BY <1>2, <1>3 DEF Decide
    <2>2. covered' = IF event = "finished" THEN {} ELSE covered
      BY <1>3 DEF Decide
    <2>3. InStep(client.sent, client.locks, client.screens, [compositor EXCEPT ![l] = to],
                 IF event = "finished" THEN {} ELSE covered,
                 Append(events, [type |-> event, lock |-> l]))
      BY <1>2, <1>3, <2>1, DecidedInStep
    <2>4. Surviving(client', compositor', covered', events')
      BY <1>1, <1>2, <2>1, <2>2, <2>3 DEF Surviving
    <2> QED
      BY <2>4 DEF Survives
  <1>4. {"locked", "denied", "evicted"} \subseteq CompositorStates
    BY DEF CompositorStates
  <1> QED
    BY <1>3, <1>4 DEF Confirm, Deny, Evict

\* A process that has ended takes no step.
LEMMA EndedStays ==
    ASSUME Next, client.process # "runs"
    PROVE  FALSE
  BY DEF Next, SetLockedByQml, SetLocked, SetSurfaceByQml, SetSurfaceComponent, Hotplug,
         OnScreensChanged, Reload, BeginReload, ReloadGoesOn, DestroyOld, OnReload, OnLocked,
         OnFinished, Handles, CompositorServes, ServeLock, ServeSurfaces, ServeUnlock,
         ServeDestroy, Serve, Confirm, Deny, Evict, Decide

LEMMA SurvivesStep == IInv /\ Survives /\ [Next]_vars => Survives'
  <1> SUFFICES ASSUME IInv, Survives, [Next]_vars, qml' = "patient"
               PROVE  Survives'
    BY DEF Survives
  <1>1. CASE UNCHANGED vars
    BY <1>1 DEF vars, Survives
  <1>2. CASE Next
    <2>1. client.process = "runs"
      BY <1>2, EndedStays
    <2>2. qml' = qml
      BY <1>2 DEF Next, SetLockedByQml, SetLocked, SetSurfaceByQml, SetSurfaceComponent, Hotplug,
             OnScreensChanged, Reload, BeginReload, ReloadGoesOn, DestroyOld, OnReload, OnLocked,
             OnFinished, Handles, CompositorServes, ServeLock, ServeSurfaces, ServeUnlock,
             ServeDestroy, Serve, Confirm, Deny, Evict, Decide
    <2>3. qml = "patient"
      BY <2>2
    <2>4. CASE SetLockedByQml
      BY <2>3, <2>4, SetLockedSurvives DEF SetLockedByQml
    <2>5. CASE SetSurfaceByQml
      BY <2>3, <2>5, SetSurfaceSurvives DEF SetSurfaceByQml
    <2>6. CASE Hotplug
      BY <2>3, <2>6, OnScreensChangedSurvives DEF Hotplug
    <2>7. CASE Reload
      BY <2>3, <2>7, BeginReloadSurvives DEF Reload
    <2>8. CASE ReloadGoesOn
      BY <2>3, <2>8, DestroyOldSurvives, OnReloadSurvives DEF ReloadGoesOn
    <2>9. CASE OnLocked
      BY <2>3, <2>9, OnLockedSurvives
    <2>10. CASE OnFinished
      BY <2>3, <2>10, OnFinishedSurvives
    <2>11. CASE CompositorServes
      BY <2>3, <2>11, CompositorServesSurvives
    <2>12. CASE Confirm \/ Deny \/ Evict
      BY <2>3, <2>12, DecideSurvives
    <2> QED
      BY <1>2, <2>4, <2>5, <2>6, <2>7, <2>8, <2>9, <2>10, <2>11, <2>12 DEF Next
  <1> QED
    BY <1>1, <1>2

LEMMA SurvivesInit == Init => Survives
  <1> SUFFICES ASSUME Init
               PROVE  Survives
    OBVIOUS
  <1>1. Single(client)
    BY DEF Init, Single
  <1>2. InStep(client.sent, client.locks, client.screens, compositor, covered, events)
    BY DEF Init, InStep, InOrder, LocksAhead, EndsAhead, Apart, Heard
  <1> QED
    BY <1>1, <1>2 DEF Init, Survives, Surviving

\* A patient QML, which locks and unlocks one element at a time and unlocks
\* what is secure, is never disconnected for a request that the protocol
\* forbids, nor aborted, however its requests cross with what the compositor
\* decides and with outputs that come and go, unless the compositor ended a
\* lock that it had confirmed.
THEOREM SessionLockPatient == Spec => []PatientSurvives
  <1>1. IInv /\ Survives => PatientSurvives
    BY DEF Survives, Surviving, PatientSurvives
  <1> QED
    BY <1>1, IInvAlways, SurvivesInit, SurvivesStep, PTL DEF Spec
=============================================================================
