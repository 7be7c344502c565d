---------------------------- MODULE SessionLock ----------------------------
(***************************************************************************)
(* The lock screen: the WlSessionLock elements of the configuration        *)
(* (wayland/session_lock.cpp), their SessionLockManagers and the lock      *)
(* objects (wayland/session_lock/), the QML that drives them, and the      *)
(* compositor at the other end of ext-session-lock-v1.                     *)
(*                                                                         *)
(* Requests and events cross: each side acts on what it last heard.  The   *)
(* locks are numbered in the order they are made, 0 being a null pointer.  *)
(***************************************************************************)
EXTENDS Naturals, Sequences

CONSTANTS
    Elements,   (* the WlSessionLocks of the configuration                   *)
    Components, (* what a surface component does: it makes surfaces, or      *)
                (* something else, or there is none                          *)
    Outputs,    (* the outputs that there may be                             *)
    Evicts,     (* the compositor may end a lock that it has confirmed       *)
    MaxLocks,   (* bound: lock objects made when QML locks or reloads        *)
    MaxSent     (* bound: a screen comes or goes, or a reload begins, only   *)
                (* while fewer requests than these are on their way          *)

ASSUME ConstantsAssumption == /\ "good" \in Components
                              /\ Components \subseteq {"good", "bad", "null"}
                              /\ Evicts \in BOOLEAN
                              /\ MaxLocks \in Nat
                              /\ MaxSent \in Nat

VARIABLES
    client,     (* the WlSessionLocks, their locks and what they have sent   *)
    compositor, (* for each lock that it knows: how it stands                *)
    covered,    (* the outputs that have a lock surface                      *)
    events,     (* what the compositor has sent and the client has not read  *)
    qml         (* what QML is like: a patient one has good surfaces, locks  *)
                (* one element at a time, unlocks what is secure and reloads *)
                (* unlocked; a stubborn one, when told of an unlock, locks   *)

vars == <<client, compositor, covered, events, qml>>

\* The list of screens has changed.  A request that names an output that has
\* gone is ignored when it arrives, even if one like it is back by then.
Plug(c, screen) ==
    LET screens == IF screen \in c.screens THEN c.screens \ {screen}
                   ELSE c.screens \cup {screen}
        sent == [i \in DOMAIN c.sent |-> [c.sent[i] EXCEPT !.outputs = @ \cap screens]]
    IN [c EXCEPT !.screens = screens, !.sent = sent]

-----------------------------------------------------------------------------
(* The methods of WlSessionLock e, of its manager and of its lock, as      *)
(* functions of the state c of the client.                                 *)

IsLocked(c, e) == c.mLock[e] # 0
SessionLocked(c) == c.active # 0
\* A lock that is freed is gone here; the code reads whatever is there.
IsSecure(c) == c.active # 0 /\ c.locks[c.active] = "secure"

Request(c, type, l, outputs) ==
    [c EXCEPT !.sent = Append(@, [type |-> type, lock |-> l, outputs |-> outputs])]

\* qFatal
Abort(c) == [c EXCEPT !.process = "aborted"]

\* SessionLockManager::lock, when no lock is active.
Acquire(c, e) ==
    LET l == Len(c.locks) + 1
    IN [Request(c, "lock", l, {}) EXCEPT !.locks = Append(@, "requested"),
                                         !.active = l, !.mLock[e] = l]

\* Variants: the manager is not told; one request serves for every end.
ReleaseOnly(c, l) ==
    IF c.locks[l] = "gone" THEN c
    ELSE [Request(c, IF c.locks[l] = "finished" THEN "destroy" ELSE "unlock", l, {})
            EXCEPT !.locks[l] = "gone"]

ReleaseByDestroy(c, l) ==
    IF c.locks[l] = "gone" THEN c
    ELSE [Request(c, "destroy", l, {}) EXCEPT !.locks[l] = "gone", !.active = 0]

\* QSWaylandSessionLock::unlock
Release(c, l) ==
    IF c.locks[l] = "gone" THEN c
    ELSE [Request(c, IF c.locks[l] = "finished" THEN "destroy" ELSE "unlock", l, {})
            EXCEPT !.locks[l] = "gone", !.active = 0]

\* ~QSWaylandSessionLock: active still points to the lock.
Discard(c, l) ==
    IF l = 0 \/ c.locks[l] = "gone" THEN c
    ELSE [Request(c, "destroy", l, {}) EXCEPT !.locks[l] = "gone", !.abandoned = TRUE]

\* What WlSessionLock::unlock and its manager's do once the lock is released.
Unlocked(c, e) == [c EXCEPT !.mLock[e] = 0, !.created[e] = {}, !.shown[e] = {}]

\* The handler of a stubborn QML for lockStateChanged, while locks are left.
OnLockStateChanged(c, e) ==
    IF qml # "stubborn" \/ c.component[e] # "good" THEN c
    ELSE IF SessionLocked(c) THEN Abort(c)
    ELSE IF Len(c.locks) >= MaxLocks THEN c
    ELSE [Request(Acquire(c, e), "surfaces", Len(c.locks) + 1, c.screens)
            EXCEPT !.created[e] = c.screens, !.shown[e] = c.screens]

\* WlSessionLock::unlock.  The signal of the released lock calls it again,
\* and that inner call does everything; the outer one then drops the lock
\* that a handler may have taken since, and tells the handlers once more.
Unlock(c, e) ==
    IF ~IsLocked(c, e) THEN c
    ELSE LET inner == OnLockStateChanged(Unlocked(Release(c, c.mLock[e]), e), e)
             outer == Unlocked(Discard(inner, inner.mLock[e]), e)
         IN OnLockStateChanged(outer, e)

\* WlSessionLock::updateSurfaces.  Its old is never used: by the time there
\* is one, every screen has its surface.
UpdateSurfaces(c, e, show) ==
    LET kept == [c EXCEPT !.created[e] = @ \cap c.screens, !.shown[e] = @ \cap c.screens]
        all  == [kept EXCEPT !.created[e] = c.screens]
    IN IF kept # all /\ c.component[e] = "bad" THEN Unlock(kept, e)
       ELSE IF ~show THEN all
       ELSE IF ~IsLocked(c, e) THEN Abort(all)
       ELSE IF kept.shown[e] = c.screens THEN all
       ELSE [Request(all, "surfaces", c.mLock[e], c.screens \ kept.shown[e])
               EXCEPT !.shown[e] = c.screens]

\* WlSessionLock::realizeLockTarget.  Nothing reads the target later on.
RealizeLockTarget(c, e, target) ==
    IF ~target \/ c.component[e] = "null" THEN Unlock(c, e)
    ELSE LET preloaded == UpdateSurfaces(c, e, FALSE)
             locked == IF IsLocked(preloaded, e) \/ SessionLocked(preloaded) THEN preloaded
                       ELSE Acquire(preloaded, e)
         IN UpdateSurfaces(locked, e, TRUE)

-----------------------------------------------------------------------------
Init ==
    /\ client = [process |-> "runs", screens |-> Outputs, active |-> 0, locks |-> <<>>,
                 targets |-> {}, mLock |-> [e \in Elements |-> 0],
                 component |-> [e \in Elements |-> "good"],
                 created |-> [e \in Elements |-> {}], shown |-> [e \in Elements |-> {}],
                 reloading |-> FALSE, pending |-> {}, orphans |-> {},
                 abandoned |-> FALSE, sent |-> <<>>]
    /\ compositor = <<>>
    /\ covered = {}
    /\ events = <<>>
    /\ qml \in {"patient", "hasty", "stubborn"}

\* The event loop runs one handler at a time, and none amid a reload.
Handles ==
    /\ client.process = "runs" /\ ~client.reloading
    /\ UNCHANGED qml

\* WlSessionLock::setLocked, called by QML.
SetLocked(e, locked) ==
    /\ locked => Len(client.locks) < MaxLocks
    /\ qml = "patient" => IF locked THEN ~SessionLocked(client) ELSE IsSecure(client)
    /\ client' = IF IsLocked(client, e) = locked THEN client
                 ELSE RealizeLockTarget(client, e, locked)
    /\ Handles
    /\ UNCHANGED <<compositor, covered, events>>

\* WlSessionLock::setSurfaceComponent
SetSurfaceComponent(e, component) ==
    /\ qml = "patient" => component = "good"
    /\ client' = IF IsLocked(client, e) THEN client
                 ELSE [client EXCEPT !.component[e] = component]
    /\ Handles
    /\ UNCHANGED <<compositor, covered, events>>

\* Variant: nobody hears of it.
OnScreensChangedUnheard(screen) ==
    LET plugged == Plug(client, screen)
    IN /\ Len(client.sent) < MaxSent
       /\ client' = plugged
       /\ covered' = covered \cap plugged.screens
       /\ Handles
       /\ UNCHANGED <<compositor, events>>

\* WlSessionLock::onScreensChanged: an output comes or goes, Qt's list of
\* screens changes with it, and the element that is locked hears of it.
OnScreensChanged(screen) ==
    LET plugged == Plug(client, screen)
    IN /\ Len(client.sent) < MaxSent
       /\ \/ \E e \in Elements : /\ IsLocked(client, e)
                                 /\ client' = UpdateSurfaces(plugged, e, TRUE)
          \/ /\ \A e \in Elements : ~IsLocked(client, e)
             /\ client' = plugged
       /\ covered' = covered \cap plugged.screens
       /\ Handles
       /\ UNCHANGED <<compositor, events>>

-----------------------------------------------------------------------------
(* A reload.  The elements are made anew, with a target and a component of *)
(* their own, before the old ones go.  One that matches an old one is      *)
(* given its manager; the lock of any other goes with its old element.     *)

BeginReload(matched, targets, component) ==
    /\ qml = "patient" => /\ ~SessionLocked(client)
                          /\ \A e \in Elements : component[e] = "good"
                          /\ \A e, f \in targets : e = f
    /\ Len(client.locks) < MaxLocks /\ Len(client.sent) < MaxSent
    /\ client' = [client EXCEPT
           !.reloading = TRUE, !.pending = Elements,
           !.orphans = {client.mLock[e] : e \in Elements \ matched} \ {0},
           !.targets = targets, !.component = component,
           !.mLock = [e \in Elements |-> IF e \in matched THEN @[e] ELSE 0],
           !.created = [e \in Elements |-> {}], !.shown = [e \in Elements |-> {}]]
    /\ Handles
    /\ UNCHANGED <<compositor, covered, events>>

\* WlSessionLock::onReload
OnReload(e) ==
    /\ client.process = "runs" /\ e \in client.pending
    /\ client' = RealizeLockTarget([client EXCEPT !.pending = @ \ {e}, !.targets = @ \ {e}],
                                   e, e \in client.targets)
    /\ UNCHANGED <<compositor, covered, events, qml>>

\* The old elements are destroyed, and their locks with them.
DestroyOld ==
    /\ client.process = "runs" /\ client.reloading /\ client.pending = {}
    /\ \/ \E l \in client.orphans :
            client' = Discard([client EXCEPT !.orphans = @ \ {l}], l)
       \/ client.orphans = {} /\ client' = [client EXCEPT !.reloading = FALSE]
    /\ UNCHANGED <<compositor, covered, events, qml>>

-----------------------------------------------------------------------------
(* The events of a lock.  Those of a lock that is gone are not delivered.  *)

Receive(type) ==
    /\ events # <<>> /\ Head(events).type = type
    /\ events' = Tail(events)
    /\ UNCHANGED <<compositor, covered>>

\* QSWaylandSessionLock::ext_session_lock_v1_locked
OnLocked ==
    /\ Receive("locked")
    /\ client' = IF client.locks[Head(events).lock] = "gone" THEN client
                 ELSE [client EXCEPT !.locks[Head(events).lock] = "secure"]
    /\ Handles

\* Variant: nothing comes of it.
OnFinishedIgnored ==
    /\ Receive("finished")
    /\ Handles
    /\ UNCHANGED client

\* QSWaylandSessionLock::ext_session_lock_v1_finished: the lock ends, and its
\* signal has the element unlock.
OnFinished ==
    LET l == Head(events).lock
    IN /\ Receive("finished")
       /\ \/ client.locks[l] = "gone" /\ client' = client
          \/ \E e \in Elements :
                /\ client.locks[l] # "gone" /\ client.mLock[e] = l
                /\ client' = OnLockStateChanged(
                        Unlocked(Release([client EXCEPT !.locks[l] = "finished"], l), e), e)
       /\ Handles

-----------------------------------------------------------------------------
(* The compositor.  A request that the protocol forbids ends the process.  *)

Lock == Head(client.sent).lock

Serve(type) ==
    /\ client.process = "runs"
    /\ client.sent # <<>> /\ Head(client.sent).type = type
    /\ UNCHANGED <<events, qml>>

Served == client' = [client EXCEPT !.sent = Tail(@)]

Refused == /\ client' = [client EXCEPT !.process = "killed"]
           /\ UNCHANGED <<compositor, covered>>

Ended == /\ Served
         /\ compositor' = [compositor EXCEPT ![Lock] = "gone"]
         /\ covered' = {}

ServeLock ==
    /\ Serve("lock")
    /\ Served
    /\ compositor' = Append(compositor, "locking")
    /\ UNCHANGED covered

\* One surface for each output; those of a lock that has ended are ignored.
ServeSurfaces ==
    /\ Serve("surfaces")
    /\ IF compositor[Lock] \notin {"locking", "locked"} THEN
           Served /\ UNCHANGED <<compositor, covered>>
       ELSE IF Head(client.sent).outputs \cap covered # {} THEN Refused
       ELSE /\ Served
            /\ covered' = covered \cup (Head(client.sent).outputs \cap client.screens)
            /\ UNCHANGED compositor

\* unlock_and_destroy is for a lock that was confirmed.
ServeUnlock ==
    /\ Serve("unlock")
    /\ \/ compositor[Lock] # "locking" /\ Ended
       \/ compositor[Lock] \in {"locking", "denied"} /\ Refused

\* destroy is for a lock that was not.
ServeDestroy ==
    /\ Serve("destroy")
    /\ \/ compositor[Lock] # "locked" /\ Ended
       \/ compositor[Lock] \in {"locked", "evicted"} /\ Refused

\* A lock is confirmed, denied, or ended later on.
Decide(from, to, event) ==
    /\ client.process = "runs"
    /\ \E l \in DOMAIN compositor :
        /\ compositor[l] = from
        /\ compositor' = [compositor EXCEPT ![l] = to]
        /\ events' = Append(events, [type |-> event, lock |-> l])
    /\ covered' = IF event = "finished" THEN {} ELSE covered
    /\ UNCHANGED <<client, qml>>

Confirm == Decide("locking", "locked", "locked")
Deny    == Decide("locking", "denied", "finished")
Evict   == Evicts /\ Decide("locked", "evicted", "finished")

CompositorServes == ServeLock \/ ServeSurfaces \/ ServeUnlock \/ ServeDestroy

-----------------------------------------------------------------------------
SetLockedByQml == \E e \in Elements, locked \in BOOLEAN : SetLocked(e, locked)

SetSurfaceByQml ==
    \E e \in Elements, component \in Components : SetSurfaceComponent(e, component)

Hotplug == \E screen \in Outputs : OnScreensChanged(screen)

Reload == \E matched, targets \in SUBSET Elements, component \in [Elements -> Components] :
              BeginReload(matched, targets, component)

ReloadGoesOn == DestroyOld \/ \E e \in Elements : OnReload(e)

Next ==
    \/ SetLockedByQml
    \/ SetSurfaceByQml
    \/ Hotplug
    \/ Reload
    \/ ReloadGoesOn
    \/ OnLocked
    \/ OnFinished
    \/ CompositorServes
    \/ Confirm
    \/ Deny
    \/ Evict

\* A reload, which is one call, ends; the event loop reads what has come
\* between two of its handlers; requests are served, and a lock that is asked
\* for is confirmed or denied.
Spec == Init /\ [][Next]_vars
FairSpec == Spec /\ []<>(~client.reloading \/ client.process # "runs")
                 /\ SF_vars(OnLocked \/ OnFinished)
                 /\ WF_vars(CompositorServes) /\ WF_vars(Confirm \/ Deny)

-----------------------------------------------------------------------------
(* Correctness.                                                            *)

Requested(l) == l \in DOMAIN client.locks /\ client.locks[l] = "requested"

TypeOK ==
    /\ client.process \in {"runs", "aborted", "killed"}
    /\ client.active \in Nat
    /\ client.locks \in Seq({"requested", "secure", "gone"})
    /\ client.mLock \in [Elements -> Nat]
    /\ client.component \in [Elements -> Components]
    /\ {client.created, client.shown} \subseteq [Elements -> SUBSET Outputs]
    /\ {client.screens, covered} \subseteq SUBSET Outputs
    /\ {client.reloading, client.abandoned} \subseteq BOOLEAN
    /\ client.targets \subseteq client.pending /\ client.pending \subseteq Elements
    /\ client.orphans \subseteq Nat
    /\ client.sent \in Seq([type : {"lock", "surfaces", "unlock", "destroy"}, lock : Nat,
                            outputs : SUBSET Outputs])
    /\ compositor \in Seq({"locking", "locked", "denied", "evicted", "gone"})
    /\ events \in Seq([type : {"locked", "finished"}, lock : Nat])
    /\ qml \in {"patient", "hasty", "stubborn"}

\* WlSessionLock "will create an instance of its surface component for every
\* screen when locked is set" (wayland/session_lock.hpp:27): between two
\* handlers, an element that is locked shows a surface on each screen and on
\* no other, and one that is not has none.
LockedIsCovered ==
    client.process = "runs" /\ ~client.reloading =>
        \A e \in Elements :
            client.shown[e] = IF IsLocked(client, e) THEN client.screens ELSE {}

\* The lock of an element is the active one, so that there is one at most;
\* and the active one is held by an element, so that it can be unlocked and
\* another be taken, unless an element was destroyed, or locked by a handler
\* amid its own unlock.
ActiveIsHeld ==
    /\ \A e \in Elements : IsLocked(client, e) =>
           client.mLock[e] = client.active /\ client.locks[client.active] # "gone"
    /\ client.active # 0 /\ ~client.abandoned /\ ~client.reloading
           => \E e \in Elements : client.mLock[e] = client.active

\* A patient QML is never disconnected for a protocol error nor aborted,
\* whatever the outputs and the compositor do, unless the compositor ended a
\* lock that it had confirmed: that lock is destroyed as if it had not been.
PatientSurvives ==
    qml = "patient" /\ client.process # "runs" =>
        \E l \in DOMAIN compositor : compositor[l] = "evicted"

\* A lock that was asked for does not stay in between: it is secure, gone, or
\* the process is.
LockResolves == \A l \in 1 .. MaxLocks : Requested(l) ~> (~Requested(l) \/ client.process # "runs")

=============================================================================
