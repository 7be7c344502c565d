----------------------------- MODULE LazyLoader -----------------------------
(***************************************************************************)
(* LazyLoader (core/lazyloader.cpp) and the controller of its engine,      *)
(* QsIncubationController (core/incubator.cpp), which gives time to loads  *)
(* in the background: by a timer as long as the engine has no window, at   *)
(* the frames of the render loop otherwise.                                *)
(*                                                                         *)
(* What is loading and what is wanted are separate: incubator and item,    *)
(* targetLoading and targetActive.  A load in the foreground ends within   *)
(* the call that begins it.                                                *)
(*                                                                         *)
(* The formulas of its behaviour have names of their own, LoaderInit to    *)
(* LoaderSpec, so that a module can extend it beside another.              *)
(***************************************************************************)
EXTENDS Naturals

CONSTANTS
    Components,     (* the components QML may set                            *)
    Sources,        (* the sources it may set                                *)
    Broken,         (* the components and sources whose item fails to load   *)
    Missing,        (* the sources no component can be made of               *)
    None,           (* no component, source or item                          *)
    Steps           (* of a load in the background                           *)

ASSUME LoaderAssumption == /\ None \notin Components \cup Sources
                           /\ Broken \subseteq Components \cup Sources
                           /\ Missing \subseteq Sources
                           /\ Steps \in Nat \ {0}

VARIABLES
    loader,         (* the members of LazyLoader; of its incubator the       *)
                    (* component and the steps left; whether freed memory    *)
                    (* was used                                              *)
    ctl,            (* the members of the controller: followRenderloop, and  *)
                    (* whether its timer and a queued call are pending       *)
    scene,          (* whether the engine has a window, whether it is        *)
                    (* exposed, and whether an animation runs                *)
    patient         (* a patient QML sets the component before the loader is *)
                    (* complete, once, and has no handler of activeChanged   *)

loaderVars == <<loader, ctl, scene, patient>>

-----------------------------------------------------------------------------
(* QsIncubationController, as functions of c == ctl.                       *)

\* QSGRenderLoop::interleaveIncubation: frames are drawn, and give time.
Interleaves == scene.animating /\ scene.exposed

IncubateLater(c) == IF c.follow THEN [c EXCEPT !.timer = FALSE, !.queued = TRUE]
                    ELSE [c EXCEPT !.timer = TRUE]

\* Variant: only the timer is ever started again.
ScheduleTimer(c, count, interleaves) ==
    IF count > 0 /\ ~c.follow THEN IncubateLater(c) ELSE c

\* incubatingObjectCountChanged, and the end of incubate.
Schedule(c, count, interleaves) ==
    IF count > 0 /\ (~c.follow \/ ~interleaves) THEN IncubateLater(c) ELSE c

\* Variant: loads under way are left to the frames that come no more.
SetModeOnly(c, render, count) == [c EXCEPT !.follow = render]

SetIncubationMode(c, render, count) ==
    IF render = c.follow THEN c
    ELSE IF ~render /\ count > 0 THEN IncubateLater([c EXCEPT !.follow = render])
    ELSE [c EXCEPT !.follow = render]

-----------------------------------------------------------------------------
(* LazyLoader, as functions of l == loader.                                *)

IsActive(l)  == l.item # None
IsLoading(l) == l.incubator # "none"

Undefined(l) == [l EXCEPT !.outcome = "undefined"]

SetItem(l, item) ==
    IF item = l.item THEN l ELSE [l EXCEPT !.item = item, !.targetActive = (item # None)]

\* setActive(false), which leaves a load in the background alone.
SetInactive(l) ==
    IF ~l.targetActive THEN l ELSE SetItem([l EXCEPT !.targetActive = FALSE], None)

\* onIncubationCompleted; QML may switch the loader off when it hears of it.
Completed(l, off) ==
    LET t == SetItem(l, l.loads)
    IN  [IF off THEN SetInactive(t) ELSE t
         EXCEPT !.incubator = "none", !.left = 0, !.targetLoading = FALSE]

\* onIncubationFailed: the incubator is deleted, and still pointed to.
Failed(l) == [l EXCEPT !.incubator = "freed", !.left = 0, !.targetLoading = FALSE]

LoadIsOver(l, off) == IF l.loads \in Broken THEN Failed(l) ELSE Completed(l, off)

ForceCompletion(l, off) == IF l.incubator = "freed" THEN Undefined(l) ELSE LoadIsOver(l, off)

IncubateIfReady(l, reloads, off) ==
    IF \/ ~(l.reloadComplete \/ reloads) \/ ~(l.targetLoading \/ l.targetActive)
       \/ l.component = None \/ IsLoading(l)
    THEN l
    ELSE LET t == [l EXCEPT !.incubator = "loading", !.loads = l.component, !.left = Steps]
         IN  IF l.targetActive THEN LoadIsOver(t, off) ELSE t

SetActive(l, off) ==
    IF l.targetActive THEN l
    ELSE LET t == [l EXCEPT !.targetActive = TRUE]
         IN  IF IsLoading(t) THEN ForceCompletion(t, off)
             ELSE IF ~IsActive(t) THEN IncubateIfReady(t, FALSE, off) ELSE t

SetLoading(l, loading, off) ==
    IF loading = l.targetLoading \/ IsActive(l) THEN l
    ELSE LET t == [l EXCEPT !.targetLoading = loading]
         IN  IF loading THEN IncubateIfReady(t, FALSE, off)
             ELSE IF t.incubator = "freed" THEN Undefined(t)
             ELSE [t EXCEPT !.incubator = "none", !.left = 0]

SetActiveAsync(l, active, off) ==
    IF active = (l.targetActive \/ l.targetLoading) THEN l
    ELSE IF active THEN SetLoading(l, TRUE, off) ELSE SetInactive(l)

Item(l, off) == IF IsLoading(l) THEN SetActive(l, off) ELSE l

\* setSource for no source, of a loader that owns its component.
ClearSource(l) == IF l.source = None THEN l ELSE [l EXCEPT !.source = None, !.component = None]

SetComponent(l, c) ==
    LET t == IF l.cleanup THEN ClearSource(l) ELSE l
    IN  IF c = t.component THEN t ELSE [t EXCEPT !.component = c, !.cleanup = FALSE]

SetSource(l, source) ==
    LET t == IF ~l.cleanup THEN SetComponent(l, None) ELSE l
    IN  IF source = t.source THEN t
        ELSE [t EXCEPT !.cleanup = TRUE, !.source = source,
                       !.component = IF source \in Missing THEN None ELSE source]

-----------------------------------------------------------------------------
LoaderInit ==
    /\ loader = [item |-> None, component |-> None, source |-> None, cleanup |-> FALSE,
                 targetLoading |-> FALSE, targetActive |-> FALSE, reloadComplete |-> FALSE,
                 incubator |-> "none", loads |-> None, left |-> 0,
                 outcome |-> "defined"]
    /\ ctl = [follow |-> FALSE, timer |-> FALSE, queued |-> FALSE]
    /\ scene = [window |-> FALSE, exposed |-> FALSE, animating |-> FALSE]
    /\ patient \in BOOLEAN

\* Whether QML switches the loader off in a handler of activeChanged.
Offs == IF patient THEN {FALSE} ELSE BOOLEAN

\* A call of QML; the engine tells the controller of a load that begins.
Call(l) ==
    /\ loader.outcome = "defined"
    /\ loader' = l
    /\ ctl' = IF l.left > loader.left THEN Schedule(ctl, l.left, Interleaves) ELSE ctl
    /\ UNCHANGED <<scene, patient>>

QmlSetsActive == \E off \in Offs : Call(SetActive(loader, off))
QmlSetsInactive ==
    Call(SetInactive(loader)) \/ Call(SetActiveAsync(loader, FALSE, FALSE))
QmlSetsActiveAsync == \E off \in Offs : Call(SetActiveAsync(loader, TRUE, off))
QmlSetsLoading ==
    \/ \E off \in Offs : Call(SetLoading(loader, TRUE, off))
    \/ Call(SetLoading(loader, FALSE, FALSE))
QmlReadsItem == \E off \in Offs : Call(Item(loader, off))

MaySetComponent == patient => ~loader.reloadComplete /\ loader.component = None

QmlSetsComponent == /\ MaySetComponent
                    /\ \E c \in Components \cup {None} : Call(SetComponent(loader, c))
QmlSetsSource == MaySetComponent /\ \E s \in Sources \cup {None} : Call(SetSource(loader, s))

\* onComponentDestroyed, for a component that is not the loader's own.
ComponentDestroyed ==
    /\ ~patient /\ loader.component # None /\ ~loader.cleanup
    /\ Call([loader EXCEPT !.component = None])

\* Variant: what was wanted before the reload is not looked at.
ReloadLate ==
    /\ ~loader.reloadComplete
    /\ Call([IncubateIfReady(loader, FALSE, FALSE) EXCEPT !.reloadComplete = TRUE])

\* Reloadable::reload with onReload, once: the old loader may have an item.
OnReload ==
    /\ ~loader.reloadComplete
    /\ \E off \in Offs, oldItem \in BOOLEAN :
        LET l == IncubateIfReady(loader, TRUE, off)
        IN  Call([IF oldItem /\ IsLoading(l) THEN ForceCompletion(l, off) ELSE l
                  EXCEPT !.reloadComplete = TRUE])

-----------------------------------------------------------------------------
(* The controller's turns.  A load takes Steps of them.                    *)

Incubate(c, interleaves) ==
    /\ loader.outcome = "defined"
    /\ IF loader.left = 0 THEN UNCHANGED loader
       ELSE IF loader.left = 1 THEN \E off \in Offs : loader' = LoadIsOver(loader, off)
       ELSE loader' = [loader EXCEPT !.left = @ - 1]
    /\ ctl' = Schedule(c, loader'.left, interleaves)
    /\ UNCHANGED patient

TimerEvent == /\ ctl.timer
              /\ Incubate([ctl EXCEPT !.timer = FALSE], Interleaves)
              /\ UNCHANGED scene

QueuedIncubate == /\ ctl.queued
                  /\ Incubate([ctl EXCEPT !.queued = FALSE], Interleaves)
                  /\ UNCHANGED scene

\* QSGRenderLoop::timeToIncubate.
Frame == Interleaves /\ Incubate(ctl, TRUE) /\ UNCHANGED scene

AnimationStarts ==
    /\ ~scene.animating
    /\ scene' = [scene EXCEPT !.animating = TRUE]
    /\ UNCHANGED <<loader, ctl, patient>>

\* animationStopped.
AnimationStops ==
    /\ scene.animating
    /\ scene' = [scene EXCEPT !.animating = FALSE]
    /\ Incubate(ctl, FALSE)

\* trackWindowIncubationController and onTrackedWindowDestroyed.
WindowComes ==
    /\ ~scene.window
    /\ scene' = [scene EXCEPT !.window = TRUE]
    /\ ctl' = SetIncubationMode(ctl, TRUE, loader.left)
    /\ UNCHANGED <<loader, patient>>

WindowGoes ==
    /\ scene.window
    /\ scene' = [scene EXCEPT !.window = FALSE, !.exposed = FALSE]
    /\ ctl' = SetIncubationMode(ctl, FALSE, loader.left)
    /\ UNCHANGED <<loader, patient>>

WindowExposed ==
    /\ scene.window
    /\ scene' = [scene EXCEPT !.exposed = ~@]
    /\ UNCHANGED <<loader, ctl, patient>>

LoaderNext ==
    \/ QmlSetsActive \/ QmlSetsInactive \/ QmlSetsActiveAsync \/ QmlSetsLoading
    \/ QmlReadsItem \/ QmlSetsComponent \/ QmlSetsSource \/ ComponentDestroyed \/ OnReload
    \/ TimerEvent \/ QueuedIncubate \/ Frame \/ AnimationStarts \/ AnimationStops
    \/ WindowComes \/ WindowGoes \/ WindowExposed

\* Timers fire, queued calls are made, and frames are drawn of what moves.
LoaderFairness == /\ WF_loaderVars(TimerEvent)
                  /\ WF_loaderVars(QueuedIncubate)
                  /\ WF_loaderVars(Frame)

LoaderSpec == LoaderInit /\ [][LoaderNext]_loaderVars /\ LoaderFairness

-----------------------------------------------------------------------------
(* Properties.                                                             *)

\* Type invariant of the loader, the controller and the scene; a load has steps
\* left exactly as long as there is an incubator for it.
LoaderTypeOK ==
    /\ loader \in [item : Components \cup Sources \cup {None},
                   component : Components \cup Sources \cup {None},
                   source : Sources \cup {None}, cleanup : BOOLEAN,
                   targetLoading : BOOLEAN, targetActive : BOOLEAN, reloadComplete : BOOLEAN,
                   incubator : {"none", "loading", "freed"},
                   loads : Components \cup Sources \cup {None}, left : 0..Steps,
                   outcome : {"defined", "undefined"}]
    /\ loader.left > 0 <=> loader.incubator = "loading"
    /\ ctl \in [follow : BOOLEAN, timer : BOOLEAN, queued : BOOLEAN]
    /\ scene \in [window : BOOLEAN, exposed : BOOLEAN, animating : BOOLEAN]
    /\ patient \in BOOLEAN

\* An item that is loaded is wanted and none is loading beside it, whatever QML
\* does when it hears of the item (lazyloader.cpp:40).
LoadedIsSettled == IsActive(loader) => loader.targetActive /\ ~IsLoading(loader)

\* lazyloader.hpp: source and component are exclusive: a loader with a source
\* owns its component, so that it deletes no component of QML's (lazyloader.cpp:138).
SourceIsOwned == /\ loader.source # None => loader.cleanup
                 /\ loader.cleanup => loader.component \in {loader.source, None}

\* What QML wants is loaded or loading, if it sets the component in time: no
\* order of switches leaves a target that nothing works at (lazyloader.cpp:160).
WantedIsLoaded ==
    /\ patient /\ loader.reloadComplete /\ loader.component \notin Broken \cup {None}
    /\ loader.targetActive \/ loader.targetLoading
    => IsActive(loader) \/ loader.incubator = "loading"

\* A load that is under way has a turn to come, in whatever order windows and
\* animations come and go: only a window that is hidden while something moves
\* takes it away, as the code says it may (generation.cpp:322).
NoLostWakeup ==
    loader.left > 0 /\ ~(scene.window /\ ~scene.exposed /\ scene.animating)
    => ctl.timer \/ ctl.queued \/ Interleaves

\* A load in the background ends, as long as windows do not stay hidden
\* (incubator.cpp:100).
LoadEnds == <>[](scene.window => scene.exposed)
            => (loader.left > 0 ~> loader.left = 0)

=============================================================================
