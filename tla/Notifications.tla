---------------------------- MODULE Notifications ----------------------------
(***************************************************************************)
(* The notification server (services/notifications/).  A notification is   *)
(* a retainable object; it stands for its id as well, since Notify gives   *)
(* every object an id of its own.  One step is one call on the server or   *)
(* on a notification, with the QML handlers it runs: of `notification`,    *)
(* which may track the notification, and of `closed`.                      *)
(***************************************************************************)
EXTENDS Retainable

CONSTANTS
    Handlers,       (* what a handler of `closed` may do: nothing, set       *)
                    (* `tracked`, or close the notification in its turn      *)
    MaxAgain        (* bound: times it does so, of one notification          *)

ASSUME HandlersAssumption == /\ Handlers \subseteq {"nothing", "track", "close"}
                             /\ MaxAgain \in Nat

VARIABLES
    idMap,          (* NotificationServer::idMap                             *)
    notifications,  (* NotificationServer::mNotifications                    *)
    closeReason,    (* Notification::mCloseReason                            *)
    told,           (* NotificationClosed signals an id's client was sent    *)
    reentered       (* times a notification was closed by its `closed` signal *)

serverVars == <<idMap, notifications, closeReason, told, reentered>>
vars == <<retainVars, serverVars>>

Tracked == 0
Expired == 1
Dismissed == 2
CloseRequested == 3

-----------------------------------------------------------------------------
\* deleteNotification.  A handler that closes the notification again finds it
\* in idMap still: the inner call does all of the work, each outer one tells
\* the client once more, and drops the notification once more, which does not
\* end it sooner; what a handler locks then is a step of its own.  A handler
\* that always closes it again never ends: MaxAgain stands for one that stops.
DeleteNotification(n, reason, handler) ==
    /\ closeReason' = [closeReason EXCEPT ![n] =
            CASE handler = "track" -> Tracked
              [] handler = "close" -> Dismissed
              [] OTHER -> reason]
    /\ notifications' = notifications \ {n}
    /\ idMap' = idMap \ {n}
    /\ \E again \in IF handler = "close" THEN 1 .. MaxAgain ELSE {0} :
           /\ told' = [told EXCEPT ![n] = @ + again + 1]
           /\ reentered' = [reentered EXCEPT ![n] = @ + again]
    /\ Drop(n)

\* expire(), dismiss(), `tracked = false`, an action invoked or a reply sent on
\* a notification that is not resident.
Close(n, reason, handler) ==
    /\ life[n] = "alive"
    /\ n \in idMap
    /\ DeleteNotification(n, reason, handler)

\* A client's CloseNotification leaves mCloseReason alone.
CloseNotification(n, handler) ==
    /\ n \in idMap
    /\ DeleteNotification(n, closeReason[n], handler)

\* The notifications of `emitted` have been given to the handlers, which keep
\* those of `kept`; the others are closed and deleted, locked or not.
\* Variant: the server forgets to tell the client of one that is dropped.
SettleSilently(emitted, kept) ==
    /\ closeReason' = [n \in Objects |-> IF n \in kept THEN Tracked
                                         ELSE IF n \in emitted THEN Dismissed
                                         ELSE closeReason[n]]
    /\ told' = told
    /\ life' = [n \in Objects |-> IF n \in kept THEN "alive"
                                  ELSE IF n \in emitted THEN "gone" ELSE life[n]]
    /\ object' = [l \in Locks |-> IF object[l] \in emitted \ kept THEN None ELSE object[l]]
    /\ UNCHANGED <<refcount, explicit, enabled, historyVars, reentered>>

Settle(emitted, kept) ==
    /\ closeReason' = [n \in Objects |-> IF n \in kept THEN Tracked
                                         ELSE IF n \in emitted THEN Dismissed
                                         ELSE closeReason[n]]
    /\ told' = [n \in Objects |-> IF n \in emitted \ kept THEN told[n] + 1 ELSE told[n]]
    /\ life' = [n \in Objects |-> IF n \in kept THEN "alive"
                                  ELSE IF n \in emitted THEN "gone" ELSE life[n]]
    /\ object' = [l \in Locks |-> IF object[l] \in emitted \ kept THEN None ELSE object[l]]
    /\ UNCHANGED <<refcount, explicit, enabled, historyVars, reentered>>

\* Notify of a notification that replaces none the server has: a new object
\* with a new id.  One that replaces a tracked notification only updates it.
Notify(n) ==
    /\ life[n] = "none"
    /\ \E kept \in SUBSET {n} :
        /\ Settle({n}, kept)
        /\ idMap' = idMap \cup kept
        /\ notifications' = notifications \cup kept

\* A NotificationServer of a new generation takes over: with keepOnReload all
\* tracked notifications are emitted again, without it they are dropped.
\* Variant: a notification kept on reload has no id any more.
SwitchGenerationNoIds(keepOnReload) ==
    \E kept \in SUBSET notifications :
        /\ keepOnReload \/ kept = {}
        /\ Settle(notifications, kept)
        /\ idMap' = {}
        /\ notifications' = kept

SwitchGeneration(keepOnReload) ==
    \E kept \in SUBSET notifications :
        /\ keepOnReload \/ kept = {}
        /\ Settle(notifications, kept)
        /\ idMap' = kept
        /\ notifications' = kept

-----------------------------------------------------------------------------
Init ==
    /\ life = [n \in Objects |-> "none"]
    /\ refcount = [n \in Objects |-> 0]
    /\ explicit = [n \in Objects |-> 0]
    /\ object = [l \in Locks |-> None]
    /\ enabled = [l \in Locks |-> FALSE]
    /\ early = [l \in Locks |-> FALSE]
    /\ stray = [n \in Objects |-> 0]
    /\ robbed = {}
    /\ idMap = {}
    /\ notifications = {}
    /\ closeReason = [n \in Objects |-> Dismissed]
    /\ told = [n \in Objects |-> 0]
    /\ reentered = [n \in Objects |-> 0]

Next ==
    \/ \E n \in Objects : Notify(n)
    \/ \E n \in Objects, handler \in Handlers : CloseNotification(n, handler)
    \/ \E n \in Objects, reason \in {Expired, Dismissed}, handler \in Handlers :
           Close(n, reason, handler)
    \/ \E keepOnReload \in BOOLEAN : SwitchGeneration(keepOnReload)
    \/ LockNext /\ UNCHANGED serverVars

Spec == Init /\ [][Next]_vars

-----------------------------------------------------------------------------
(* Correctness.                                                            *)

TypeOK ==
    /\ RetainTypeOK
    /\ idMap \subseteq Objects
    /\ notifications \subseteq Objects
    /\ closeReason \in [Objects -> Tracked .. CloseRequested]
    /\ told \in [Objects -> Nat]
    /\ reentered \in [Objects -> Nat]

\* The list shown to QML, the ids clients may close or replace and the
\* notifications that live are one and the same: none is lost by a reload or
\* a close, no list holds a deleted one (server.cpp, switchGeneration).
ListsAgree ==
    /\ notifications = idMap
    /\ idMap = {n \in Objects : life[n] = "alive"}

\* A client is told once that its notification was closed, and not before:
\* whether it expired, was dismissed, was never tracked or was lost in a
\* reload.  It is told more often only of a notification that is closed
\* again by the handler of its `closed` signal.
ToldOnce ==
    \A n \in Objects :
        told[n] = IF life[n] \in {"none", "alive"} THEN 0 ELSE 1 + reentered[n]

=============================================================================
