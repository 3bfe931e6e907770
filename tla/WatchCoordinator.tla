-------------------------- MODULE WatchCoordinator --------------------------
(***************************************************************************)
(* The shared file watcher of a process, src/packages/core/src/runtime/    *)
(* watch/WatchCoordinator.ts.  Callers start it on a workspace root and    *)
(* subscribe in one go, and unsubscribe when they are done; the last one   *)
(* to leave stops it.  start and stop keep a synchronous signature for     *)
(* their callers while the native watcher they drive opens and closes in   *)
(* the background, so a start can meet a stop that is still under way.     *)
(*                                                                         *)
(* An await is the end of an action.  A native watcher is a number, taken  *)
(* in the order of the starts; 0 stands for null.  Which files an event    *)
(* is about, and the filters of a subscriber, are left out.                *)
(***************************************************************************)
EXTENDS Integers, FiniteSets

CONSTANTS Callers,      \* the components that watch (checkpoints, indexers)
          Roots,        \* the workspace roots they watch
          NoRoot,       \* rootDir = null
          MaxNatives,   \* bound: native watchers ever opened
          MaxIds        \* bound: subscriptions ever made

ASSUME WatchAssumption ==
  /\ NoRoot \notin Roots
  /\ MaxNatives \in Nat \ {0}
  /\ MaxIds \in Nat \ {0}

Natives == 1 .. MaxNatives
Ids     == 1 .. MaxIds

VARIABLES
  started,       \* this.started
  rootDir,       \* this.rootDir
  startup,       \* this.startupPromise, as the native it opens
  subscription,  \* this.subscription
  degraded,      \* this.degraded
  native,        \* each native watcher: how far it is, and its root
  stops,         \* the stop() calls under way, by the order they began
  subscribers,   \* the keys of this.subscribers
  buffered,      \* the subscribers with a non-empty buffer
  timers,        \* the subscribers whose debounce timer is armed
  held,          \* the subscription each caller believes it has
  lastId,        \* nextId - 1
  late,          \* history: a callback ran for somebody not in the table
  overlapped     \* history: the current start met a stop or a start under way

core      == <<started, rootDir, startup, subscription, native, stops>>
table     == <<subscribers, buffered, timers>>
watchVars == <<core, table, degraded, held, lastId, late, overlapped>>

Idle     == [at |-> "idle", on |-> 0, next |-> NoRoot]
Calls    == 1 .. Cardinality(Callers) + 1
Active   == {i \in Calls : stops[i].at # "idle"}
Settled  == {"open", "closing", "closed", "failed"}
Opening  == {n \in Natives : native[n].st \in {"loading", "opening"}}

WatchInit ==
  /\ started = FALSE
  /\ rootDir = NoRoot
  /\ startup = 0
  /\ subscription = 0
  /\ degraded = FALSE
  /\ native = [n \in Natives |-> [st |-> "unused", root |-> NoRoot]]
  /\ stops = [i \in Calls |-> Idle]
  /\ subscribers = {}
  /\ buffered = {}
  /\ timers = {}
  /\ held = [c \in Callers |-> 0]
  /\ lastId = 0
  /\ late = FALSE
  /\ overlapped = FALSE

---------------------------------------------------------------------------
(* start() and the synchronous part of stop().                             *)

(* start() of a watcher that is not running; stops i is the call that      *)
(* leads to this start, if one does.                                       *)
Open(r, i) ==
  \E n \in Natives :
    /\ native[n].st = "unused"
    /\ \A m \in 1 .. n - 1 : native[m].st # "unused"
    /\ started' = TRUE
    /\ rootDir' = r
    /\ startup' = n
    /\ native' = [native EXCEPT ![n].st = "loading"]
    /\ overlapped' = (Active \ {i} # {} \/ Opening # {})

Unsubscribing(n) == [native EXCEPT ![n].st = IF @ = "open" THEN "closing" ELSE @]

(* stop() up to its first await, the call in slot i: the promise of the    *)
(* start is awaited, else the subscription is given up, else all is done.  *)
StopSync(i, r) ==
  \/ /\ startup # 0
     /\ started' = FALSE
     /\ stops' = [stops EXCEPT ![i] = [at |-> "startup", on |-> startup, next |-> r]]
     /\ UNCHANGED <<rootDir, startup, subscription, native, overlapped>>
  \/ /\ startup = 0 /\ subscription # 0
     /\ started' = FALSE
     /\ stops' = [stops EXCEPT ![i] = [at |-> "closing", on |-> subscription, next |-> r]]
     /\ native' = Unsubscribing(subscription)
     /\ UNCHANGED <<rootDir, startup, subscription, overlapped>>
  \/ /\ startup = 0 /\ subscription = 0 /\ r = NoRoot
     /\ started' = FALSE
     /\ rootDir' = NoRoot
     /\ UNCHANGED <<startup, subscription, native, stops, overlapped>>
  \/ /\ startup = 0 /\ subscription = 0 /\ r # NoRoot
     /\ Open(r, i)
     /\ UNCHANGED <<subscription, stops>>

(* A free slot for a call of stop().                                       *)
Slot(i) == stops[i].at = "idle" /\ \A j \in 1 .. i - 1 : stops[j].at # "idle"

---------------------------------------------------------------------------
(* The callers.                                                            *)

(* start(r) and subscribe(): start returns at once when the root is the    *)
(* same, opens when nothing runs, and otherwise stops first and starts     *)
(* when that is done; stopping empties the table, so only the new          *)
(* subscriber is in it.                                                    *)
Watch(c, r) ==
  /\ held[c] = 0
  /\ lastId < MaxIds
  /\ lastId' = lastId + 1
  /\ held' = [held EXCEPT ![c] = lastId + 1]
  /\ \/ /\ started /\ rootDir = r
        /\ subscribers' = subscribers \cup {lastId + 1}
        /\ UNCHANGED <<core, buffered, timers, overlapped>>
     \/ /\ ~started
        /\ Open(r, 0)
        /\ subscribers' = subscribers \cup {lastId + 1}
        /\ UNCHANGED <<subscription, stops, buffered, timers>>
     \/ /\ started /\ rootDir # r
        /\ \E i \in Calls : Slot(i) /\ StopSync(i, r)
        /\ subscribers' = {lastId + 1}
        /\ buffered' = {}
        /\ timers' = {}
  /\ UNCHANGED <<degraded, late>>

(* Bug: the debounce timer is not cleared.                              *)
Unsubscribe_KeepsTimer(c) ==
  LET s == held[c] IN
  /\ s # 0
  /\ held' = [held EXCEPT ![c] = 0]
  /\ subscribers' = subscribers \ {s}
  /\ IF s \in subscribers /\ subscribers = {s}
     THEN \E i \in Calls : Slot(i) /\ StopSync(i, NoRoot)
     ELSE UNCHANGED <<core, overlapped>>
  /\ UNCHANGED <<buffered, timers, degraded, lastId, late>>

(* unsubscribe(id): the last one to leave stops the watcher and does not   *)
(* wait for it.                                                            *)
Unsubscribe(c) ==
  LET s == held[c] IN
  /\ s # 0
  /\ held' = [held EXCEPT ![c] = 0]
  /\ subscribers' = subscribers \ {s}
  /\ buffered' = buffered \ ({s} \cap subscribers)
  /\ timers' = timers \ ({s} \cap subscribers)
  /\ IF s \in subscribers /\ subscribers = {s}
     THEN \E i \in Calls : Slot(i) /\ StopSync(i, NoRoot)
     ELSE UNCHANGED <<core, overlapped>>
  /\ UNCHANGED <<degraded, lastId, late>>

---------------------------------------------------------------------------
(* The rest of stop().                                                     *)

(* Its last lines, with the promise st left in startup and nothing in      *)
(* subscription: rootDir is cleared, whatever it is by now, and the start  *)
(* this stop was called for is made.  If somebody else has started in the  *)
(* meantime that start stops again, emptying the table once more.          *)
StopEnds(i, st) ==
  LET r == stops[i].next IN
  /\ subscription' = 0
  /\ \/ /\ r = NoRoot
        /\ stops' = [stops EXCEPT ![i] = Idle]
        /\ rootDir' = NoRoot
        /\ startup' = st
        /\ UNCHANGED <<started, native, table, overlapped>>
     \/ /\ r # NoRoot /\ (started => st = 0)
        /\ stops' = [stops EXCEPT ![i] = Idle]
        /\ Open(r, i)
        /\ IF started
           THEN subscribers' = {} /\ buffered' = {} /\ timers' = {}
           ELSE UNCHANGED table
     \/ /\ r # NoRoot /\ started /\ st # 0
        /\ stops' = [stops EXCEPT ![i] = [at |-> "startup", on |-> st, next |-> r]]
        /\ started' = FALSE
        /\ rootDir' = NoRoot
        /\ startup' = st
        /\ subscribers' = {} /\ buffered' = {} /\ timers' = {}
        /\ UNCHANGED <<native, overlapped>>

(* Bug: a start that failed is never settled.                           *)
StopAfterStartup_OnlyOpen(i) ==
  /\ stops[i].at = "startup"
  /\ native[stops[i].on].st \in Settled \ {"failed"}
  /\ IF subscription # 0
     THEN /\ startup' = 0
          /\ stops' = [stops EXCEPT ![i].at = "closing", ![i].on = subscription]
          /\ native' = Unsubscribing(subscription)
          /\ UNCHANGED <<started, rootDir, subscription, table, overlapped>>
     ELSE StopEnds(i, 0)
  /\ UNCHANGED <<degraded, held, lastId, late>>

(* The awaited start has settled.                                          *)
StopAfterStartup(i) ==
  /\ stops[i].at = "startup"
  /\ native[stops[i].on].st \in Settled
  /\ IF subscription # 0
     THEN /\ startup' = 0
          /\ stops' = [stops EXCEPT ![i].at = "closing", ![i].on = subscription]
          /\ native' = Unsubscribing(subscription)
          /\ UNCHANGED <<started, rootDir, subscription, table, overlapped>>
     ELSE StopEnds(i, 0)
  /\ UNCHANGED <<degraded, held, lastId, late>>

(* The subscription it gave up is closed.                                  *)
StopAfterClose(i) ==
  /\ stops[i].at = "closing"
  /\ native[stops[i].on].st = "closed"
  /\ StopEnds(i, startup)
  /\ UNCHANGED <<degraded, held, lastId, late>>

---------------------------------------------------------------------------
(* startSubscription() and the native watcher.                             *)

(* Bug: the native watcher is opened on no root.                        *)
Loaded_Unchecked(n) ==
  /\ native[n].st = "loading"
  /\ native' = [native EXCEPT ![n] = [st |-> "opening", root |-> rootDir]]
  /\ UNCHANGED <<started, rootDir, startup, subscription, stops, table,
                 degraded, held, lastId, late, overlapped>>

(* The native module is loaded; the root is read only now.                 *)
Loaded(n) ==
  /\ native[n].st = "loading"
  /\ native' = [native EXCEPT ![n] =
       IF rootDir = NoRoot THEN [st |-> "failed", root |-> NoRoot]
                           ELSE [st |-> "opening", root |-> rootDir]]
  /\ degraded' = (degraded \/ rootDir = NoRoot)
  /\ UNCHANGED <<started, rootDir, startup, subscription, stops, table,
                 held, lastId, late, overlapped>>

Opened(n) ==
  /\ native[n].st = "opening"
  /\ native' = [native EXCEPT ![n].st = "open"]
  /\ subscription' = n
  /\ degraded' = FALSE
  /\ UNCHANGED <<started, rootDir, startup, stops, table, held, lastId, late,
                 overlapped>>

(* Bug: a failed start is not reported.                                 *)
OpenFails_Silent(n) ==
  /\ native[n].st = "opening"
  /\ native' = [native EXCEPT ![n].st = "failed"]
  /\ UNCHANGED <<started, rootDir, startup, subscription, stops, table,
                 degraded, held, lastId, late, overlapped>>

OpenFails(n) ==
  /\ native[n].st = "opening"
  /\ native' = [native EXCEPT ![n].st = "failed"]
  /\ degraded' = TRUE
  /\ UNCHANGED <<started, rootDir, startup, subscription, stops, table, held,
                 lastId, late, overlapped>>

NativeClosed(n) ==
  /\ native[n].st = "closing"
  /\ native' = [native EXCEPT ![n].st = "closed"]
  /\ UNCHANGED <<started, rootDir, startup, subscription, stops, table,
                 degraded, held, lastId, late, overlapped>>

(* A change under a watched root: translateEvent drops it when there is no *)
(* rootDir, else it goes to every subscriber's buffer.                     *)
Event(n) ==
  /\ native[n].st \in {"open", "closing"}
  /\ rootDir # NoRoot
  /\ buffered' = buffered \cup subscribers
  /\ timers' = timers \cup subscribers
  /\ UNCHANGED <<core, subscribers, degraded, held, lastId, late, overlapped>>

(* A debounce timer fires: the callback is given the buffer.               *)
Flush(s) ==
  /\ s \in timers
  /\ timers' = timers \ {s}
  /\ buffered' = buffered \ {s}
  /\ late' = (late \/ s \notin subscribers \/ \A c \in Callers : held[c] # s)
  /\ UNCHANGED <<core, subscribers, degraded, held, lastId, overlapped>>

---------------------------------------------------------------------------
CallerStep == \E c \in Callers : Unsubscribe(c) \/ \E r \in Roots : Watch(c, r)
StopStep   == \E i \in Calls : StopAfterStartup(i) \/ StopAfterClose(i)
NativeStep == \E n \in Natives :
                Loaded(n) \/ Opened(n) \/ OpenFails(n) \/ NativeClosed(n) \/ Event(n)
TimerStep  == \E s \in Ids : Flush(s)

WatchNext == CallerStep \/ StopStep \/ NativeStep \/ TimerStep

(* Node runs what it is due to run, and the native watcher opens (or       *)
(* fails to) and closes; callers and file changes owe nothing.             *)
WatchFairness ==
  /\ WF_watchVars(StopStep)
  /\ WF_watchVars(TimerStep)
  /\ \A n \in Natives : WF_watchVars(Loaded(n) \/ Opened(n) \/ OpenFails(n) \/ NativeClosed(n))

WatchSpec     == WatchInit /\ [][WatchNext]_watchVars
WatchFairSpec == WatchSpec /\ WatchFairness

---------------------------------------------------------------------------
(* Type invariant: the watcher's fields, its natives and its callers.      *)
WatchTypeOK ==
  /\ started \in BOOLEAN /\ degraded \in BOOLEAN
  /\ rootDir \in Roots \cup {NoRoot}
  /\ startup \in 0 .. MaxNatives /\ subscription \in 0 .. MaxNatives
  /\ native \in [Natives ->
       [st : {"unused", "loading", "opening"} \cup Settled, root : Roots \cup {NoRoot}]]
  /\ \A n \in Natives :
       native[n].st \in {"opening", "open", "closing", "closed"} => native[n].root \in Roots
  /\ stops \in [Calls -> [at : {"idle", "startup", "closing"}, on : 0 .. MaxNatives,
                          next : Roots \cup {NoRoot}]]
  /\ subscribers \subseteq Ids /\ buffered \subseteq Ids /\ timers \subseteq Ids
  /\ held \in [Callers -> 0 .. MaxIds]
  /\ lastId \in 0 .. MaxIds
  /\ late \in BOOLEAN /\ overlapped \in BOOLEAN

(* Nobody is called back after he left, or after a stop or a change of     *)
(* root has emptied the table, although the debounce timers are armed      *)
(* behind his back and any of the three can come between the change and    *)
(* the timer.                                                              *)
NoCallAfterUnsubscribe == ~late

(* Everything that opens has opened or failed and no stop is under way.    *)
Quiet ==
  /\ Active = {} /\ Opening = {}
  /\ \A n \in Natives : native[n].st # "closing"

Fed ==
  /\ rootDir # NoRoot
  /\ subscription # 0
  /\ native[subscription].st = "open"
  /\ native[subscription].root = rootDir

(* A watcher that was started while no stop and no start was under way,    *)
(* and that does not report itself degraded, hears the changes of its      *)
(* root: whatever came before, leaked watchers and failed starts included. *)
FedIfStartedAlone == Quiet /\ started /\ ~overlapped /\ ~degraded => Fed

(* Every stop comes to its end, so that the start that waits behind it is  *)
(* made.                                                                   *)
StopsSettle == \A i \in Calls : stops[i].at # "idle" ~> stops[i].at = "idle"
=============================================================================
