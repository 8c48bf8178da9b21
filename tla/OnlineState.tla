----------------------------- MODULE OnlineState ----------------------------
(***************************************************************************)
(* How a getDocument is answered, from the server or from the cache: the   *)
(* listeners it makes (FSTEventManager), the watch stream they share       *)
(* (FSTRemoteStore, FSTStream), and the tracker that decides when to give  *)
(* the server up (FSTOnlineStateTracker): after two failures in a row, or  *)
(* after ten seconds without a message.  Everything but the callbacks runs *)
(* on Firestore's worker queue, one block at a time; the callbacks run     *)
(* later on the main queue.  What the documents contain is left out.       *)
(***************************************************************************)
EXTENDS Naturals

CONSTANTS
  Gets,             \* calls of getDocument that may be under way at once
  Docs,             \* the documents asked for
  MaxUserChanges    \* bound on the changes of the signed-in account

ASSUME OnlineAssumption == MaxUserChanges \in Nat /\ Docs # {}

VARIABLES
  watch,      \* the state of the watch stream
  idle,       \* whether the stream's idle timer runs
  tracker,    \* the tracker: the online state, its failures and its timer
  view,       \* for every document: no query, or one that is synced or not
  listeners,  \* for every document: the listeners of its query
  get,        \* what every getDocument is at
  changes     \* changes of the account so far

vars == <<watch, idle, tracker, view, listeners, get, changes>>

kMaxWatchStreamFailures == 2
Stream == {"Initial", "Auth", "Open", "Error", "Backoff"}

\* The targets of the watch stream are the queries somebody listens to.
Targets(v) == {d \in Docs : v[d] # "none"}

NoGet == [st |-> "idle", doc |-> CHOOSE d \in Docs : TRUE, event |-> "no",
          raised |-> FALSE, more |-> FALSE, answers |-> 0, muted |-> FALSE]

----------------------------------------------------------------------------
(* The tracker: t is its state.  Failures above the maximum count as it. *)

\* Fault: only failures count, not the time.
StartWithoutTimer(t) == IF t.failures = 0 THEN [t EXCEPT !.state = "Unknown"] ELSE t

handleWatchStreamStart(t) ==
  IF t.failures = 0 THEN [t EXCEPT !.state = "Unknown", !.timer = TRUE] ELSE t

handleWatchStreamFailure(t) ==
  IF t.state = "Online" THEN [t EXCEPT !.state = "Unknown"]
  ELSE IF t.failures + 1 >= kMaxWatchStreamFailures
  THEN [state |-> "Offline", failures |-> kMaxWatchStreamFailures, timer |-> FALSE]
  ELSE [t EXCEPT !.failures = @ + 1]

\* Fault: the timer goes on after the state is known.
UpdateKeepsTimer(t, s) == [t EXCEPT !.state = s, !.failures = 0]

updateState(t, s) == [t EXCEPT !.state = s, !.failures = 0, !.timer = FALSE]

----------------------------------------------------------------------------
(* Listeners and their events *)

\* An event for the main queue: the first answers, others may follow it.
Raise(g, kind) ==
  IF g.raised THEN [g EXCEPT !.more = TRUE]
  ELSE [g EXCEPT !.raised = TRUE, !.event = kind]

\* Fault: only listeners of queries that were synced hear of it.
BroadcastToSynced(t) ==
  IF t.state = "Offline" /\ tracker.state # "Offline"
  THEN /\ view' = [d \in Docs |-> IF view[d] = "synced" THEN "local" ELSE view[d]]
       /\ get' = [g \in Gets |->
                    IF \E d \in Docs : g \in listeners[d] /\ view[d] = "synced"
                    THEN Raise(get[g], "cache") ELSE get[g]]
  ELSE UNCHANGED <<view, get>>

\* applyChangedOnlineState: going offline, no query counts as synced any
\* more, and listeners that wait are answered from the cache.
Broadcast(t) ==
  IF t.state = "Offline" /\ tracker.state # "Offline"
  THEN /\ view' = [d \in Docs |-> IF view[d] = "synced" THEN "local" ELSE view[d]]
       /\ get' = [g \in Gets |->
                    IF \E d \in Docs : g \in listeners[d]
                    THEN Raise(get[g], "cache") ELSE get[g]]
  ELSE UNCHANGED <<view, get>>

----------------------------------------------------------------------------
(* The stream *)

\* startWithDelegate: after an error it first backs off.
Started == IF watch = "Error" THEN "Backoff" ELSE "Auth"
IsStarted == watch \in {"Auth", "Open", "Backoff"}

\* The stream has closed and is at s: watchStreamWasInterruptedWithError.
Interrupted(s) ==
  LET t == handleWatchStreamFailure(tracker) IN
  /\ idle' = FALSE
  /\ \/ /\ Targets(view) # {}
        /\ watch' = IF s = "Error" THEN "Backoff" ELSE "Auth"
        /\ tracker' = handleWatchStreamStart(t)
        /\ Broadcast(handleWatchStreamStart(t))
     \/ /\ Targets(view) = {}
        /\ watch' = s
        /\ tracker' = updateState(t, "Unknown")
        /\ UNCHANGED <<view, get>>
  /\ UNCHANGED <<listeners, changes>>

\* A token arrives: the call is made, and all targets are asked for.
ResumeStart ==
  /\ watch = "Auth"
  /\ watch' = "Open"
  /\ UNCHANGED <<idle, tracker, view, listeners, get, changes>>

TokenFails == watch = "Auth" /\ Interrupted("Error")

RpcCloses == watch = "Open" /\ Interrupted("Error")

ResumeFromBackoff ==
  /\ watch = "Backoff"
  /\ watch' = "Auth"
  /\ UNCHANGED <<idle, tracker, view, listeners, get, changes>>

handleIdleCloseTimer == idle /\ Interrupted("Initial")

\* A message of the server that completes no target.
OtherMessage ==
  /\ watch = "Open"
  /\ tracker' = updateState(tracker, "Online")
  /\ UNCHANGED <<watch, idle, view, listeners, get, changes>>

\* A message that makes a target current: its listeners have their answer.
Snapshot(d) ==
  /\ watch = "Open" /\ d \in Targets(view)
  /\ tracker' = updateState(tracker, "Online")
  /\ view' = [view EXCEPT ![d] = "synced"]
  /\ get' = [g \in Gets |-> IF g \in listeners[d] THEN Raise(get[g], "server") ELSE get[g]]
  /\ UNCHANGED <<watch, idle, listeners, changes>>

\* The server refuses a target: its listeners get the error and are gone.
TargetError(d) ==
  /\ watch = "Open" /\ d \in Targets(view)
  /\ tracker' = updateState(tracker, "Online")
  /\ view' = [view EXCEPT ![d] = "none"]
  /\ listeners' = [listeners EXCEPT ![d] = {}]
  /\ get' = [g \in Gets |-> IF g \in listeners[d] THEN Raise(get[g], "error") ELSE get[g]]
  /\ UNCHANGED <<watch, idle, changes>>

\* Ten seconds without a message.
OnlineStateTimeout ==
  LET t == [tracker EXCEPT !.state = "Offline", !.timer = FALSE] IN
  /\ tracker.timer
  /\ tracker' = t
  /\ Broadcast(t)
  /\ UNCHANGED <<watch, idle, listeners, changes>>

\* Another account: the stream is stopped and a new one takes its place.
userDidChange ==
  /\ changes < MaxUserChanges
  /\ changes' = changes + 1
  /\ idle' = FALSE
  /\ IF Targets(view) # {}
     THEN watch' = "Auth" /\ tracker' = handleWatchStreamStart(updateState(tracker, "Unknown"))
     ELSE watch' = "Initial" /\ tracker' = updateState(tracker, "Unknown")
  /\ UNCHANGED <<view, listeners, get>>

----------------------------------------------------------------------------
(* getDocument *)

\* What a listener is told at once when it joins a query with view v.
FirstEvent(v) ==
  IF v = "synced" THEN "server" ELSE IF tracker.state = "Offline" THEN "cache" ELSE "no"

\* addListener; the first one of a query listens to its target, and starts
\* the stream if nobody has.
getDocument(g, d) ==
  LET v == IF view[d] = "none" THEN "local" ELSE view[d] IN
  /\ get[g].st = "idle"
  /\ get' = [get EXCEPT ![g] = [NoGet EXCEPT !.st = "listening", !.doc = d,
       !.event = FirstEvent(v), !.raised = FirstEvent(v) # "no"]]
  /\ listeners' = [listeners EXCEPT ![d] = @ \cup {g}]
  /\ view' = [view EXCEPT ![d] = v]
  /\ IF view[d] = "none" /\ ~IsStarted
     THEN watch' = Started /\ tracker' = handleWatchStreamStart(tracker)
     ELSE UNCHANGED <<watch, tracker>>
  /\ idle' = (idle /\ view[d] # "none")
  /\ UNCHANGED changes

\* Fault: the listener hears events until it is removed.
CallbackUnmuted(g) ==
  /\ get[g].event # "no"
  /\ get' = [get EXCEPT ![g] =
       [@ EXCEPT !.event = "no", !.answers = get[g].answers + 1,
                 !.st = IF get[g].event = "error" THEN "idle" ELSE "removing"]]
  /\ UNCHANGED <<watch, idle, tracker, view, listeners, changes>>

\* The main queue comes to the first event: the completion is called, and
\* unless it was an error the listener is muted and its removal sent off.
Callback(g) ==
  /\ get[g].event # "no"
  /\ get' = [get EXCEPT ![g] =
       [@ EXCEPT !.event = "no", !.answers = get[g].answers + 1,
                 !.muted = get[g].event # "error",
                 !.st = IF get[g].event = "error" THEN "idle" ELSE "removing"]]
  /\ UNCHANGED <<watch, idle, tracker, view, listeners, changes>>

\* The main queue comes to an event that followed.
LateEvent(g) ==
  /\ get[g].more /\ get[g].event = "no"
  /\ get' = [get EXCEPT ![g] =
       [@ EXCEPT !.more = FALSE,
                 !.answers = get[g].answers + (IF get[g].muted THEN 0 ELSE 1)]]
  /\ UNCHANGED <<watch, idle, tracker, view, listeners, changes>>

\* removeListener on the worker queue: with the last listener the target
\* goes, and with the last target the stream is marked idle.
RemoveListener(g) ==
  LET d == get[g].doc
      last == view[d] # "none" /\ listeners[d] \ {g} = {}
      v == IF last THEN [view EXCEPT ![d] = "none"] ELSE view
  IN
  /\ get[g].st = "removing"
  /\ get' = [get EXCEPT ![g] = NoGet]
  /\ listeners' = [listeners EXCEPT ![d] = @ \ {g}]
  /\ view' = v
  /\ idle' = IF watch = "Open" /\ last THEN Targets(v) = {} ELSE idle
  /\ UNCHANGED <<watch, tracker, changes>>

----------------------------------------------------------------------------
Init ==
  /\ watch = "Initial" /\ idle = FALSE
  /\ tracker = [state |-> "Unknown", failures |-> 0, timer |-> FALSE]
  /\ view = [d \in Docs |-> "none"]
  /\ listeners = [d \in Docs |-> {}]
  /\ get = [g \in Gets |-> NoGet]
  /\ changes = 0

Next ==
  \/ ResumeStart
  \/ TokenFails
  \/ RpcCloses
  \/ ResumeFromBackoff
  \/ handleIdleCloseTimer
  \/ OtherMessage
  \/ \E d \in Docs : Snapshot(d)
  \/ \E d \in Docs : TargetError(d)
  \/ OnlineStateTimeout
  \/ userDidChange
  \/ \E g \in Gets, d \in Docs : getDocument(g, d)
  \/ \E g \in Gets : Callback(g)
  \/ \E g \in Gets : LateEvent(g)
  \/ \E g \in Gets : RemoveListener(g)

Spec == Init /\ [][Next]_vars

\* The main queue runs and the timer fires; a connection that comes up over
\* and over brings, some time, the answer that was asked for.
FairSpec ==
  /\ Spec
  /\ WF_vars(OnlineStateTimeout)
  /\ \A g \in Gets : WF_vars(Callback(g))
  /\ \A d \in Docs : SF_vars(Snapshot(d))

----------------------------------------------------------------------------
(* Properties *)

(* The type invariant: what every variable holds. *)
TypeOK ==
  /\ watch \in Stream /\ idle \in BOOLEAN
  /\ tracker \in [state : {"Unknown", "Online", "Offline"},
                  failures : 0..kMaxWatchStreamFailures, timer : BOOLEAN]
  /\ view \in [Docs -> {"none", "local", "synced"}]
  /\ listeners \in [Docs -> SUBSET Gets]
  /\ get \in [Gets -> [st : {"idle", "listening", "removing"}, doc : Docs,
                       event : {"no", "cache", "server", "error"}, raised : BOOLEAN,
                       more : BOOLEAN, answers : 0..2, muted : BOOLEAN]]
  /\ changes \in 0..MaxUserChanges

(* The assertions of the tracker hold whenever they are reached: when its  *)
(* timer fires the state is still unknown, when a connected stream fails   *)
(* there are no failures and no timer, and a stream is never started with  *)
(* no failure counted and the timer running.  The idle timer runs only     *)
(* while the stream is open and nobody listens.                            *)
AssertionsHold ==
  /\ tracker.timer => tracker.state = "Unknown"
  /\ tracker.state = "Online" => tracker.failures = 0 /\ ~tracker.timer
  /\ ~IsStarted => ~tracker.timer
  /\ idle => watch = "Open" /\ Targets(view) = {}

(* Every getDocument that has no answer yet has something that will bring  *)
(* it: the timer, or a connection on which the server has answered and its *)
(* target was asked for.  In particular nobody waits while offline.        *)
WaitersHaveHope ==
  \A g \in Gets : get[g].st = "listening" /\ ~get[g].raised =>
    /\ g \in listeners[get[g].doc] /\ view[get[g].doc] = "local"
    /\ \/ tracker.state = "Unknown" /\ tracker.timer
       \/ tracker.state = "Online" /\ watch = "Open"

(* The completion of a getDocument is called once, however many events its *)
(* listener is sent before it is removed: a second call would wait for a   *)
(* semaphore that is never signalled again.                                *)
AnsweredOnce == \A g \in Gets : get[g].answers <= 1

(* Every getDocument is answered, with or without a connection: the map's  *)
(* poll and the reads of the profile screen come to an end.                *)
GetAnswers == \A g \in Gets : get[g].st = "listening" ~> get[g].answers = 1
=============================================================================
