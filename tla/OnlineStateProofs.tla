------------------------- MODULE OnlineStateProofs --------------------------
(***************************************************************************)
(* The safety of OnlineState for any number of reads, documents and        *)
(* changes of account.  Inv is the inductive invariant: what the tracker   *)
(* and the stream know of each other (StreamOK), whose listener is where   *)
(* (ListenersOK), and how far the events of a read have come (EventsOK).   *)
(***************************************************************************)
EXTENDS OnlineState, TLAPS

\* A stream that is started has an outcome: known, or the timer runs.
StreamOK ==
  /\ tracker.timer => tracker.state = "Unknown"
  /\ tracker.state = "Online" => tracker.failures = 0 /\ watch = "Open"
  /\ ~IsStarted => tracker.state = "Unknown" /\ tracker.failures = 0 /\ ~tracker.timer
  /\ IsStarted /\ tracker.state = "Unknown" => tracker.timer
  /\ Targets(view) # {} => IsStarted
  /\ idle => watch = "Open" /\ Targets(view) = {}

\* A listener is that of a read of the same document, still to be removed.
ListenersOK ==
  \A d \in Docs : \A g \in listeners[d] :
    /\ get[g].doc = d /\ get[g].st # "idle" /\ get[g].event # "error"
    /\ view[d] # "none"
    /\ ~get[g].raised => view[d] = "local"

\* The life of a read: r is its record.
EventsOf(r) ==
  /\ r.st = "idle" => r.event = "no" /\ ~r.more /\ r.answers <= 1
  /\ r.st = "listening" =>
       /\ r.answers = 0 /\ (r.raised <=> r.event # "no")
       /\ r.more => r.raised
       /\ r.event = "error" => ~r.more
  /\ r.st = "removing" => r.answers = 1 /\ r.event = "no" /\ r.muted /\ r.raised

EventsOK == \A g \in Gets : EventsOf(get[g])

Inv == TypeOK /\ StreamOK /\ ListenersOK /\ EventsOK /\ WaitersHaveHope

GetRec ==
  [st : {"idle", "listening", "removing"}, doc : Docs,
   event : {"no", "cache", "server", "error"}, raised : BOOLEAN,
   more : BOOLEAN, answers : 0..2, muted : BOOLEAN]

TrackerRec ==
  [state : {"Unknown", "Online", "Offline"},
   failures : 0..kMaxWatchStreamFailures, timer : BOOLEAN]

ViewFun == [Docs -> {"none", "local", "synced"}]

----------------------------------------------------------------------------
(* Reads *)

(* NoGet, the record of a read that is not under way, is one, with nothing *)
(* to come.                                                                *)
LEMMA NoGetOK ==
  /\ NoGet \in GetRec /\ EventsOf(NoGet)
  /\ NoGet.st = "idle" /\ NoGet.event = "no" /\ ~NoGet.raised /\ NoGet.answers = 0
  /\ ~NoGet.more
<1>1. (CHOOSE d \in Docs : TRUE) \in Docs
  BY OnlineAssumption
<1> QED
  BY <1>1 DEF NoGet, GetRec, EventsOf

(* Raise, an event for a listener, keeps the life of the read in order.    *)
LEMMA RaiseOK ==
  ASSUME NEW r \in GetRec, NEW kind \in {"cache", "server", "error"},
         EventsOf(r), r.st # "idle", r.event # "error"
  PROVE  /\ Raise(r, kind) \in GetRec /\ EventsOf(Raise(r, kind))
         /\ Raise(r, kind).doc = r.doc /\ Raise(r, kind).st = r.st
         /\ Raise(r, kind).raised
         /\ kind # "error" => Raise(r, kind).event # "error"
<1>1. CASE r.raised
  <2>1. Raise(r, kind) = [r EXCEPT !.more = TRUE]
    BY <1>1 DEF Raise
  <2> QED
    BY <1>1, <2>1 DEF GetRec, EventsOf
<1>2. CASE ~r.raised
  <2>1. Raise(r, kind) = [r EXCEPT !.raised = TRUE, !.event = kind]
    BY <1>2 DEF Raise
  <2>2. ~r.more /\ r.st = "listening"
    BY <1>2 DEF GetRec, EventsOf
  <2> QED
    BY <1>2, <2>1, <2>2 DEF GetRec, EventsOf
<1> QED
  BY <1>1, <1>2

(* What the main queue makes of a read is one: the first event and one     *)
(* that follows it.                                                        *)
LEMMA CalledOK ==
  ASSUME NEW q \in GetRec, NEW n \in 0..2, NEW m \in BOOLEAN,
         NEW s \in {"idle", "removing"}
  PROVE  [q EXCEPT !.event = "no", !.answers = n, !.muted = m, !.st = s] \in GetRec
BY DEF GetRec

LEMMA FollowedOK ==
  ASSUME NEW q \in GetRec, NEW n \in 0..2
  PROVE  LET r == [q EXCEPT !.more = FALSE, !.answers = n] IN
         /\ r \in GetRec /\ r.doc = q.doc /\ r.raised = q.raised
         /\ r.event = q.event /\ r.answers = n /\ r.muted = q.muted /\ r.st = q.st
BY DEF GetRec

(* Broadcast, the news of an online state t: reads and queries stay in     *)
(* order, the targets stay, and who still waits is not told "offline".     *)
LEMMA BroadcastOK ==
  ASSUME Inv, NEW t \in TrackerRec, Broadcast(t), listeners' = listeners
  PROVE  /\ view' \in ViewFun /\ get' \in [Gets -> GetRec]
         /\ Targets(view') = Targets(view)
         /\ ListenersOK' /\ EventsOK'
         /\ \A g \in Gets : get'[g].st = "listening" /\ ~get'[g].raised =>
              /\ get'[g] = get[g] /\ view' = view /\ t.state # "Offline"
<1> USE DEF ViewFun
<1>0. /\ view \in ViewFun /\ get \in [Gets -> GetRec]
      /\ listeners \in [Docs -> SUBSET Gets]
  BY DEF Inv, TypeOK, GetRec
<1>1. CASE t.state = "Offline" /\ tracker.state # "Offline"
  <2>1. /\ view' = [d \in Docs |-> IF view[d] = "synced" THEN "local" ELSE view[d]]
        /\ get' = [g \in Gets |-> IF \E d \in Docs : g \in listeners[d]
                                  THEN Raise(get[g], "cache") ELSE get[g]]
    BY <1>1 DEF Broadcast
  <2>2. \A d \in Docs : \A g \in listeners[d] :
          /\ g \in Gets /\ get[g] \in GetRec /\ EventsOf(get[g])
          /\ get[g].st # "idle" /\ get[g].event # "error" /\ get[g].doc = d
    BY <1>0 DEF Inv, ListenersOK, EventsOK
  <2>3. \A d \in Docs : \A g \in listeners[d] :
          /\ get'[g] \in GetRec /\ EventsOf(get'[g])
          /\ get'[g].doc = get[g].doc /\ get'[g].st = get[g].st
          /\ get'[g].raised /\ get'[g].event # "error"
    BY <2>1, <2>2, RaiseOK
  <2>4. \A g \in Gets : (~ \E d \in Docs : g \in listeners[d]) => get'[g] = get[g]
    BY <2>1
  <2>5. view' \in ViewFun /\ Targets(view') = Targets(view)
    BY <1>0, <2>1 DEF Targets
  <2>6. get' \in [Gets -> GetRec]
    <3>1. \A g \in Gets : get'[g] \in GetRec
      BY <1>0, <2>3, <2>4
    <3> QED
      BY <2>1, <3>1
  <2>7. EventsOK'
    BY <2>3, <2>4 DEF EventsOK, Inv, EventsOf
  <2>8. ListenersOK'
    BY <1>0, <2>1, <2>2, <2>3 DEF ListenersOK, Inv
  <2>9. \A g \in Gets : ~(get'[g].st = "listening" /\ ~get'[g].raised)
    BY <2>3, <2>4, <1>0 DEF Inv, WaitersHaveHope, GetRec
  <2> QED
    BY <2>5, <2>6, <2>7, <2>8, <2>9
<1>2. CASE ~(t.state = "Offline" /\ tracker.state # "Offline")
  <2>1. view' = view /\ get' = get
    BY <1>2 DEF Broadcast
  <2>2. ListenersOK' /\ EventsOK'
    BY <2>1 DEF Inv, ListenersOK, EventsOK
  <2>3. \A g \in Gets : get[g].st = "listening" /\ ~get[g].raised => t.state # "Offline"
    BY <1>2 DEF Inv, WaitersHaveHope
  <2> QED
    BY <1>0, <2>1, <2>2, <2>3
<1> QED
  BY <1>1, <1>2

----------------------------------------------------------------------------
(* The tracker *)

(* The tracker's operations give trackers, and leave it with the timer     *)
(* running whenever they leave it with an unknown state.                   *)
LEMMA TrackerOps ==
  ASSUME NEW t \in TrackerRec
  PROVE  /\ handleWatchStreamStart(t) \in TrackerRec
         /\ handleWatchStreamFailure(t) \in TrackerRec
         /\ \A s \in {"Unknown", "Online", "Offline"} :
              /\ updateState(t, s) \in TrackerRec
              /\ updateState(t, s).state = s
              /\ updateState(t, s).failures = 0 /\ ~updateState(t, s).timer
<1>1. handleWatchStreamStart(t) \in TrackerRec
  BY DEF TrackerRec, handleWatchStreamStart
<1>2. handleWatchStreamFailure(t) \in TrackerRec
  <2>1. CASE t.state = "Online"
    BY <2>1 DEF TrackerRec, handleWatchStreamFailure
  <2>2. CASE t.state # "Online"
    BY <2>2 DEF TrackerRec, handleWatchStreamFailure, kMaxWatchStreamFailures
  <2> QED
    BY <2>1, <2>2
<1>3. ASSUME NEW s \in {"Unknown", "Online", "Offline"}
      PROVE  /\ updateState(t, s) \in TrackerRec
             /\ updateState(t, s).state = s
             /\ updateState(t, s).failures = 0 /\ ~updateState(t, s).timer
  <2>1. updateState(t, s).state = s /\ updateState(t, s).failures = 0
    BY DEF TrackerRec, updateState
  <2>2. updateState(t, s).timer = FALSE
    BY DEF TrackerRec, updateState
  <2>3. updateState(t, s) \in TrackerRec
    BY 0 \in 0..kMaxWatchStreamFailures DEF TrackerRec, updateState, kMaxWatchStreamFailures
  <2> QED
    BY <2>1, <2>2, <2>3
<1> QED
  BY <1>1, <1>2, <1>3

(* After a failure of a stream that is started again the tracker is        *)
(* offline, or in doubt with its timer running.                            *)
LEMMA FailureOutcome ==
  ASSUME NEW t \in TrackerRec,
         t.timer => t.state = "Unknown",
         t.state = "Online" => t.failures = 0,
         t.state = "Unknown" => t.timer
  PROVE  LET u == handleWatchStreamStart(handleWatchStreamFailure(t))
         IN  /\ u \in TrackerRec
             /\ \/ u.state = "Offline" /\ ~u.timer
                \/ u.state = "Unknown" /\ u.timer
<1>1. CASE t.state = "Online"
  BY <1>1 DEF TrackerRec, handleWatchStreamStart, handleWatchStreamFailure,
              kMaxWatchStreamFailures
<1>2. CASE t.state # "Online"
  <2>1. CASE t.failures + 1 >= kMaxWatchStreamFailures
    BY <1>2, <2>1 DEF TrackerRec, handleWatchStreamStart, handleWatchStreamFailure,
                      kMaxWatchStreamFailures
  <2>2. CASE ~(t.failures + 1 >= kMaxWatchStreamFailures)
    BY <1>2, <2>2 DEF TrackerRec, handleWatchStreamStart, handleWatchStreamFailure,
                      kMaxWatchStreamFailures
  <2> QED
    BY <2>1, <2>2
<1> QED
  BY <1>1, <1>2

----------------------------------------------------------------------------
(* The steps.  Types of the variables, from the invariant. *)

LEMMA Types ==
  ASSUME Inv
  PROVE  /\ watch \in Stream /\ idle \in BOOLEAN /\ tracker \in TrackerRec
         /\ view \in ViewFun /\ listeners \in [Docs -> SUBSET Gets]
         /\ get \in [Gets -> GetRec] /\ changes \in 0..MaxUserChanges
BY DEF Inv, TypeOK, TrackerRec, ViewFun, GetRec

(* And back: the type invariant after a step. *)
LEMMA TypesNext ==
  ASSUME watch' \in Stream, idle' \in BOOLEAN, tracker' \in TrackerRec,
         view' \in ViewFun, listeners' \in [Docs -> SUBSET Gets],
         get' \in [Gets -> GetRec], changes' \in 0..MaxUserChanges
  PROVE  TypeOK'
BY DEF TypeOK, TrackerRec, ViewFun, GetRec

(* Interrupted, a stream that has closed, keeps the invariant.             *)
LEMMA InterruptedInv ==
  ASSUME Inv, NEW s \in {"Error", "Initial"}, IsStarted, Interrupted(s)
  PROVE  Inv'
<1> USE Types
<1>0. /\ idle' = FALSE /\ listeners' = listeners /\ changes' = changes
  BY DEF Interrupted
<1> DEFINE u == handleWatchStreamStart(handleWatchStreamFailure(tracker))
<1>1. CASE Targets(view) # {}
  <2>1. /\ watch' = IF s = "Error" THEN "Backoff" ELSE "Auth"
        /\ tracker' = u /\ Broadcast(u)
    BY <1>1 DEF Interrupted
  <2>2. /\ u \in TrackerRec
        /\ \/ u.state = "Offline" /\ ~u.timer
           \/ u.state = "Unknown" /\ u.timer
    BY FailureOutcome DEF Inv, StreamOK
  <2> HIDE DEF u
  <2>3. /\ view' \in ViewFun /\ get' \in [Gets -> GetRec]
        /\ Targets(view') = Targets(view)
        /\ ListenersOK' /\ EventsOK'
        /\ \A g \in Gets : get'[g].st = "listening" /\ ~get'[g].raised =>
             /\ get'[g] = get[g] /\ view' = view /\ u.state # "Offline"
    BY <1>0, <2>1, <2>2, BroadcastOK
  <2>4. TypeOK'
    BY <1>0, <2>1, <2>2, <2>3, TypesNext DEF Stream
  <2>5. StreamOK'
    BY <1>0, <2>1, <2>2, <2>3 DEF StreamOK, IsStarted
  <2>6. WaitersHaveHope'
    BY <1>0, <2>1, <2>2, <2>3 DEF WaitersHaveHope, Inv
  <2> QED
    BY <2>3, <2>4, <2>5, <2>6 DEF Inv
<1>2. CASE Targets(view) = {}
  <2>1. /\ watch' = s /\ tracker' = updateState(handleWatchStreamFailure(tracker), "Unknown")
        /\ view' = view /\ get' = get
    BY <1>2 DEF Interrupted
  <2>2. /\ tracker' \in TrackerRec /\ tracker'.state = "Unknown"
        /\ tracker'.failures = 0 /\ ~tracker'.timer
    BY <2>1, TrackerOps
  <2>3. TypeOK'
    BY <1>0, <2>1, <2>2, TypesNext DEF Stream
  <2>4. StreamOK'
    BY <1>0, <1>2, <2>1, <2>2 DEF StreamOK, IsStarted
  <2>5. ListenersOK' /\ EventsOK'
    BY <1>0, <2>1 DEF Inv, ListenersOK, EventsOK
  <2>6. WaitersHaveHope'
    <3>1. \A g \in Gets : ~(get[g].st = "listening" /\ ~get[g].raised)
      BY <1>2 DEF Inv, WaitersHaveHope, Targets, GetRec
    <3> QED
      BY <2>1, <3>1 DEF WaitersHaveHope
  <2> QED
    BY <2>3, <2>4, <2>5, <2>6 DEF Inv
<1> QED
  BY <1>1, <1>2

(* The stream opens or resumes after its back-off.                         *)
LEMMA StartInv ==
  ASSUME Inv, ResumeStart \/ ResumeFromBackoff
  PROVE  Inv'
<1> USE Types
<1>1. /\ watch \in {"Auth", "Backoff"} /\ watch' \in {"Auth", "Open"}
      /\ UNCHANGED <<idle, tracker, view, listeners, get, changes>>
  BY DEF ResumeStart, ResumeFromBackoff
<1>2. TypeOK'
  BY <1>1, TypesNext DEF Stream
<1>3. StreamOK'
  BY <1>1 DEF Inv, StreamOK, IsStarted
<1>4. ListenersOK' /\ EventsOK'
  BY <1>1 DEF Inv, ListenersOK, EventsOK
<1>5. WaitersHaveHope'
  BY <1>1 DEF Inv, WaitersHaveHope
<1> QED
  BY <1>2, <1>3, <1>4, <1>5 DEF Inv

(* A message of the server: online, with one target answered or refused.   *)
LEMMA MessageInv ==
  ASSUME Inv, OtherMessage \/ (\E d \in Docs : Snapshot(d) \/ TargetError(d))
  PROVE  Inv'
<1> USE Types
<1>1. /\ watch = "Open" /\ UNCHANGED <<watch, idle, changes>>
      /\ tracker' = updateState(tracker, "Online")
  BY DEF OtherMessage, Snapshot, TargetError
<1>2. /\ tracker' \in TrackerRec /\ tracker'.state = "Online"
      /\ tracker'.failures = 0 /\ ~tracker'.timer
  BY <1>1, TrackerOps
<1>3. CASE OtherMessage
  <2>1. UNCHANGED <<view, listeners, get>>
    BY <1>3 DEF OtherMessage
  <2>2. TypeOK'
    BY <1>1, <1>2, <2>1, TypesNext
  <2>3. StreamOK' /\ ListenersOK' /\ EventsOK' /\ WaitersHaveHope'
    BY <1>1, <1>2, <2>1
    DEF Inv, StreamOK, ListenersOK, EventsOK, WaitersHaveHope, IsStarted
  <2> QED
    BY <2>2, <2>3 DEF Inv
<1>4. ASSUME NEW d \in Docs, Snapshot(d) \/ TargetError(d)
      PROVE  Inv'
  <2>1. PICK kind \in {"server", "error"} :
          /\ get' = [g \in Gets |-> IF g \in listeners[d] THEN Raise(get[g], kind) ELSE get[g]]
          /\ kind = "server" => /\ view' = [view EXCEPT ![d] = "synced"]
                                /\ listeners' = listeners
          /\ kind = "error" => /\ view' = [view EXCEPT ![d] = "none"]
                               /\ listeners' = [listeners EXCEPT ![d] = {}]
    BY <1>4 DEF Snapshot, TargetError
  <2>2. \A g \in listeners[d] :
          /\ g \in Gets /\ get[g] \in GetRec /\ EventsOf(get[g])
          /\ get[g].st # "idle" /\ get[g].event # "error" /\ get[g].doc = d
    BY DEF Inv, ListenersOK, EventsOK
  <2>3. \A g \in listeners[d] :
          /\ get'[g] \in GetRec /\ EventsOf(get'[g])
          /\ get'[g].doc = d /\ get'[g].st = get[g].st
          /\ get'[g].raised /\ (kind # "error" => get'[g].event # "error")
    BY <2>1, <2>2, RaiseOK
  <2>4. \A g \in Gets : g \notin listeners[d] => get'[g] = get[g]
    BY <2>1
  <2>5. get' \in [Gets -> GetRec]
    <3>1. \A g \in Gets : get'[g] \in GetRec
      BY <2>3, <2>4
    <3> QED
      BY <2>1, <3>1
  <2>6. view' \in ViewFun /\ listeners' \in [Docs -> SUBSET Gets]
    BY <2>1 DEF ViewFun
  <2>7. TypeOK'
    BY <1>1, <1>2, <2>5, <2>6, TypesNext
  <2>8. d \in Targets(view)
    BY <1>4 DEF Snapshot, TargetError
  <2>9. StreamOK'
    BY <1>1, <1>2, <2>8 DEF Inv, StreamOK, IsStarted
  <2>10. EventsOK'
    BY <2>3, <2>4 DEF EventsOK, Inv, EventsOf
  <2>11. \A c \in Docs : \A g \in listeners[c] : get[g].doc = c
    BY DEF Inv, ListenersOK
  <2>12. ListenersOK'
    <3>1. ASSUME NEW c \in Docs, NEW g \in listeners'[c]
          PROVE  /\ get'[g].doc = c /\ get'[g].st # "idle" /\ get'[g].event # "error"
                 /\ view'[c] # "none"
                 /\ ~get'[g].raised => view'[c] = "local"
      <4>1. g \in listeners[c] /\ g \in Gets /\ (c = d => kind = "server")
        BY <2>1, <3>1
      <4>2. CASE c = d
        BY <2>1, <2>2, <2>3, <4>1, <4>2 DEF ViewFun
      <4>3. CASE c # d
        <5>1. g \notin listeners[d]
          BY <2>11, <4>1, <4>3
        <5> QED
          BY <2>1, <2>4, <4>1, <4>3, <5>1 DEF Inv, ListenersOK, ViewFun
      <4> QED
        BY <4>2, <4>3
    <3> QED
      BY <3>1 DEF ListenersOK
  <2>13. WaitersHaveHope'
    <3>1. ASSUME NEW g \in Gets, get'[g].st = "listening", ~get'[g].raised
          PROVE  g \in listeners'[get'[g].doc] /\ view'[get'[g].doc] = "local"
      <4>1. g \notin listeners[d] /\ get'[g] = get[g]
        BY <2>3, <2>4, <3>1
      <4>2. g \in listeners[get[g].doc] /\ view[get[g].doc] = "local"
        BY <3>1, <4>1 DEF Inv, WaitersHaveHope
      <4> QED
        BY <2>1, <4>1, <4>2 DEF GetRec, ViewFun
    <3> QED
      BY <1>1, <1>2, <3>1 DEF WaitersHaveHope
  <2> QED
    BY <2>7, <2>9, <2>10, <2>12, <2>13 DEF Inv
<1> QED
  BY <1>3, <1>4

(* The timer gives the server up.                                          *)
LEMMA TimeoutInv ==
  ASSUME Inv, OnlineStateTimeout
  PROVE  Inv'
<1> USE Types
<1> DEFINE t == [tracker EXCEPT !.state = "Offline", !.timer = FALSE]
<1>1. /\ tracker.timer /\ tracker' = t /\ Broadcast(t)
      /\ UNCHANGED <<watch, idle, listeners, changes>>
  BY DEF OnlineStateTimeout
<1>2. t \in TrackerRec /\ t.state = "Offline"
  BY DEF TrackerRec
<1>3. t.timer = FALSE
  BY DEF TrackerRec
<1>4. IsStarted
  BY <1>1 DEF Inv, StreamOK
<1> HIDE DEF t
<1>5. /\ view' \in ViewFun /\ get' \in [Gets -> GetRec]
      /\ Targets(view') = Targets(view)
      /\ ListenersOK' /\ EventsOK'
      /\ \A g \in Gets : ~(get'[g].st = "listening" /\ ~get'[g].raised)
  BY <1>1, <1>2, BroadcastOK
<1>6. TypeOK'
  BY <1>1, <1>2, <1>5, TypesNext
<1>7. StreamOK'
  BY <1>1, <1>2, <1>3, <1>4, <1>5 DEF Inv, StreamOK, IsStarted
<1>8. WaitersHaveHope'
  BY <1>5 DEF WaitersHaveHope
<1> QED
  BY <1>5, <1>6, <1>7, <1>8 DEF Inv

(* Another account: a new stream, started if there are targets.            *)
LEMMA UserChangeInv ==
  ASSUME Inv, userDidChange
  PROVE  Inv'
<1> USE Types
<1> DEFINE n == updateState(tracker, "Unknown")
<1>0. /\ idle' = FALSE /\ UNCHANGED <<view, listeners, get>>
      /\ changes' \in 0..MaxUserChanges
  BY OnlineAssumption DEF userDidChange
<1>1. n \in TrackerRec /\ n.state = "Unknown" /\ n.failures = 0 /\ ~n.timer
  BY TrackerOps
<1>2. ListenersOK' /\ EventsOK'
  BY <1>0 DEF Inv, ListenersOK, EventsOK
<1>3. CASE Targets(view) # {}
  <2>1. watch' = "Auth" /\ tracker' = handleWatchStreamStart(n)
    BY <1>3 DEF userDidChange
  <2> HIDE DEF n
  <2>2. tracker' \in TrackerRec /\ tracker'.state = "Unknown" /\ tracker'.timer
    BY <1>1, <2>1 DEF handleWatchStreamStart, TrackerRec
  <2>3. TypeOK'
    BY <1>0, <2>1, <2>2, TypesNext DEF Stream
  <2>4. StreamOK'
    BY <1>0, <2>1, <2>2 DEF StreamOK, IsStarted
  <2>5. WaitersHaveHope'
    BY <1>0, <2>2 DEF Inv, WaitersHaveHope
  <2> QED
    BY <1>2, <2>3, <2>4, <2>5 DEF Inv
<1>4. CASE Targets(view) = {}
  <2>1. watch' = "Initial" /\ tracker' = n
    BY <1>4 DEF userDidChange
  <2> HIDE DEF n
  <2>3. TypeOK'
    BY <1>0, <1>1, <2>1, TypesNext DEF Stream
  <2>4. StreamOK'
    BY <1>0, <1>1, <1>4, <2>1 DEF StreamOK, IsStarted
  <2>5. WaitersHaveHope'
    <3>1. \A g \in Gets : ~(get[g].st = "listening" /\ ~get[g].raised)
      BY <1>4 DEF Inv, WaitersHaveHope, Targets, GetRec
    <3> QED
      BY <1>0, <3>1 DEF WaitersHaveHope
  <2> QED
    BY <1>2, <2>3, <2>4, <2>5 DEF Inv
<1> QED
  BY <1>3, <1>4

(* A new read joins the query of its document, or makes it.                *)
LEMMA GetDocumentInv ==
  ASSUME Inv, NEW g \in Gets, NEW d \in Docs, getDocument(g, d)
  PROVE  Inv'
<1> USE Types
<1> DEFINE v == IF view[d] = "none" THEN "local" ELSE view[d]
           r == [NoGet EXCEPT !.st = "listening", !.doc = d,
                   !.event = FirstEvent(v), !.raised = FirstEvent(v) # "no"]
<1>1. /\ get[g].st = "idle" /\ get' = [get EXCEPT ![g] = r]
      /\ listeners' = [listeners EXCEPT ![d] = @ \cup {g}]
      /\ view' = [view EXCEPT ![d] = v]
      /\ idle' = (idle /\ view[d] # "none") /\ changes' = changes
  BY DEF getDocument
<1>2. /\ FirstEvent(v) \in {"no", "server", "cache"} /\ v \in {"local", "synced"}
      /\ FirstEvent(v) = "no" => v = "local" /\ tracker.state # "Offline"
  BY DEF FirstEvent, ViewFun
<1> HIDE DEF v
<1>3. /\ r \in GetRec /\ EventsOf(r) /\ r.doc = d /\ r.st = "listening"
      /\ r.event = FirstEvent(v) /\ (r.raised <=> FirstEvent(v) # "no")
  BY <1>2, NoGetOK DEF GetRec, EventsOf
<1> HIDE DEF r
<1>4. IsStarted' /\ tracker' \in TrackerRec /\ watch' \in Stream
      /\ (tracker'.timer => tracker'.state = "Unknown")
      /\ (tracker'.state = "Online" => tracker'.failures = 0 /\ watch' = "Open")
      /\ (tracker'.state = "Unknown" => tracker'.timer)
      /\ (tracker.state # "Offline" => tracker'.state # "Offline")
  <2>1. CASE view[d] = "none" /\ ~IsStarted
    <3>1. watch' = Started /\ tracker' = handleWatchStreamStart(tracker)
      BY <2>1 DEF getDocument
    <3>2. tracker.failures = 0
      BY <2>1 DEF Inv, StreamOK
    <3>3. tracker' \in TrackerRec /\ tracker'.state = "Unknown" /\ tracker'.timer
      BY <3>1, <3>2 DEF handleWatchStreamStart, TrackerRec
    <3> QED
      BY <3>1, <3>3 DEF Started, IsStarted, Stream
  <2>2. CASE ~(view[d] = "none" /\ ~IsStarted)
    <3>1. watch' = watch /\ tracker' = tracker
      BY <2>2 DEF getDocument
    <3>2. IsStarted
      BY <2>2 DEF Inv, StreamOK, Targets
    <3> QED
      BY <3>1, <3>2 DEF Inv, StreamOK, IsStarted
  <2> QED
    BY <2>1, <2>2
<1>5. get' \in [Gets -> GetRec]
  BY <1>1, <1>3
<1>6. view' \in ViewFun /\ listeners' \in [Docs -> SUBSET Gets]
  BY <1>1, <1>2 DEF ViewFun
<1>7. TypeOK'
  BY <1>1, <1>4, <1>5, <1>6, TypesNext
<1>8. ~idle'
  BY <1>1 DEF Inv, StreamOK, Targets
<1>9. StreamOK'
  BY <1>4, <1>8 DEF StreamOK
<1>10. EventsOK'
  BY <1>1, <1>3 DEF Inv, EventsOK, EventsOf
<1>11. \A c \in Docs : g \notin listeners[c]
  BY <1>1 DEF Inv, ListenersOK
<1>12. ListenersOK'
  <2>1. ASSUME NEW c \in Docs, NEW h \in listeners'[c]
        PROVE  /\ get'[h].doc = c /\ get'[h].st # "idle" /\ get'[h].event # "error"
               /\ view'[c] # "none"
               /\ ~get'[h].raised => view'[c] = "local"
    <3>1. CASE h = g
      <4>1. c = d
        BY <1>1, <1>11, <2>1, <3>1
      <4> QED
        BY <1>1, <1>2, <1>3, <3>1, <4>1 DEF ViewFun
    <3>2. CASE h # g
      <4>1. h \in listeners[c] /\ h \in Gets
        BY <1>1, <2>1, <3>2
      <4>2. /\ get[h].doc = c /\ get[h].st # "idle" /\ get[h].event # "error"
            /\ view[c] # "none" /\ (~get[h].raised => view[c] = "local")
        BY <4>1 DEF Inv, ListenersOK
      <4>3. view'[c] = view[c]
        BY <1>1, <4>2 DEF ViewFun, v
      <4>4. get'[h] = get[h]
        BY <1>1, <3>2, <4>1
      <4> QED
        BY <4>2, <4>3, <4>4
    <3> QED
      BY <3>1, <3>2
  <2> QED
    BY <2>1 DEF ListenersOK
<1>13. WaitersHaveHope'
  <2>1. ASSUME NEW h \in Gets, get'[h].st = "listening", ~get'[h].raised
        PROVE  /\ h \in listeners'[get'[h].doc] /\ view'[get'[h].doc] = "local"
               /\ tracker.state # "Offline"
    <3>1. CASE h = g
      BY <1>1, <1>2, <1>3, <2>1, <3>1 DEF ViewFun
    <3>2. CASE h # g
      <4>1. get'[h] = get[h] /\ get[h].doc \in Docs
        BY <1>1, <3>2 DEF GetRec
      <4>2. /\ h \in listeners[get[h].doc] /\ view[get[h].doc] = "local"
            /\ tracker.state # "Offline"
        BY <2>1, <4>1 DEF Inv, WaitersHaveHope
      <4> QED
        BY <1>1, <4>1, <4>2 DEF ViewFun, v
    <3> QED
      BY <3>1, <3>2
  <2>2. tracker'.state \in {"Unknown", "Online", "Offline"}
    BY <1>4 DEF TrackerRec
  <2> QED
    BY <1>4, <2>1, <2>2 DEF WaitersHaveHope
<1> QED
  BY <1>7, <1>9, <1>10, <1>12, <1>13 DEF Inv

(* The main queue comes to an event: only the read itself changes, it is   *)
(* answered by its first event, and deaf to what follows.                  *)
LEMMA CallbackInv ==
  ASSUME Inv, NEW g \in Gets, Callback(g) \/ LateEvent(g)
  PROVE  Inv'
<1> USE Types
<1>1. UNCHANGED <<watch, idle, tracker, view, listeners, changes>>
  BY DEF Callback, LateEvent
<1>2. PICK r : /\ get' = [get EXCEPT ![g] = r] /\ r \in GetRec /\ EventsOf(r)
               /\ r.doc = get[g].doc /\ r.raised = get[g].raised
               /\ r.event # "error"
               /\ get[g].event # "error" /\ get[g].st # "idle" => r.st # "idle"
               /\ ~(r.st = "listening" /\ ~r.raised)
  <2>0. get[g] \in GetRec /\ EventsOf(get[g])
    BY DEF Inv, EventsOK
  <2>1. CASE Callback(g)
    <3> DEFINE e == get[g].event # "error"
               s == IF get[g].event = "error" THEN "idle" ELSE "removing"
               r == [get[g] EXCEPT !.event = "no", !.answers = get[g].answers + 1,
                                   !.muted = e, !.st = s]
    <3>1. get[g].event # "no" /\ get' = [get EXCEPT ![g] = r]
      BY <2>0, <2>1 DEF Callback, GetRec
    <3>2. get[g].st = "listening" /\ get[g].answers = 0 /\ get[g].raised
          /\ (get[g].event = "error" => ~get[g].more)
      BY <2>0, <3>1 DEF EventsOf, GetRec
    <3>3. e \in BOOLEAN /\ s \in {"idle", "removing"}
          /\ (s = "removing" => e) /\ (s = "idle" => get[g].event = "error")
      OBVIOUS
    <3> HIDE DEF e, s
    <3>4. r \in GetRec
      <4>1. get[g].answers + 1 \in 0..2
        BY <3>2
      <4> QED
        BY <2>0, <3>3, <4>1, CalledOK
    <3>5. r.doc = get[g].doc /\ r.event = "no" /\ r.answers = 1 /\ r.st = s
      BY <2>0, <3>2 DEF GetRec
    <3>6. r.raised = get[g].raised /\ r.more = get[g].more /\ r.muted = e
      BY <2>0 DEF GetRec
    <3> HIDE DEF r
    <3>7. EventsOf(r)
      BY <3>2, <3>3, <3>5, <3>6 DEF EventsOf
    <3> QED
      BY <3>1, <3>2, <3>3, <3>4, <3>5, <3>6, <3>7
  <2>2. CASE LateEvent(g)
    <3> DEFINE n == get[g].answers + (IF get[g].muted THEN 0 ELSE 1)
               r == [get[g] EXCEPT !.more = FALSE, !.answers = n]
    <3>1. get[g].more /\ get[g].event = "no" /\ get' = [get EXCEPT ![g] = r]
      BY <2>0, <2>2 DEF LateEvent, GetRec
    <3>2. get[g].st = "removing" /\ get[g].muted /\ get[g].answers = 1 /\ get[g].raised
      BY <2>0, <3>1 DEF EventsOf, GetRec
    <3>3. n = 1 /\ n \in 0..2
      BY <3>2
    <3> HIDE DEF n
    <3>4. /\ r \in GetRec /\ r.doc = get[g].doc /\ r.raised = get[g].raised
          /\ r.event = get[g].event /\ r.answers = n /\ r.muted = get[g].muted
          /\ r.st = get[g].st
      BY <2>0, <3>3, FollowedOK, Zenon
    <3> HIDE DEF r
    <3>5. EventsOf(r)
      BY <3>1, <3>2, <3>3, <3>4 DEF EventsOf
    <3> QED
      BY <3>1, <3>2, <3>3, <3>4, <3>5
  <2> QED
    BY <2>1, <2>2
<1>3. get' \in [Gets -> GetRec]
  BY <1>2
<1>4. TypeOK'
  BY <1>1, <1>3, TypesNext
<1>5. StreamOK'
  BY <1>1 DEF Inv, StreamOK, IsStarted
<1>6. EventsOK'
  BY <1>2 DEF Inv, EventsOK
<1>7. ListenersOK'
  <2>1. ASSUME NEW d \in Docs, NEW h \in listeners[d]
        PROVE  /\ get'[h].doc = d /\ get'[h].st # "idle" /\ get'[h].event # "error"
               /\ get'[h].raised = get[h].raised
    BY <1>2, <2>1 DEF Inv, ListenersOK
  <2> QED
    BY <1>1, <2>1 DEF Inv, ListenersOK
<1>8. WaitersHaveHope'
  <2>1. ASSUME NEW h \in Gets, get'[h].st = "listening", ~get'[h].raised
        PROVE  get'[h] = get[h]
    BY <1>2, <2>1
  <2> QED
    BY <1>1, <2>1 DEF Inv, WaitersHaveHope
<1> QED
  BY <1>4, <1>5, <1>6, <1>7, <1>8 DEF Inv

(* A listener goes, and the target with the last one.                      *)
LEMMA RemoveInv ==
  ASSUME Inv, NEW g \in Gets, RemoveListener(g)
  PROVE  Inv'
<1> USE Types
<1> DEFINE d == get[g].doc
           last == view[d] # "none" /\ listeners[d] \ {g} = {}
           v == IF last THEN [view EXCEPT ![d] = "none"] ELSE view
<1>0. d \in Docs
  BY DEF GetRec
<1>1. /\ get[g].st = "removing" /\ get' = [get EXCEPT ![g] = NoGet]
      /\ listeners' = [listeners EXCEPT ![d] = @ \ {g}] /\ view' = v
      /\ idle' = (IF watch = "Open" /\ last THEN Targets(v) = {} ELSE idle)
      /\ UNCHANGED <<watch, tracker, changes>>
  BY DEF RemoveListener
<1>2. /\ v \in ViewFun /\ Targets(v) \subseteq Targets(view)
      /\ \A c \in Docs : c # d => v[c] = view[c]
      /\ ~last => v = view
  BY <1>0 DEF ViewFun, Targets
<1>3. last => listeners[d] \ {g} = {}
  OBVIOUS
<1> HIDE DEF d, last, v
<1>4. TypeOK'
  <2>1. listeners' \in [Docs -> SUBSET Gets] /\ get' \in [Gets -> GetRec]
    BY <1>1, NoGetOK
  <2>2. idle' \in BOOLEAN
    BY <1>1
  <2> QED
    BY <1>1, <1>2, <2>1, <2>2, TypesNext
<1>5. StreamOK'
  <2>1. idle' => watch = "Open" /\ Targets(v) = {}
    <3>1. CASE watch = "Open" /\ last
      BY <1>1, <3>1
    <3>2. CASE ~(watch = "Open" /\ last)
      <4>1. idle' = idle
        BY <1>1, <3>2
      <4> QED
        BY <1>2, <4>1 DEF Inv, StreamOK
    <3> QED
      BY <3>1, <3>2
  <2> QED
    BY <1>1, <1>2, <2>1 DEF Inv, StreamOK, IsStarted
<1>6. EventsOK'
  BY <1>1, NoGetOK DEF Inv, EventsOK
<1>7. ListenersOK'
  <2>1. ASSUME NEW c \in Docs, NEW h \in listeners'[c]
        PROVE  /\ h # g /\ h \in Gets /\ h \in listeners[c] /\ view'[c] = view[c]
    <3>1. h \in listeners[c]
      BY <1>1, <2>1
    <3>2. h # g
      BY <1>0, <1>1, <2>1, <3>1 DEF Inv, ListenersOK, d
    <3>3. c = d => ~last
      BY <1>1, <1>3, <2>1, <3>1, <3>2
    <3> QED
      BY <1>1, <1>2, <3>1, <3>2, <3>3
  <2> QED
    BY <1>1, <2>1 DEF Inv, ListenersOK
<1>8. WaitersHaveHope'
  <2>1. ASSUME NEW h \in Gets, get'[h].st = "listening", ~get'[h].raised
        PROVE  /\ h # g /\ get'[h] = get[h] /\ h \in listeners'[get[h].doc]
               /\ view'[get[h].doc] = view[get[h].doc]
    <3>1. h # g /\ get'[h] = get[h]
      BY <1>1, <2>1, NoGetOK
    <3>2. get[h].doc \in Docs /\ h \in listeners[get[h].doc]
      BY <2>1, <3>1 DEF Inv, WaitersHaveHope, GetRec
    <3>3. get[h].doc = d => ~last
      BY <1>3, <3>1, <3>2
    <3> QED
      BY <1>1, <1>2, <3>1, <3>2, <3>3
  <2> QED
    BY <1>1, <2>1 DEF Inv, WaitersHaveHope
<1> QED
  BY <1>4, <1>5, <1>6, <1>7, <1>8 DEF Inv

----------------------------------------------------------------------------
LEMMA InitInv == Init => Inv
<1> SUFFICES ASSUME Init PROVE Inv
  OBVIOUS
<1>1. TypeOK
  <2>1. tracker \in [state : {"Unknown", "Online", "Offline"},
                     failures : 0..kMaxWatchStreamFailures, timer : BOOLEAN]
    BY DEF Init, kMaxWatchStreamFailures
  <2>2. get \in [Gets -> GetRec]
    BY NoGetOK DEF Init
  <2>3. /\ watch \in Stream /\ idle \in BOOLEAN
        /\ view \in [Docs -> {"none", "local", "synced"}]
        /\ listeners \in [Docs -> SUBSET Gets]
    BY DEF Init, Stream
  <2>4. changes \in 0..MaxUserChanges
    BY OnlineAssumption DEF Init
  <2> QED
    BY <2>1, <2>2, <2>3, <2>4 DEF TypeOK, GetRec
<1>2. StreamOK
  BY DEF Init, StreamOK, IsStarted, Targets
<1>3. ListenersOK /\ EventsOK /\ WaitersHaveHope
  BY NoGetOK DEF Init, ListenersOK, EventsOK, WaitersHaveHope
<1> QED
  BY <1>1, <1>2, <1>3 DEF Inv

LEMMA NextInv == Inv /\ [Next]_vars => Inv'
<1> SUFFICES ASSUME Inv, [Next]_vars PROVE Inv'
  OBVIOUS
<1>1. CASE ResumeStart \/ ResumeFromBackoff
  BY <1>1, StartInv
<1>2. CASE TokenFails \/ RpcCloses
  BY <1>2, InterruptedInv DEF TokenFails, RpcCloses, IsStarted
<1>3. CASE handleIdleCloseTimer
  <2>1. IsStarted
    BY <1>3 DEF handleIdleCloseTimer, Inv, StreamOK, IsStarted
  <2> QED
    BY <1>3, <2>1, InterruptedInv DEF handleIdleCloseTimer
<1>4. CASE OtherMessage \/ \E d \in Docs : Snapshot(d) \/ TargetError(d)
  BY <1>4, MessageInv
<1>5. CASE OnlineStateTimeout
  BY <1>5, TimeoutInv
<1>6. CASE userDidChange
  BY <1>6, UserChangeInv
<1>7. CASE \E g \in Gets, d \in Docs : getDocument(g, d)
  BY <1>7, GetDocumentInv
<1>8. CASE \E g \in Gets : Callback(g) \/ LateEvent(g)
  BY <1>8, CallbackInv
<1>9. CASE \E g \in Gets : RemoveListener(g)
  BY <1>9, RemoveInv
<1>10. CASE UNCHANGED vars
  BY <1>10 DEF vars, Inv, TypeOK, StreamOK, ListenersOK, EventsOK, WaitersHaveHope,
               IsStarted
<1> QED
  BY <1>1, <1>2, <1>3, <1>4, <1>5, <1>6, <1>7, <1>8, <1>9, <1>10 DEF Next

(* The inductive invariant, and with it the types: every variable keeps    *)
(* its type, for any number of reads, documents and changes of account.    *)
THEOREM InvHolds == Spec => [](Inv /\ TypeOK)
<1>1. Inv => TypeOK
  BY DEF Inv
<1> QED
  BY <1>1, InitInv, NextInv, PTL DEF Spec

(* The assertions of the tracker and of the idle timer are never violated. *)
THEOREM Assertions == Spec => []AssertionsHold
<1>1. Inv => AssertionsHold
  BY DEF Inv, StreamOK, AssertionsHold
<1> QED
  BY <1>1, InitInv, NextInv, PTL DEF Spec

(* Whoever waits for a document has a timer that will end the wait or an   *)
(* open connection on which the server has answered.                       *)
THEOREM Hope == Spec => []WaitersHaveHope
<1>1. Inv => WaitersHaveHope
  BY DEF Inv
<1> QED
  BY <1>1, InitInv, NextInv, PTL DEF Spec

(* No completion of a getDocument is called twice.                         *)
THEOREM Once == Spec => []AnsweredOnce
<1>1. Inv => AnsweredOnce
  <2> SUFFICES ASSUME Inv, NEW g \in Gets PROVE get[g].answers <= 1
    BY DEF AnsweredOnce
  <2>1. get[g] \in GetRec /\ EventsOf(get[g])
    BY Types DEF Inv, EventsOK
  <2>2. get[g].st \in {"idle", "listening", "removing"}
    BY <2>1 DEF GetRec
  <2> QED
    BY <2>1, <2>2 DEF EventsOf
<1> QED
  BY <1>1, InitInv, NextInv, PTL DEF Spec
=============================================================================
