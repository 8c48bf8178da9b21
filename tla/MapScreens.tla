----------------------------- MODULE MapScreens -----------------------------
(***************************************************************************)
(* The map controllers of one run of the application.  Every login and     *)
(* every sign-up makes a new MapController; the ones before are replaced   *)
(* in the tab bar, but their timers hold them and go on polling, for       *)
(* whoever is signed in by then.  MapPolling has one controller and one    *)
(* account, and says where its pin is; here a pin is only the account      *)
(* whose document named the partner it shows.                              *)
(***************************************************************************)
EXTENDS Integers, Sequences

CONSTANTS
    User,           \* the accounts
    None,           \* nobody
    MaxControllers, \* bound: map controllers made in one run of the app
    MaxReads        \* bound: reads in flight of one controller

ASSUME ScreensAssumption ==
    /\ None \notin User
    /\ MaxControllers \in Nat \ {0} /\ MaxReads \in Nat

VARIABLES
    session,  \* Auth.currentUser
    screen,   \* "main", or "login" for the login and sign-up screens over it
    request,  \* the sign-in under the cover: whom for, and whether answered
    maps,     \* the pins of the map controllers, the last one in the tab bar
    reads     \* reads in flight: of the own document, then of the partner's

vars == <<session, screen, request, maps, reads>>

NoRequest == [user |-> None, answered |-> FALSE]
Read == [map : 1..MaxControllers, user : User, stage : {"own", "partner"},
         n : 1..MaxReads]

Front == Len(maps)

-----------------------------------------------------------------------------

\* The application starts; the current user is read from the keychain.
Launched(user) ==
    /\ screen' = IF user = None THEN "login" ELSE "main"
    /\ request' = NoRequest
    /\ maps' = <<None>>
    /\ reads' = {}

Init ==
    /\ session \in User \cup {None}
    /\ screen = IF session = None THEN "login" ELSE "main"
    /\ request = NoRequest
    /\ maps = <<None>> /\ reads = {}

Relaunch == Launched(session) /\ UNCHANGED session

\* handleLogin and handleSignUp, up to the request.
handleLogin(u) ==
    /\ screen = "login" /\ request = NoRequest /\ Front < MaxControllers
    /\ request' = [user |-> u, answered |-> FALSE]
    /\ UNCHANGED <<session, screen, maps, reads>>

\* Auth has the answer: the current user changes before the completion runs.
SignIn ==
    /\ request.user # None /\ ~request.answered
    /\ session' = request.user
    /\ request' = [request EXCEPT !.answered = TRUE]
    /\ UNCHANGED <<screen, maps, reads>>

AuthError ==
    /\ request.user # None /\ ~request.answered
    /\ request' = NoRequest
    /\ UNCHANGED <<session, screen, maps, reads>>

\* Fault: the map that is there stays in the tab bar.
setupOnce == maps

setupViewController == Append(maps, None)

LoginCompletion ==
    /\ request.answered
    /\ maps' = setupViewController
    /\ request' = NoRequest
    /\ screen' = "main"
    /\ UNCHANGED <<session, reads>>

signOut ==
    /\ screen = "main" /\ session # None
    /\ session' = None
    /\ screen' = "login"
    /\ UNCHANGED <<request, maps, reads>>

\* The document goes, the account stays signed in behind the sign-up screen.
handleWithdraw ==
    /\ screen = "main" /\ session # None
    /\ screen' = "login"
    /\ UNCHANGED <<session, request, maps, reads>>

\* Fault: only the first controller starts a timer.
TimerOfFirst(i) == i = 1

\* viewDidLoad: every controller has a timer, and nothing ever stops it.
Timer(i) == TRUE

updatePin(i) ==
    /\ Timer(i) /\ session # None
    /\ \E n \in 1..MaxReads :
          /\ ~\E r \in reads : r.map = i /\ r.n = n
          /\ reads' = reads \cup {[map |-> i, user |-> session, stage |-> "own", n |-> n]}
    /\ UNCHANGED <<session, screen, request, maps>>

\* The own document names a partner, in the copy that is read.
OwnCallback(r) ==
    /\ r \in reads /\ r.stage = "own"
    /\ reads' = (reads \ {r}) \cup {[r EXCEPT !.stage = "partner"]}
    /\ UNCHANGED <<session, screen, request, maps>>

\* The pin is set on the controller that asked.
PartnerCallback(r) ==
    /\ r \in reads /\ r.stage = "partner"
    /\ reads' = reads \ {r}
    /\ maps' = [maps EXCEPT ![r.map] = r.user]
    /\ UNCHANGED <<session, screen, request>>

\* There is no document, or no copy of it, or it names nobody.
NoDocument(r) ==
    /\ r \in reads
    /\ reads' = reads \ {r}
    /\ UNCHANGED <<session, screen, request, maps>>

Next ==
    \/ Relaunch \/ SignIn \/ AuthError \/ LoginCompletion \/ signOut \/ handleWithdraw
    \/ \E u \in User : handleLogin(u)
    \/ \E i \in DOMAIN maps : updatePin(i)
    \/ \E r \in reads : OwnCallback(r) \/ PartnerCallback(r) \/ NoDocument(r)

Spec == Init /\ [][Next]_vars

\* The timers repeat and the main queue runs; a connection, a person or the
\* system may interrupt a read again and again, but not every one for ever.
FrontReads(stage) == {r \in reads : r.map = Front /\ r.user = session /\ r.stage = stage}

FairSpec ==
    /\ Spec
    /\ SF_vars(updatePin(Front))
    /\ SF_vars(\E r \in FrontReads("own") : OwnCallback(r))
    /\ SF_vars(\E r \in FrontReads("partner") : PartnerCallback(r))

-----------------------------------------------------------------------------
\* The properties.

TypeOK ==
    /\ session \in User \cup {None}
    /\ screen \in {"main", "login"}
    /\ request \in [user : User \cup {None}, answered : BOOLEAN]
    /\ Front \in 1..MaxControllers /\ maps \in Seq(User \cup {None})
    /\ reads \subseteq Read

\* The variables have their types, and the map in front never shows the partner of an account that was signed in
\* before: the reads of the account before, and the ones an old timer starts
\* between the change of the current user and the completion of the login, end
\* on a controller that is no longer shown.
MapIsOwn ==
    /\ TypeOK
    /\ screen = "main" => session # None /\ maps[Front] \in {None, session}

\* Who stays signed in, and has a partner, sees the pin: also on the map of the
\* second login, next to the timers of the maps before.
PinAppears ==
    \A u \in User :
        <>[](screen = "main" /\ session = u) => []<>(maps[Front] = u)
=============================================================================
