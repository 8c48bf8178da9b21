-------------------------- MODULE MapScreensProofs --------------------------
(***************************************************************************)
(* The map in front belongs to whoever is signed in, for any number of     *)
(* accounts, logins and reads in flight.                                   *)
(*                                                                         *)
(* MapIsOwn is not inductive: a read in flight of the controller in front  *)
(* may set its pin next, and the completion of a login makes the account   *)
(* that Auth has answered for the one of the main screen.  ScreensInv adds *)
(* whose the reads are (ReadsOK) and what a request stands for             *)
(* (RequestOK).                                                            *)
(***************************************************************************)
EXTENDS MapScreens, TLAPS

USE ScreensAssumption

\* A request is made on the login screen, with room for one more controller;
\* once it is answered, its account is the current user.
RequestOK ==
    /\ request # NoRequest => screen = "login" /\ Front < MaxControllers
    /\ request.user = None => request = NoRequest
    /\ request.answered => session = request.user

\* Every read was started by a controller that is there; on the main screen
\* those of the controller in front are reads of the current user.
ReadsOK ==
    \A r \in reads :
        /\ r.map <= Front
        /\ screen = "main" /\ r.map = Front => r.user = session

ScreensInv == MapIsOwn /\ RequestOK /\ ReadsOK

\* The application starts with one controller, without a read or a request.
LEMMA InitScreens == Init => ScreensInv
  BY DEF Init, ScreensInv, MapIsOwn, TypeOK, RequestOK, ReadsOK, NoRequest, Front, Read

\* The reads and the pin of the controller in front survive every step: a new
\* controller starts without reads, and the account of the main screen only
\* changes by way of the login screen.
LEMMA NextScreens == ScreensInv /\ [Next]_vars => ScreensInv'
<1> SUFFICES ASSUME ScreensInv, [Next]_vars PROVE ScreensInv'
  OBVIOUS
<1> USE DEF ScreensInv, MapIsOwn, TypeOK, RequestOK, ReadsOK, NoRequest, Front
<1>1. CASE Relaunch
  BY <1>1 DEF Relaunch, Launched
<1>2. CASE SignIn
  <2>1. request' = [user |-> request.user, answered |-> TRUE] /\ request.user \in User
    BY <1>2 DEF SignIn
  <2>2. screen' = "login" /\ maps' = maps /\ reads' = reads /\ session' = request.user
    BY <1>2, <2>1 DEF SignIn
  <2>3. MapIsOwn'
    BY <2>1, <2>2
  <2>4. RequestOK'
    BY <1>2, <2>1, <2>2 DEF SignIn
  <2>5. QED
    BY <2>2, <2>3, <2>4
<1>3. CASE AuthError
  BY <1>3 DEF AuthError
<1>4. CASE LoginCompletion
  <2>1. /\ request.user \in User /\ session = request.user
        /\ Front \in 1..MaxControllers /\ Front < MaxControllers
    BY <1>4 DEF LoginCompletion
  <2>2. /\ maps' \in Seq(User \cup {None}) /\ Len(maps') = Len(maps) + 1
        /\ maps'[Len(maps')] = None
    BY <1>4 DEF LoginCompletion, setupViewController
  <2>3. /\ request' = NoRequest /\ screen' = "main" /\ session' = session /\ reads' = reads
    BY <1>4 DEF LoginCompletion
  <2>4. MapIsOwn'
    BY <2>1, <2>2, <2>3
  <2>5. RequestOK'
    BY <2>3
  <2>6. ReadsOK'
    BY <2>1, <2>2, <2>3 DEF Read
  <2>7. QED
    BY <2>4, <2>5, <2>6
<1>5. CASE signOut
  BY <1>5 DEF signOut
<1>6. CASE handleWithdraw
  BY <1>6 DEF handleWithdraw
<1>7. ASSUME NEW u \in User, handleLogin(u) PROVE ScreensInv'
  BY <1>7 DEF handleLogin
<1>8. ASSUME NEW i \in DOMAIN maps, updatePin(i) PROVE ScreensInv'
  BY <1>8 DEF updatePin, Read
<1>9. ASSUME NEW r \in reads, OwnCallback(r) PROVE ScreensInv'
  BY <1>9 DEF OwnCallback, Read
<1>10. ASSUME NEW r \in reads, PartnerCallback(r) PROVE ScreensInv'
  BY <1>10 DEF PartnerCallback, Read
<1>11. ASSUME NEW r \in reads, NoDocument(r) PROVE ScreensInv'
  BY <1>11 DEF NoDocument
<1>12. CASE UNCHANGED vars
  BY <1>12 DEF vars
<1>13. QED
  BY <1>1, <1>2, <1>3, <1>4, <1>5, <1>6, <1>7, <1>8, <1>9, <1>10, <1>11, <1>12 DEF Next

\* MapController.updatePin: the map in front never shows the partner of an
\* account that was signed in before, however many controllers and timers of
\* earlier logins are left.
THEOREM OwnMap == Spec => []MapIsOwn
<1>1. ScreensInv => MapIsOwn
  BY DEF ScreensInv
<1>2. QED
  BY InitScreens, NextScreens, <1>1, PTL DEF Spec
=============================================================================
