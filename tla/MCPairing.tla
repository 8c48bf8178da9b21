----------------------------- MODULE MCPairing -----------------------------
(***************************************************************************)
(* Bounded instances of Pairing for TLC, with the history that its         *)
(* properties need.                                                        *)
(***************************************************************************)
EXTENDS Pairing, FiniteSets, Functions, TLC

CONSTANTS
    MaxQueue,   \* writes one account may have waiting when it acts
    Budgets     \* what an instance may spend, one of these records

\* phones: those in use; accounts: those at the start; codes and places: what
\* is typed and reported; ops: codes submitted, removals, withdrawals and
\* reports; logins: sign-ups and sign-ins attempted; polls: reads by the timer
\* of the map; breaks: broken connections and restarts.
ASSUME BudgetAssumption ==
    Budgets \subseteq [phones : SUBSET Device, accounts : Registered,
                      codes : SUBSET DocId, places : SUBSET Loc,
                      ops : Nat, logins : Nat, polls : Nat, breaks : Nat]

VARIABLES
    left,    \* what is left of the budget
    bond,    \* pairs that agreed and that nothing has contested since
    gone,    \* accounts that withdrew when no other phone held their sign-up
    bare,    \* accounts whose sign-up was cut short, or that withdrew
    placed   \* the last position an account reported, Absent once it did so
             \* before the SDK heard of the sign-in or without a document

history  == <<bond, gone, bare, placed>>
mcvars   == <<vars, left, history>>

MCInit ==
    /\ Init
    /\ left \in {b \in Budgets : b.accounts = accounts}
    /\ bond = {} /\ gone = {} /\ bare = {}
    /\ placed = [u \in User |-> DefaultLoc]

-----------------------------------------------------------------------------
(* What the queues hold.                                                   *)

\* The writes waiting anywhere.
Waiting == UNION {Range(queue[d][o]) : d \in Device, o \in Owner}

WritesOf(ids, f) == {m \in Waiting : m.id \in ids /\ f \in m.mask}

\* Typing the code is uncontested: both documents are there, and no write is
\* waiting for either that would not agree with it.
Uncontested(u, code) ==
    /\ docs[u] # NoDoc /\ docs[code] # NoDoc
    /\ WritesOf({u, code}, "partner")
         \subseteq {updatePartner(u, code), updatePartner(code, u)}

\* Another phone has yet to write, or to have answered, the document of the
\* sign-up of u.
SignUpElsewhere(d, u) ==
    \E e \in Device \ {d} :
        setData(u) \in Range(queue[e][u]) \/ (auth[e] = "created" /\ session[e] = u)

\* The SDK works for the account that is signed in and shows its document.
HasDoc(d) ==
    fsUser[d] = session[d] /\ View(d, session[d], docs[session[d]]) # NoDoc

Apart(ids) == {b \in bond : b \cap ids = {}}

-----------------------------------------------------------------------------
(* The actions, counted.                                                   *)

Spend(f) == left[f] > 0 /\ left' = [left EXCEPT ![f] = @ - 1]

Operation(d) == Spend("ops") /\ Len(Pending(d)) < MaxQueue

MCHandleCode(d, code) ==
    LET u == session[d] IN
    /\ Operation(d)
    /\ handleCode(d, code)
    /\ bond' = IF Uncontested(u, code) THEN Apart({u, code}) \cup {{u, code}}
               ELSE Apart({u, code})
    /\ UNCHANGED <<gone, bare, placed>>

MCPartnerRemove(d) == Operation(d) /\ handlePartnerRemove(d) /\ UNCHANGED history

MCWithdraw(d) ==
    LET u == session[d] IN
    /\ Operation(d)
    /\ handleWithdraw(d)
    /\ bond' = Apart({u})
    /\ gone' = IF SignUpElsewhere(d, u) THEN gone ELSE gone \cup {u}
    /\ bare' = bare \cup {u}
    /\ UNCHANGED placed

MCUpdateLocations(d, l) ==
    /\ Operation(d)
    /\ didUpdateLocations(d, l)
    /\ placed' = [placed EXCEPT ![session[d]] =
                    IF @ # Absent /\ HasDoc(d) THEN l ELSE Absent]
    /\ UNCHANGED <<bond, gone, bare>>

MCSign(d) ==
    /\ Spend("logins")
    /\ handleSignUp(d) \/ handleLogin(d)
    /\ UNCHANGED history

MCSignOut(d) == signOut(d) /\ UNCHANGED <<left, history>>

MCUser(d) ==
    \/ \E code \in DocId \cap left.codes : MCHandleCode(d, code)
    \/ MCPartnerRemove(d)
    \/ MCWithdraw(d)
    \/ \E l \in Loc \cap left.places : MCUpdateLocations(d, l)
    \/ MCSign(d)
    \/ MCSignOut(d)

MCCreateUser(d, u) ==
    /\ CreateUser(d, u)
    /\ bare' = IF session' = session THEN bare \cup {u} ELSE bare
    /\ UNCHANGED <<left, bond, gone, placed>>

MCRemovalCallback(d) ==
    /\ RemovalCallback(d)
    /\ bond' = IF queue' = queue THEN bond
               ELSE Apart({removal[d].uid, UserDataPartner(removal[d].doc)})
    /\ UNCHANGED <<left, gone, bare, placed>>

MCSystem(d) ==
    \/ MCRemovalCallback(d)
    \/ \E u \in User : MCCreateUser(d, u)
    \/ /\ \/ Serve(d) \/ ReceiveAck(d) \/ ReceiveReject(d)
          \/ UserDidChange(d) \/ GetDocument(d)
          \/ \E u \in User : SignIn(d, u)
          \/ SignUpCompletion(d) \/ LoginCompletion(d) \/ AuthError(d)
       /\ UNCHANGED <<left, history>>

MCUpdatePin(d) ==
    /\ Spend("polls")
    /\ updatePin(d)
    /\ UNCHANGED history

MCBreak(d) ==
    /\ Spend("breaks")
    /\ \/ Interrupt(d) /\ bare' = bare
       \/ /\ Relaunch(d)
          /\ bare' = IF auth[d] = "created" THEN bare \cup {session[d]} ELSE bare
    /\ UNCHANGED <<bond, gone, placed>>

MCNext ==
    \E d \in Device \cap left.phones : MCUser(d) \/ MCSystem(d) \/ MCUpdatePin(d) \/ MCBreak(d)

MCSpec == MCInit /\ [][MCNext]_mcvars

Symmetry == Permutations(Device)

\* The instances.  Two people who pair, dissolve and withdraw; a sign-up
\* against a login on another phone; one phone that changes accounts.
Two(accs, ops, logins, breaks) ==
    {[phones |-> Device, accounts |-> accs, codes |-> User, places |-> {},
      ops |-> ops, logins |-> logins, polls |-> 0, breaks |-> breaks]}

Switching(accs) ==
    {[phones |-> {d}, accounts |-> accs, codes |-> DocId, places |-> Loc,
      ops |-> 2, logins |-> 2, polls |-> 1, breaks |-> 1] : d \in Device}

OneUser == {CHOOSE u \in User : TRUE}
Registrations == {User, OneUser}

PairingBudgets == Two(User, 3, 2, 1) \cup Two(OneUser, 1, 3, 1) \cup Switching(OneUser)
WithdrawBudgets == Two(User, 1, 2, 0)

-----------------------------------------------------------------------------
(* Properties.                                                             *)

\* Two people who agree stay paired: when a code was typed while both
\* documents existed and nothing waiting disagreed with it, and nobody has
\* typed another code, dissolved or withdrawn since, then once the writes have
\* left the queues both documents name the other, whatever was lost, sent
\* twice, or typed by both at once (handleCode, and the queue of the SDK).
UncontestedPairing ==
    \A b \in bond :
        WritesOf(b, "partner") = {} =>
            \A u \in b : /\ docs[u] # NoDoc
                         /\ docs[u].partner \in (IF b = {u} THEN b ELSE b \ {u})

\* An account that withdrew has no document once its deletion is answered:
\* a sign-up sent twice never brings it back (handleWithdraw).
WithdrawnStaysGone ==
    \A u \in gone : deleteDoc(u) \notin Waiting => docs[u] = NoDoc

\* An account whose sign-up ran to its end has its document, or a phone still
\* has it to write: logging out, another sign-up on the same phone, a restart
\* or a broken connection never lose it (handleSignUp, userDidChange).
SignUpIsKept ==
    \A u \in accounts \ bare :
        \/ docs[u] # NoDoc
        \/ setData(u) \in Waiting
        \/ \E d \in Device : auth[d] = "created" /\ session[d] = u

\* The position the partner sees is the last one reported, once no report is
\* waiting: a report sent again never overtakes a later one.  It needs one
\* phone, reports made after the SDK heard of the sign-in (an earlier one goes
\* to the queue of the account before and is sent who knows when), and a
\* document (a report made before the sign-up has written it is rejected and
\* lost) (didUpdateLocations, userDidChange, handleWriteError).
LatestPosition ==
    \A u \in User :
        placed[u] # Absent /\ docs[u] # NoDoc /\ WritesOf({u}, "loc") = {}
            => docs[u].loc = placed[u]

-----------------------------------------------------------------------------
(* What the app tells the person.                                          *)

\* "Your user information is all deleted" (handleWithdraw): once the deletion
\* is answered, nothing of the account is left.
WithdrawErasesUser ==
    \A u \in gone : deleteDoc(u) \notin Waiting => docs[u] = NoDoc /\ u \notin accounts
=============================================================================
