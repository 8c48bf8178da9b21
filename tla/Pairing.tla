------------------------------ MODULE Pairing ------------------------------
(***************************************************************************)
(* Accounts, sign-in, and the three ways the app changes who is whose      *)
(* partner: typing an invitation code, dissolving the partnership and      *)
(* withdrawing.  Several phones run the app against one Firestore          *)
(* database.                                                               *)
(*                                                                         *)
(* A phone never writes to the database directly.  A write is appended to  *)
(* the queue its SDK keeps for the account it believes to be signed in     *)
(* (fsUser), shows at once in the phone's own copy of the documents, and   *)
(* is sent to the server in the order of the queue; the answers come back  *)
(* in the same order, and when the connection breaks, the phone restarts   *)
(* or the account changes, every write that was not answered is sent       *)
(* again, whether or not the server had applied it.                        *)
(***************************************************************************)
EXTENDS UserDocs

CONSTANTS
    Device,      \* phones
    Registered   \* what accounts may exist, with their documents, at the start

ASSUME RegisteredAssumption == Registered \subseteq SUBSET User

VARIABLES
    docs,      \* server: the documents
    accounts,  \* server: the accounts Firebase Auth knows
    session,   \* phone: Auth.currentUser, None when signed out (keychain)
    fsUser,    \* phone: the account the Firestore SDK works for
    queue,     \* phone: the mutation queue of every account (persistent)
    resp,      \* phone: answers of the server not yet received, oldest first
    cache,     \* phone: the remote document cache (persistent)
    screen,    \* phone: the screen in front
    auth,      \* phone: the sign-in or sign-up in progress
    removal,   \* phone: the read of handlePartnerRemove in progress
    invited    \* history: <<uid, code>> of every code ever submitted

server == <<docs, accounts>>
sdk    == <<fsUser, queue, resp, cache>>
app    == <<session, screen, auth, removal>>
vars   == <<server, sdk, app, invited>>

Owner == User \cup {None}

Screen == {"main", "login", "signup"}

\* "creating" and "signingIn" wait for the Auth server; "created" and
\* "signedIn" have set currentUser and wait for the completion to run.
AuthState == {"idle", "creating", "created", "signingIn", "signedIn"}

Response == [ok : BOOLEAN, seen : BOOLEAN]

Removal == [st : {"idle", "reading", "fetched"}, uid : Owner, doc : MaybeDoc]

NoRemoval == [st |-> "idle", uid |-> None, doc |-> NoDoc]

Fresh == [partner |-> None, loc |-> DefaultLoc]

Init ==
    /\ accounts \in Registered
    /\ docs = [id \in DocId |-> IF id \in accounts THEN Fresh ELSE NoDoc]
    /\ session = [d \in Device |-> None]
    /\ fsUser = [d \in Device |-> None]
    /\ queue = [d \in Device |-> [u \in Owner |-> <<>>]]
    /\ resp = [d \in Device |-> <<>>]
    /\ cache = [d \in Device |-> [id \in DocId |-> NoDoc]]
    /\ screen = [d \in Device |-> "login"]
    /\ auth = [d \in Device |-> "idle"]
    /\ removal = [d \in Device |-> NoRemoval]
    /\ invited = {}

-----------------------------------------------------------------------------
(* The write path of the SDK.                                              *)

\* The writes the phone d sends: those of the account the SDK works for.
Pending(d) == queue[d][fsUser[d]]

\* writeMutations: the writes ms join the queue of the account in the order
\* they were issued.
Enqueue(d, ms) ==
    queue' = [queue EXCEPT ![d][fsUser[d]] = @ \o ms]

\* The server applies the next write it was sent, or finds that the document
\* it needs is not there; after a failure it takes nothing more from this
\* connection.  A phone that is not signed in may be refused by the rules of
\* the database, which are not part of the repository.
Serve(d) ==
    LET n == Len(resp[d]) + 1 IN
    /\ n <= Len(Pending(d))
    /\ \A i \in DOMAIN resp[d] : resp[d][i].ok
    /\ LET m == Pending(d)[n] IN
       \/ /\ IsValidFor(m, docs[m.id])
          /\ docs' = [docs EXCEPT ![m.id] = applyTo(m, @)]
          /\ resp' = [resp EXCEPT ![d] = Append(@, [ok |-> TRUE, seen |-> FALSE])]
       \/ /\ ~IsValidFor(m, docs[m.id]) \/ fsUser[d] = None
          /\ docs' = docs
          /\ resp' = [resp EXCEPT ![d] = Append(@, [ok |-> FALSE, seen |-> FALSE])]
    /\ UNCHANGED <<accounts, fsUser, queue, cache, app, invited>>

\* writeStreamDidReceiveResponse: the oldest write leaves the queue and is
\* applied to the cached document, unless the cache was read from the server
\* after the server applied it.
ReceiveAck(d) ==
    /\ resp[d] # <<>>
    /\ Head(resp[d]).ok
    /\ LET m == Head(Pending(d)) IN
       cache' = [cache EXCEPT ![d][m.id] =
                    IF Head(resp[d]).seen THEN @ ELSE applyTo(m, @)]
    /\ queue' = [queue EXCEPT ![d][fsUser[d]] = Tail(@)]
    /\ resp' = [resp EXCEPT ![d] = Tail(@)]
    /\ UNCHANGED <<server, fsUser, app, invited>>

\* Fault: the write that failed is kept, as if it could succeed later.
RejectKeepsWrite(d) ==
    /\ resp[d] # <<>>
    /\ ~Head(resp[d]).ok
    /\ resp' = [resp EXCEPT ![d] = <<>>]
    /\ UNCHANGED <<server, fsUser, queue, cache, app, invited>>

\* handleWriteError: the write that failed is dropped, the rest is kept.
ReceiveReject(d) ==
    /\ resp[d] # <<>>
    /\ ~Head(resp[d]).ok
    /\ queue' = [queue EXCEPT ![d][fsUser[d]] = Tail(@)]
    /\ resp' = [resp EXCEPT ![d] = <<>>]
    /\ UNCHANGED <<server, fsUser, cache, app, invited>>

\* Fault: what was sent and not answered is given up.
InterruptForgets(d) ==
    /\ resp[d] # <<>>
    /\ resp' = [resp EXCEPT ![d] = <<>>]
    /\ queue' = [queue EXCEPT ![d][fsUser[d]] = <<>>]
    /\ UNCHANGED <<server, fsUser, cache, app, invited>>

\* Fault: what was sent and not answered is sent again after the rest.
InterruptRequeues(d) ==
    /\ resp[d] # <<>>
    /\ resp' = [resp EXCEPT ![d] = <<>>]
    /\ queue' = [queue EXCEPT ![d][fsUser[d]] = Append(Tail(@), Head(@))]
    /\ UNCHANGED <<server, fsUser, cache, app, invited>>

\* The connection breaks: what the server answered since is lost, and every
\* write still in the queue will be sent again.
Interrupt(d) ==
    /\ resp[d] # <<>>
    /\ resp' = [resp EXCEPT ![d] = <<>>]
    /\ UNCHANGED <<server, fsUser, queue, cache, app, invited>>

\* Fault: the old connection is kept.
UserDidChangeKeepsStream(d) ==
    /\ fsUser[d] # session[d]
    /\ fsUser' = [fsUser EXCEPT ![d] = session[d]]
    /\ UNCHANGED <<server, queue, resp, cache, app, invited>>

\* Fault: the queue of the account before is thrown away.
UserDidChangeClearsQueue(d) ==
    /\ fsUser[d] # session[d]
    /\ fsUser' = [fsUser EXCEPT ![d] = session[d]]
    /\ resp' = [resp EXCEPT ![d] = <<>>]
    /\ queue' = [queue EXCEPT ![d][fsUser[d]] = <<>>]
    /\ UNCHANGED <<server, cache, app, invited>>

\* Fault: only a sign-in from nobody, or a sign-out, counts as a change.
UserDidChangeFromNobody(d) ==
    /\ fsUser[d] # session[d]
    /\ None \in {fsUser[d], session[d]}
    /\ fsUser' = [fsUser EXCEPT ![d] = session[d]]
    /\ resp' = [resp EXCEPT ![d] = <<>>]
    /\ UNCHANGED <<server, queue, cache, app, invited>>

\* The notification of an account change reaches the SDK, which changes to
\* the queue of the new account and opens new connections.
UserDidChange(d) ==
    /\ fsUser[d] # session[d]
    /\ fsUser' = [fsUser EXCEPT ![d] = session[d]]
    /\ resp' = [resp EXCEPT ![d] = <<>>]
    /\ UNCHANGED <<server, queue, cache, app, invited>>

\* A document read from the server replaces the cached one; the answers on
\* their way to this phone about it have nothing to add.
CacheDoc(d, id) ==
    /\ cache' = [cache EXCEPT ![d][id] = docs[id]]
    /\ resp' = [resp EXCEPT ![d] =
                  [i \in DOMAIN @ |->
                     IF Pending(d)[i].id = id THEN [@[i] EXCEPT !.seen = TRUE]
                     ELSE @[i]]]

\* What the phone shows of a document, given what the server or the cache has.
View(d, id, base) == documentForKey(Pending(d), id, base)

-----------------------------------------------------------------------------
(* Accounts: sign-up, sign-in, sign-out.                                   *)

\* handleSignUp sends createUser and covers the screen until the completion.
handleSignUp(d) ==
    /\ screen[d] \in {"login", "signup"}
    /\ auth[d] = "idle"
    /\ auth' = [auth EXCEPT ![d] = "creating"]
    /\ UNCHANGED <<server, sdk, session, screen, removal, invited>>

\* The Auth server creates the account.  The phone hears of it and makes it
\* the current user, or the answer is lost and the person sees an error.
CreateUser(d, u) ==
    /\ auth[d] = "creating"
    /\ u \notin accounts
    /\ accounts' = accounts \cup {u}
    /\ \/ /\ session' = [session EXCEPT ![d] = u]
          /\ auth' = [auth EXCEPT ![d] = "created"]
       \/ /\ session' = session
          /\ auth' = [auth EXCEPT ![d] = "idle"]
    /\ UNCHANGED <<docs, sdk, screen, removal, invited>>

\* The completion of createUser.  Auth queues the notification of the account
\* change before the completion, so the SDK already works for the new
\* account and the document goes to its queue.
SignUpCompletion(d) ==
    /\ auth[d] = "created"
    /\ fsUser[d] = session[d]
    /\ Enqueue(d, <<setData(session[d])>>)
    /\ auth' = [auth EXCEPT ![d] = "idle"]
    /\ screen' = [screen EXCEPT ![d] = "main"]
    /\ UNCHANGED <<server, fsUser, resp, cache, session, removal, invited>>

handleLogin(d) ==
    /\ screen[d] = "login"
    /\ auth[d] = "idle"
    /\ auth' = [auth EXCEPT ![d] = "signingIn"]
    /\ UNCHANGED <<server, sdk, session, screen, removal, invited>>

SignIn(d, u) ==
    /\ auth[d] = "signingIn"
    /\ u \in accounts
    /\ session' = [session EXCEPT ![d] = u]
    /\ auth' = [auth EXCEPT ![d] = "signedIn"]
    /\ UNCHANGED <<server, sdk, screen, removal, invited>>

\* Fault: the completion overtakes the notification.
LoginCompletionAtOnce(d) ==
    /\ auth[d] = "signedIn"
    /\ auth' = [auth EXCEPT ![d] = "idle"]
    /\ screen' = [screen EXCEPT ![d] = "main"]
    /\ UNCHANGED <<server, sdk, session, removal, invited>>

\* The completion of signIn, after the notification like that of createUser.
LoginCompletion(d) ==
    /\ auth[d] = "signedIn"
    /\ fsUser[d] = session[d]
    /\ auth' = [auth EXCEPT ![d] = "idle"]
    /\ screen' = [screen EXCEPT ![d] = "main"]
    /\ UNCHANGED <<server, sdk, session, removal, invited>>

\* createUser or signIn returns an error: an alert, and the person may retry.
AuthError(d) ==
    /\ auth[d] \in {"creating", "signingIn"}
    /\ auth' = [auth EXCEPT ![d] = "idle"]
    /\ UNCHANGED <<server, sdk, session, screen, removal, invited>>

\* The logout entry of handleSetting.
signOut(d) ==
    /\ screen[d] = "main"
    /\ session' = [session EXCEPT ![d] = None]
    /\ screen' = [screen EXCEPT ![d] = "login"]
    /\ UNCHANGED <<server, sdk, auth, removal, invited>>

-----------------------------------------------------------------------------
(* Partners.                                                               *)

\* Fault: the own uid is written to both documents.
handleCodeOwnUid(d, code) ==
    /\ screen[d] = "main"
    /\ session[d] # None
    /\ Enqueue(d, <<updatePartner(code, session[d]),
                    updatePartner(session[d], session[d])>>)
    /\ invited' = invited \cup {<<session[d], code>>}
    /\ UNCHANGED <<server, fsUser, resp, cache, app>>

\* handleCode: the partner field of the code's document, then the own one,
\* as two separate writes; the screen says at once that it is done.
handleCode(d, code) ==
    /\ screen[d] = "main"
    /\ session[d] # None
    /\ Enqueue(d, <<updatePartner(code, session[d]),
                    updatePartner(session[d], code)>>)
    /\ invited' = invited \cup {<<session[d], code>>}
    /\ UNCHANGED <<server, fsUser, resp, cache, app>>

\* handlePartnerRemove, confirmed: the own document is requested.
handlePartnerRemove(d) ==
    /\ screen[d] = "main"
    /\ session[d] # None
    /\ removal[d].st = "idle"
    /\ removal' = [removal EXCEPT ![d] =
                     [st |-> "reading", uid |-> session[d], doc |-> NoDoc]]
    /\ UNCHANGED <<server, sdk, session, screen, auth, invited>>

\* getDocument answers with the server's document when online and with the
\* cached one when offline, in both cases overlaid with the writes still
\* waiting; an error reads as no document.
GetDocument(d) ==
    LET uid == removal[d].uid IN
    /\ removal[d].st = "reading"
    /\ \/ /\ CacheDoc(d, uid)
          /\ removal' = [removal EXCEPT ![d] =
                 [@ EXCEPT !.st = "fetched", !.doc = View(d, uid, docs[uid])]]
       \/ /\ UNCHANGED <<cache, resp>>
          /\ removal' = [removal EXCEPT ![d] =
                 [@ EXCEPT !.st = "fetched", !.doc = View(d, uid, cache[d][uid])]]
       \/ /\ fsUser[d] = None
          /\ UNCHANGED <<cache, resp>>
          /\ removal' = [removal EXCEPT ![d] = [@ EXCEPT !.st = "fetched"]]
    /\ UNCHANGED <<server, fsUser, queue, session, screen, auth, invited>>

\* The callback clears the partner's field and the own one, as two writes, in
\* the queue of whoever the SDK works for by now.
RemovalCallback(d) ==
    LET uid == removal[d].uid
        doc == removal[d].doc
    IN
    /\ removal[d].st = "fetched"
    /\ IF doc # NoDoc /\ UserDataPartner(doc) # None
       THEN Enqueue(d, <<updatePartner(UserDataPartner(doc), Absent),
                        updatePartner(uid, Absent)>>)
       ELSE queue' = queue
    /\ removal' = [removal EXCEPT ![d] = NoRemoval]
    /\ UNCHANGED <<server, fsUser, resp, cache, session, screen, auth, invited>>

\* handleWithdraw, confirmed: the document is deleted and the sign-up screen
\* covers the app.  The account stays, and stays signed in.
handleWithdraw(d) ==
    /\ screen[d] = "main"
    /\ session[d] # None
    /\ Enqueue(d, <<deleteDoc(session[d])>>)
    /\ screen' = [screen EXCEPT ![d] = "signup"]
    /\ UNCHANGED <<server, fsUser, resp, cache, session, auth, removal, invited>>

\* didUpdateLocations, on whatever screen (the map lies under the login and
\* sign-up screens), for whoever is signed in.
didUpdateLocations(d, l) ==
    /\ session[d] # None
    /\ Enqueue(d, <<updateLocation(session[d], l)>>)
    /\ UNCHANGED <<server, fsUser, resp, cache, app, invited>>

\* The documents the timer of the map reads: the own one, and the partner's
\* that it names.
Polled(d) ==
    LET own == View(d, session[d], docs[session[d]]) IN
    {session[d]} \cup (IF own = NoDoc THEN {} ELSE {UserDataPartner(own)} \ {None})

\* One of its two reads is answered.  What the map draws is not modelled here,
\* but the reads keep the cache fresh.
updatePin(d) ==
    /\ session[d] # None
    /\ \E id \in Polled(d) : CacheDoc(d, id)
    /\ UNCHANGED <<server, fsUser, queue, app, invited>>

\* The app is killed and started again: the keychain, the queues and the
\* cache survive, everything in progress is forgotten.
Relaunch(d) ==
    /\ fsUser' = [fsUser EXCEPT ![d] = session[d]]
    /\ resp' = [resp EXCEPT ![d] = <<>>]
    /\ auth' = [auth EXCEPT ![d] = "idle"]
    /\ removal' = [removal EXCEPT ![d] = NoRemoval]
    /\ screen' = [screen EXCEPT ![d] =
                    IF session[d] = None THEN "login" ELSE "main"]
    /\ UNCHANGED <<server, queue, cache, session, invited>>

-----------------------------------------------------------------------------

\* What a person does to a phone.
UserAction(d) ==
    \/ handleSignUp(d)
    \/ handleLogin(d)
    \/ signOut(d)
    \/ \E code \in DocId : handleCode(d, code)
    \/ handlePartnerRemove(d)
    \/ handleWithdraw(d)

\* What the app, its SDK and the servers do on their own.
SystemAction(d) ==
    \/ Serve(d)
    \/ ReceiveAck(d)
    \/ ReceiveReject(d)
    \/ UserDidChange(d)
    \/ \E u \in User : CreateUser(d, u) \/ SignIn(d, u)
    \/ SignUpCompletion(d)
    \/ LoginCompletion(d)
    \/ AuthError(d)
    \/ GetDocument(d)
    \/ RemovalCallback(d)

\* What befalls a phone.
Environment(d) ==
    \/ Interrupt(d)
    \/ Relaunch(d)
    \/ updatePin(d)
    \/ \E l \in Loc : didUpdateLocations(d, l)

Next == \E d \in Device : UserAction(d) \/ SystemAction(d) \/ Environment(d)

Spec == Init /\ [][Next]_vars

-----------------------------------------------------------------------------
(* Properties.                                                             *)

\* Every variable keeps its type.
TypeOK ==
    /\ docs \in [DocId -> MaybeDoc]
    /\ accounts \subseteq User
    /\ session \in [Device -> Owner]
    /\ fsUser \in [Device -> Owner]
    /\ queue \in [Device -> [Owner -> Seq(Mutation)]]
    /\ resp \in [Device -> Seq(Response)]
    /\ cache \in [Device -> [DocId -> MaybeDoc]]
    /\ screen \in [Device -> Screen]
    /\ auth \in [Device -> AuthState]
    /\ removal \in [Device -> Removal]
    /\ invited \subseteq User \X DocId

\* Every answer of the server is the answer to a write that is still waiting,
\* also right after the account changed or a write was dropped: this is what
\* lets writeStreamDidReceiveResponse take pendingWrites[0].
AnswersMatchPending == \A d \in Device : Len(resp[d]) <= Len(Pending(d))

\* While the main screen is in front somebody is signed in, and the SDK works
\* for that account: what handleCode and handleWithdraw write goes to the
\* queue of the person who tapped, however sign-in, sign-up, logout, and the
\* notifications between Auth and Firestore interleave.
MainIsSettled ==
    \A d \in Device :
        screen[d] = "main" => session[d] # None /\ fsUser[d] = session[d]

\* One of the two typed the code of the other.
Related(u, v) == <<u, v>> \in invited \/ <<v, u>> \in invited

NamesRelated(id, doc) ==
    doc # NoDoc /\ doc.partner \in DocId => Related(id, doc.partner)

\* Nobody becomes anybody's partner out of thin air: a document, on the
\* server or in the hands of handlePartnerRemove, names only someone who typed
\* this code or whose code was typed here, whatever was sent twice, rejected,
\* read from a stale cache, or written under another account.
PartnerProvenance ==
    /\ \A id \in DocId : NamesRelated(id, docs[id])
    /\ \A d \in Device : NamesRelated(removal[d].uid, removal[d].doc)
=============================================================================
