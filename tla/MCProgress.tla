----------------------------- MODULE MCProgress -----------------------------
(***************************************************************************)
(* What must happen in Pairing when the network comes back and the main    *)
(* queues of the phones run: on bounded instances, so that broken          *)
(* connections and restarts come to an end.                                *)
(***************************************************************************)
EXTENDS MCPairing

\* Two people and two operations, or one with a break; one phone that signs up
\* or in again and again.
ProgressBudgets ==
    Two(User, 2, 2, 0) \cup Two(User, 1, 2, 1) \cup
    {[phones |-> {CHOOSE d \in Device : TRUE}, accounts |-> OneUser,
      codes |-> User, places |-> Loc,
      ops |-> 1, logins |-> 3, polls |-> 0, breaks |-> 1]}

Uncounted(A) == A /\ UNCHANGED <<left, history>>

\* The write stream: it is opened again with backoff as long as writes wait.
Network(d) == Uncounted(Serve(d) \/ ReceiveAck(d) \/ ReceiveReject(d))

\* The Auth server answers, or the request times out.
AuthServer(d) ==
    \/ \E u \in User : MCCreateUser(d, u)
    \/ Uncounted((\E u \in User : SignIn(d, u)) \/ AuthError(d))

\* getDocument answers, from the cache when the server cannot be reached.
Read(d) == Uncounted(GetDocument(d))

\* Blocks dispatched to the main queue run.
MainQueue(d) ==
    \/ Uncounted(UserDidChange(d) \/ SignUpCompletion(d) \/ LoginCompletion(d))
    \/ MCRemovalCallback(d)

Fairness ==
    \A d \in Device : /\ WF_mcvars(Network(d))
                      /\ WF_mcvars(AuthServer(d))
                      /\ WF_mcvars(Read(d))
                      /\ WF_mcvars(MainQueue(d))

FairSpec == MCSpec /\ Fairness

-----------------------------------------------------------------------------
(* Properties.                                                             *)

\* The writes of an account are all answered while the SDK works for it, also
\* when one of them is rejected or the connection breaks (fillWritePipeline,
\* handleWriteError).
QueueDrains ==
    \A d \in Device, o \in Owner :
        (fsUser[d] = o /\ queue[d][o] # <<>>)
            ~> (fsUser[d] # o \/ queue[d][o] = <<>>)

\* The cover that handleSignUp and handleLogin put over the screen goes away:
\* the completion always runs, also when another account was signed in before.
SignInEnds == \A d \in Device : auth[d] # "idle" ~> auth[d] = "idle"

\* Both documents name the other.
Named(b) ==
    \A u \in b : docs[u] # NoDoc /\ docs[u].partner \in (IF b = {u} THEN b ELSE b \ {u})

\* A write about b waits for its account to sign in again on its phone.
Parked(b) ==
    \E d \in Device, o \in Owner :
        o # fsUser[d] /\ \E m \in Range(queue[d][o]) : m.id \in b

\* A pairing that nobody contests takes effect on both sides, unless its
\* phone signed out first (handleCode).
PairingTakesEffect ==
    \A b \in {{u, v} : u, v \in User} :
        (b \in bond) ~> (b \notin bond \/ Named(b) \/ Parked(b))
=============================================================================
