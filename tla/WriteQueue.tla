----------------------------- MODULE WriteQueue -----------------------------
(***************************************************************************)
(* What the write path of the Firestore SDK promises to the application on *)
(* one phone: every account has a queue of writes; the writes of the       *)
(* account the SDK works for go to the server one after the other, and a   *)
(* write leaves the queue when its own answer arrives.  A broken           *)
(* connection, a restart or a change of the account loses the answers on   *)
(* their way, and nothing else.                                            *)
(*                                                                         *)
(* Pairing uses this picture of the write path.  WritePipeline, which has  *)
(* the batch ids, the pipeline and the stream of the code, implements it.  *)
(***************************************************************************)
EXTENDS Naturals, Sequences

CONSTANTS
    User,   \* the owners of queues; one of them stands for nobody signed in
    Write   \* what is written; no two writes are the same

VARIABLES
    user,      \* the account the SDK works for
    queue,     \* the writes of every account that were not answered
    resp,      \* the answers on their way, oldest first; FALSE: refused
    applied,   \* the writes the server has applied, once or more often
    refused,   \* the writes the server has refused
    issued     \* history: every write of an account, in the order of issue

vars == <<user, queue, resp, applied, refused, issued>>

Issued(u) == {issued[u][i] : i \in DOMAIN issued[u]}

Init ==
    /\ user \in User
    /\ queue = [u \in User |-> <<>>]
    /\ resp = <<>>
    /\ applied = {}
    /\ refused = {}
    /\ issued = [u \in User |-> <<>>]

\* The application writes, for the account the SDK works for.
Enqueue(w) ==
    /\ \A u \in User : w \notin Issued(u)
    /\ queue' = [queue EXCEPT ![user] = Append(@, w)]
    /\ issued' = [issued EXCEPT ![user] = Append(@, w)]
    /\ UNCHANGED <<user, resp, applied, refused>>

\* The server takes the first write it has not answered.  After a refusal it
\* takes nothing more from this connection.
Serve ==
    LET n == Len(resp) + 1 IN
    /\ n <= Len(queue[user])
    /\ \A i \in DOMAIN resp : resp[i]
    /\ LET w == queue[user][n] IN
       \/ /\ applied' = applied \cup {w}
          /\ refused' = refused
          /\ resp' = Append(resp, TRUE)
       \/ /\ applied' = applied
          /\ refused' = refused \cup {w}
          /\ resp' = Append(resp, FALSE)
    /\ UNCHANGED <<user, queue, issued>>

\* The answer to the first write arrives.
Acknowledge ==
    /\ resp # <<>>
    /\ Head(resp)
    /\ resp' = Tail(resp)
    /\ queue' = [queue EXCEPT ![user] = Tail(@)]
    /\ UNCHANGED <<user, applied, refused, issued>>

\* It is a refusal: the write is dropped, and the connection with it.
Reject ==
    /\ resp # <<>>
    /\ ~Head(resp)
    /\ resp' = <<>>
    /\ queue' = [queue EXCEPT ![user] = Tail(@)]
    /\ UNCHANGED <<user, applied, refused, issued>>

\* A new connection, for the same account or for another one.
Reconnect(u) ==
    /\ user' = u
    /\ resp' = <<>>
    /\ UNCHANGED <<queue, applied, refused, issued>>

Next ==
    \/ \E w \in Write : Enqueue(w)
    \/ Serve
    \/ Acknowledge
    \/ Reject
    \/ \E u \in User : Reconnect(u)

Spec == Init /\ [][Next]_vars

-----------------------------------------------------------------------------
(* Properties.                                                             *)

\* Every variable keeps its type.
TypeOK ==
    /\ user \in User
    /\ queue \in [User -> Seq(Write)]
    /\ resp \in Seq(BOOLEAN)
    /\ applied \subseteq Write
    /\ refused \subseteq Write
    /\ issued \in [User -> Seq(Write)]

\* Nothing is lost: a write that is no longer in its queue was applied, or
\* refused, by the server.
NothingLost ==
    \A u \in User : \A w \in Issued(u) :
        \/ \E i \in DOMAIN queue[u] : queue[u][i] = w
        \/ w \in applied \cup refused

\* No write overtakes another of the same account: when the server has
\* applied a write, it had each earlier one before it.
NoOvertaking ==
    \A u \in User : \A i, j \in DOMAIN issued[u] :
        i < j /\ issued[u][j] \in applied => issued[u][i] \in applied \cup refused
=============================================================================
