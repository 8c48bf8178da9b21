--------------------------- MODULE MCWritePipeline --------------------------
(***************************************************************************)
(* WritePipeline for TLC, with fairness.  Accounts and writes are          *)
(* interchangeable, so one account is the first and the writes are issued  *)
(* in one order: this is the symmetry reduction, which TLC's own would not *)
(* allow with liveness.                                                    *)
(***************************************************************************)
EXTENDS WritePipeline

CONSTANT First   \* the account at the start

WriteOrder == <<"w1", "w2", "w3">>

InOrder ==
    \A u \in User, i \in DOMAIN WriteOrder :
        WriteOrder[i] \in Issued(u)' =>
            \A j \in 1..i : \E v \in User : WriteOrder[j] \in Issued(v)'

MCInit == Init /\ user = First
MCNext == Next /\ InOrder

\* The worker queue and its timers run.  Tokens come, and the server answers,
\* again and again: connections may break for ever, but not always before
\* the answer.
FairSpec ==
    /\ MCInit /\ [][MCNext]_vars
    /\ WF_vars(resumeStartFromBackoff)
    /\ SF_vars(resumeStartWithToken)
    /\ SF_vars(Serve /\ Head(stream.requests) = "handshake")
    /\ SF_vars(Serve /\ Head(stream.requests) # "handshake")
    /\ SF_vars(writeStreamDidCompleteHandshake)
    /\ SF_vars(writeStreamDidReceiveResponse \/ handleWriteError)

\* The queue of an account that stays signed in drains, whatever was refused
\* or sent twice, and however often the stream failed, idled or the app was
\* started again.
PipelineDrains ==
    \A u \in User : <>[](user = u) => <>[](Unacknowledged(u) = <<>>)
=============================================================================
