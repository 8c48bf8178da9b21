--------------------------- MODULE WritePipeline ---------------------------
(***************************************************************************)
(* The write path of the Firestore SDK on one phone, as the code has it: a *)
(* persistent queue of numbered batches per account with the id of the     *)
(* last batch acknowledged (FSTLevelDBMutationQueue), the results held     *)
(* back until the watch stream catches up (FSTLocalStore), the completion  *)
(* blocks (FSTSyncEngine), the pipeline of batches handed to the write     *)
(* stream (FSTRemoteStore) and the stream with its states, its handshake   *)
(* and its timers (FSTStream).                                             *)
(*                                                                         *)
(* All of it runs on one worker queue, so a handler is one step.  What     *)
(* interleaves is the order of the handlers: calls of the application,     *)
(* messages of the RPC, the token, the two timers, account changes,        *)
(* restarts.                                                               *)
(***************************************************************************)
EXTENDS Integers, Sequences, SequencesExt

CONSTANTS
    User,             \* the owners of queues
    Write,            \* what is written; no two writes are the same
    kMaxPendingWrites \* how many batches may be in the pipeline

ASSUME PipelineAssumption == kMaxPendingWrites \in Nat \ {0}
ASSUME WriteAssumption == "handshake" \notin Write

VARIABLES
    user,          \* the account the SDK works for
    rows,          \* disk: the batches of every account, in the order of ids
    lastAcked,     \* disk: lastAcknowledgedBatchId of every account
    nextBatchID,   \* the id of the next batch
    held,          \* heldBatchResults: acknowledged, still in the queue
    completion,    \* the completion blocks of every account, by batch
    lastBatchSeen, \* the id of the last batch taken into the pipeline
    pendingWrites, \* the pipeline
    stream,        \* the write stream and its RPC
    applied,       \* server: the writes applied, once or more often
    refused,       \* server: the writes refused
    issued         \* history: the writes of an account in the order of issue

disk    == <<rows, lastAcked>>
local   == <<nextBatchID, held, completion>>
remote  == <<lastBatchSeen, pendingWrites, stream>>
server  == <<applied, refused>>
vars    == <<user, disk, local, remote, server, issued>>

kFSTBatchIDUnknown == -1

Batch == [id : Nat, w : Write]

\* A stream that is stopped is dropped for a new one, so there is no state for
\* it.  requests and responses are what is on its way in the RPC.
StreamState == {"Initial", "Auth", "Open", "Error", "Backoff"}

Request  == {"handshake"} \cup Write
Response == {"handshake", "ok", "refused"}

NewStream ==
    [state |-> "Initial", handshakeComplete |-> FALSE, idleTimer |-> FALSE,
     requests |-> <<>>, responses |-> <<>>]

Issued(u) == {issued[u][i] : i \in DOMAIN issued[u]}

Init ==
    /\ user \in User
    /\ rows = [u \in User |-> <<>>]
    /\ lastAcked = [u \in User |-> kFSTBatchIDUnknown]
    /\ nextBatchID = 0
    /\ held = <<>>
    /\ completion = [u \in User |-> {}]
    /\ lastBatchSeen = kFSTBatchIDUnknown
    /\ pendingWrites = <<>>
    /\ stream = NewStream
    /\ applied = {}
    /\ refused = {}
    /\ issued = [u \in User |-> <<>>]

-----------------------------------------------------------------------------
(* The mutation queue.                                                     *)

\* How many batches of the queue q have an id of at most b.
Through(q, b) ==
    CHOOSE n \in 0..Len(q) : \A i \in DOMAIN q : q[i].id <= b <=> i <= n

\* The batches of the account that were not acknowledged.
Unacknowledged(u) ==
    SubSeq(rows[u], Through(rows[u], lastAcked[u]) + 1, Len(rows[u]))

removeMutationBatch(q, id) ==
    RemoveAt(q, CHOOSE i \in DOMAIN q : q[i].id = id)

\* The ids in use, of all accounts.
BatchIDs == UNION {{rows[u][i].id : i \in DOMAIN rows[u]} : u \in User}

\* Batch ids continue after the highest one in any queue.
loadNextBatchIDFromDB == 1 + Max(BatchIDs \cup {kFSTBatchIDUnknown})

\* Fault: the id acknowledged last is taken as it is.
ackedAtStartKept(u) == lastAcked[u]

\* What start makes of the id acknowledged last: in a queue that was emptied it
\* may be higher than the ids that come next.
ackedAtStart(u) ==
    IF lastAcked[u] >= loadNextBatchIDFromDB
    THEN kFSTBatchIDUnknown ELSE lastAcked[u]

\* Fault: the first batch that was not acknowledged goes with the others.
startMutationQueueRemovesNext(u) ==
    LET acked == ackedAtStart(u) IN
    /\ nextBatchID' = loadNextBatchIDFromDB
    /\ lastAcked' = [lastAcked EXCEPT ![u] = acked]
    /\ rows' = [rows EXCEPT ![u] =
                  SubSeq(@, Min({Through(@, acked + 1), Len(@)}) + 1, Len(@))]
    /\ held' = <<>>

\* startMutationQueue: the results held in memory are forgotten, and so are
\* the batches they belonged to.
startMutationQueue(u) ==
    LET acked == ackedAtStart(u) IN
    /\ nextBatchID' = loadNextBatchIDFromDB
    /\ lastAcked' = [lastAcked EXCEPT ![u] = acked]
    /\ rows' = [rows EXCEPT ![u] = SubSeq(@, Through(@, acked) + 1, Len(@))]
    /\ held' = <<>>

-----------------------------------------------------------------------------
(* The stream.                                                             *)

isStarted(s) == s.state \in {"Backoff", "Auth", "Open"}

\* After an error the stream waits before it starts, else it asks for a token.
startWithDelegate(s) ==
    [s EXCEPT !.state = IF @ = "Error" THEN "Backoff" ELSE "Auth",
              !.handshakeComplete = FALSE]

\* Fault: messages of the RPC that was closed still arrive.
closeKeepsCallbacks(s, finalState) ==
    [s EXCEPT !.state = finalState, !.idleTimer = FALSE, !.requests = <<>>]

\* The RPC is over: nothing of it is received any more.  handshakeComplete
\* stays until the next start.
closeWithFinalState(s, finalState) ==
    [s EXCEPT !.state = finalState, !.idleTimer = FALSE,
              !.requests = <<>>, !.responses = <<>>]

writeRequests(s, ms) ==
    [s EXCEPT !.requests = @ \o ms, !.idleTimer = FALSE]

markIdle(s) == [s EXCEPT !.idleTimer = @ \/ s.state = "Open"]

Writes(bs) == [i \in DOMAIN bs |-> bs[i].w]

-----------------------------------------------------------------------------
(* The pipeline.                                                           *)

\* Fault: the pipeline is filled from its beginning.
nextBatchesFromAcked(q, acked, seen, pending) ==
    LET n == Through(q, acked)
    IN  SubSeq(q, n + 1, Min({Len(q), n + kMaxPendingWrites - Len(pending)}))

\* The batches of the queue q the pipeline has room for: those after the last
\* one it has seen and the last one acknowledged.
nextBatches(q, acked, seen, pending) ==
    LET n == Through(q, Max({seen, acked}))
    IN  SubSeq(q, n + 1, Min({Len(q), n + kMaxPendingWrites - Len(pending)}))

\* commitBatch for each of them: the first one starts a stream that is not
\* started; a stream that has shaken hands sends them all.  Without anything
\* pending an open stream goes idle.
commitBatches(s, more, pending) ==
    IF more # <<>>
    THEN IF ~isStarted(s) THEN startWithDelegate(s)
         ELSE IF s.handshakeComplete THEN writeRequests(s, Writes(more))
         ELSE s
    ELSE IF pending = <<>> THEN markIdle(s) ELSE s

\* fillWritePipeline, for the queue q with the id acked, from a pipeline
\* <<seen, pending>> and a stream s.
fillWritePipeline(q, acked, seen, pending, s) ==
    LET more == nextBatches(q, acked, seen, pending) IN
    /\ pendingWrites' = pending \o more
    /\ lastBatchSeen' = IF more = <<>> THEN seen ELSE Last(more).id
    /\ stream' = commitBatches(s, more, pending)

\* startWriteStream, if there is something to write.
restartWriteStream(s, pending) ==
    IF ~isStarted(s) /\ pending # <<>> THEN startWithDelegate(s) ELSE s

-----------------------------------------------------------------------------
(* The application, and the account.                                       *)

\* writeMutations: the batch joins the queue, its completion block is kept,
\* and the pipeline is filled.
writeMutations(w) ==
    LET batch == [id |-> nextBatchID, w |-> w]
        q     == Append(rows[user], batch)
    IN
    /\ \A u \in User : w \notin Issued(u)
    /\ issued' = [issued EXCEPT ![user] = Append(@, w)]
    /\ nextBatchID' = nextBatchID + 1
    /\ rows' = [rows EXCEPT ![user] = q]
    /\ completion' = [completion EXCEPT ![user] = @ \cup {batch}]
    /\ fillWritePipeline(q, lastAcked[user], lastBatchSeen, pendingWrites, stream)
    /\ UNCHANGED <<user, lastAcked, held, server>>

\* userDidChange: the other account's queue is started, the stream is
\* stopped, and a new one is filled from the other queue.  Completion blocks
\* are kept.
userDidChange(u) ==
    /\ u # user
    /\ user' = u
    /\ startMutationQueue(u)
    /\ fillWritePipeline(rows'[u], lastAcked'[u], kFSTBatchIDUnknown, <<>>, NewStream)
    /\ UNCHANGED <<completion, server, issued>>

\* The app is killed and started again, for whoever is signed in then.
Relaunch(u) ==
    /\ user' = u
    /\ startMutationQueue(u)
    /\ completion' = [v \in User |-> {}]
    /\ fillWritePipeline(rows'[u], lastAcked'[u], kFSTBatchIDUnknown, <<>>, NewStream)
    /\ UNCHANGED <<server, issued>>

-----------------------------------------------------------------------------
(* Starting the stream.                                                    *)

\* The token arrives: the RPC is started and the handshake sent.
resumeStartWithToken ==
    /\ stream.state = "Auth"
    /\ stream' = [stream EXCEPT !.state = "Open", !.requests = <<"handshake">>,
                                !.idleTimer = FALSE]
    /\ UNCHANGED <<user, disk, local, lastBatchSeen, pendingWrites, server, issued>>

\* There is no token, the RPC breaks with a transient error, is closed without
\* an error, or fails before the handshake is complete: it starts again after
\* a while if anything is pending.
StreamFails ==
    /\ stream.state \in {"Auth", "Open"}
    /\ stream' = restartWriteStream(closeWithFinalState(stream, "Error"), pendingWrites)
    /\ UNCHANGED <<user, disk, local, lastBatchSeen, pendingWrites, server, issued>>

resumeStartFromBackoff ==
    /\ stream.state = "Backoff"
    /\ stream' = startWithDelegate(stream)
    /\ UNCHANGED <<user, disk, local, lastBatchSeen, pendingWrites, server, issued>>

\* The idle timer closes the stream; it will start without waiting.
handleIdleCloseTimer ==
    /\ stream.idleTimer
    /\ stream.state = "Open"
    /\ stream' = restartWriteStream(closeWithFinalState(stream, "Initial"), pendingWrites)
    /\ UNCHANGED <<user, disk, local, lastBatchSeen, pendingWrites, server, issued>>

-----------------------------------------------------------------------------
(* The server.                                                             *)

\* It answers the requests of the RPC in their order, and ends the RPC when it
\* refuses one.
Serve ==
    /\ stream.requests # <<>>
    /\ \A i \in DOMAIN stream.responses : stream.responses[i] # "refused"
    /\ LET r == Head(stream.requests)
           answer(a) ==
               stream' = [stream EXCEPT !.requests = Tail(@),
                                        !.responses = Append(@, a)]
       IN
       \/ r = "handshake" /\ answer("handshake") /\ UNCHANGED server
       \/ r \in Write /\ answer("ok") /\ applied' = applied \cup {r} /\ UNCHANGED refused
       \/ r \in Write /\ answer("refused") /\ refused' = refused \cup {r} /\ UNCHANGED applied
    /\ UNCHANGED <<user, disk, local, lastBatchSeen, pendingWrites, issued>>

-----------------------------------------------------------------------------
(* Its answers.  Whether a message is the answer to the handshake or to a  *)
(* write is told by handshakeComplete alone.                               *)

Received == [stream EXCEPT !.responses = Tail(@)]

\* The first message completes the handshake: all that is pending is sent.
writeStreamDidCompleteHandshake ==
    /\ stream.responses # <<>>
    /\ ~stream.handshakeComplete
    /\ stream' = writeRequests([Received EXCEPT !.handshakeComplete = TRUE],
                               Writes(pendingWrites))
    /\ UNCHANGED <<user, disk, local, lastBatchSeen, pendingWrites, server, issued>>

\* The completion block of a batch is called once.
processUserCallbacks(id) ==
    completion' = [completion EXCEPT ![user] = {b \in @ : b.id # id}]

\* A result is held while the watch stream is behind its version, or while
\* earlier results are held; else the batch leaves the queue at once.
acknowledgeBatch(batch) ==
    /\ lastAcked' = [lastAcked EXCEPT ![user] = batch.id]
    /\ \/ /\ held' = Append(held, batch)
          /\ rows' = rows
       \/ /\ held = <<>>
          /\ held' = held
          /\ rows' = [rows EXCEPT ![user] = removeMutationBatch(@, batch.id)]

\* Fault: the place in the pipeline is not filled.
ReceiveResponseWithoutFilling ==
    LET batch == Head(pendingWrites) IN
    /\ stream.responses # <<>>
    /\ Head(stream.responses) # "refused"
    /\ stream.handshakeComplete
    /\ processUserCallbacks(batch.id)
    /\ acknowledgeBatch(batch)
    /\ pendingWrites' = Tail(pendingWrites)
    /\ stream' = Received
    /\ UNCHANGED <<user, nextBatchID, lastBatchSeen, server, issued>>

\* writeStreamDidReceiveResponse: the answer belongs to the first pending
\* batch; its place in the pipeline is filled.
writeStreamDidReceiveResponse ==
    LET batch == Head(pendingWrites) IN
    /\ stream.responses # <<>>
    /\ Head(stream.responses) # "refused"
    /\ stream.handshakeComplete
    /\ processUserCallbacks(batch.id)
    /\ acknowledgeBatch(batch)
    /\ fillWritePipeline(rows'[user], batch.id, lastBatchSeen, Tail(pendingWrites), Received)
    /\ UNCHANGED <<user, nextBatchID, server, issued>>

\* handleWriteError: the RPC ends with a permanent error, which is the answer
\* to the first pending batch.  The batch is dropped and the rest is sent
\* again, without waiting.
handleWriteError ==
    LET batch == Head(pendingWrites)
        q     == removeMutationBatch(rows[user], batch.id)
        rest  == Tail(pendingWrites)
        more  == nextBatches(q, lastAcked[user], lastBatchSeen, rest)
        s     == closeWithFinalState(stream, "Initial")
    IN
    /\ stream.responses # <<>>
    /\ Head(stream.responses) = "refused"
    /\ stream.handshakeComplete
    /\ pendingWrites # <<>>
    /\ processUserCallbacks(batch.id)
    /\ rows' = [rows EXCEPT ![user] = q]
    /\ pendingWrites' = rest \o more
    /\ lastBatchSeen' = IF more = <<>> THEN lastBatchSeen ELSE Last(more).id
    /\ stream' = restartWriteStream(commitBatches(s, more, rest), rest \o more)
    /\ UNCHANGED <<user, lastAcked, nextBatchID, held, server, issued>>

\* The watch stream catches up with the first n results held, or the last
\* listener goes away: their batches leave the queue.
releaseHeldBatchResults(n) ==
    /\ held' = SubSeq(held, n + 1, Len(held))
    /\ rows' = [rows EXCEPT ![user] = SubSeq(@, n + 1, Len(@))]
    /\ UNCHANGED <<user, lastAcked, nextBatchID, completion, remote, server, issued>>

-----------------------------------------------------------------------------

Next ==
    \/ \E w \in Write : writeMutations(w)
    \/ \E u \in User : userDidChange(u) \/ Relaunch(u)
    \/ resumeStartWithToken
    \/ resumeStartFromBackoff
    \/ StreamFails
    \/ handleIdleCloseTimer
    \/ Serve
    \/ writeStreamDidCompleteHandshake
    \/ writeStreamDidReceiveResponse
    \/ handleWriteError
    \/ \E n \in 1..Len(held) : releaseHeldBatchResults(n)

Spec == Init /\ [][Next]_vars

-----------------------------------------------------------------------------
(* Properties.                                                             *)

\* Every variable keeps its type.
TypeOK ==
    /\ user \in User
    /\ rows \in [User -> Seq(Batch)]
    /\ lastAcked \in [User -> Nat \cup {kFSTBatchIDUnknown}]
    /\ nextBatchID \in Nat
    /\ held \in Seq(Batch)
    /\ completion \in [User -> SUBSET Batch]
    /\ lastBatchSeen \in Nat \cup {kFSTBatchIDUnknown}
    /\ pendingWrites \in Seq(Batch)
    /\ stream \in [state : StreamState, handshakeComplete : BOOLEAN,
                   idleTimer : BOOLEAN, requests : Seq(Request),
                   responses : Seq(Response)]
    /\ applied \subseteq Write
    /\ refused \subseteq Write
    /\ issued \in [User -> Seq(Write)]

\* The pipeline skips and repeats nothing: it holds the batches that follow
\* those whose results are held, in the order of the queue, and it is full
\* unless it holds all of them.
PipelineIsPrefix ==
    LET n == Len(held) + Len(pendingWrites) IN
    /\ n <= Len(rows[user])
    /\ held \o pendingWrites = SubSeq(rows[user], 1, n)
    /\ Len(pendingWrites) <= kMaxPendingWrites
    /\ Len(pendingWrites) < kMaxPendingWrites => n = Len(rows[user])

\* What the server was sent on this connection and has not answered, after
\* what it has answered, is exactly the pipeline: pendingWrites[0] is the
\* batch the next answer belongs to, and nothing sent is forgotten.
AnswersMatchPipeline ==
    stream.handshakeComplete /\ stream.state = "Open" =>
        /\ Len(stream.responses) + Len(stream.requests) = Len(pendingWrites)
        /\ \A i \in DOMAIN stream.requests :
              stream.requests[i] = pendingWrites[Len(stream.responses) + i].w

\* The assertions of the code on its way.  An answer finds a batch, after the
\* one acknowledged last (acknowledgeBatch, rejectBatchID); mutations are sent
\* on an open stream (writeMutations); start resets the acknowledged id of an
\* empty queue only.
AssertionsHold ==
    /\ stream.responses # <<>> /\ stream.handshakeComplete =>
          /\ pendingWrites # <<>>
          /\ Head(pendingWrites).id > lastAcked[user]
    /\ isStarted(stream) /\ stream.handshakeComplete => stream.state = "Open"
    /\ \A u \in User :
          lastAcked[u] >= loadNextBatchIDFromDB => rows[u] = <<>>

\* A completion block waits for a batch that is in the queue, not
\* acknowledged, and is the one the block was made for, though ids are used
\* again after a queue was emptied.
CompletionsMatch ==
    \A u \in User : \A b \in completion[u] :
        /\ b.id > lastAcked[u]
        /\ \E i \in DOMAIN rows[u] : rows[u][i] = b

\* While anything is pending the stream is on its way; the idle timer never
\* runs then.
NeverStuck ==
    pendingWrites # <<>> => isStarted(stream) /\ ~stream.idleTimer

\* The pipeline with its stream and its completion blocks at any moment: it is
\* a part of the queue without gaps, an answer belongs to its first batch and
\* calls that batch's block, and what is pending has a stream.
PipelineInv ==
    TypeOK /\ PipelineIsPrefix /\ AnswersMatchPipeline /\ CompletionsMatch /\ NeverStuck

\* The abstract queue: the batches that were not acknowledged.  Its answers
\* are those on their way after the handshake.
WQ == INSTANCE WriteQueue WITH
          queue <- [u \in User |-> Writes(Unacknowledged(u))],
          resp  <- IF stream.handshakeComplete
                   THEN [i \in DOMAIN stream.responses |->
                            stream.responses[i] = "ok"]
                   ELSE <<>>

\* The pipeline, with its ids, its stream and its restarts, does what the
\* abstract queue promises.
ImplementsQueue == WQ!Spec

\* A write that left its queue was applied or refused by the server, and no
\* write overtook an earlier one of its account there: across failures of the
\* stream, changes of the account and restarts.
NothingLost == WQ!NothingLost /\ WQ!NoOvertaking
=============================================================================
