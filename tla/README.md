# coco: a verification of pairing over Firestore

coco is an iOS application for two people who want to see each other on a map.
Each person has an account; the account's document in the Firestore collection
`users` holds the uid of the partner and the last position. A person invites the
other by sending the own uid (the "invitation code"); who types it becomes the
partner. There is no server code: phones write each other's documents through the
Firestore SDK, whose source is vendored under `src/sirube/Pods` and is part of
what is modelled where the application depends on it.

Paths below are relative to `src/sirube/coco` (the application) and
`src/sirube/Pods` (the libraries).

## 1. The system

| Part | State | Operations | Talks to |
|---|---|---|---|
| Accounts (`login/SignUpController`, `login/LoginController`, FirebaseAuth `FIRAuth.m`) | the accounts at the server; per phone the current user, kept in the keychain | sign-up, login, logout, notification of a change | Firestore SDK (notification on the main queue), screens |
| Documents (`others/UserData`, Firestore `FSTMutation.mm`) | one document per account: partner, position, constants | `setData` at sign-up, `updateData` of partner or position, `delete` | written by all the parts below |
| Invitation codes, dissolving, withdrawing (`userProfile/UserProfileController`) | a read in progress (dissolving) | `handleCode`, `handlePartnerRemove`, `handleWithdraw` | writes its own *and the partner's* document |
| Map (`map/MapController`) | a pin, a timer, reads in flight; a new controller at every login, the old ones go on | report of the position, poll of the partner twice a second | reads both documents, writes its own |
| Firestore write path (`FSTFirestoreClient`, `FSTSyncEngine`, `FSTLocalStore`, `FSTRemoteStore`, `FSTStream`, `FSTLevelDBMutationQueue`) | a persistent queue of numbered batches per account, results held back, a pipeline of batches sent, the write stream, completion blocks | enqueue, send, acknowledge, reject, resend, idle close, change account, restart | the server; the cache; leveldb |
| Firestore read path (`FIRDocumentReference`, `FSTEventManager`, `FSTOnlineStateTracker`, `FSTLocalDocumentsView`) | listeners by query, the watch stream, the online state with its timer, a persistent cache of documents | `getDocument`: from the server or the cache, overlaid with the queue; going online and offline | callbacks of the application on the main queue |
| Firestore's transactions (`leveldb_transaction.cc`) | puts and deletions that were not committed, an iterator over both | put, delete, get, seek, next, commit | leveldb |
| leveldb, log (`db/log_writer.cc`, `db/log_reader.cc`) | a file of blocks and fragments | append a record, read all of them back | the file system |
| leveldb, storage engine (`db/db_impl.cc`, `db/version_set.cc`) | writers in a queue, two memtables, tables in levels, the MANIFEST | write, get, flush, compact, delete files, recover | the log; one background thread |
| leveldb, memtable list and open tables (`db/skiplist.h`, `util/cache.cc`, `db/table_cache.cc`) | a list that is read without a lock; reference-counted tables | insert, seek, next, prev; find, open, release, evict | the engine's threads |
| Screens (`others/MainTabBarController`) | which screen is in front, the progress cover | present, dismiss | accounts |
| Terms, extensions, delegate | none | a web page, colours, configuration | not modelled |

What is hard about it:

* **Two documents, two writes.** Pairing and dissolving change two documents by two
  independent writes that nobody awaits. Each can be rejected, delayed, or sent again
  alone, and the other person can be writing the same two documents.
* **At-least-once delivery.** A write whose answer was lost is sent again, on top of
  whatever has happened since.
* **Offline queues per account.** A write waits in the queue of the account the SDK
  believes to be signed in, survives logout and restart, and is sent when that account
  signs in again on that phone.
* **Two notions of the current user.** FirebaseAuth changes `currentUser` at once,
  Firestore hears of it in a block on the main queue.
* **Read, then write in a callback.** `handlePartnerRemove` acts on a document that may
  be cached, overlaid with local writes, out of date, or of an account that has since
  signed out.
* **Crashes** between the creation of an account and the write of its document; at any
  step of the storage engine, the recovery from an earlier crash included.
* **A stream that dies and comes back** with a handshake, a back-off, an idle timer and
  callbacks of the call before; batch ids that start again after a restart.
* **Waiting with a timeout.** A read is answered by the server, or from the cache when the
  tracker gives the server up: timer, failures and first message race.
* **Shared memory without locks**: a reader of leveldb takes references under the mutex
  and reads without it, while memtables, tables and files are replaced.
* **An iterator over what is being edited**: a transaction deletes the rows it walks over.

What makes each part correct:

* documents: the copy a phone shows is the replay of its queue; answering a write or
  sending it again changes nothing by itself;
* write path: answers belong to writes that still wait; everything is answered in the
  end; nothing is lost by an account change, a restart or a break;
* accounts: on the main screen the SDK and Auth agree on who is signed in; a completed
  sign-up is never lost; the progress cover goes away;
* partners: nobody is named as a partner without a code having been typed; two people
  who agree, and whom nobody contests, end up naming each other; who has withdrawn does
  not come back;
* map: the position that is stored is the last one reported; the pin is the partner's,
  and the map in front is that of who is signed in;
* read path: every `getDocument` is answered, once;
* transactions: a transaction reads its own writes, and a scan misses nothing;
* storage engine: a batch is applied whole and in order, a read sees the latest entry as of
  its beginning, a crash of the process loses nothing, every write returns; a cut log gives
  back a prefix of its records;
* memtable list and open tables: a search without a lock is exact; no table is closed under
  a reader, or open for ever.

`PROJECT.json` lists the hazards with the line where each bites and the properties
that look at it.

## 2. The modules

| Module | What it is |
|---|---|
| `UserDocs` | pure operators: documents, the application's writes, `applyTo`, and `documentForKey`, what a phone shows: the writes of its queue applied one by one |
| `MCUserDocs` | every queue up to a length over every document |
| `Pairing` | the system: phones, the two servers, one action per handler or step |
| `MCPairing` | `Pairing` with a budget that bounds it, and with the history its properties need |
| `MCProgress` | fairness and liveness over `MCPairing` |
| `MapPolling` | the timer of the map, its two nested reads, the pin |
| `MapScreens` | the map controllers of one run of the application, and who is signed in |
| `WriteQueue` | abstract: what the write path promises, the picture `Pairing` uses |
| `WritePipeline`, `MCWritePipeline` | the write path of the SDK; fairness; it implements `WriteQueue` |
| `OnlineState` | listeners, the watch stream, the online state, the callbacks of reads |
| `TransactionView` | abstract: a table that is edited, and a cursor |
| `LevelDbTransaction`, `MCLevelDbTransaction` | Firestore's transaction and its iterator; the history of a scan; it implements `TransactionView` |
| `LogFile` | leveldb's log format, written, cut or damaged, and read back |
| `DurableStore` | abstract: a store that applies batches whole, in order and for good |
| `LevelDb`, `MCLevelDb`, `MCLevelDbFiles` | leveldb's storage engine; the batches of the runs; the scenarios for its files; it implements `DurableStore` |
| `SkipList` | the list of a memtable, one inserter and a reader without a lock |
| `TableCache` | the cache of open tables, its readers and the deletion of files |
| `MCLevelDbParts` | `SkipList`, `TableCache` and `LogFile` side by side, for one run; they name nothing alike, so a module may extend all three |
| `PairingProofs` | types, the invariants of the write path and of the accounts, and who may be named as a partner, of `Pairing`; that its bounded instances are instances of it, and that sign-ups, withdrawals, agreements and positions survive, of `MCPairing`; what the operators of `UserDocs` compute, of `MCUserDocs`; proved |
| `MapPollingProofs` | where the pin may be, and that it never goes back, proved |
| `MapScreensProofs` | the map in front belongs to who is signed in, proved |
| `OnlineStateProofs` | the safety of the read path, proved |
| `WritePipelineProofs` | the safety of the write path, and that it implements `WriteQueue`, proved |
| `LevelDbTransactionProofs` | the transaction implements `TransactionView`, and scans miss nothing, proved |
| `LevelDbPartsProofs` | open tables and their files are there while they are used, and few, of `TableCache`; what a log that is cut or damaged gives back, of `LogFile`; the list of a memtable is sound, and its searches are exact, of `SkipList`; proved |
| `LevelDbProofs` | acknowledged writes are logged, files that are needed are there, a read finds the latest, the files hold what was written, the engine implements `DurableStore`; proved |

### How `Pairing` corresponds to the code

State. `docs` and `accounts` are the two servers. Of a phone: `session` is
`Auth.currentUser` (keychain), `fsUser` the user of the Firestore client, `queue` the
mutation queue of every account (`FSTLevelDBMutationQueue`; a write is a batch of one
mutation), `resp` the answers of the server that are on their way, `cache` the remote
document cache, `screen` and `auth` the screen in front and the request under its
cover, `removal` the read of `handlePartnerRemove`. `invited` is history.

| Action | Code |
|---|---|
| `handleSignUp`, `CreateUser`, `SignUpCompletion` | `SignUpController.handleSignUp`: the request, the server's part with the change of the current user, the completion that writes the document |
| `handleLogin`, `SignIn`, `LoginCompletion` | `LoginController.handleLogin`, likewise |
| `AuthError` | the error branches of both |
| `signOut` | the logout entry of `UserProfileController.handleSetting` |
| `handleCode` | the two `updateData` calls, in their order |
| `handlePartnerRemove`, `GetDocument`, `RemovalCallback` | the confirmed alert, the answer to the read, the callback with its two writes |
| `handleWithdraw` | the deletion and the sign-up screen |
| `didUpdateLocations`, `updatePin` | the report of the position; the reads of the timer, as far as they refresh the cache |
| `Enqueue` | `writeMutations` down to `locallyWriteMutations` |
| `Serve` | the server (external): the next write of the stream is applied, or refused |
| `ReceiveAck`, `ReceiveReject` | `writeStreamDidReceiveResponse`, `handleWriteError` |
| `Interrupt` | the write stream breaks: `writeStreamWasInterrupted` with a transient error |
| `UserDidChange` | the notification, through the credentials provider to `FSTRemoteStore userDidChange:` |
| `Relaunch` | the process dies and starts again |

Definitions whose comment begins with "Fault:" are not part of the model: they are
variants with a plausible bug, listed in `PROJECT.json` under `mutants`, with which the
runs show that their properties can fail.

Decisions worth knowing:

* Auth dispatches its notification to the main queue before the completion of the
  request, so the SDK works for the new account when `setData` is called
  (`SignUpCompletion` waits for `fsUser = session`). Between the change of
  `currentUser` and the notification other code runs: `didUpdateLocations` does.
* The map controller exists from the launch on, also below the login screen
  (`MainTabBarController.viewDidLoad` sets it up before it looks at the current user),
  so positions are reported on every screen.
* An acknowledged write leaves the queue and is applied to the cache, unless the cache
  was read from the server after the server had applied it (`seen`). The SDK instead
  holds the result until the watch stream catches up; the overlay shows the same.
* What happens to a write on a stream that breaks is decided when it breaks: the server
  had applied it or it will not. A request that is applied after the client has sent it
  again on a new connection is not modelled.
* The security rules of the database are not in the repository. A signed-in person may
  write both documents (the application cannot work otherwise); a phone that is not
  signed in may be refused (`Serve`).
* One read of `handlePartnerRemove` is in flight per phone.
* During a sign-up or a login the progress cover takes all touches.

### How `MapPolling` corresponds to the code

One phone whose user stays signed in. `docs` holds every version of the own document
(whom it names) and of the others' (`"here"` at the position of that version, or
`"gone"`); the documents of `Pairing` say only what is there now, which cannot express
that something old is shown. The phone has a version of every document (`cache`), reads
that wait (`reads`), answers on their way (`answer`) and callbacks in the main queue
(`main`). `updatePin` starts the first read, `OwnCallback` is its callback, which starts
the second, `PartnerCallback` is the callback of that, which moves the `pin`. `Listen`,
`Arrive` and `AnswerFromCache` are `getDocument` under the listeners of the SDK: reads of
one document that overlap share a listen; an answer older than what the phone has is
ignored (`applyRemoteEvent`); a phone that is offline answers from the cache, or with an
error. `StreamBreaks` loses what was on its way. The writes are the world: `Written` by
anybody, `WrittenHere` by the own phone, which shows its write from then on (the wait
for the answer is part of `Pairing`). `MaxOwn` bounds the versions of the own document,
`MaxChanges` the changes of all the others together.

### How `MapScreens` corresponds to the code

`MainTabBarController.setupViewController` makes a `MapController` at the launch and at
every completed login or sign-up (`LoginCompletion`); it replaces the one before in the tab
bar, but the repeating timer started in `viewDidLoad` retains its target and is never
invalidated, so all of them poll (`updatePin(i)` for every `i`), for whoever `Auth` says is
signed in. `maps` is the list of controllers, each the account whose document named the
partner its pin shows; `reads` are in flight and carry the account that was current when
they began. Logging out and withdrawing leave the reads.

### How `WritePipeline` corresponds to the code

Everything in `FSTSyncEngine`, `FSTLocalStore`, `FSTRemoteStore` and `FSTStream` runs on one
worker queue, so one handler is one action; operators with the names of the methods take
and give the part of the state they change. `rows` and `lastAcked` are on disk and survive
`Relaunch`. `startMutationQueue` has what a start does to them: the next batch id comes from
the rows of *all* accounts, the last acknowledged id is reset when its queue is empty, and
batches that were acknowledged and held are removed. `fillWritePipeline` is called wherever
the code calls it. `Serve` is the server: it answers requests of the stream in order, with
the handshake first; `StreamFails` drops the requests and answers of the call that ended. A
write may be refused for good (`handleWriteError`); a handshake that fails is one more
failure of the stream. The stream token, which only the server reads, is left out. The refinement maps the queue of an account to what is above the last
acknowledged id, and an answer to one of the stream that belongs to a write: held results
are already answers for `WriteQueue`.

### How `OnlineState` corresponds to the code

`tracker` is `FSTOnlineStateTracker` (state, failures, timer), `watch` and `idle` the watch
stream, `view` the queries of `FSTSyncEngine` with what `FSTView` knows of them,
`listeners` those of `FSTEventManager`, `get` the calls of `getDocument` with the events
that were sent to the main queue. `Interrupted`, which counts a failure and starts the
stream again while there are targets, is shared by the failed token, the end of the call and
the idle close, as in the code. `Raise` is an event: the first answers, later ones find the
listener muted. The account changes by `userDidChange`, at which the code stops and starts
the stream and starts the tracker anew. What a document holds is left out: the answer is
"server", "cache" or "error".

### How `LevelDbTransaction` corresponds to the code

`mutations` and `deletions` are the two containers, `version` counts edits, `it` is the one
iterator in use with its positions in leveldb and in `mutations`; every method of the class
is an action or an operator of its name. The iterator notices edits by `version` and finds
its place again (`SyncToTransaction`). The two `Put`s differ in the code and in the model.
The refinement maps the transaction to one table, the committed rows with its changes.

### How `LogFile` corresponds to the code

The file is a sequence of bytes, so that it can be cut at every one; a byte of a header
carries what the header says, a byte of payload where it comes from. `EmitPhysicalRecord`,
`ReadPhysicalRecord` and their fragments follow the code step by step. `Cut` leaves a prefix,
`Hole` is a range of zeros (blocks a file system never wrote). A checksum is taken to match
exactly what was written.

### How `LevelDb` corresponds to the code

What runs under `mutex_` is one action, and every release of it ends one: a write is
queued (`Write`), the first of the queue makes room (`WaitForRoom`, `SwitchMemTable`),
builds its group (`BuildBatchGroup`), writes the log (`AddRecord`), inserts
(`InsertInto`) and answers (`FinishWrite`); the background thread starts a flush or a merge,
writes tables (`MergeOutput`, in the middle of which it may flush), writes the MANIFEST
and installs the version, which deletes obsolete files; a reader takes its references
(`StartGet`) and reads later (`FinishGet`). `Crash` keeps the files, `PowerLoss` also cuts
the logs, which Firestore does not sync; `Recover`, `SetCurrentFile` and `Opened` are `Open`.
An entry is a key, put or deleted, with its sequence number for a value, and a table is a set of
entries. Which table a merge takes, how many batches are in a group and where an output
is cut depend on bytes in the code and are choices here.

### How `SkipList` and `TableCache` correspond to the code

In `SkipList` each store of `Insert` and each step of a search is an action. The value of
`max_height_` is read without a barrier, so a reader may be given any value it has had. Readers write
nothing that others read, so one iterator stands for all. The writer may choose any
height (the code draws it at random).

In `TableCache` each method of the shard holds its mutex and is one step; `FindTable`,
`OpenTable` and `InsertTable` are the steps of `TableCache::FindTable` between which others run.
A reader has a version, and a handle of each file of it that it is using: a `Get` has one at
a time, the iterator of a client or of a compaction one of every file of level 0 and one of
each deeper level (`AddIterators`, `MakeInputIterator`), two of a level while it goes on to the next
file. The module lets every reader take and give back any handles in any order, which allows for
all of them. A new table that is opened for a look before its version is installed
(`BuildTable`, `FinishCompactionOutputFile`) is left out.
`Install` makes a version without some files and with a new one, `DeleteObsolete` deletes and evicts what no
version has. Entries that were freed are used again, so their number needs no bound of its
own.

### Not modelled

* The application: token refresh and forced sign-out; the early returns of `handleLogin`
  and `handleSignUp` when the root controller is of another class, which it never is; form
  validation beyond "a code was typed"; the terms page, the layout, the sharing of the code.
* Firestore: transforms, preconditions other than "exists", collections and their queries,
  existence filters, resume tokens, limbo documents, the collection of garbage by size,
  `disableNetwork`. The application writes and reads single documents by name and reaches none of
  them.
* leveldb: errors of the file system (the first one stops all writes, and Firestore's
  assertions stop the application), shutdown, snapshots, manual compactions, synchronous
  writes, the delay of one millisecond above the slowdown trigger, `DBIter`, `Prune` and the
  destructor of the cache, the contents of tables (blocks, filters, compression).
* The other vendored libraries. Of the C and C++ code in the repository nearly all is
  BoringSSL, gRPC, Protobuf, nanopb and headers of Mapbox: cryptography, transport and
  serialisation that the application never calls itself and whose state is not the
  system's. The application is Swift and the part of Firestore it depends on Objective-C++;
  the map covers these and, of the C++ code, leveldb and Firestore's use of it.

## 3. The runs

Model values stand for uids, codes and positions.

| Run | Instance | Shows |
|---|---|---|
| `documents` | 2 documents, queues of 4 | sending a queue again after any prefix of it was applied changes nothing, and a phone shows the same whether the document below has that prefix already or not (`ResendConverges`) |
| `pairing` | three budgets, see below | `UncontestedPairing`, `WithdrawnStaysGone`, `PartnerProvenance`, `SignUpIsKept`, `LatestPosition`, `AnswersMatchPending`, `MainIsSettled` |
| `progress` | three budgets, fairness | `PairingTakesEffect`, `SignInEnds`, `QueueDrains` |
| `map_polling` | 2 possible partners, an own document of 3 versions, 1 change of a partner's document, 2 reads of the timer in flight, fairness | `PinWasPartner`, `PinNeverGoesBack`, `PinFollows` |
| `map_screens` | 2 accounts, 3 controllers, 1 read per controller, fairness | `MapIsOwn`, `PinAppears` |
| `write_pipeline` | 2 accounts, 3 writes, a pipeline of 2, fairness | `PipelineInv` (`PipelineIsPrefix`, `AnswersMatchPipeline`, `CompletionsMatch`, `NeverStuck`), `AssertionsHold`, `NothingLost`, `ImplementsQueue`, `PipelineDrains` |
| `online_state` | 2 reads, 2 documents, 1 change of account, fairness | `AssertionsHold`, `WaitersHaveHope`, `AnsweredOnce`, `GetAnswers` |
| `transaction` | 3 keys, 2 values, 3 edits per transaction | `GetMissesOnlyRestored`, `ScanMissesNothing` (with `NoDanglingIterator`), `ImplementsView` |
| `leveldb_parts` | the list: 4 keys, heights up to 3; the cache: 3 readers that may hold a table of every file, 3 files, room for 1 table; the log: blocks of 5 bytes, headers of 2, 3 records of up to 4 bytes | `ListInv` (`LevelsAreSublists`, `ReadsInitialised`, `PassMissesNothing`), `SearchIsExact`; `CacheInv` (`ClosedWhenUnused`, `ListsAgree`, `NoStaleTable`), `OpenTablesBounded`; `CutGivesPrefix`, `DamageIsContained` (`OnlyWholeRecords`, `DamageIsLocal`) |
| `leveldb_files` | four scenarios, see below | `GetFindsLatest` (with `LevelsAreDisjoint`, `ReadIsSnapshot`), `FilesHoldAll` (with `NoMissingFiles`, `MemoryIsLogged`) |
| `leveldb_group` | 3 writers, 3 entries, 1 crash of the process, fairness | `AckedIsWritten`, `WritesReturn`, `ImplementsStore` |
| `withdraw_message` | 2 phones, 2 accounts, 1 operation, 2 logins | violated: `WithdrawErasesUser` |

An invariant in brackets is a part of the one before it. The type invariant of a module is a part
of one of its invariants as well; those of `Pairing`, `MapPolling` and `OnlineState` are proved instead.

### The bounds, and why they are enough

A run of `MCPairing` begins with one of several budgets, which its actions spend: `ops` counts
the codes submitted, removals, withdrawals and reports together, `logins` the sign-ups and
logins attempted, `polls` the reads of the timer, `breaks` broken connections and restarts;
`phones`, `accounts`, `codes` and `places` say who is there at the start and what may be typed
and reported. `MaxQueue` is how many writes may be waiting for the account of a phone when its
person acts. Logging out is not counted, it needs a login first. `pairing` has three budgets:

* two phones and two accounts, 3 operations, 2 logins, 1 break: pairing, dissolving and
  withdrawing against each other;
* two phones, one account and one to be made, 1 operation, 3 logins, 1 break: sign-up against
  login on the other phone, withdrawal and logout;
* one phone, one account and one to be made, a code nobody has, 2 positions, 2 operations,
  2 logins, 1 poll, 1 break: a phone that changes accounts.

A pairing concerns two documents and at most two phones; with two logins both phones may
also be signed in as the same person. Three operations allow pair, dissolve, pair again;
pair against pair against withdraw; two dissolvings of the same partnership. Each operation
makes at most two writes, so every order of four to six writes at the server occurs, with
every prefix of a queue applied, lost and sent again. One break is enough to send a queue
twice; a second one only repeats it, which `ResendConverges` covers for every queue of four
writes over every document. `progress` has two operations without a break, one with a
break, and one phone with three logins, an operation and a break. Phones are interchangeable, accounts are not
(one may be registered and the other not), so only phones are declared symmetric, and not where liveness
is checked. Deadlock is not an error there: people may stop, and the budget runs out. The
map, its controllers, the read path and the transaction never stop, and their runs look for deadlock.

On the map, two reads of the timer in flight (`MaxReads`) let a tick overtake the callbacks
of the one before; connections may break any number of times. The own document names nobody to begin
with and has three versions (`MaxOwn`): nobody, one partner, and then the other or nobody again, so that there is
a former partner, and reads of it are answered after the change. One change of a partner's document (`MaxChanges`)
gives the last position something older to be told from. Safety was checked once with four versions (one partner,
the other and the first again) and two changes; the liveness of that instance takes TLC too long.
The theorems of `MapPollingProofs` have no such bounds. In `map_screens` three
controllers allow an account, another one and the first again, with reads of each in flight.

In the write path three writes and a pipeline of two let one write wait outside, one be
answered and held, and one be on its way, for either account; failures, idling, account changes and
restarts are not counted at all. Batch ids only grow by writes, so the instance is finite. Writes and accounts are
interchangeable: one account is the first, and the writes are issued in one order (`InOrder`), which is
a symmetry reduction that is sound for liveness as well.
Two reads of two documents share a query or do not; one change of account meets every state of
the stream. Failures of the stream are not counted: above two they make no difference to the
tracker. The theorems of `OnlineStateProofs` are for any number of reads.

The numbers of leveldb are made small where only a threshold matters: the memtable is full
with one entry, a level with one file, level 0 stops the writers with two. `leveldb_files`
begins with one of four scenarios, each wide in one direction:

* three keys, four entries, three levels: a table with a gap in its range goes down past another;
* two keys, three entries, a reader: its files are merged away under it;
* two keys, five entries, a crash of the process: this is what it takes for a memtable to fill
  up while a merge runs, to be flushed in the middle of it, and for the process to stop then;
* two keys, three entries, two crashes or losses of power: the second may fall into the
  recovery from the first.

The three parts of `leveldb_parts` share nothing, so a behaviour is that of one of them
(`part`). In the log, the longest record does not fit a block, so that records have first, middle
and last fragments, and block ends leave trailers of every length shorter than a header.
With three readers an entry of the cache can be replaced while two still use it, which is
when entries pile up above the capacity, and with several handles one reader keeps more tables open than
the cache has room for. `MaxCrowd` bounds what readers hold together with what they may ask for: while there
are two files, two readers hold four tables or three readers two; once there are three, two
readers hold two or one holds all.
In the list four keys and three levels let a search run between two
neighbours that are both linked only in part. A log that was read is done, so this run does not look for deadlock.

`UncontestedPairing` and its like speak of what *must* come out when nobody interferes:
the history variable `bond` takes a pair in when a code is typed while both documents
exist and nothing that waits disagrees, and drops it when either side pairs, dissolves or
withdraws. `gone` leaves out accounts whose sign-up is still waiting on another phone:
there the document does come back, TLC finds it at once (sign up, lose the answer, log in
elsewhere and withdraw, then the first phone sends `setData` again). `bare` collects the
accounts that a crash or a lost answer leaves without a document; `SignUpIsKept` says
there are no others. `placed` excludes reports made in the two intervals in which they go
astray (before the notification, before the document).

### Fairness

`MCProgress` assumes weak fairness of four things per phone: the write stream (it is
restarted with backoff as long as writes wait), the Auth server (it answers or the
request times out), the read (it is answered from the cache when the server is out of
reach) and the blocks on the main queue. Nothing is assumed of people, of broken
connections or of restarts; these are finite because the instance is bounded. Without
such a bound a connection that always breaks before the answer keeps a queue full for
ever, which the code cannot prevent.

`MapPolling` assumes that the timer repeats, that the main queue runs, and that every
document is asked for and answered again and again (strong fairness: connections may
break for ever, but not always before the answer).

`MapScreens` assumes the same of the controller in front: its timer and its callbacks, strongly,
because people log out and in again and the system may end the application.

`MCWritePipeline` assumes that the worker queue and its timers run, and that tokens, the
handshake and answers come again and again; streams may fail for ever, but not always
before the answer. People may change accounts for ever: `PipelineDrains` speaks of an account that
stays.

`OnlineState` assumes weak fairness of the ten-second timer and of the main queue, and strong
fairness of `Snapshot`, an open stream's answer to a target. The last is needed only when the stream
says that it is online and never brings what it was asked for, which the tracker does not
guard against: as long as messages arrive, no timer runs.

`MCLevelDb` assumes (`GroupSpec`) weak fairness of the writers' steps and of the background thread, which is
the scheduling of the two threads; a thread that sleeps takes no step, so a missing wake-up
would still be found (`WritesReturn`, which promises nothing once the process has stopped).

### Where the program and its words disagree

* The withdrawal promises that all user information is deleted. Only the document is; the
  account with its address and password stays, and stays signed in (`withdraw_message`).

Three more were met while modelling and have no run of their own:

* The screen says that the authentication is complete whatever was typed. A code that is
  nobody's leaves a document with a partner who does not exist: its own write is kept when the
  other is rejected (`UncontestedPairing` speaks of codes whose document is there).
* The alert before a dissolution says that the partner's information can no longer be
  viewed. `updatePin` returns when nobody is named and leaves the pin, with name and last
  position, on the map.
* `LevelDbTransaction::Get` is said to include any pending mutations. `Put` of a message,
  in the header, does not forget an earlier deletion as the other `Put` does, so a row deleted and put
  back is committed but not found. `GetMissesOnlyRestored` shows that this happens, and is the only case;
  no transaction of this version meets it.

Where they agree, and the difference is easily missed: leveldb's `options.h` says of writes that
are not synced that the crash of a process loses none, and that of the machine may. `ImplementsStore`
shows the first; `FilesHoldAll` says under loss of power that what the logs
kept is not lost by the recovery.

## 4. The proofs

For every value of the constants (accounts, codes, positions, phones, writes, keys, levels) and any
number of operations and failures, from the named assumptions of the modules and nothing else. They
say that the special values differ from the others (`None` is no account, `NoValue` no value of a
row, `"handshake"` no write), that keys and budgets are numbers, the keys of the engine finitely many, that a list has a level, and that
the pipeline has room for a write; TLC evaluates each of them in the runs.

* `TypeCorrect`, `AnswersMatch`, `Settled` (`PairingProofs`): `TypeOK`,
  `AnswersMatchPending` and `MainIsSettled` are invariants. The inductive invariant
  `TypeInv` adds `SignInUnderWay` (a request runs only behind the login or sign-up screen,
  and a request that was answered has set the current user) and `RemovalHasUser` (a read in
  progress is about an account). The two are needed: `MainIsSettled` survives a completion
  because it waits for the notification, and survives `CreateUser` and `SignIn` because the
  main screen is not in front; without `RemovalHasUser` the callback could write to no
  document. `AnswersMatchPending` needs nothing but types: queues only grow at the end, and
  every action that shortens or changes the queue also shortens or drops the answers.
* `Provenance` (`PairingProofs`): `PartnerProvenance` is an invariant. It is not
  inductive, because what the server stores next is in some queue now, and what is read may
  come from a cache; `ProvInv` says the same of every queue and cache. The lemmas on the
  operators carry the proof: a related write leaves a related document (`ApplyRelated`), the
  partner that is shown comes from the document below or from a write of the queue
  (`ViewRelated`, which rests on `LastOfIsMember`: among indices there is a last one).
* `ResendsConverge` (`PairingProofs`): `ResendConverges` holds of queues of any length, over any
  document. `documentForKey` is a recursive function, of which the provers know only that
  it is chosen; that there is one with the right steps is shown by a least counterexample (`LeastNumber`), and so
  is what it computes, the last write of every field (`ViewTo`, a form that only the proofs have; `StepsAreViews`,
  `ShownIsViewTo`). For a queue that is sent again, `ResentWrites` shows that what a write
  changes is overwritten, rejected or repeated by the rest of the queue, whatever the document was before.
* `PinProvenance` and `PinMonotone` (`MapPollingProofs`): `PinWasPartner` and
  `PinNeverGoesBack` hold for any number of partners, versions and reads in flight.
  `PinInv` says that the callbacks about one document are given ever newer versions, none
  newer than what the phone has (`CallbacksOrdered`), and that the pin is not newer than
  any of them (`PinIsOldest`): a late callback can bring back a former partner, but never
  an older position. `ReadsNamed` carries who was named from the first read to the second.
* `InvHolds`, `Assertions`, `Hope`, `Once` (`OnlineStateProofs`): `TypeOK`, `AssertionsHold`,
  `WaitersHaveHope` and `AnsweredOnce` are invariants for any number of reads, documents and
  changes of account; the one assumption is that there is a document. `WaitersHaveHope` is not
  inductive: that a timer still runs when a stream fails rests on `StreamOK`, which says that a
  stream that is started is online, offline, or has the timer running, and one that is not
  started has nothing counted; and that a waiting read is still a listener of a query rests
  on `ListenersOK`, which ties every listener to its read, its document and its query.
  `EventsOK` is the life of a read, from the first event to the removal; with it
  `AnsweredOnce` follows from the muting. One lemma per action; the failed token, the end of
  the call and the idle close share `InterruptedInv`.
* `BoundedIsPairing` (`PairingProofs`): a behaviour of a bounded instance is a behaviour
  of `Pairing`, so the theorems hold in the runs and the runs show behaviours of `Pairing`.
* `SignUpsAreKept`, `WithdrawalsLast`, `AgreementsLast` (`PairingProofs`): `SignUpIsKept`,
  `WithdrawnStaysGone` and `UncontestedPairing` are invariants with any budget. None of them is
  inductive, for one reason: a write stays in its queue after the server has applied it, until
  the answer comes, and is applied again if the connection breaks before that. So the inductive
  invariant `KeptInv` counts only the writes that are not answered (`Unanswered`) as still to
  come, and says of all those in a queue that to apply them again, in order, does no harm:
  for a withdrawn account, that in every queue its sign-up comes before its deletion (`Undone`);
  for two who agreed, that every write about the partner of either says the same (`Agreed`). The
  rest of `KeptInv` is about who writes what: documents are made and deleted only in their
  owner's queue (`OwnWrites`), and a sign-up whose completion has not run has left no trace yet
  (`Creation`).
* `LatestPositions` (`PairingProofs`): `LatestPosition` is an invariant where positions are
  reported from one phone (`OnePhoneReports`, a hypothesis about the budgets, true of those of
  the runs: two phones of one account do not order their reports, and no code makes them).
  `Placed` says of the queue what the property says of the document: the last write to a position
  in it is the last report, or the document is being deleted (`EndsAt`); so to send the
  queue again ends where it ended before.
* `OwnMap` (`MapScreensProofs`): `MapIsOwn` is an invariant. A read in flight may set the pin
  next, and a completion makes the account of a request the one of the main screen: `ReadsOK`
  and `RequestOK` say whose they are.
* `PipelineIsQueue`, `PipelineHolds`, `AssertionsAlways`, `NothingIsLost`
  (`WritePipelineProofs`): `WritePipeline` implements `WriteQueue`, and `PipelineInv`,
  `AssertionsHold` and `NothingLost` are invariants, for any depth of the pipeline.
  What the mutation queue, the held batches and the pipeline have of the same writes is kept
  in five variables and recomputed from ids: the inductive invariant `PipeInv` says that ids
  ascend (`QueuesOK`), that the ids up to the one acknowledged last are the held batches
  (`HeldOK`), and that those up to the one seen last are held or in the pipeline, which has no
  room while a batch is left out (`SeenOK`); and, of each state of a stream, what is on its way
  in both directions (`StreamOK`): once the handshake is done the answers and the requests
  together are the pipeline. With it every step of the detailed specification is a
  step of the abstract one or a stutter, one lemma per action. `NothingLost` needs the history
  of the server besides (`Loss`): what left a queue was answered, and what was applied first
  was queued first.
* `TxnAlways`, `GetIsExact`, `TransactionIsView`, `ScansMissNothing`
  (`LevelDbTransactionProofs`): `GetMissesOnlyRestored` and `ScanMissesNothing` are invariants,
  and the transaction implements `TransactionView`. The merging iterator computes its next
  row from two positions; `PositionsOK` says that they belong to its key unless the version has
  moved on, in which case the iterator is placed again before it moves. `ScanInv` says that of the
  rows there all along, those not shown yet are ahead of the iterator.
* `ListIsSound`, `SearchesAreExact` (`LevelDbPartsProofs`): `ListInv` is an invariant and
  `SearchIsExact` holds of every step, for any number of keys and levels. `SkipInv` adds where
  an insert under way will link its node on the levels to come (`WriterOK`), that memory nobody
  linked holds no pointer but that of the node being linked (`UnlinkedOK`), that the levels above
  `max_height_` are empty (`HeightsOK`: why a reader may begin at an old or at a new height), and
  that a search stands on a linked node before its key (`IterOK`).
* `TablesAreSound`, `TablesAreFew`, `OpenTablesFollowUse` (`LevelDbPartsProofs`): `CacheInv` is an invariant and
  every step satisfies `OpenTablesBounded`, for any number of files, versions and readers, each with any number
  of handles, and any capacity; there is some file and some reader. `CacheInv` does not say how many references an entry has; `CacheIInv` does: one for
  each handle and one for the cache (`ListsOK`), a reader opens a file of its version that it has no
  handle of (`ReadersOK`), and the files of the current version are there (`FilesOK`). Each operation of
  the shard is a lemma about any shard and any count of holders. The loop of `Insert` is a recursive
  function: `TrimLoopExists` says that there is one and `TrimOK` what it computes.
  For `TablesAreFew`, `Insert` ends with no more entries than the capacity or with none that is
  unused; everything else opens no table. `OpenTablesBounded` speaks of the step that opens a table and not of
  every state, because tables that were given back stay open until the next one is opened.
  `OpenTablesFollowUse` draws the conclusion for whole behaviours: while never more than k tables are in use at
  a time, never more than the capacity and k - 1 are open. How large k gets is up to the versions: an iterator
  holds as many as level 0 has files and one or two for each deeper level.
* `LogsSurviveCuts`, `DamageStaysLocal` (`LevelDbPartsProofs`): `CutGivesPrefix` and `DamageIsContained` are
  invariants, for blocks of any size, any number of records of any length, and any cut or hole; a header is
  assumed to be shorter than a block and longer than one byte (in the code 7 bytes of 32768). Both speak of a reader that is done, so
  the invariant `LogIInv` says of each phase what is needed, in terms of two things that are no variables: the file as it was before
  the damage, and the set of its fragments. `Layout` says that each fragment is where the writer goes on after
  the one before (`FragmentAfter`: after a header that does not fit comes a trailer) and has the type and the place
  in its record that the ones before it ask for (`StateAt`). `ReaderOK` says that the reader is where
  a fragment begins, in a trailer, at the end or in a damaged block, with a buffer that is the rest
  of a block, and `Got` what it has by then: of the records that end before it, all that are not hit and
  each as it was written; of the one under way, its beginning or nothing. A cut damages everything from some byte
  on, so with `IsCut` nothing is skipped before the end. `ReadRecord` has many returns, with a lemma for each.
  No induction is needed besides the invariant: a turn of the loop of `AddRecord` or of `ReadRecord` is a step.
* `AckedAreWritten`, `FilesAreThere`, `ReadersKeepFiles`, `MemoryIsSafe` (`LevelDbProofs`): for
  any keys, batches, levels, writers, reads and stops, of the process or of the phone,
  `AckedIsWritten` is an invariant and so are two parts of `FilesHoldAll`, `NoMissingFiles` and
  `MemoryIsLogged`, and the version a read has taken keeps its files. `AckInv` ties the group to the
  writers: each has an entry in it (`EveryWriterLogs`, for which a batch must not be empty), and
  the log has received them before anyone is woken. `FileInv` says which files are needed
  (`NeededFiles`): those of the current version, of MANIFEST, of the reader, of the edit on its way and of
  the merge in progress, its outputs too; and that MANIFEST is the current version, or ahead of it by
  just the edit being installed (`ManifestOK`). `LogInv` says where memory is: `mem` in the
  log in use, `imm` in a log that is still replayed unless MANIFEST names its table
  (`MemOK`); numbers ascend, so that a new log replaces none (`NumbersOK`); and an edit
  passes over a log only with the table of its memtable (`EditOK`).
* `ReadsAreLatest`, `NothingIsForgotten` (`LevelDbProofs`): `GetFindsLatest` and `FilesHoldAll`
  are invariants, under the same generality. A search stops at the first place that has the
  key, so the invariant is about the order of the places and about what they stand for
  together. `SeqInv` is the order of the entries on their way: what has been flushed is older
  than `imm`, `imm` older than `mem` and the group being inserted (`MemoryNumbers`), records are
  in the logs in the order of their numbers (`LogNumbers`), and a group's numbers follow the
  last published one (`GroupNumbers`, which rests on `GroupIsNumbered`: a rank in a finite order is
  a numbering without gaps). `TableInv` is about the tables (`Good`): for one key, what lies in a lower
  level is older, level 0 is in the order of its file numbers, files of a deeper level are
  apart (`Sorted`), and the levels stand for what was flushed: the newest entry of a key is there, or it
  is a deletion and nothing is left of the key (`Holds`). `Good` is claimed of the current version, of
  the edit on its way and of the MANIFEST while the engine is down. The invariant that is
  hard to find is that of a merge in progress, while memtables are flushed under it into any level:
  its inputs cover a connected range of keys (`Covered`; a file that is flushed into the levels overlaps
  no input, so no output either), what is newer in its levels is above its inputs (`MergePlace`), and its
  outputs stand for the keys that are done with respect to the levels it began with (`Replaces`,
  `MergeDone`: why a deletion may be dropped when no deeper level has its key). `ReadInv` is
  `ReadIsSnapshot` with the read's sequence number already published.
* `StoreIsDurable` (`LevelDbProofs`): the engine implements `DurableStore`, unless the phone loses
  power. The hypothesis is about the constant `PowerFails`; it holds in `leveldb_group`, and with
  power loss the abstract store promises too much, as logs are not synced. By `GetFindsLatest` and
  `FilesHoldAll` the rows of the store are the latest entries up to its number (`RowsAre`). `GroupRows`
  says that the entries of a group change the rows as its batches do one after the other,
  for which `RankIs` counts ranks the way the abstract store does. A stop takes the store from the
  number that was published to the one that opening will find in the files; `StampInv` says that the two
  are one, or apart by a whole group whose record a log has received: the last number of the version,
  of MANIFEST and of an edit on its way is zero or that of an entry (`Reached`), and the entries
  of a group are numbered from the published one on. So a step is a step of the store
  (`StoreSubmits`, `StoreAnswers`, `StoreStops`) or changes neither rows nor queue (`StoreStays`).

TLC finds every inductive invariant true of the instance of its module's run as well, but `LogIInv`
(`LevelDbPartsProofs`): it asks for a file and a set of fragments that no variable holds, and TLC cannot enumerate
those. It checks what `LogIInv` implies.

Only model-checked: liveness (`WritesReturn`, `PipelineDrains`, `GetAnswers`, `PinFollows`, `PinAppears`
and those of `MCProgress`), which is out of the prover's reach.

## 5. Plan

The components are modelled as far as the application uses them. What is left is an
abstract specification of a pairing (two people, one relation) and the conditions under which
`Pairing` implements it.
