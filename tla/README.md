# Sarafan: specifications, checks and proofs

TLA+ specifications of the sarafan node (`src/sarafan`) and of the part of its
web page that reads the feed (`src/src`), TLC configurations that check them on
small instances, and TLAPS proofs of what matters most for every value of the
constants. Paths below are relative to the repository, `src/` being its root.

    tlc -config EventForward.cfg MCEventService.tla     # a run, see "Runs"
    tlapm EventServiceProofs.tla                        # proofs, see "Theorems"

1. [The system](#the-system)
2. [Modules](#modules)
3. [How state and actions correspond to the code](#how-state-and-actions-correspond-to-the-code)
4. [Runs](#runs)
5. [Fairness](#fairness)
6. [Theorems](#theorems)
7. [What the environment is assumed to do](#what-the-environment-is-assumed-to-do)
8. [Where code and documentation part](#where-code-and-documentation-part)
9. [What is not modelled](#what-is-not-modelled)
10. [Plan](#plan)

## The system

A sarafan node is one asyncio process. Its services talk over the bus of the
`core_service` library: `emit(event)` puts the event in the queue of every
listener of its class. Contracts on an Ethereum chain announce peers (`NewPeer`)
and publications (`Publication`); a node searches the peers it knows for every
publication, downloads its bundle, checks it against its magnet (a keccak hash),
stores it and shows it as a post.

| Part | State | Operations | Talks to |
|---|---|---|---|
| Block range iterator (`ethereum/block_range.py`) | `_from`, `_to`, `step_size` | `__iter__`, `retry`, `record_time` | consumed by the event service |
| Contract event service (`contract/event_service.py`) | range, current block, loaded transactions | polling task | Ethereum node; emits contract events |
| Ethereum client (`ethereum/client.py`) | none | one request per call | Ethereum node |
| Contract service, ABI (`contract/service.py`, `ethereum/contract.py`) | addresses | resolve, encode, decode | Ethereum client |
| Peering service (`peering/service.py`) | `peers`, `peers_by_rating` | listeners for `NewPeer`, `Peer`, `DiscoveryRequest`, `DistributionTask` | other nodes; emits `Peer`, `DiscoveryFinished`, `DiscoveryFailed` |
| Peer client (`peering/client.py`) | HTTP session | `discover`, `has_magnet`, `download`, `upload` | another node |
| Database service (`database/`) | SQLite tables of peers, publications, posts | `store_peers`, `restore_peers`, `all` | bus, web API |
| Download service (`download.py`) | none of its own | listeners for `Publication`, `DiscoveryFinished` | emits `DiscoveryRequest`, `DownloadFinished` |
| Application (`app.py`) | none | unpacks a bundle into a post; `publish` | all of them |
| Storage (`storage/service.py`) | the content directory | `store` | downloads, uploads |
| Publishing (`web/handlers.py`, `contract/post_service.py`) | drafts, the account's transactions | `create_post`, `publish`, `post` | Ethereum node, storage, bus |
| Announcement, hidden service (`contract/announcement_service.py`, `onion/`) | service id | `announce_peer` once per start | Tor, Ethereum node |
| Web page (`src/src`) | redux store | `fetchPosts` saga, refresh button | `/api/posts` |
| Stand-alone client (`client.py`) | `PeerCollection` | `download`, `upload`, `_store` | other nodes |
| Bundles (`bundle/bundle.py`) | none; the order of its sets | `render_markdown`, `render_content_json` | application, publishing |
| Command line, migrations (`cli.py`, `database/migrations.py`) | the lock and the marks of yoyo in the database | start, `apply_migrations`, `rollback_migrations` | contract service, database |

What is hard about it:

* every `await` is a place where other handlers run: ratings, the book of peers,
  the chain and the content directory change under a coroutine that holds
  references to them;
* peers answer late, wrongly, with garbage or never; the Ethereum node may lose
  the answer to a transaction it has taken;
* a crash loses everything but the database and the content directory, and all
  contract events are then handled again from block 0;
* iteration over block numbers in both directions, with intervals that are
  clipped, retried and rescaled.

What makes each part correct:

* *iterator*: no block left out and none twice as long as a retry goes back as far as
  the failed interval, the step within its limits;
* *event service*: the first log of every transaction delivered once, in order, in the
  end;
* *book of peers*: list and dictionary agree, the limit is kept, the lowest rated
  leave;
* *search*: every usable peer is asked while there are rounds, every request is
  answered when its search ends, ratings reach the database;
* *download*: no post without its file, no peer tried twice, a publication that a
  known peer has arrives;
* *storage*: a file in place is complete and right at all times, unless two calls
  drew the same number; no litter;
* *publishing*: a draft is placed once, only for an accepted transaction, and then
  announced once, unless the process dies just then; a start registers the node at
  most once;
* *feed*: a reader sees every post once;
* *nodes that tell of each other*: a search reaches every node it hears of, and
  ratings that travel are earned somewhere;
* *client*: the nearest peer that has a magnet is asked, a rating is lowered for
  the peer that answered badly, an upload that returns has left enough copies;
* *contract coding*: what one node calls with is what another one decodes;
* *bundles*: what an author wrote is what every node shows;
* *start*: a node that runs has its tables and contracts of its own time; one
  process migrates at a time;
* *hidden service*: whoever waits for the address gets it, it leads to the node,
  and a node that is stopped while it is connected to Tor leaves nothing there.

## Modules

| Module | Contents |
|---|---|
| `BlockRange` | the iterator as operators on a record: first and next interval, retry, new step sizes |
| `BlockRangeIter` | the iterator with its consumer as a state machine |
| `BlockRangeIterProofs` | proofs about it |
| `EventFeed` | abstract: what a subscriber of contract events counts on |
| `EventService` | the polling task, the chain and the Ethereum node; uses `BlockRange` |
| `EventServiceProps` | its properties, and the refinement mapping to `EventFeed` |
| `EventServiceProofs` | proofs about it |
| `Bus` | the queues between peering, downloads and the database |
| `PeerBook` | the dictionary and the list of peers over a heap of `Peer` objects |
| `Peering` | the listeners of `PeeringService`, `store_peers` and `restore_peers`, crash and restart; uses `PeerBook`, `Bus` |
| `PeeringService` | `Peering` with an environment that requests magnets, and its properties |
| `Download` | `DownloadService` and `Application.process_finished_downloads`; uses `Bus` |
| `Node` | `Peering` and `Download` composed, fed by contract events as `EventFeed` promises them |
| `PeeringProofs` | what each step of `Peering` keeps, whoever asks: lemmas |
| `PeeringServiceProofs` | proofs about `PeeringService`, from these |
| `NodeProofs` | proofs about `Node`, from them too |
| `Gossip` | several nodes whose books come from each other's answers to `discover` |
| `ContentStore` | abstract: what a node counts on from its storage |
| `Storage` | `store()` and the client's `_store()` on a file system, and the refinement mapping to `ContentStore` |
| `StorageProofs` | proofs about it, that it implements `ContentStore` among them |
| `Publish` | drafts, `publish`, the node's announcement, and one account's transactions |
| `Feed` | the posts table, its cursor pagination, and the web page |
| `Distribution` | the listener that uploads a published bundle |
| `Client` | one `download()` and one `upload()` of `SarafanClient` over its collection of peers; uses `PeerBook` |
| `Contract` | event classes, call data and logs: from a call at one node to the event at another |
| `Bundle` | what `create_post` writes and what every node makes of an archive |
| `Startup` | processes that start on one database: `cli()`, `resolve()`, migrations |
| `HiddenService` | the controller of the hidden service over the processes of a node |
| `Posts` | the way of a post: `Bundle`, `Publish`, `Contract` and `Feed` in one specification |
| `PostsProofs` | proofs about each of the four |
| `Around` | what surrounds a node: `Startup`, `HiddenService`, `Gossip` and `Client` in one specification |
| `AroundProofs` | proofs about each of the four |
| `MC...` | values of constants for TLC, and symmetry |

Data is abstracted to what the properties tell apart. A magnet, a service id, a
file is a model value. An event is its block, transaction and log index. A
rating, which the code only doubles and quarters from 0.5, is an exponent of 2.
A file is a sequence of right, wrong and missing chunks. Distances are numbers,
different for different peers.

## How state and actions correspond to the code

Every action stands for the code from one suspension (`await` of something that
may not be ready) to the next; `PROJECT.json` names the lines of every
definition. The names of attributes, locals and handlers are those of the source.

* **BlockRangeIter**: `Begin` and `Advance` are `next()` on the generator, `Retry`
  and `RecordTime` the calls a consumer may make in the loop's body, each as often as
  it likes and in any order. The measured time is arbitrary, so `RecordTime` takes
  any step size between half and double. History is what the consumer has in hand
  (`wanted`), the step size that was `made` with, how far it was `moved` back, whether a
  retry has ever missed the failed interval's start (`slips`: `"short"` of it or too
  `"long"`), and the completed blocks (`done_blocks`). In the node nobody calls the
  last two methods; the specification is of the iterator as a library.
* **EventService**: `pc` says at which await the task stands: `Poll` is
  `block_number()`, `Fetch` is `get_logs()`, `Deliver` handles one log of the
  answer (its notification is awaited), `EndInterval` is the rest of the loop's
  body and, at its end, the return to `fetch_events_task`, `Wake` the end of
  `sleep`. `Fail` and `ParseFails` end the task: nothing catches what a request or
  a log's decoding raises. `Mine` may happen between any two. The properties speak of
  `Firsts`, the log of each transaction that the walk comes to first: the service
  remembers transactions and drops the others.
* **PeerBook, Peering**: objects are entries of the heap `obj`, since two `Peer`
  objects may stand for one service and handlers hold references to objects that have
  left the book. `AddPeer` is the whole of `add_peer` with its sort and cleanup.
  `handle_discovery_request` is `StartDiscovery`, then for each peer
  `DiscoverAnswered` or `DiscoverMalformed`, and `HasMagnet` or `HasNoMagnet`;
  `PeerFails` is the except clause for either request. Each goes on to the next await
  (`SearchOn`, `Contact`) or to the `finally` (`Finish`). The loop over the received
  peers is one `Learn` per peer, and `Quiet` keeps everybody else out of it, as the
  code does not suspend there. `Crash` leaves the table only; `RestorePeers` then
  emits its rows.
* **Download, Node**: `StartDownload` takes a `DiscoveryFinished` event up to the
  await of the download, which ends in `DownloadDone`, `DownloadFails` (the two
  exceptions the handler knows; it emits a new request with the state of the
  search) or `DownloadRaises` (any other exception). `ProcessFinishedDownload`
  is the handler of `Application`.
* **Storage**: `names` maps directory entries to files, so that an open file and
  its name are different things. `Open` is `store()` up to its first await; the number
  it draws is any of `Suffixes`, one that is in use included, and `clashed` (history)
  keeps the magnets where that happened to a running call. `Chunk` is one turn of the
  loop, `Move`, `Reject` and `Abort` the three ways it ends, each with its `finally`
  clause, which raises in the client where the temporary name is gone (`Raised`).
* **Publish**: `call[c].pc` is the request to the Ethereum node that a call awaits.
  `NodeTakes` happens at the node; its answer arrives with `MakeDirectory` or
  `FinishAnnounce`, or never (`NodeFails`). What follows the answer in `publish`
  runs without a suspension, but a process may die in it and each step may raise: hence
  `MakeDirectory` or `DirectoryRaises`, then `MoveDraft` or `MoveRaises`, then
  `EmitFinished`, with `Resting` to keep the other coroutines out and `Crash` allowed
  between any two. `DownloadOwn` is the node's own `Publication` event, which makes it
  announce its file by way of a download (`download.py:79`). History is `cut`, the
  files whose publisher died between the rename and the event, and `downloaded`. The row
  of `sarafan_publications` is left out, as nobody reads it.
* **Feed**: `Request` is the dispatch of `feedFetchRequest` and the saga's request,
  `All` the query, `Receive` the rest of the saga. `takeLatest` drops a fetch
  under way.
* **Distribution**: `Look` is a turn of the loop in `distribute_task`; while the
  listener is `looking` it holds the event loop (`LoopFree`).
* **Gossip**: `StartSearch` to `HasNoMagnet` are the search of `Peering` for one
  magnet, `Answer` the handler of `discover` at the node that is asked: it is a
  step of its own, since that node's book may change before its answer is read
  (`Receive`). `HotPeers` and `NearestPeers` are the lists it names. The books have
  room for everybody, so a peer is a record and needs no heap.
* **Client**: `StartDownload` starts the requests of a round at once; each ends with
  `HasMagnetEnds` in any order; `Gathered` is what follows `gather`, with the
  exceptions it returns among the answers; `DiscoverEnds` are the tasks that
  outlive it. `EndRound` ends in the `AttributeError` of a missing `close()`.
  `StartUpload`, `PeerTakes` and `PeerRefuses` are the loop of `upload`. What
  `_store` does on the file system is a kind of call in `Storage`.
* **Contract**: `Call` is a transaction built by `Selected` and `CallData` and
  executed by a contract (`Executed`); `PayAward` makes a log without a call;
  `Read` is `parse()` of the next log at a node. A word has `Word` bytes.
* **Bundle**: `CreatePost` writes an archive, `Process` is what
  `process_finished_downloads` makes of one at a node, `Restart` draws the order of
  the index names again.
* **Startup**: `pc` names the await a starting process stands at: the two
  `resolve()` requests, the lock, the migrations one by one, the rollback.
  `Rollback` takes the marks one by one too, without the lock, since that is where
  the code runs it. `Fail` and `LockTimeout` may happen at each of them; `Exit` is the
  end of a process at any point.
* **HiddenService**: `start` and `stopped` tell where `start()` and `stop()` stand,
  which may overlap: an interrupt ends `run_until_complete`, not the coroutine.
  `Create` is the wake-up of `start()`; it may fail, before or after Tor has made the
  service (`CreateFails`, `CreateUnheard`). `Kill` is a process that dies, `TorRestarts`
  happens at Tor, and `ConnectionLost` breaks the control connection alone: then
  `Stop` raises before it removes anything. `cut` (history) are the processes that lost
  their connection this way.

## Runs

Every property of a passing run is violated by at least one mutant: an operator
with the suffix of a plausible bug (`Loaded_Block`, `Unlinked_Never`, ...) put in
the place of the one it is named for. Mutants stand next to what they mutate.

| Run | Instance | Shows |
|---|---|---|
| `BlockRangeWalk` | an endless range and three reverse ranges, one of them shorter than a step, steps 1 to 4, up to block 8, retries that go back up to 8 blocks | `Contiguous`, `ReverseComplete`, `ReverseDisjoint`: blocks are left out only after a retry that fell short of the failed interval, and repeated only after one that went too far, whatever the sequence of calls |
| `EventForward` | blocks 0 to 4 with up to three logs each, of one and of two transactions, step 2 | `NothingMissed`, and that the service implements `EventFeed` over the first logs (`FeedSpec`) with its liveness: each once, in order, in the end |
| `EventReverse` | a range down from block 3 of a chain of 2 or of 4 blocks at the start, so that it ends below the last block, at it, or above it; requests and decoding may fail | `ReverseNothingMissed`, `ReverseComplete`, `InOrder` in the other direction |
| `PeeringSearch` | two handlers, two services, two requests, three rounds, malformed answers, no crash | `Answers`, `ExhaustiveSearch`, `DbCatchesUp` under all interleavings |
| `PeeringChurn` | a book with one place, three rounds and up to four `Peer` objects, malformed answers, a crash | `EvictsLowest`, `BookConsistent`, `EveryRowRestored`, and `ExhaustiveSearch` where every arrival evicts and a service comes back as a new object |
| `NodeCrash` | one publication, a crash anywhere, failing and raising downloads, unreadable bundles | `PostsHaveFiles`, `NoSecondTry` |
| `NodeLive` | three services of which one is reliable, up to two refusals before it | `SearchEnds`, `SeederSuffices` |
| `NodeTimeout` | the same with downloads that may time out | expected violation of `SeederSuffices`, see below |
| `StorageDistinct` | two calls for one or two magnets, of the node or of a client, with two numbers to draw from, so that they clash or not; files of one chunk, a crash | `InPlaceIntact`, `NoLitter`, and that the storage implements `ContentStore` (`ActsAsContentStore`) |
| `AuthorToReader` | *publishing*: two calls and the announcement, two drafts, two transactions on the chain, a crash between any two steps; *feed*: four posts, six stores, pages of two; *bundles*: two nodes, two created and six foreign archives, a restart; *contracts*: words of two bytes, all three overloads, announcements, foreign registrations, awards | `AnnouncedOnce`, `PlacedAccepted`, `RegistersOnce`; `NoDuplicates`, `NothingSkipped`; `CreatedReadable`, `JSONDecides`; `ReadAsSent` |
| `AroundNode` | *start*: two processes that start again and again, two migrations, contracts replaced once; *hidden service*: three processes after one another, a control connection that breaks at any time; *other nodes*: four, of which two search, one has the magnet and is known to one other only, one lets others down; *client*: three peers that arrive at any time, a holder and a liar, one download and one upload for two copies | `RunsMigrated`, `FreshAddresses`; `TorAgrees`; `HolderReached`, `RatingsEarned`; `NearestClaimant`, `UploadQuorum`, `HolderSuffices` |
| `DistributionSpins` | two bundles | expected violation of `BundleDistributed`, see below |

The last two passing runs each check four parts that share no state. The initial state
chooses the part that runs, so that each is checked in full and none is multiplied
with another. What they have to do with each other goes through values that each of
them takes as given: a magnet, an address, an event.

Bounds, and why they are enough:

* `MaxHeight = 4` with `StepSize = 2`: polls that end inside an interval, at its
  end, and after several of them; the chain grows in each of them. The proofs
  cover every other height and step.
* `MaxBlock = 8`, steps up to 4, `MaxBack = 5` (no further retry of an interval that
  was moved back so far): an interval is retried with a step that was halved or doubled
  since it was made, or twice, and two or more intervals follow in which what was
  lost or repeated shows. The reverse ranges end at, and inside, a step.
* `Sids` of two or three, `Workers` of two: the smallest in which two handlers
  learn the same peer, in which a peer is asked while another is learned, and in
  which the nearest peer is not the one that has the magnet. `max_depth` is 2 or 3
  as a round without a contact ends a search. `MaxObjects` is the number of peers
  plus those a crash or an eviction makes again.
* `MinExp = -5` lies two below the limit of usable ratings (0.1 is between 2^-4
  and 2^-3), so that a peer can fall below it by one failure; `MaxExp` 0 to 2 is
  where ratings are cut off.
* `Size = 1` chunk, two calls, two magnets and two numbers: a call between another's
  opening, its chunk and its end, under a number of its own or the same one, for the same
  magnet or another. The proofs cover longer files and more calls.
* `MaxCrashes = 1`: nothing in the state remembers how many crashes there were.
* `MaxStores = 6` of four posts in pages of two: three pages, with posts new and
  stored again between each two of them.
* `MaxTx = 2` nonces for three callers: one transaction behind another, one in the
  place of another, and a nonce that is read again after a refusal. A caller for
  whom no nonce is left can still fail or crash.
* Four nodes in `Gossip`: the shortest chain of hearsay (one who searches, one
  who knows of the holder, the holder) and a node that is in the way. Two of them
  search, so that a book is read while its owner's search writes it. `MaxExp = 1`
  and `MinExp = -5` are as in `Peering`.
* Three peers in `Client`: one that has the magnet, one that lies, one that is
  neither; an upload for two with a quorum of one fails, passes with one, and stops
  at two.
* `Word = 2`: byte strings shorter than a word and as long as one, with zero bytes
  at either end, are all there is to padding. `Sizes` includes one above
  `MaxUint32`.
* Two processes and two migrations in `Startup`: a second process meets the
  lock, a migration that is half way, and a rollback under way. The proofs cover
  any number.
* `MaxRuns = 3`: a process that was killed, one that was stopped, and one that runs,
  in any order.

`CHECK_DEADLOCK FALSE` stands where the system does rest: a range was walked, all
requests are answered, the feed has ended, a bound is reached. The forward service
never rests, and its run checks for deadlock.

Symmetry is declared for calls, file identities and drafts in runs without
liveness properties only. Type invariants are proved where a module has proofs; they
were checked on the way there and are in no run.

## Fairness

* `EventService`: weak fairness of the polling task. It is a coroutine of a
  running event loop: it is resumed when the node has answered or the sleep is
  over. The chain need not grow, and a failing request is not assumed.
* `PeeringService`, `Node`: weak fairness of each handler's next step (a request to
  a peer ends with an answer or with the timeout of its session), of each listener
  whose queue is not empty, of `restore_peers`, and in `Node` of the arrival of
  contract events, which `EventForward` shows. No fairness makes an unreliable
  peer answer well; `Reliable` peers are the ones assumed to have the content and
  to deliver it.
* `Gossip` (in `AroundNode`): weak fairness of each node's search: a request ends with
  an answer or with its timeout, and a node of `Reliable` does answer. No node has to
  start a search.
* `Client` (there, too): weak fairness of the steps of `download()`, for the same
  reason. Nobody has to call anything, and no peer has to answer well but the
  `Holders`.
* `Distribution`: weak fairness of the listener's steps and strong fairness of a
  peer's arrival, generous on purpose: the loop has no way out even so.

## Theorems

| Theorem | States, for every value of the constants |
|---|---|
| `BlockRangeIterProofs!TypeCorrect` | the step size stays within its limits |
| `ForwardContiguous` | whatever the calls, an endless range leaves a block out only after a retry that fell short of the failed interval, and repeats one, or ends, only after one that went too far |
| `ReverseNoOverlap`, `ReverseNoGap` | a reverse range repeats a block, or leaves one out, under the same conditions only |
| `EventServiceProofs!TypeCorrect` | types of the service; the loaded transactions are those of the delivered events until the task fails |
| `ForwardNothingMissed` | an open forward service never moves past a transaction, however many logs it has |
| `ForwardInOrder` | it delivers no event twice, and all in the order of the chain |
| `ForwardImplementsFeed` | it implements the safety part of `EventFeed` over the first log of each transaction |
| `BackwardNothingMissed`, `BackwardComplete`, `BackwardInOrder` | the reverse service leaves no transaction out above its interval; when it finishes it has delivered its whole range, or that reached the end of the chain and it stopped after one interval; it delivers the latest event first and none twice |
| `StorageProofs!TypeCorrect`, `PlaceIntact`, `LitterExplained`, `PlaceKept` | a file in place is complete and right unless numbers of its magnet clashed; every temporary file belongs to a running call or to a crash, and nothing in place goes away, clash or not |
| `ImplementsContentStore` | the storage implements `ContentStore`, where a clash shows to the readers of its magnet only |
| `PeeringServiceProofs!TypeCorrect`, `BookAgrees`, `ThrowsOutLowest` | dictionary and list of peers agree and keep to the limit, and no step throws out a peer that is rated above one that stays |
| `EveryRequestAnswered` | a request is with one handler or in the queue until it is answered, is answered when its search ends, and gets no answer of one kind twice |
| `RowsCatchUp` | with room, and until a crash, a row of the table has its peer's rating once the `Peer` events are handled |
| `AsksEverybody` | a search gives up only when it has asked every usable peer, or somebody new in each of its rounds, or after an answer that does not decode; with evictions and any number of handlers |
| `NodeProofs!FilesBeforePosts` | no post and no announced download without its file |
| `FailedPeersAreSpared` | with room, nobody a download of a magnet failed from is downloaded that magnet from again |
| `PostsProofs!TypeCorrect`, `OnceAnnounced`, `PaidBefore`, `OneRegistration` | a file is placed once, only for an accepted transaction, and `publish` announces it once unless the process dies between the rename and the event; a start pays for one registration at most |
| `DraftsAreRead`, `JSONIsForAll` | what `create_post` made of a text is that text at every node; a readable `content.json` makes all nodes show the same |
| `SentIsRead` | what a node calls a contract with, by whatever overload, is what every node reads, and no call of a node ends another one's polling |
| `ShownOnce`, `NothingLeftOut` | a reader is shown no post twice, and at the end was shown every post there was at the first request and that was not stored again, if no two posts are of one second |
| `AroundProofs!DatabaseReady`, `MarksTrue`, `AppliesAlone`, `AddressesFresh` | a process that runs has all tables and contracts of its own time; what is marked is there; one process applies at a time |
| `TorKnows` | while a node is connected to Tor its address leads to it, and what is left at Tor is of the process that runs, of one that was killed, or of one whose connection broke |
| `Reputation` | every rating in a book was earned: who is rated well served somebody, who is rated badly failed somebody |
| `NearestIsAsked`, `UploadsSuffice` | a client downloads from the nearest peer that claims the magnet; an upload that returns has left enough copies, at the nearest peers |
| `EveryPart`, of `PostsProofs` and of `AroundProofs` | a behaviour of `Posts`, and of `Around`, is one of each of its parts, so what is proved of a part holds in the runs' specification |

Every invariant and every action property of a passing run is stated by one of these.

*Assumptions.* The `ASSUME`s of `BlockRangeIter` (`RangeAssumption`: sizes positive
and ordered, a reverse range has an upper end) and of `EventService`
(`EventAssumption`: types of the constants). `Forward` names the configuration
of the node: not reverse, open. `Backward` names the one of the reverse theorems: a
range that ends above block 0, and a step of two blocks or more (with a step of one, or
down from block 0, the request for block 0 has an upper end of 0, which the code leaves
out, and is answered up to the latest block). That a transaction may have several logs,
and a reverse range reach the last block, is in the statements.

The theorems about `Storage` assume nothing of the numbers that calls draw. There are
90000 of them (`storage/service.py:35`), so a clash of two calls at once is improbable
and possible; what is proved is that it spoils its own magnet and no other.

`RowsCatchUp` and `FailedPeersAreSpared` take `Room`
(`Cardinality(Sids) <= max_peer_count`): a service that was evicted and comes back is a
new `Peer` object, which a search has not visited (`events.py:70`) and whose rating is
not the row's. For the same reason `RowsCatchUp` speaks of a process that has not
crashed. `PeeringSearch` and `NodeCrash` are instances, so it can be met: a node has a
`max_peer_count` of 1000. `AsksEverybody` needs no such assumption; it says in which cases a
search ends early instead. A `max_depth` of 25 lets one that meets a single new peer a
round stop after 26 of up to 1000.

`ShownOnce` and `NothingLeftOut` take `SameSecond = FALSE`: posts of one second have
no order (see below). The theorems about `Publish` use `PayloadsDiffer` (a publication
is not a registration), those about `Bundle` that an absent text is not a text, those
about `Gossip`, `Client` and `Contract` the types of the constants and, for `Client`,
that distances differ. No theorem about `Startup`, `HiddenService` or
`FilesBeforePosts` assumes more than types.

*Arguments.* `Contiguous` alone is not inductive, as it says nothing of the interval
a retry leaves behind. The invariant adds the iterator's cursor: `_from` and `_to` are
the interval the consumer has in hand, shifted by as much as its retries have `moved` it,
and that interval is as long as the step it was `made` with. So the next interval starts
at the failed one's start if the two are equal, and the difference is what `slips`
records. The reverse invariant does the same upwards; there the first interval may be
shorter than its step, which is harmless, as nothing above it is completed.

For the event service `IInv` joins types, `Once` (subscribers get first logs only, and
what an answer does not hold any more of a block it still goes through is of a
transaction that is loaded), `Ahead` (what subscribers still miss comes after all they
received, and what is not in the answer at hand comes after that answer and not
below the current block), `Walking` (an interval starts at or below the last known
block, so the upper end of a request never lies below its lower one), and the
properties. `Ahead` is what `InOrder` and the refinement need at a delivery: the
next log that is not loaded is the first one missing. `Walking` is what
`NothingMissed` needs at the end of an interval: either it reached the last known
block, or the next interval starts just behind it. Each action has a lemma
(`ForwardPoll`, `ForwardFetch`, ...) that shows the parts it can disturb.

For the reverse service `Descending` takes the place of `Ahead` and `Walking`: what
was received lies above the interval that is asked for, and after every log of the
answer at hand; and only the first interval may reach the last block, in which case it
is the only one.

`Storage`: that a file in place is whole depends on who may still write it. The
invariant says that a file has one name (`OneName`), that running calls write under
different names or their numbers clashed (`OwnNames`), and that where none clashed a
checksum is right as long as the chunks written are (`ChecksumRight`); so a call that
moves its file moves a whole one that nobody else has open. `FileOfMagnet` keeps a clash
to its magnet: whatever names or calls have a file in common have the magnet in common.
The refinement maps all steps on temporary names to stutters, and a clashed magnet to a
content of which `ContentStore` promises nothing.

`Startup`: a process that applies migrations holds the lock, and what it has not to do
any more is there (`Applying`). That the rollback runs without the lock does no harm
to this, as it only takes marks away.

`Publish`: placing and announcing once follows from the directory of the magnet, which
is made before and never removed, together with where the file is while a call moves it:
the call that made the directory is the only one past the node's answer (`OneBusy`),
and its file is not in place before `MoveDraft` and not announced before `EmitFinished`
(`Halfway`). One registration per start needs the account: the
pool is an interval of nonces behind the chain (`NoGap`), calls sign with the next
nonce or one that was (`NonceIsNext`), and until the announcement was sent its payload
is nowhere (`Registered`).

`PeeringService`: `Types` holds the types of all variables, the agreement of
dictionary and list (`Book`), and that a busy handler has visited the peer it asks.
`Open` places every request: in the queue or with one handler, never in two places,
unanswered until it has left both. `Listed` (with `Room`) puts whoever was
visited into the book, where a service id stands once, so that a different object
means a different service. The lemmas of `PeeringProofs` show for every step of
`Peering` what it keeps, so that `Node` may use them too; their core is that
`Resorted`, a stable sort, permutes the list, and that `_cleanup_peers` cuts a sorted
list at its low end.

Two properties of it need more than that. A row is right or its peer's event is still in
the queue (`Stored`): every step that changes a rating emits an event, the handler
stores the rating the peer has *then*, and events are about objects of the book. Why a
search ends is counted: a round goes on only with a peer not visited before, so whoever is
in round `n` has visited `n` peers (`Rounds`); a search that ends without a result had
nobody left to ask, or no round.

`Node`: for `FilesBeforePosts`, `finished_q` holds only magnets whose files are stored.
`FailedPeersAreSpared` is about what a search remembers. A download that fails emits a
request with the visited set of its search, and the next search adds to that set; so
nobody who was refused comes back, provided that nobody else searches for the same
magnet with an emptier set. Hence `Hunt`: the search for a magnet is in one place,
among the requests, at a handler, among the found events or at a loader (`Alone`), and
everyone refused for it is in its visited set and is not its present peer (`Spared`).
That different objects are different services is `Listed`, again by `Room`. A publication
starts one search as its transaction is delivered once, which `EventFeed` promises.

`Bundle`: a post is what the bundle's `content.json` says, or there is none yet
(`Bundled`). Where there is an index file instead, the order of a node's set decides,
and no theorem speaks of those.

`Contract`: the chain is read one log behind another, so it is enough that every log that
can be there is read back as it was sent (`Coded`, `Possible`). For a call of this node
that is a chain of four facts: `select_abi` finds the overload that has exactly the
names it was given, and no two overloads have the same; the arguments are padded to words and cut
back to what they were; the contract files them under the event's names; and `parse()`
takes each field from the topics or from the data, in the order of the ABI. `Columns`
counts the places before a field, so that the prover can reason about it.

`Feed`: what makes a cursor work is that rowids are numbered as posts are dated
(`Ordered`), so that both of its conditions cut the table at one place. Then everything
shown is above the cursor (`Behind`), and of what there was at the first request and was
not stored again, everything else is below it (`Covered`); an answer under way says
the same of the cursor it brings (`Fetched`). A post that is stored again gets a new
rowid, above every cursor.

`HiddenService`: `asked`, `service_id` and Tor's services are tied to the stage of
`start()` and `stop()` and to the control connection (`Hidden`): a lost connection means
that Tor has lost the service, too, or that the process is one of `cut`.

`Gossip`: ratings move from the book to an answer and from there to another book, so the
invariant says of all three, and of the peer that is being downloaded from, that ratings
are earned (`Gossiped`). What was served or failed is history and only grows.

`Client`: the collection is the book of `PeerBook` without a limit (`Collected`). A
list that `download` and `upload` walk is a snapshot from near to far, and stays so when
the collection grows, as a peer keeps its service. A download that has come to its `n`th
peer has a "no" of all before it (`Downloads`); an upload has as many copies as it
counted, of the first peers of its list (`Uploads`).

*Left to TLC*: liveness and everything under fairness, as ENABLED is out of the prover's
reach: `FeedSpec` as a whole (its safety part is `ForwardImplementsFeed`),
`EveryRowRestored`, `SearchEnds`, `SeederSuffices`, `HolderReached` and
`HolderSuffices`.

## What the environment is assumed to do

* `core_service`: `emit` appends to the queue of every listener and does not
  suspend; a listener takes its queue in order; an exception ends the handler that
  raised it, nothing else. Discovery and download handlers run concurrently, as
  many as `Workers` and `Loaders`.
* The restore task has its turn before a peer has answered over the network: it is
  scheduled at the start and does not suspend.
* A failed `app.start()` is followed by `app.stop()` of every service.
* `yoyo`: its lock is a row of the database, which a process that dies leaves; waiting
  for it times out with an exception; a migration is applied and marked in one step;
  a rollback runs the rollback script, of which there is none, and takes the mark away.
* `eth_abi`: byte strings are padded at their end, strings that are too long and
  numbers that are too large are refused.
* Tor keeps a detached service until it is removed or Tor ends; every request for a
  new key makes a new address.
* The Ethereum chain is not reorganised. `eth_getLogs` answers completely, refuses
  negative numbers, and answers up to the latest block if `toBlock` is left out.
  The pool takes a transaction for a free nonce or a higher price for a used one.
* A publishing account is the node's account: the more they share, the more can go
  wrong. Accounts that differ have nothing in common.
* Distances of different services to a magnet differ (they are hashes).
* File operations are atomic and a written chunk is there at once. The clock does
  not run backwards.
* An insert into the database succeeds: `database/collections.py:62` logs an exception and
  swallows it, so a row whose insert failed keeps its old rating (or is missing) until
  the next event of its peer. `DbCatchesUp` and the properties of the feed hold under
  this assumption only.
* `SameSecond` (`Feed`) switches an assumption off, so that its weight can be seen: it is
  FALSE in the run; with TRUE pages repeat or skip, see below.

## Where code and documentation part

Two disagreements have a run that exhibits them.

* `download.py:90` "emit new discovery request in case of failure": an
  `asyncio.TimeoutError` (the total timeout of the session while the body is read)
  or an `OSError` passes both except clauses. No request is emitted, and the
  publication is lost until a restart although a peer that has it is known
  (`NodeTimeout`).
* `peering/service.py:117` "Actually distribute bundle": the `while True` of
  `distribute_task` has no break, so nothing is ever uploaded; with a usable peer
  it does not even suspend, and the whole process stands still
  (`DistributionSpins`).

The others were met while modelling. The models follow the code, and where a
property would need the documented behaviour it is stated for the cases that have
it.

* *Events.* `event_service.py:141` remembers transactions: of the logs of one
  transaction only the first in the direction of the walk is delivered (the FIXME at line
  69). A reverse range that reaches the last block stops after its first interval and
  logs "First block processed" (148-151, 112), with what is below not asked for
  (the exception in `ReverseComplete`). A bounded forward range delivers events beyond
  `to_block` (115). A reverse range whose interval reaches below block 0 sends a
  negative `fromBlock`, which ends the task. A log that does not decode ends the
  task with its transaction marked as loaded (143-144).
* *Iterator.* `block_range.py:75` "Retry last interval": `retry()` moves back by the step
  size of the moment. After a `record_time()` that halved it the failed interval's first
  blocks are never asked for again: start 2 and step 4 give 2..5, and after
  `record_time()` and `retry()` the next interval is 4..4. After one that doubled it, or
  after a second `retry()`, completed blocks are repeated, and an endless range may go
  below block 0, where it ends. A reverse interval that was clipped at its start is not
  restarted either: from 0..2 with a step of 4 the next interval is 2..3. A retry that
  goes back less, or more, than the step of its interval is what `slips` records.
* *Peering.* "Emit DiscoveryFinished in case of success and DiscoveryFailed in other
  case" (`service.py:155`): the `finally` clause emits `DiscoveryFailed` after a
  success, too (197-201). `Answers` demands neither that nor the opposite: a search
  that found somebody is answered, one that found nobody fails. The list is not kept
  sorted by rating (54): ratings change after the sort. `web/service.py:44` says
  "best", too, of the peers that `app.py:169` hands out: the first 100 of a list
  sorted ascending, the worst rated. The docstring of the handler says "highest
  rating" (`web/handlers.py:49`). The route `/discover/{magnet}` ignores its magnet:
  the handler reads the query's `magnet`, where its docstring says `hash`, and without
  one `nearest_peers` is `hot_peers` again. A node adds itself to its book. Bad
  ratings spread: who is told a rating below 0.1 never asks the peer. `hello` answers
  with `service_id` while `PeerClient.hello` reads `content_service_id` and `version`;
  "must be invoked before starting any download", it is never called. After a restart
  a `NewPeer` event that comes before the restored peer of the same service gives it
  rating 0.5 (`database/service.py:56`). A service that was evicted and came back is
  another object and counts as unvisited (`events.py:70`), so one search may ask it
  twice. A malformed answer ends a search (`peering/client.py:129`). Nobody listens to
  `DiscoveryFailed` although `events.py:118` speaks of a scheduler. "Periodically
  update known peers status" (`service.py:47`) has no code. A rating at or below 0.1
  never recovers. Peers that were never contacted are not stored.
* *Downloads.* After a restart everything is searched and downloaded again
  (`events.py:48-50`). Publications of the chain are not stored (`events.py:22`).
  `bundle.py:111` compares an extension that has lost its dot, so nothing is
  extracted.
* *Bundles.* "Choose one of the index files in the right order" (`bundle.py:89`): the
  names are in a set, whose order differs from process to process, so two nodes may
  show different files of a bundle with two. The content of an index file is bytes
  where `bundle.py:81` says "markdown text". A `content.json` with an `index` can never be read
  (`bundle.py:126-135`), and `create_post` without a text makes a bundle that nobody
  can read.
* *Contracts.* `publish` passes the character `0` as the "replyTo magnet hash"
  (`events.py:25`): every post replies to the magnet 30 and 62 zeros. `event.py:45`
  "decoded to hex with 0x prefix": there is no prefix. A contract's attribute for an
  overloaded method knows the first overload only; `select_abi` raises `KeyError` for
  arguments as many as an overload's with other names. `event_field` calls `size` and
  `retention` "magnet".
* *Client.* "Just go to the next results" (`client.py:161`): the except clause names a
  class of `client.py` that nobody raises, so a peer that claims to have the magnet and
  fails ends the download. An exception that `gather` returns counts as "has the magnet".
  `PeerClient` has no `close()`, so the first round that finds nothing ends in
  `AttributeError`. Discovery tasks outlive a call whose download raises. `upload`
  catches an `UploadError` that nobody raises.
* *Migrations.* "Rollback all migrations" (`migrations.py:40`): there are no rollback
  scripts, so the marks go and the tables stay; after a failed migration, or a timeout
  of the lock, every later start fails, and `cli()` ends with status 0.
* *Hidden service.* It is detached and survives a process that is killed; every start
  registers a new address; that Tor restarted goes unnoticed. If the control
  connection is lost while Tor goes on, `stop()` raises before it removes the service
  or closes the controller (`onion/controller.py:79`), and a start whose answer is lost
  leaves a service that nobody knows of.
* *Storage.* Two stores of a magnet that draw the same one of 90000 numbers
  (`storage/service.py:35`) write to one file; the first to finish moves a file that
  is still being written, and what is in place is then wrong
  (`peering/client.py:177`). The client's `_store` ends in `FileNotFoundError` after
  every success, and in the same without the magnet's directory (`client.py:219-231`).
* *Publishing.* If the magnet's directory exists, `mkdir` raises and leaves a
  publication without its file (`app.py:198-209`); so does every retry after an
  `os.rename` that raised, or a death, behind `mkdir` (209-210): the draft is paid for and
  can never be placed. A death between `os.rename` and `emit` (210-212) leaves a file in
  place that `publish` never announces. Otherwise it may be announced again, when the
  node downloads its own publication (`download.py:79-80`). Two calls that read one nonce
  replace each other's transaction: the file of the loser is placed and announced
  and its post never mined (`app.py:182-184`).
* *Feed.* Posts of one second have no order while the cursor compares rowids: pages
  repeat or skip. A post that is stored again, as after every restart, moves to the
  top; a reader who had not come to it yet never does (`app.py:221`).

## What is not modelled

* Logging: output only.
* `OnionService`: nobody creates it, and its arguments do not fit the controller it
  calls.
* `hello` and the routes that return constants; the set-up of the web application and
  its session of static files; reading the configuration.
* The rows of `sarafan_publications`: `publish` stores them, nobody reads them.
* The order in which services start, except where it matters (restored peers, the
  service id, contract addresses, migrations).
* Inside `Node` a bundle is readable or not, a store succeeds or raises, and the answers
  of other nodes to `discover` are any list: `Bundle`, `Storage` and `Gossip` say more of
  each. A composition of all of them would multiply their states and relate nothing
  that the interfaces do not.
* A restored peer that comes after the `NewPeer` event of its service
  (`database/service.py:56`): there is no order the code promises, so no property; the
  models have the behaviour.

`PROJECT.json` lists every part with what is modelled of it, and every hazard of
the code with the properties that cover it.

## Plan

Done: all parts but those above, and a proof of every safety property that a run checks.
What is left, in order of importance:

1. An abstract search that `Peering` implements: a request visits usable peers, each
   object once, and ends with an answer. Its parts are proved (`AsksEverybody`,
   `EveryRequestAnswered`); what is missing is the mapping.
2. `RowsCatchUp` after a crash, for a node whose restored peers come before the events
   of the chain, and with inserts that fail.
3. The iterator's consumer in `EventService` calling `retry()` after a failed request,
   once the code does.
