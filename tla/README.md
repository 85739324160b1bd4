# SwiftServe in TLA+

A model of SwiftServe, the decentralised file-sharing service of this
repository: what its nodes keep, the requests they serve and send, and what goes
right and wrong when requests interleave, nodes wait for each other and processes
crash. TLC checks small instances; the theorems, checked by TLAPS, hold for any
number of nodes, files, workers and blocks.

Paths below are relative to `src/`.

## The system

A node is one Django process. Its apps are started in the order `registry`,
`filefetcher`, `blockchain`.

| Part | Keeps | Operations | Talks to |
| --- | --- | --- | --- |
| Chain (`blockchain/chain/Blockchain.py`) | list of blocks, `blockchain.bin` | `add`, `add_genesis`, `load_blocks_data`, `save`, `load` | keys, node list, file list, other nodes |
| Ledger requests (`blockchain/views.py`) | nothing of their own | `/addBlock`, `/overwriteBlockchain`, the read-only requests | chain, peers |
| Node list (`registry/Node/List.py`) | addresses, `nodelist.bin` | `add`, `remove`, `random_picks`, the vote over hashes | other nodes |
| File list (`registry/File/List.py`) | files and how many chunks are there, `filelist.bin` | `add`, `remove`, `completed` | |
| Keys (`blockchain/chain/Key.py`) | a directory of PEM files | `get_key`: from the directory or from its owner | `/key` of the owner |
| Upload (`registry/views.py`) | | `/upload`: store, list, sign and add a block, tell peers | chain, both lists, peers |
| Download (`registry/views.py`) | | `/download`, read only | |
| Job managers (`filefetcher/Fetcher.py`, `Sender.py`) | a queue on the disk, a thread | `add_work`, `start`, the loop of the thread | `/response`, `/download`, `/webhook` of peers |
| Transfer (`filefetcher/views.py`) | | `/response`, `/webhook` | job managers |

What is hard in it:

* A handler waits in the middle: `Blockchain.add` asks the creator of the block
  for its key, an invitation or a block is posted to a peer. With `runserver` every
  request has a thread and others run meanwhile; with gunicorn's default of one
  worker nobody else of the node runs, and the node cannot answer its peers.
* A block goes by gossip: it comes late, twice, out of order or never.
* The process can be killed between any two steps, also between emptying a file
  and writing it.
* A job thread ends when its queue is empty, and whoever brings the next job has
  to notice that.
* A chunk is offered by several nodes, late and again, and put back in the queue
  behind others; a node reads its file for a peer while it appends to it; what is
  in the file and what the saved list counts of it part in a crash.

What makes each part correct: a chain has consecutive numbers, times that do not
decrease and matching hashes, never loses more than a genesis block while its
node runs, and can be loaded again after a crash; the two lists say what the
chain says; every request ends; a manager has one thread, and a queued job is
worked on; the file on a node is a beginning of the original, chunk by chunk, and
comes everywhere; what a crash leaves of `blockchain.bin` is read as the blocks that
are whole in it; the search for the block where two chains part finds it. The hazards
behind these, each with its line, are in `PROJECT.json`.

## The modules

| Module | What it is |
| --- | --- |
| `Blocks` | blocks and chains as data, the checks that read a chain |
| `ChainStore` | abstract specification: what the chains of a network promise |
| `ChainStoreProofs` | theorems about it |
| `Ledger` | requests, workers, keys, files on the disk, crashes; implements `ChainStore` |
| `LedgerInvariants` | the inductive invariants of `Ledger` |
| `LedgerProofs` | types and known hashes, for any number of workers |
| `LedgerRefinement` | with one worker: no stale reads, `Ledger` implements `ChainStore` |
| `LedgerRecovery` | what nodes keep of the keys, files and chains, and start again from |
| `CollidedBlock` | the binary search for the first different block |
| `CollidedBlockProofs` | its probes are of blocks that are there, and it is right for chains of any length |
| `JobThread` | the Fetcher and the Sender: queue, thread and handlers |
| `JobThreadProofs` | types, for any number of workers; one thread, and no failing `start`, with one |
| `Spreading` | abstract specification: how a file spreads over the network |
| `Transfer` | the chunks of a file: what the jobs of both managers do, and what crashes leave; implements `Spreading` |
| `TransferProofs` | files are exact, and what holds of them through crashes |
| `BlockStream` | the bytes of a chain: saved, torn, overlaid and loaded |
| `BlockStreamProofs` | what is loaded are whole blocks, for blocks of any texts and chains of any length |
| `MCLedger`, `MCJobThread`, `MCTransfer`, `MCBlockStream` | values of constants and symmetries for TLC |

`Ledger` and `ChainStore` share `Blocks`. `JobThread` has the threads of a manager
for any number of request workers and leaves open what a job does; `Transfer` has
what jobs do, and takes from `JobThread` that with one request worker nobody else
starts the thread (`AtMostOneThread`). What `Transfer` needs of the ledger is the
moment at which a node lists the file (`ListFile`). `BlockStream` opens up the one
step in which `Ledger` writes `blockchain.bin` or reads it.

Definitions marked "Mutant" are variants of the definition after them with a
plausible mistake. Nothing uses them; they are there to see that each property
notices its mistake.

### Ledger

A block's hash is its position in `minted`, the sequence of all blocks ever
signed, so a chain is a sequence of numbers. Equal hashes mean equal blocks, which
is what SHA-256 and the signature are trusted for; forged or altered blocks are
outside the model.

| Variable | Code |
| --- | --- |
| `minted` | all blocks made by `Block.__init__` |
| `mode` | the process: down, loading `blockchain.bin`, serving |
| `chain`, `members`, `files` | `Env` `CHAIN`, `NODES`, `FILES` |
| `keys` | `downloads/keys/*.pem` |
| `chainFile`, `memberFile`, `fileFile` | `blockchain.bin`, `nodelist.bin`, `filelist.bin` |
| `job` | for every worker the step it has reached and its local variables |
| `net` | requests posted and not taken up yet |
| `crashes` | for the bound only |

A step is the code between two points where a handler waits or another thread may
see what it did: `check` (the three comparisons of `Blockchain.add`), `key`
(`get_key`, append, operation), `invite`/`invited`, `save` (`get_blocks_data`),
`open`, `write`, `tell`/`wait`; `store` for the upload that writes its file,
`clear` for the overwrite that has read its body; `raise` for an exception on its
way out. `add_block` swallows every exception in its `finally` clause and goes on
to save and tell; the other handlers end.

A request in `net` may be taken up at any later time, after its sender has stopped
waiting: timeouts need no action of their own, the sender goes on when it likes
(`Told`, `Invited`), and a key that is asked for may not come (`KeyFails`). A lost
connection ends a handler that is telling its peers.

Blocks that add or remove nodes, or remove files, are signed by nothing in the
repository; `OperatorPosts` stands for the client that does.

Left out: port numbers (`tell_other_nodes` assumes that all nodes have the same);
the first-chunk notices (they belong to `Transfer`), but for their failing; the
saves of the two list files are one step; the file contents. Requests that only
read change nothing here.

### JobThread

The same code twice, for the fetcher and the sender, and the requests that bring
jobs. The handler's calls are single steps (`add_work`; `is_running`; the two
questions of `start`; `Thread.start`), and so are `queue.empty()` and
`queue.get()` of the thread. What a job does is left open: it is finished, put
back, or raises. It raises if its file is not listed, or if it needs `PORT` before
the `blockchain` app has set it (`mode = "starting"`). A request that is refused
before it brings a job changes nothing and is not modelled.

### Transfer

One file that is not empty, from the moment its upload has added the block. A byte
is its place in the original and a hash is the content it is of, so bytes that are
missing, repeated or out of order show, and a hash that fits says exactly what has
been read.

| Variable | Code |
| --- | --- |
| `mode` | the process: down, started with `PORT` and `IPADDRESS` not set yet, serving |
| `count`, `listFile` | the entry of the file in `FileList`: chunks downloaded; the same in `filelist.bin` |
| `file` | the file in the downloads directory |
| `fetchQueue`, `sendQueue` | the two `FIFOSQLiteQueue`s, on the disk |
| `fetcher`, `sender` | the thread of each manager: the step it has reached, its job, the data still to be appended, the peers still to be told, the offer it has made |
| `telling` | the peers `/upload` has still to tell about the first chunk |
| `net` | `/response` and `/webhook` requests posted and not taken up; a set: two equal requests under way at the same time count as one |
| `faults`, `lost`, `torn`, `invites`, `crashes` | for the bounds and for stating properties |

The steps of the Fetcher are those of its loop: `FetchLook` (the next job, or none),
`FetchCheck` (the questions to the file list), `Fetch` (download, hash, save of the
list), `AppendChunk`, `Complete` (count and save), `Tell`, `Confirm`, `Verify` (the
hash of the whole file). `FetchFails` puts the job back: after three attempts, or
when the other node answers with other bytes than it has offered. The Sender reads
its file in one step (`SendRead`), posts (`SendPost`), and waits for the answer; it
tries again when the post fails or the answer does not come (`SendFails`), although
the job may be queued. The byte ranges are computed as the code does it, in three
places that differ in the end of the last chunk (`FirstEnd`, `InviteEnd`,
`NextOffer`).

`AppendPart` is an append that others see half done: `/download` and the Sender read
the file while the Fetcher writes it, and a crash can come in between. A crash loses
the jobs the threads had taken, the file list in memory and the requests to the
node; a restart loads the list, starts the threads and replays the chain, which
lists the file if it was not saved (`ListFile`).

Left out: a second request worker (two Fetchers may then append to one file, which
`OneThread` of `JobThread` is about); other files in the same queues; the empty
file, which has no chunks; the torn `filelist.bin`.

### BlockStream

`Blockchain.save` and `load` byte by byte, with the three delimiters. A block is
three texts (its data, hash and signature in base64, whose letters are no
delimiters). The chain is collected (`Extend`), the file emptied (`Open`) and
written (`Write`); a crash leaves any beginning of it (`Tear`), or another worker
has collected its chain (`BeginOther`, `ExtendOther`) and saved it into the emptied
file first (`WriteOther`). `ends` and `otherEnds`, which no variable of the code
has, are where the blocks of the two chains end in their bytes: the properties are
stated with the first, and the proofs need both. Then the next start
reads (`ReadByte`), and `from_bytes` parses what it gets up to an `EOF`
(`ParseStart`, `ParseEnd`, `ParseLetter`, `Malformed`). A block it finds is added
(`AddBlock`) or refused (`Refuse`): the checks of `Blockchain.add` are those of
`Ledger`, here any block may fail them but the next one of the saved chain, which has
passed them before. An empty chain is not saved (`last_block_number` raises), and the
first block of a saved one is a genesis block, so `add_genesis` refuses nothing.

### CollidedBlock

What `add_block` was written to do when a block does not fit: find by binary
search where its chain leaves the most common one. One request per probe, with the
other chain growing meanwhile (`Grow`), and being emptied and replaced as long as it
is a genesis block only (`Empty`, after which the next block is a genesis block). The
other node does not crash meanwhile: a restart could take back blocks that have been
compared. Today the search is not reached: the vote before it
(`most_matched_hash_nodes`) finds nobody, because `hash_map[hash_val].append` of the
first answer raises a `KeyError` that the loop swallows. `CheckFails` of `Ledger`
therefore goes straight on to the `finally` clause.

## Runs

Passing:

| Run | Shows | Bounds |
| --- | --- | --- |
| `Ledger_single` | an idle node has a chain, overwrites take a genesis block only, shared blocks have shared histories | 2 nodes, 1 file, 5 blocks, all peers told |
| `Ledger_restart` | chains are chains though clocks differ, restart from the own disk, the disk is the memory between requests, files follow the chain and an upload loses its block only to a key or a clock, refinement of `ChainStore`, the invariant of the proofs | 2 nodes, one of which has its own key, 1 file, 2 times, 4 blocks, nodes removed, 1 crash, 1 peer told |
| `Ledger_threads` | every handler that is taken up ends; keys of all creators are on the disk; a name is uploaded once | 2 nodes, 2 request threads each, 1 file, 3 blocks, 2 crashes, files removed |
| `JobThread_single` | one thread, `start` never fails on another | 1 handler, 2 jobs, queue of 2 |
| `JobThread_live` | a dead thread is replaced when a job comes | 2 handlers racing |
| `CollidedBlock_all` | the search finds the parting and ends, while the other chain grows or is replaced | chains of up to 9 blocks |
| `Transfer_live` | files are exact at all times, they implement `Spreading`, they come everywhere or a job is stranded | 3 nodes, one of which hears of everything twice; a whole chunk and a last one of a single byte; 1 call that fails and is tried again |
| `Transfer_crash` | wrong bytes do not last, the saved count is of chunks that are there and never falls, the upload keeps its file | 3 nodes in a line, the one in the middle crashes once; 2 chunks; 1 message lost, 1 half append, 1 invitation, the block of the file may come at any time |
| `BlockStream_all` | a torn file loads as the blocks whole in it; an overlaid one gives whole blocks, up to one that is cut or refused | chains of up to 3 of 4 different blocks, torn at every byte, overlaid by any other chain |

Two nodes are enough for one to invite, copy, gossip with and wait for the other;
five blocks are two geneses, an added node, an upload and one more. A transfer needs
the third node: only there does a chunk arrive from two others, or through one that
has crashed. Two chunks have a first, a last, a next one and one that is not next;
three bytes in chunks of two have a short last chunk, of the one byte for which the
sender's range is special. Blocks of two lengths are enough for an overlay to end
at and within the blocks of the other chain. The properties are proved without
these bounds where it matters most (below).

What the documentation says and the code does not do is stated as a property, and
a run shows the violation:

| Run | Said | Happens |
| --- | --- | --- |
| `Doc_threads` | a block must follow the top | two threads append the same number |
| `Doc_upload` | an upload creates a block | a node with one worker cannot fetch its own key |
| `Doc_transfer` | the cycle goes on until the file is there | a job is queued when the thread has seen the queue empty and has not ended: it is never worked on |

More of the kind, met while modelling. They follow from the models as they are but
have no run of their own:

* `OneThread` holds with one request worker only. With two, both find the thread
  ended, both call `start`, and the `RuntimeError` of a thread that has been started
  is answered by making another (`Fetcher.py:175`): two fetchers append to one file.
* `AppendOnly` holds with one worker only: `overwrite_blockchain` reads the size of
  the chain before the body of the request (`blockchain/views.py:265`).
* A block that a crash can undo is known elsewhere: the node that an `add_node` block
  adds is sent the whole chain (`Blockchain.py:101`) before `add_block` saves it
  (`blockchain/views.py:177`). The gossip comes after the save; `SavedWhenSettled`
  therefore says nothing of the steps in `Unsaved`, of which `Invite` is one.
* A node can stay with a `blockchain.bin` that is missing, empty or of one block beside
  another chain, between requests too: the genesis block a node builds for itself is
  not saved, nor is what has been added of a chain when one of its blocks is refused
  (`blockchain/views.py:266`). `Short` in `SavedWhenSettled` allows for these.
* `ServesAChain` holds without crashes only: `save` empties `blockchain.bin` before
  it writes (`Blockchain.py:200`), and `load` takes an empty file for a chain of no
  blocks, on which every request then raises.
* A node that copies a chain does not learn the nodes on it, because
  `load_blocks_data` adds such blocks without their operation (`Blockchain.py:279`).
* `add_block` passes on every block that is not the top, refused ones too
  (`blockchain/views.py:184`): two nodes with different tops send one to each other
  for as long as requests are taken up.
* The sender's jobs wait at the start of a node if the fetcher has none:
  `file_downloader.start()` raises first (`filefetcher/apps.py:30`). See `Boot`.
* `remove_file` tests the wrong way round (`Blockchain.py:166`): the file of a
  `remove_file` block stays listed, and for one that is not listed the call raises
  after the block has been appended.
* Chains that differ stay different: the vote that would find a better one never
  finds a node (`registry/Node/List.py:209`), so nothing is ever copied.
* A node that adds a node with a file it lists but has not downloaded yet cannot
  open that file: `Blockchain.add` raises after it has appended the block
  (`Blockchain.py:122`).
* An empty file has no chunks: other nodes list it as downloaded and never create
  it.
* A crash between the append and the save of the list (`Fetcher.py:88`) makes the
  chunk be appended again after the restart. Later chunks of the node are then out
  of place. Its peers download them, and notice only at the end, when the hash of
  the file is wrong: they delete it, list it as complete, and never fetch it again
  (`Fetcher.py:154`). `CheckedWhenComplete` is what remains true.
* A crash between the count of the last chunk and the comparison of the hash leaves
  a file that is served though nobody has compared it; hence `crashes[n] = 0` in
  `CheckedWhenComplete`.
* A crash loses the job a thread has taken (`Fetcher.py:45`); nothing asks for that
  chunk again. An offer that comes before the `add_file` block is lost likewise:
  the `KeyError` of `isDownloaded` ends the thread (`Fetcher.py:56`).
* An offer of a chunk that was read half written has a hash that never fits again:
  it is put back in the queue until the file is complete.
* When two workers have saved chains of different lengths into one file, the end of
  the longer one may be cut within a block; the next start then raises
  `ValueError` and the node does not come up. `NothingInvented` allows it.
* `collided_block` says -1, for "same", when the first blocks differ: its search
  begins at -1, which Python takes for the last block (`blockchain/views.py:51`).
  `FindsTheParting` supposes a shared genesis block.

The runs of `Ledger` differ in `InitKeys`, the files `keys/<ip>.pem` at the start. As
installed there are none: a node's own key is in `localkey.pem`, and `Blockchain.add`
looks for `<ip>.pem`. `Doc_upload` and `Ledger_threads` start like that. A node comes
to its own `<ip>.pem` when a handler asks `/key` of the node itself and another thread
answers: `get_key` saves what it gets (`Key.py:172`). A crash before `blockchain.bin`
is saved then leaves a node with this file and nothing else, which `Ledger_single`
supposes of both nodes, so that uploads work with one worker too, and `Ledger_restart`
of one of them.

Deadlock is not checked: when all blocks have been signed and all requests served
the network is at rest. Likewise when the file is everywhere, a job is stranded,
or the chain has been loaded.

### Fairness

`FairSpec` of `Ledger` lets a handler that has started go on, for every worker:
threads are scheduled and all its waits have timeouts. No fairness is assumed of
requests being taken up, of operators, of starts. `FairSpec` of `JobThread` lets
handlers and threads run, that of `CollidedBlock` the search, as long as the other
node answers.

`FairSpec` of `Transfer` lets the upload go on telling its peers, requests be taken
up (a server that is up accepts connections, and the Sender waits for the answer),
and threads run. Nothing is assumed of crashes, restarts, invitations, or of one
branch of a step being taken rather than another: a thread that may fail or succeed
is only known to do one of them, and failures are bounded because the liveness
property is about a network in which they end.

## Proofs

Assumed of the constants: finitely many nodes, times are natural numbers, a name
for "no file" that is no file (`LedgerAssumption`), and the like.

**`LedgerProofs`**, any number of workers. `TypeOK` is not inductive: a step appends
the block a worker holds, pops the stream it has, tells the first of its peers. The
invariant adds `IdsKnown`: every hash in a chain, a file, a job or a request has
been signed, streams and lists of peers are not empty when their head is taken.
Theorems `HashesAreKnown`, `TypeCorrect`.

**`LedgerRefinement`**, one worker to a node (`SingleWorker`). `ChainInv` says that
what a handler has read still holds when it acts: at `key` the block still follows
the top, at `clear` the chain still has at most one block, the first block of every
stream, file and chain is a genesis block, and a node that is down has nothing.
That is exactly what fails with two threads (`Doc_threads`). From
it every step of `Ledger` is a step of `ChainStore` or leaves the chains alone
(`LedgerImplementsChainStore`), and what `ChainStoreProofs` shows of the store
carries over: `LedgerChainsWellFormed`, `LedgerHistoriesAgree`. The second rests on
a block naming its predecessor: two chains with the same block at a position have
the same blocks below it, by induction over the steps that extend them.

**`LedgerRecovery`**, on top of the two. Each invariant is what the theorem before it
lacks:

* `KeptInv`, any number of workers: a node has the keys and lists the files of the
  blocks on its chain, and a node that is down has no chain. Without the last part a
  restart, which begins with no chain but the old keys, could not be followed.
  Theorems `LedgerKeysHeld`, `LedgerListsFiles`; with one worker and the refinement
  also `LedgerAppendOnly`.
* `SaveInv`, one worker: from the moment `get_blocks_data` has collected them the
  blocks stay those of the chain until they are written and told, and every
  `blockchain.bin` there is, the emptied one of a crash included, is a chain whose
  keys the node has.
* `SettledInv`, one worker: what a starting node has added, the block at hand and those
  to come make up its file (`Following`), and every step knows whether a save is still
  owed (`Tracked`): a chain is copied only beside a file not worth keeping, and an
  append by any other handler is followed by a save. Theorem `LedgerSavedWhenSettled`.
* `BootInv`, one worker: the same of a starting node, and no block was refused. Theorem
  `LedgerRestartReplays`, if no `remove_file` block is signed (`NothingRemoved`): one
  about a file that is not listed raises after it was appended, and at every start
  again.
* `ServeInv`, one worker, until the first crash: a node without a chain is taking over
  another one. Theorem `LedgerServesAChain`. After a crash it is false: the emptied
  file is loaded as a chain of no blocks.
* `FilesInv`, one worker, until the first crash: a listed file has its block on the
  chain, or its upload is about to append one that fits but for its time
  (`Announcing`), or the node has refused its own block (`Refused`). Theorem
  `LedgerListedOrRefused`, for any keys and clocks: no other handler and no copied chain
  comes between the upload and its block. After a crash an upload that was interrupted
  leaves its file listed.
* `NamesInv`, any number of workers: the files whose blocks a node has signed are in the
  list it has saved, and in memory while it runs. The list is saved before the block
  is signed and never loses a name, so the test of `FileList.add` sees every name that
  was signed, also after a crash. Theorem `LedgerUploadedOnce`.

**`JobThreadProofs`**. `RestInv`, any number of request workers: the types, and that
nothing of a process that is down is left; a thread number is needed for every
handler and thread there is, so the types alone are not inductive. Theorem
`ManagersTyped`. With one request worker, only the thread the manager refers to runs,
and a handler between `is_running` and `Thread.start` is right that it has ended.
Theorems `AtMostOneThread`, `StartNeverClashes`. Two handlers that race in `start`
break both.

**`CollidedBlockProofs`**. The parting stays between `low` and `high`, and the
position -1 is probed only if the other chain had one block, the only time at which it
may be replaced. Theorems `SearchTyped`
(what is probed exists), `SearchIsRight`.

**`TransferProofs`**, any network, sizes and bounds. Four invariants, each for what
the theorems need.

* `TypeInv`: the types, and that the node of the upload keeps the file and its count
  (`Uploaded`), so that its Fetcher has nothing to do. Without the second part the
  first is not inductive: the upload reads the file again for every peer it tells.
  Theorems `Typed`, `OriginKeepsTheFile`.
* `ExactInv`, while nobody has crashed and nobody has read half a chunk: every job
  there is, in a queue, a thread or a request, is about a chunk of the original, with
  its hash and its range (`Genuine`); a thread that is about to append has the next
  chunk (`InStep`); so every file is a beginning of the original (`Exact`). It rests
  on arithmetic of chunks (`TotalCovers`, `EndOfFacts`), on adjacent parts of a
  sequence making a longer one (`ChunkExtends`), and on `NextOfferTrue`: what the
  Sender reads after a confirmed chunk is the next one, because a file that ends
  before it or in it is not offered. Theorems `ExactFiles`, `TransferSpreads`, the
  refinement: the append of a chunk is a step of `Spreading`, all else a stutter.
* `CrashInv`, through all faults: the saved count is at most the one in memory, and a
  node that has not crashed has compared its file or is about to, whatever bytes the
  offers of others were about. Theorems `CompleteFilesAreChecked`, `SavedCountsGrow`.

* `SavedInv`, through crashes, as long as nobody reads half a chunk: what is counted,
  saved and about to be confirmed agree (`Saved`); every job is about whole chunks,
  with a hash of as many bytes as its range has (`Placed`), though the bytes may be
  wrong ones after a crash has made a chunk be appended twice; so a file has whole
  chunks only, and at least as many as the saved list counts (`Stored`). Theorem
  `SavedChunksAreThere`.

**`BlockStreamProofs`**, blocks of any texts, chains of any length, torn anywhere or
over any other chain. What the two loops read byte by byte is followed by an
invariant over the place they have reached, so no induction over a text is needed:

* the bytes collected are those of the first blocks, one after the other, and every
  one belongs to a block (`Serial`); the file has them as far as they were written,
  and after them those of the other worker (`FileInv`);
* the buffer has the first bytes of a block of one of the two chains, or the bytes
  of a block of the other chain after its first p, which have been written over
  (`Buffered`, `Located`);
* in the first case `from_bytes` has found the first texts of the block and the
  beginning of the next one (`ParserExact`); in the second no more texts than begin
  after the first p bytes, which are at most two (`ParserCut`), so that the `EOF`
  makes it raise;
* a block that is refused is one of the other chain (`Refused`).

Theorems `StreamTyped`, `WholeBlocksLoad`, `NothingIsInvented`. That a text has none
of the delimiters (`BlockStreamAssumption`) is what makes the one `EOF` of a block
its last byte (`EofIsLast`).

The invariants of all these proofs were checked by TLC on the instances of the runs
before they were proved. Every safety property of the passing runs is the subject of
a theorem. `ServesAChain` and `RestartReplays` are proved under the conditions given
above, which the instances of their runs satisfy.

Only checked by TLC: liveness (`HandlersFinish`, `Revives`, `Ends`,
`CompletesOrStalls`), which rests on fairness and is out of this prover's reach.

## Not modelled

* JSON, base64, PEM files and HTTP formats: conversions, covered by the unit tests of
  the repository. The signature check always succeeds, since all blocks are honestly
  signed.
* The read-only requests, `/download` without a range among them; Django's
  configuration; `Env`, which is a dictionary.
* `get_blocks_data` and `load_blocks_data` from a position, with which `add_block`
  would copy the better part of another chain: no execution reaches them (see
  `CollidedBlock`).
* Torn `nodelist.bin`, `filelist.bin` and key files: the first two are not decoded
  at the next start, which raises, so a node with one never runs again.
* Several files at a time: their jobs share the queues, and one that cannot be done
  yet goes to the end.

## Plan

1. Torn `nodelist.bin`, `filelist.bin` and key files, as steps of their own, and what
   the theorems of `LedgerRecovery` become with them.
2. Membership after restarts: `remove_node` is never saved, `Env` and disk differ.
3. Two files in one queue: whether the jobs of one can hold up the other.
4. `Spreading` proved on its own: files only grow, and never beyond the original.
5. `ListedOrRefused` after a crash: which files stay listed without a block.
