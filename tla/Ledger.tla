------------------------------- MODULE Ledger -------------------------------
(***************************************************************************)
(* The replicated blockchain: what every node keeps in memory and on disk, *)
(* the request handlers that change it, and the requests nodes send each   *)
(* other.  blockchain/views.py, blockchain/chain/Blockchain.py, the upload *)
(* handler of registry/views.py, registry/Node/List.py, Key.get_key and    *)
(* the start-up code of the apps.                                          *)
(*                                                                         *)
(* A request is served by a worker of the node and takes several steps,    *)
(* one between any two points at which the handler waits (a request to     *)
(* another node, a file): the workers of a node interleave there.  With    *)
(* one worker (gunicorn's default) a node's handlers run one at a time;    *)
(* runserver has a thread for every request.                               *)
(***************************************************************************)
EXTENDS Blocks, FiniteSets

CONSTANTS
  Workers,      \* the request workers of a node
  Fanout,       \* how many peers are told about a block (4 in the code)
  InitKeys,     \* the pem files a node has in its key directory at the start,
                \* none as installed (Key.get_key writes what it fetches)
  AdminActions, \* the action_types of blocks that operators sign
  NoFile,       \* "no such file", also "no file name"
  MaxBlocks,    \* bound: blocks ever signed
  MaxCrashes    \* bound: process crashes

ASSUME LedgerAssumption ==
  /\ IsFiniteSet(Nodes)
  /\ Times \subseteq Nat
  /\ Workers # {}
  /\ Fanout \in Nat
  /\ InitKeys \in [Nodes -> SUBSET Nodes]
  /\ AdminActions \subseteq {"add_node", "remove_node", "remove_file"}
  /\ MaxBlocks \in Nat
  /\ MaxCrashes \in Nat
  /\ NoFile \notin Files \cup Seq(Nat)

VARIABLES
  minted,       \* the ledger: every block ever signed, its hash is its index
  mode,         \* "down", "boot" (loading its files) or "up" (serving)
  chain,        \* Blockchain.__blocks, the blocks by their hashes
  members,      \* NodeList: the known nodes
  files,        \* FileList: the known files
  keys,         \* whose public key is in the key directory (on disk)
  chainFile,    \* blockchain.bin
  memberFile,   \* nodelist.bin
  fileFile,     \* filelist.bin
  job,          \* what every worker is doing
  net,          \* requests posted and not yet taken up
  crashes       \* how many crashes there have been

memory == <<chain, members, files>>
disk == <<keys, chainFile, memberFile, fileFile>>
vars == <<minted, mode, memory, disk, job, net, crashes>>

Steps == {"idle", "store", "clear", "check", "key", "invite", "invited",
          "raise", "save", "open", "write", "tell", "wait", "serve"}
Kinds == {"none", "addBlock", "overwriteBlockchain", "upload", "boot"}

\* A worker: its next step, the request it serves, the file being uploaded,
\* the block being added, the blocks of the stream that follow it, the bytes
\* about to be written, the peers still to be told in the order picked.
Job == [pc : Steps, kind : Kinds, name : Files \cup {NoFile}, blk : Nat,
        todo : Seq(Nat), out : Seq(Nat), tell : Seq(Nodes)]

Idle == [pc |-> "idle", kind |-> "none", name |-> NoFile, blk |-> 0,
         todo |-> <<>>, out |-> <<>>, tell |-> <<>>]

Request == [kind : {"addBlock", "overwriteBlockchain"},
            to : Nodes, blks : Seq(Nat)]

TypeOK ==
  /\ minted \in Seq(BlockData)
  /\ mode \in [Nodes -> {"down", "boot", "up"}]
  /\ chain \in [Nodes -> Seq(1 .. Len(minted))]
  /\ members \in [Nodes -> SUBSET Nodes]
  /\ files \in [Nodes -> SUBSET Files]
  /\ keys \in [Nodes -> SUBSET Nodes]
  /\ chainFile \in [Nodes -> {NoFile} \cup Seq(1 .. Len(minted))]
  /\ memberFile \in [Nodes -> SUBSET Nodes]
  /\ fileFile \in [Nodes -> SUBSET Files]
  /\ job \in [Nodes -> [Workers -> Job]]
  /\ net \subseteq Request
  /\ crashes \in Nat

\* Every node is installed and has not been started.
Init ==
  /\ minted = <<>>
  /\ mode = [n \in Nodes |-> "down"]
  /\ chain = [n \in Nodes |-> <<>>]
  /\ members = [n \in Nodes |-> {}]
  /\ files = [n \in Nodes |-> {}]
  /\ keys = InitKeys
  /\ chainFile = [n \in Nodes |-> NoFile]
  /\ memberFile = [n \in Nodes |-> {}]
  /\ fileFile = [n \in Nodes |-> {}]
  /\ job = [n \in Nodes |-> [w \in Workers |-> Idle]]
  /\ net = {}
  /\ crashes = 0

-----------------------------------------------------------------------------
(* Helpers *)

At(n, w, pc) == job[n][w].pc = pc
Becomes(n, w, j) == job' = [job EXCEPT ![n][w] = j]
Goto(n, w, pc) == Becomes(n, w, [job[n][w] EXCEPT !.pc = pc])

\* The block a worker is adding.
Adding(n, w) == minted[job[n][w].blk]

\* The bound on blocks leaves one for every upload that has started.
CanMint ==
  Len(minted) + Cardinality({x \in Nodes \X Workers : At(x[1], x[2], "store")})
    < MaxBlocks

\* random_picks of at most Fanout known nodes in any order, the node itself
\* included if it is in its own list.
Picks(n) ==
  LET size == Cardinality(members[n])
      k == IF size > Fanout THEN Fanout ELSE size
  IN {p \in [1 .. k -> members[n]] : \A i, j \in 1 .. k : p[i] = p[j] => i = j}

\* The loop of load_blocks_data takes the next block off the stream.
LoadNext(j) ==
  [j EXCEPT !.pc = "check", !.blk = Head(j.todo), !.todo = Tail(j.todo)]

\* Mutant: an upload tells its peers before it saves the chain.
AfterAddUnsaved(j) ==
  IF j.todo # <<>> THEN LoadNext(j)
  ELSE [j EXCEPT !.pc = IF j.kind = "boot" THEN "serve"
                        ELSE IF j.tell # <<>> THEN "tell" ELSE "save"]

\* A block is in: the stream goes on, or its caller does.
AfterAdd(j) ==
  IF j.todo # <<>> THEN LoadNext(j)
  ELSE [j EXCEPT !.pc = IF j.kind = "boot" THEN "serve" ELSE "save"]

\* A worker that has told everybody is done.
Telling(j) == IF j.tell = <<>> THEN Idle ELSE [j EXCEPT !.pc = "tell"]

\* Bytes written at the start of a file that another worker has opened and
\* written since: only what they cover is replaced.  (Two chains of which none
\* is a prefix of the other would be cut within a block.)
Overlay(new, old) == new \o SubSeq(old, Len(new) + 1, Len(old))

\* load_blocks_data adds blocks about nodes with blockOperation=False.
Loading(j) == j.kind \in {"overwriteBlockchain", "boot"}
\* Mutants: blockOperation=False also for files, blockOperation=True always.
OperatesNever(n, w) == ~Loading(job[n][w])
OperatesAlways(n, w) == job[n][w].blk # 0
Operates(n, w) == ~Loading(job[n][w]) \/ Adding(n, w).action \in FileMethods

\* GET /key is answered by a worker of the creator that is not busy.
AnswersKey(c) == mode[c] = "up" /\ \E w \in Workers : At(c, w, "idle")

\* The process is gone, and with it all it kept in memory.
Halt(n) ==
  /\ mode' = [mode EXCEPT ![n] = "down"]
  /\ chain' = [chain EXCEPT ![n] = <<>>]
  /\ members' = [members EXCEPT ![n] = {}]
  /\ files' = [files EXCEPT ![n] = {}]
  /\ job' = [job EXCEPT ![n] = [w \in Workers |-> Idle]]

-----------------------------------------------------------------------------
(* Start-up and crashes: the ready methods of the apps. *)

\* First start: no blockchain.bin, the chain is a genesis block of its own,
\* which is neither saved nor entered into the node list.
BootFresh(n) ==
  /\ mode[n] = "down"
  /\ chainFile[n] = NoFile
  /\ CanMint
  /\ \E t \in Times : minted' = Append(minted, Genesis(n, t))
  /\ mode' = [mode EXCEPT ![n] = "up"]
  /\ chain' = [chain EXCEPT ![n] = <<Len(minted) + 1>>]
  /\ members' = [members EXCEPT ![n] = memberFile[n]]
  /\ files' = [files EXCEPT ![n] = fileFile[n]]
  /\ UNCHANGED <<disk, job, net, crashes>>

\* Restart: blockchain.bin is loaded block by block through Blockchain.add,
\* before the server listens; an empty file leaves an empty chain.
BootSaved(n) ==
  /\ mode[n] = "down"
  /\ chainFile[n] # NoFile
  /\ members' = [members EXCEPT ![n] = memberFile[n]]
  /\ files' = [files EXCEPT ![n] = fileFile[n]]
  /\ \/ /\ chainFile[n] = <<>>
        /\ mode' = [mode EXCEPT ![n] = "up"]
        /\ UNCHANGED job
     \/ /\ chainFile[n] # <<>>
        /\ mode' = [mode EXCEPT ![n] = "boot"]
        /\ \E w \in Workers :
             Becomes(n, w, LoadNext([Idle EXCEPT !.kind = "boot",
                                                 !.todo = chainFile[n]]))
  /\ UNCHANGED <<minted, chain, disk, net, crashes>>

\* The chain is loaded, the server listens.
Serve(n, w) ==
  /\ At(n, w, "serve")
  /\ mode' = [mode EXCEPT ![n] = "up"]
  /\ Becomes(n, w, Idle)
  /\ UNCHANGED <<minted, memory, disk, net, crashes>>

\* A crash loses the memory and the requests the node has not answered.
Crash(n) ==
  /\ mode[n] # "down"
  /\ crashes < MaxCrashes
  /\ crashes' = crashes + 1
  /\ Halt(n)
  /\ net' = {m \in net : m.to # n}
  /\ UNCHANGED <<minted, disk>>

-----------------------------------------------------------------------------
(* The environment: nothing in the code signs blocks about nodes, or removes *)
(* files; an operator signs them with a node's key, on top of its chain, and *)
(* posts them to a node.                                                     *)

OperatorPosts(c, to) ==
  /\ mode[c] = "up"
  /\ mode[to] = "up"
  /\ chain[c] # <<>>
  /\ CanMint
  /\ \E a \in AdminActions, t \in Times :
       \E d \in IF a \in NodeMethods THEN Nodes \ {c} ELSE files[c] :
         minted' = Append(minted,
           [number |-> Len(chain[c]), prev |-> TopBlock(chain[c]), time |-> t,
            action |-> a, data |-> d, creator |-> c])
  /\ net' = net \cup {[kind |-> "addBlock", to |-> to,
                       blks |-> <<Len(minted) + 1>>]}
  /\ UNCHANGED <<mode, memory, disk, job, crashes>>

-----------------------------------------------------------------------------
(* POST /upload *)

\* The name is free: the handler starts writing the file.
Upload(n, w, f) ==
  /\ mode[n] = "up"
  /\ At(n, w, "idle")
  /\ f \notin files[n]
  /\ CanMint
  /\ Becomes(n, w, [Idle EXCEPT !.pc = "store", !.kind = "upload", !.name = f])
  /\ UNCHANGED <<minted, mode, memory, disk, net, crashes>>

\* Meanwhile the name has been taken: FileList.add raises KeyError.
UploadClash(n, w) ==
  /\ At(n, w, "store")
  /\ job[n][w].name \in files[n]
  /\ Goto(n, w, "raise")
  /\ UNCHANGED <<minted, mode, memory, disk, net, crashes>>

\* Mutant: FileList.add does not look whether the name is in the list.
UploadStoreAgain(n, w) ==
  LET f == job[n][w].name IN
  /\ At(n, w, "store")
  /\ chain[n] # <<>>
  /\ files' = [files EXCEPT ![n] = @ \cup {f}]
  /\ fileFile' = [fileFile EXCEPT ![n] = files[n] \cup {f}]
  /\ \E t \in Times :
       minted' = Append(minted,
         [number |-> Len(chain[n]), prev |-> TopBlock(chain[n]), time |-> t,
          action |-> "add_file", data |-> f, creator |-> n])
  /\ \E P \in Picks(n) :
       Becomes(n, w, [job[n][w] EXCEPT !.pc = "check", !.blk = Len(minted) + 1,
                        !.tell = P])
  /\ UNCHANGED <<mode, chain, members, keys, chainFile, memberFile, net,
                 crashes>>

\* The file is registered and the list saved; then the peers are picked and
\* the add_file block is signed on top of the chain.
UploadStore(n, w) ==
  LET f == job[n][w].name IN
  /\ At(n, w, "store")
  /\ f \notin files[n]
  /\ files' = [files EXCEPT ![n] = @ \cup {f}]
  /\ fileFile' = [fileFile EXCEPT ![n] = files[n] \cup {f}]
  /\ IF chain[n] = <<>>
     THEN /\ Goto(n, w, "raise")
          /\ UNCHANGED minted
     ELSE /\ \E t \in Times :
               minted' = Append(minted,
                 [number |-> Len(chain[n]), prev |-> TopBlock(chain[n]),
                  time |-> t, action |-> "add_file", data |-> f,
                  creator |-> n])
          /\ \E P \in Picks(n) :
               Becomes(n, w, [job[n][w] EXCEPT !.pc = "check",
                                !.blk = Len(minted) + 1, !.tell = P])
  /\ UNCHANGED <<mode, chain, members, keys, chainFile, memberFile, net,
                 crashes>>

-----------------------------------------------------------------------------
(* POST /addBlock and POST /overwriteBlockchain *)

\* The creator is unknown (401), the block is the top already (403), or the
\* chain is empty (IndexError).
Unwelcome(n, h) ==
  \/ minted[h].creator \notin members[n] \cup {n}
  \/ chain[n] = <<>>
  \/ chain[n] # <<>> /\ TopBlock(chain[n]) = h

Takes(n, w, m) ==
  /\ m.to = n
  /\ mode[n] = "up"
  /\ At(n, w, "idle")
  /\ net' = net \ {m}

RefuseBlock(n, w, m) ==
  /\ m.kind = "addBlock"
  /\ Takes(n, w, m)
  /\ Unwelcome(n, m.blks[1])
  /\ UNCHANGED <<minted, mode, memory, disk, job, crashes>>

AddBlock(n, w, m) ==
  /\ m.kind = "addBlock"
  /\ Takes(n, w, m)
  /\ ~Unwelcome(n, m.blks[1])
  /\ Becomes(n, w, [Idle EXCEPT !.pc = "check", !.kind = "addBlock",
                                !.blk = m.blks[1]])
  /\ UNCHANGED <<minted, mode, memory, disk, crashes>>

\* A chain of more than a genesis block is not overwritten.
RefuseOverwrite(n, w, m) ==
  /\ m.kind = "overwriteBlockchain"
  /\ Takes(n, w, m)
  /\ Len(chain[n]) > 1
  /\ UNCHANGED <<minted, mode, memory, disk, job, crashes>>

\* Mutant: overwrite_blockchain does not look at the size of the chain.
OverwriteAnyChain(n, w, m) ==
  /\ m.kind = "overwriteBlockchain"
  /\ Takes(n, w, m)
  /\ Becomes(n, w, [Idle EXCEPT !.pc = "clear", !.todo = m.blks,
                                !.kind = "overwriteBlockchain"])
  /\ UNCHANGED <<minted, mode, memory, disk, crashes>>

OverwriteBlockchain(n, w, m) ==
  /\ m.kind = "overwriteBlockchain"
  /\ Takes(n, w, m)
  /\ Len(chain[n]) <= 1
  /\ Becomes(n, w, [Idle EXCEPT !.pc = "clear", !.todo = m.blks,
                                !.kind = "overwriteBlockchain"])
  /\ UNCHANGED <<minted, mode, memory, disk, crashes>>

\* load_blocks_data(data, 0), after the body has been read, pops as many
\* blocks as the number of the top one says.
Clear(n, w) ==
  LET c == chain[n]
      drop == minted[TopBlock(c)].number + 1
  IN
  /\ At(n, w, "clear")
  /\ IF c = <<>> \/ drop > Len(c)
     THEN /\ chain' = [chain EXCEPT ![n] = <<>>]
          /\ Goto(n, w, "raise")
     ELSE /\ chain' = [chain EXCEPT ![n] = SubSeq(c, 1, Len(c) - drop)]
          /\ Becomes(n, w, LoadNext(job[n][w]))
  /\ UNCHANGED <<minted, mode, members, files, disk, net, crashes>>

-----------------------------------------------------------------------------
(* Blockchain.add and add_genesis *)

\* Mutant: the test of the action is the wrong way round.
AddGenesisInverted(n, w) ==
  /\ At(n, w, "check")
  /\ Loading(job[n][w])
  /\ chain[n] = <<>>
  /\ chain' = IF Adding(n, w).action = "add_node" THEN chain
              ELSE [chain EXCEPT ![n] = <<job[n][w].blk>>]
  /\ Becomes(n, w, AfterAdd(job[n][w]))
  /\ UNCHANGED <<minted, mode, members, files, disk, net, crashes>>

\* add_genesis, for the first block loaded into an empty chain: only a block
\* that adds a node is taken.
AddGenesis(n, w) ==
  LET b == Adding(n, w) IN
  /\ At(n, w, "check")
  /\ Loading(job[n][w])
  /\ chain[n] = <<>>
  /\ IF b.action = "add_node"
     THEN /\ chain' = [chain EXCEPT ![n] = <<job[n][w].blk>>]
          /\ members' = [members EXCEPT ![n] = @ \cup {b.data}]
     ELSE UNCHANGED <<chain, members>>
  /\ Becomes(n, w, AfterAdd(job[n][w]))
  /\ UNCHANGED <<minted, mode, files, disk, net, crashes>>

\* Mutant: the block is not compared with the top of the chain.
CheckPassesAlways(n, w) ==
  /\ At(n, w, "check")
  /\ chain[n] # <<>>
  /\ Goto(n, w, "key")
  /\ UNCHANGED <<minted, mode, memory, disk, net, crashes>>

\* The block number, the time and the previous hash are right: next the key.
CheckPasses(n, w) ==
  /\ At(n, w, "check")
  /\ Acceptable(minted, chain[n], job[n][w].blk)
  /\ Goto(n, w, "key")
  /\ UNCHANGED <<minted, mode, memory, disk, net, crashes>>

\* They are not.  The handler of /addBlock then tries to copy the chain of
\* other nodes, but most_matched_hash_nodes never finds any: it appends to
\* hash_map[hash_val] before there is such a list and swallows the KeyError.
CheckFails(n, w) ==
  /\ At(n, w, "check")
  /\ ~Acceptable(minted, chain[n], job[n][w].blk)
  /\ ~(Loading(job[n][w]) /\ chain[n] = <<>>)
  /\ Goto(n, w, "raise")
  /\ UNCHANGED <<minted, mode, memory, disk, net, crashes>>

\* Mutant: the key directory is not looked at.
KeyFailsUncached(n, w) ==
  /\ At(n, w, "key")
  /\ Goto(n, w, "raise")
  /\ UNCHANGED <<minted, mode, memory, disk, net, crashes>>

\* The key is not in the directory and its owner does not answer in time: it is
\* down, its workers are all busy, or the network is slow.
KeyFails(n, w) ==
  /\ At(n, w, "key")
  /\ Adding(n, w).creator \notin keys[n]
  /\ Goto(n, w, "raise")
  /\ UNCHANGED <<minted, mode, memory, disk, net, crashes>>

\* Mutant: a key that has been fetched is not kept.
AppendForgetsKey(n, w) ==
  LET c == Adding(n, w).creator IN
  /\ At(n, w, "key")
  /\ c \in keys[n] \/ AnswersKey(c)
  /\ chain' = [chain EXCEPT ![n] = Append(@, job[n][w].blk)]
  /\ UNCHANGED <<minted, mode, disk, net, crashes>>

\* The key is there, the signature holds, and the block is appended without
\* looking at the chain again.
Append_(n, w) ==
  LET c == Adding(n, w).creator IN
  /\ At(n, w, "key")
  /\ c \in keys[n] \/ AnswersKey(c)
  /\ keys' = [keys EXCEPT ![n] = @ \cup {c}]
  /\ chain' = [chain EXCEPT ![n] = Append(@, job[n][w].blk)]
  /\ UNCHANGED <<minted, mode, chainFile, memberFile, fileFile, net, crashes>>

\* blockOperation=False: nothing is done about the block's action.
AddQuietly(n, w) ==
  /\ Append_(n, w)
  /\ ~Operates(n, w)
  /\ Becomes(n, w, AfterAdd(job[n][w]))
  /\ UNCHANGED <<members, files>>

\* Mutant: everything that does not remove a node adds one.
AddNodeOrFile(n, w) ==
  /\ Append_(n, w)
  /\ Operates(n, w)
  /\ Adding(n, w).action # "remove_node"
  /\ members' = [members EXCEPT ![n] = @ \cup {Adding(n, w).data}]
  /\ Goto(n, w, "invite")
  /\ UNCHANGED files

\* A node other than this one, and not known yet, is entered and invited.
AddNode(n, w) ==
  LET d == Adding(n, w).data
      new == d \notin members[n] \cup {n}
  IN
  /\ Append_(n, w)
  /\ Operates(n, w)
  /\ Adding(n, w).action = "add_node"
  /\ members' = IF new THEN [members EXCEPT ![n] = @ \cup {d}] ELSE members
  /\ IF new THEN Goto(n, w, "invite")
            ELSE Becomes(n, w, AfterAdd(job[n][w]))
  /\ UNCHANGED files

RemoveNode(n, w) ==
  /\ Append_(n, w)
  /\ Operates(n, w)
  /\ Adding(n, w).action = "remove_node"
  /\ members' = [members EXCEPT ![n] = @ \ {Adding(n, w).data}]
  /\ Becomes(n, w, AfterAdd(job[n][w]))
  /\ UNCHANGED files

AddFile(n, w) ==
  /\ Append_(n, w)
  /\ Operates(n, w)
  /\ Adding(n, w).action = "add_file"
  /\ files' = [files EXCEPT ![n] = @ \cup {Adding(n, w).data}]
  /\ Becomes(n, w, AfterAdd(job[n][w]))
  /\ UNCHANGED members

\* The code removes the file from the list if it is not in it: nothing happens
\* to a file that is there, for another one FileList.remove raises KeyError.
RemoveFile(n, w) ==
  /\ Append_(n, w)
  /\ Operates(n, w)
  /\ Adding(n, w).action = "remove_file"
  /\ IF Adding(n, w).data \in files[n]
     THEN Becomes(n, w, AfterAdd(job[n][w]))
     ELSE Goto(n, w, "raise")
  /\ UNCHANGED <<members, files>>

\* The new node is sent the whole chain, if it can be reached.
Invite(n, w) ==
  LET d == Adding(n, w).data IN
  /\ At(n, w, "invite")
  /\ IF Serialisable(minted, chain[n])
     THEN /\ net' = IF mode[d] # "up" THEN net
                    ELSE net \cup {[kind |-> "overwriteBlockchain", to |-> d,
                                    blks |-> GetBlocksData(minted, chain[n])]}
          /\ Goto(n, w, "invited")
     ELSE /\ Goto(n, w, "raise")
          /\ UNCHANGED net
  /\ UNCHANGED <<minted, mode, memory, disk, crashes>>

\* It has answered, or the request has timed out: the node list is saved.  (Then
\* the new node is told about the first chunk of every file; a file that is
\* not on the disk raises here, which leads add_block to the same save.)
Invited(n, w) ==
  /\ At(n, w, "invited")
  /\ memberFile' = [memberFile EXCEPT ![n] = members[n]]
  /\ Becomes(n, w, AfterAdd(job[n][w]))
  /\ UNCHANGED <<minted, mode, memory, keys, chainFile, fileFile, net, crashes>>

\* What an exception out of Blockchain.add or FileList.add leads to: the
\* finally clause of add_block, the end of any other handler, or the end of
\* the process that was starting.
Raise(n, w) ==
  /\ At(n, w, "raise")
  /\ \/ /\ job[n][w].kind = "addBlock"
        /\ Goto(n, w, "save")
        /\ UNCHANGED <<mode, memory>>
     \/ /\ job[n][w].kind \in {"overwriteBlockchain", "upload"}
        /\ Becomes(n, w, Idle)
        /\ UNCHANGED <<mode, memory>>
     \/ /\ job[n][w].kind = "boot"
        /\ Halt(n)
  /\ UNCHANGED <<minted, disk, net, crashes>>

-----------------------------------------------------------------------------
(* The end of a handler: save the chain, tell the peers. *)

\* The chain is turned into bytes.
Save(n, w) ==
  /\ At(n, w, "save")
  /\ IF Serialisable(minted, chain[n])
     THEN Becomes(n, w, [job[n][w] EXCEPT !.pc = "open",
                           !.out = GetBlocksData(minted, chain[n])])
     ELSE Becomes(n, w, Idle)
  /\ UNCHANGED <<minted, mode, memory, disk, net, crashes>>

\* blockchain.bin is opened, which empties it.
Open(n, w) ==
  /\ At(n, w, "open")
  /\ chainFile' = [chainFile EXCEPT ![n] = <<>>]
  /\ Goto(n, w, "write")
  /\ UNCHANGED <<minted, mode, memory, keys, memberFile, fileFile, net,
                 crashes>>

\* The bytes are written.  add_block picks its peers now, an upload has picked
\* them before.
Write(n, w) ==
  LET j == [job[n][w] EXCEPT !.out = <<>>] IN
  /\ At(n, w, "write")
  /\ chainFile' = [chainFile EXCEPT ![n] = Overlay(job[n][w].out, @)]
  /\ \/ /\ j.kind = "addBlock"
        /\ \E P \in Picks(n) : Becomes(n, w, Telling([j EXCEPT !.tell = P]))
     \/ /\ j.kind = "upload"
        /\ Becomes(n, w, Telling(j))
     \/ /\ j.kind = "overwriteBlockchain"
        /\ Becomes(n, w, Idle)
  /\ UNCHANGED <<minted, mode, memory, keys, memberFile, fileFile, net,
                 crashes>>

\* send_block to the next peer, whatever became of the block here.  A peer
\* that refuses the connection ends the handler.
Tell(n, w) ==
  LET p == Head(job[n][w].tell) IN
  /\ At(n, w, "tell")
  /\ IF mode[p] = "up"
     THEN /\ net' = net \cup {[kind |-> "addBlock", to |-> p,
                               blks |-> <<job[n][w].blk>>]}
          /\ Goto(n, w, "wait")
     ELSE /\ Becomes(n, w, Idle)
          /\ UNCHANGED net
  /\ UNCHANGED <<minted, mode, memory, disk, crashes>>

\* Mutant: a request to a peer has no timeout.
ToldForSure(n, w) ==
  /\ At(n, w, "wait")
  /\ AnswersKey(Head(job[n][w].tell))
  /\ Becomes(n, w, Telling([job[n][w] EXCEPT !.tell = Tail(@)]))
  /\ UNCHANGED <<minted, mode, memory, disk, net, crashes>>

\* The peer has answered, or not in time, and the next one is told; or the
\* connection is lost, which ends the handler.  An upload also tells the peer
\* about the first chunk of the file, which does not work if it is gone.
Told(n, w) ==
  LET j == job[n][w] IN
  /\ At(n, w, "wait")
  /\ \/ /\ j.kind = "upload" => mode[Head(j.tell)] = "up"
        /\ Becomes(n, w, Telling([j EXCEPT !.tell = Tail(@)]))
     \/ Becomes(n, w, Idle)
  /\ UNCHANGED <<minted, mode, memory, disk, net, crashes>>

-----------------------------------------------------------------------------

\* A step of a handler that has started.
Continue(n, w) ==
  \/ UploadClash(n, w)
  \/ UploadStore(n, w)
  \/ Clear(n, w)
  \/ AddGenesis(n, w)
  \/ CheckPasses(n, w)
  \/ CheckFails(n, w)
  \/ KeyFails(n, w)
  \/ AddQuietly(n, w)
  \/ AddNode(n, w)
  \/ RemoveNode(n, w)
  \/ AddFile(n, w)
  \/ RemoveFile(n, w)
  \/ Invite(n, w)
  \/ Invited(n, w)
  \/ Raise(n, w)
  \/ Save(n, w)
  \/ Open(n, w)
  \/ Write(n, w)
  \/ Serve(n, w)
  \/ Tell(n, w)
  \/ Told(n, w)

\* A worker takes up a posted request.
Receive(n, w) ==
  \E m \in net :
    \/ RefuseBlock(n, w, m)
    \/ AddBlock(n, w, m)
    \/ RefuseOverwrite(n, w, m)
    \/ OverwriteBlockchain(n, w, m)

Next ==
  \/ \E n \in Nodes, w \in Workers : Continue(n, w) \/ Receive(n, w)
  \/ \E n \in Nodes, w \in Workers, f \in Files : Upload(n, w, f)
  \/ \E c, to \in Nodes : OperatorPosts(c, to)
  \/ \E n \in Nodes : BootFresh(n) \/ BootSaved(n) \/ Crash(n)

Spec == Init /\ [][Next]_vars

\* A handler that has started goes on.  Nothing makes a request arrive.
FairSpec == Spec /\ \A n \in Nodes, w \in Workers : WF_vars(Continue(n, w))

-----------------------------------------------------------------------------
(* Properties *)

On(c) == {c[i] : i \in 1 .. Len(c)}
Quiet(n) == mode[n] = "up" /\ \A w \in Workers : At(n, w, "idle")

\* Blockchain.add keeps the chain a chain: the block at position k has number k,
\* no block is older than the one before it, and every block names the hash of
\* the one before it (InvalidNextBlock, InconsistentTimeline, InconsistentHash).
ChainWellFormed == \A n \in Nodes : WellFormed(minted, chain[n])

\* Two nodes that have the same block at a position have the same history up to
\* it, whatever was appended, overwritten, saved, lost and reloaded.
PrefixAgreement ==
  \A m, n \in Nodes : \A i \in 1 .. Len(chain[m]) :
    (i <= Len(chain[n]) /\ chain[m][i] = chain[n][i]) =>
      \A k \in 1 .. i : chain[m][k] = chain[n][k]

\* What is on a chain, or was saved, can be verified again without the network:
\* a node that has crashed comes up again from its own disk.
RestartReplays ==
  \A n \in Nodes, w \in Workers : job[n][w].kind = "boot" => ~At(n, w, "raise")

\* A file whose add_file block is on the chain is in the file list, also after a
\* restart and after the chain of another node has been copied.
FilesFollowChain ==
  \A n \in Nodes : \A h \in On(chain[n]) :
    minted[h].action = "add_file" => minted[h].data \in files[n]

\* A file in the list of a node that is doing nothing is on its chain: an upload
\* that stores a file leaves an add_file block for it.
FilesOnChain ==
  \A n \in Nodes : Quiet(n) =>
    \A f \in files[n] : \E h \in On(chain[n]) :
      minted[h].action = "add_file" /\ minted[h].data = f

\* A node refuses its own add_file block h if its public key was not in the key
\* directory from the start (with one worker it cannot ask itself for it), or if
\* its clock is behind the time of its top block.
RefusedAtHome(h) ==
  LET b == minted[h] IN
  \/ b.creator \notin InitKeys[b.creator]
  \/ b.time < minted[b.prev].time

\* A file in the list of a node that is doing nothing has an add_file block on its
\* chain, or the node has signed one itself and refused it for its key or its
\* time: no upload is lost for any other reason, until a process crashes.
ListedOrRefused ==
  crashes = 0 =>
    \A n \in Nodes : Quiet(n) =>
      \A f \in files[n] : \E h \in 1 .. Len(minted) :
        /\ minted[h].action = "add_file" /\ minted[h].data = f
        /\ \/ h \in On(chain[n])
           \/ minted[h].creator = n /\ RefusedAtHome(h)

\* A name that has been uploaded to a node is taken there for good: of two threads
\* that both find it free only one signs a block, and so it stays after a crash
\* and after the file has been removed.
UploadedOnce ==
  \A g, h \in 1 .. Len(minted) :
    ( /\ minted[g].action = "add_file" /\ minted[h].action = "add_file"
      /\ minted[g].data = minted[h].data
      /\ minted[g].creator = minted[h].creator ) => g = h

\* A node that serves requests and is doing nothing has at least the genesis
\* block the constructor of Blockchain gave it, or the one it was sent.
ServesAChain == \A n \in Nodes : Quiet(n) => chain[n] # <<>>

\* The steps between the append of a block and the end of the save that follows
\* it.  One of them, Invite, posts the chain with the unsaved block to the node
\* that the block adds (Blockchain.py:101).
Unsaved == {"invite", "invited", "raise", "save", "open", "write"}

\* A blockchain.bin that is not there, empty, or holds one block: the genesis
\* block a node builds for itself is not saved, and a chain that is being copied
\* is saved only if the whole of it was accepted.
Short(f) == f = NoFile \/ Len(f) <= 1

\* What a crash can undo: between requests, and while a handler tells its peers
\* (send_block comes after chain.save), blockchain.bin holds the chain of the
\* node.  Between requests the file may also be Short beside a longer chain.
SavedWhenSettled ==
  \A n \in Nodes :
    (mode[n] = "up" /\ \A w \in Workers : job[n][w].pc \notin Unsaved) =>
      \/ chainFile[n] = chain[n]
      \/ /\ Short(chainFile[n])
         /\ \A w \in Workers : job[n][w].pc \notin {"tell", "wait"}

\* overwrite_blockchain only ever replaces a genesis block: while a node runs,
\* a chain of two blocks or more loses none of them.
AppendOnly ==
  [][\A n \in Nodes :
       (Len(chain[n]) > 1 /\ mode'[n] # "down") =>
         /\ Len(chain'[n]) >= Len(chain[n])
         /\ SubSeq(chain'[n], 1, Len(chain[n])) = chain[n]]_vars

\* With one worker to a node the chains are what ChainStore promises.
Chains == INSTANCE ChainStore
            WITH running <- {n \in Nodes : mode[n] # "down"}
ImplementsChainStore == Chains!Spec

\* Every request that a worker has taken up ends, whoever it has to wait for:
\* no two nodes wait for each other's keys for ever.
HandlersFinish ==
  \A n \in Nodes, w \in Workers : ~At(n, w, "idle") ~> At(n, w, "idle")

\* The public key of everybody whose block was added is kept on the disk: every
\* block but the first can be verified again (Key.get_key saves what it gets).
KeysHeld ==
  \A n \in Nodes : \A i \in 2 .. Len(chain[n]) :
    minted[chain[n][i]].creator \in keys[n]
=============================================================================
