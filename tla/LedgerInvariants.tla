-------------------------- MODULE LedgerInvariants --------------------------
(***************************************************************************)
(* The inductive invariants behind the theorems about Ledger.  IdsKnown    *)
(* holds for any number of workers, ChainInv for nodes with one worker.    *)
(***************************************************************************)
EXTENDS Ledger

SingleWorker == \A v, w \in Workers : v = w

\* Hashes are of blocks that have been signed.
Hashes == 1 .. Len(minted)
NodeHashes == {h \in Hashes : minted[h].data \in Nodes}

\* The worker is adding, or will tell its peers about, the block j.blk.
Holds(j) ==
  /\ j.pc \notin {"idle", "store", "clear"}
  /\ j.pc = "raise" => j.kind = "addBlock"

JobKnown(j, S, N) ==
  /\ j.todo \in Seq(S) /\ j.out \in Seq(S)
  /\ Holds(j) => j.blk \in S
  /\ j.pc = "store" => j.kind = "upload"
  /\ j.pc = "clear" => j.kind = "overwriteBlockchain"
  /\ j.pc = "store" => j.name \in Files
  /\ j.pc = "invite" => j.blk \in N
  /\ j.pc = "clear" => j.todo # <<>>
  /\ j.pc \in {"tell", "wait"} => j.tell # <<>>

\* Every hash in memory, in a file or on its way is known, and nobody is told
\* or sent nothing.
IdsKnown ==
  /\ \A n \in Nodes, w \in Workers :
       /\ JobKnown(job[n][w], Hashes, NodeHashes)
       /\ At(n, w, "write") => chainFile[n] # NoFile
  /\ \A m \in net : m.blks \in Seq(Hashes) /\ m.blks # <<>>

TypeInv == TypeOK /\ IdsKnown

-----------------------------------------------------------------------------

\* A block a chain may begin with, and a stream of blocks that begins so.
IsGenesis(ledger, h) == ledger[h].number = 0 /\ ledger[h].action = "add_node"
BeginsWell(ledger, s) == s # <<>> => IsGenesis(ledger, s[1])

\* What a worker has read, of the chain c of its node or of a stream of blocks,
\* is still true when it uses it.
ReadsHold(ledger, j, c) ==
  /\ BeginsWell(ledger, j.out)
  /\ j.pc = "clear" => BeginsWell(ledger, j.todo) /\ Len(c) <= 1
  /\ (j.pc = "check" /\ Loading(j) /\ c = <<>>) => IsGenesis(ledger, j.blk)
  /\ j.pc = "key" => Acceptable(ledger, c, j.blk)
  /\ j.pc \in {"invite", "invited"} => ~Loading(j)

\* A node that is down has lost its memory; what may be loaded as a chain
\* begins as one.
NodeOK(n) ==
  /\ mode[n] = "down" => chain[n] = <<>> /\ \A w \in Workers : At(n, w, "idle")
  /\ BeginsWell(minted, chain[n])
  /\ chainFile[n] # NoFile => BeginsWell(minted, chainFile[n])
  /\ \A w \in Workers : ReadsHold(minted, job[n][w], chain[n])

StreamsOK ==
  \A m \in net : m.kind = "overwriteBlockchain" => BeginsWell(minted, m.blks)

ChainInv == StreamsOK /\ \A n \in Nodes : NodeOK(n)

-----------------------------------------------------------------------------
(* What a node has of the blocks on its chain, with any number of workers. *)

KeptOK(n) ==
  /\ \A i \in 2 .. Len(chain[n]) : minted[chain[n][i]].creator \in keys[n]
  /\ \A i \in 1 .. Len(chain[n]) : minted[chain[n][i]].action = "add_file" =>
       minted[chain[n][i]].data \in files[n]

\* A node that is down has no chain, and nobody works there.
DownOK(n) ==
  mode[n] = "down" => chain[n] = <<>> /\ \A w \in Workers : At(n, w, "idle")

KeptInv == \A n \in Nodes : KeptOK(n) /\ DownOK(n)

-----------------------------------------------------------------------------
(* What is on the disk, and what a restart makes of it. *)

\* The chain c can be added again without asking anybody for a key, by a node
\* that has the keys of K.
Loadable(ledger, K, c) ==
  /\ WellFormed(ledger, c)
  /\ \A i \in 2 .. Len(c) : ledger[c[i]].creator \in K

\* From the moment its bytes are collected the chain c stays as it is until it
\* has been written into the file f and the peers have been told.
Saving(j, c, f) ==
  /\ j.pc \in {"open", "write"} => j.out = c
  /\ j.pc = "write" => f = <<>>
  /\ j.pc \in {"tell", "wait"} => f = c

\* The blocks c a starting node has, the one it adds and those it has yet to
\* read are those of its file f.
Following(j, c, f) ==
  j.kind = "boot" =>
    /\ f # NoFile
    /\ j.pc \in {"check", "key", "serve", "raise"}
    /\ j.pc \in {"check", "key"} => f = Append(c, j.blk) \o j.todo
    /\ j.pc = "serve" => f = c

\* And nothing has been refused.
Replaying(j, c, f) ==
  Following(j, c, f) /\ (j.kind = "boot" => j.pc # "raise")

\* What the worker j of a node in mode m has to do with the difference between
\* its chain c and its file f: a chain that is copied replaces one that was not
\* worth saving, and an append by another handler is followed by a save.
Tracked(ledger, m, j, c, f) ==
  /\ j.pc = "idle" <=> j.kind = "none"
  /\ j.kind = "boot" => m = "boot"
  /\ j.pc = "serve" => j.kind = "boot"
  /\ j.kind \in {"addBlock", "upload"} => j.todo = <<>>
  /\ j.kind = "addBlock" => c # <<>>
  /\ j.kind = "upload" =>
       /\ j.pc \notin {"clear", "invite", "invited"}
       /\ j.pc \in {"check", "key"} => ledger[j.blk].action = "add_file"
       /\ j.pc \notin {"store", "raise"} => c # <<>>
  /\ (j.kind = "overwriteBlockchain"
        /\ j.pc \in {"clear", "check", "key", "raise", "save"}) => Short(f)
  /\ (m = "up" /\ (j.pc \notin Unsaved \/ (j.kind = "upload" /\ j.pc = "raise"))) =>
       f = c \/ Short(f)

SettledInv ==
  \A n \in Nodes, w \in Workers :
    /\ Following(job[n][w], chain[n], chainFile[n])
    /\ Tracked(minted, mode[n], job[n][w], chain[n], chainFile[n])

SavedOK(n) ==
  /\ chainFile[n] # NoFile => Loadable(minted, keys[n], chainFile[n])
  /\ \A w \in Workers : Saving(job[n][w], chain[n], chainFile[n])

SaveInv == \A n \in Nodes : SavedOK(n)

BootInv ==
  \A n \in Nodes, w \in Workers : Replaying(job[n][w], chain[n], chainFile[n])

\* Nobody signs that a file is removed: a node that adds such a block about a
\* file it does not list raises, and again whenever it starts.
NothingRemoved == \A h \in Hashes : minted[h].action # "remove_file"

-----------------------------------------------------------------------------
(* While nobody has crashed. *)

\* A node has been started once, on a chain of its own; it is without one only
\* while it takes over that of another.
ServingOK(n) ==
  /\ mode[n] = "down" => chainFile[n] = NoFile /\ fileFile[n] = {}
  /\ mode[n] # "boot"
  /\ \A w \in Workers : job[n][w].kind # "boot" /\ ~At(n, w, "serve")
  /\ (mode[n] = "up" /\ chain[n] = <<>>) =>
       \E w \in Workers : At(n, w, "check") /\ Loading(job[n][w])

ServeInv == crashes = 0 => \A n \in Nodes : ServingOK(n)

\* The worker j of node n has listed a file and is about to add its block to the
\* chain c, where it fits unless its time is wrong.
Announcing(ledger, n, j, c) ==
  /\ j.kind = "upload"
  /\ j.pc \in {"check", "key"}
  /\ j.todo = <<>>
  /\ \/ Acceptable(ledger, c, j.blk)
     \/ ledger[j.blk].time < ledger[ledger[j.blk].prev].time
  /\ ledger[j.blk].prev \in 1 .. Len(ledger)
  /\ ledger[j.blk].creator = n
  /\ ledger[j.blk].action = "add_file"

\* Node n has refused a block about the file f that it has signed.
Refused(n, f) ==
  \E h \in Hashes :
    /\ minted[h].action = "add_file" /\ minted[h].data = f /\ minted[h].creator = n
    /\ minted[h].prev \in Hashes /\ RefusedAtHome(h)

\* The file f has its block on the chain of n, or will have, or was refused.
Announced(n, f) ==
  \/ \E h \in On(chain[n]) : minted[h].action = "add_file" /\ minted[h].data = f
  \/ \E w \in Workers : /\ Announcing(minted, n, job[n][w], chain[n])
                        /\ minted[job[n][w].blk].data = f
  \/ Refused(n, f)

FilesOK(n) ==
  /\ \A f \in files[n] : Announced(n, f)
  /\ \A w \in Workers : job[n][w].kind = "upload" =>
       /\ job[n][w].pc \notin {"clear", "invite", "invited"}
       /\ At(n, w, "store") => job[n][w].todo = <<>>
       /\ job[n][w].pc \in {"check", "key"} =>
            Announcing(minted, n, job[n][w], chain[n])

FilesInv == crashes = 0 => \A n \in Nodes : FilesOK(n)

-----------------------------------------------------------------------------
(* Names, with any number of workers. *)

\* The files a node has signed are in the list it has saved, and in the one it
\* has in memory while it runs.
NamesInv ==
  /\ \A h \in Hashes : minted[h].action = "add_file" =>
       minted[h].data \in fileFile[minted[h].creator]
  /\ \A n \in Nodes : mode[n] # "down" => fileFile[n] \subseteq files[n]
  /\ UploadedOnce

\* The keys that were there at the start are still there.
KeysStart == \A n \in Nodes : InitKeys[n] \subseteq keys[n]
=============================================================================
