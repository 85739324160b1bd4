------------------------------- MODULE Blocks -------------------------------
(***************************************************************************)
(* Blocks and chains as data: blockchain/chain/Block.py, BlockData.py and  *)
(* the checks of blockchain/chain/Blockchain.py that read but do not       *)
(* change a chain.                                                         *)
(*                                                                         *)
(* A ledger is the sequence of all blocks ever signed, in the order of     *)
(* signing.  A block's hash is its position in the ledger: two blocks have *)
(* the same hash only if they are the same block, which is what SHA-256    *)
(* gives the code.  The block itself is looked up under its hash, so a     *)
(* chain is a sequence of hashes.                                          *)
(***************************************************************************)
EXTENDS Naturals, Sequences

CONSTANTS
  Nodes,    \* the IP addresses of the network
  Files,    \* the names of the files
  Times     \* the readings of int(time.time()); clocks are not synchronised

\* The two families of action_type.
NodeMethods == {"add_node", "remove_node"}
FileMethods == {"add_file", "remove_file"}

\* What a block says: an action about a node (ActionData/Node.py) or about a
\* file (ActionData/File.py).  previous_block_hash "0" of a genesis block is 0.
NodeBlock ==
  [number : Nat, prev : Nat, time : Times, action : NodeMethods, data : Nodes,
   creator : Nodes]
FileBlock ==
  [number : Nat, prev : Nat, time : Times, action : FileMethods, data : Files,
   creator : Nodes]
BlockData == NodeBlock \cup FileBlock

\* The genesis block a node builds for itself when its process starts.
Genesis(n, t) ==
  [number |-> 0, prev |-> 0, time |-> t,
   action |-> "add_node", data |-> n, creator |-> n]

\* top_block() of a chain that has one.
TopBlock(c) == c[Len(c)]

\* The block with hash h may come directly after the block with hash p.
Follows(ledger, h, p) ==
  /\ ledger[h].number = ledger[p].number + 1
  /\ ledger[p].time <= ledger[h].time
  /\ ledger[h].prev = p

\* Mutants: without the check of the time, without the check of the hash.
AcceptableAnyTime(ledger, c, h) ==
  /\ c # <<>>
  /\ ledger[h].number = ledger[TopBlock(c)].number + 1
  /\ ledger[h].prev = TopBlock(c)

AcceptableAnyHash(ledger, c, h) ==
  /\ c # <<>>
  /\ ledger[h].number = ledger[TopBlock(c)].number + 1
  /\ ledger[TopBlock(c)].time <= ledger[h].time

\* The checks of Blockchain.add; on an empty chain they raise IndexError.
Acceptable(ledger, c, h) ==
  c # <<>> /\ Follows(ledger, h, TopBlock(c))

\* get_blocks_data(0) reads the positions 0 .. last_block_number(), not the
\* positions the list has: it raises IndexError when the list is shorter.
Serialisable(ledger, c) ==
  c # <<>> /\ ledger[TopBlock(c)].number < Len(c)

GetBlocksData(ledger, c) == SubSeq(c, 1, ledger[TopBlock(c)].number + 1)

\* A chain is well formed: the block at (Python) position k has number k, and
\* every block but the first follows the one before it.
WellFormed(ledger, c) ==
  /\ \A i \in 1 .. Len(c) : ledger[c[i]].number = i - 1
  /\ \A i \in 2 .. Len(c) : Follows(ledger, c[i], c[i - 1])
=============================================================================
