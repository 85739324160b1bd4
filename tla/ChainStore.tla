----------------------------- MODULE ChainStore -----------------------------
(***************************************************************************)
(* What the chains of a network promise, without requests, workers, keys   *)
(* or disks: class Blockchain (blockchain/chain/Blockchain.py) as the      *)
(* nodes may use it.  Ledger implements this when a node has one worker.   *)
(***************************************************************************)
EXTENDS Blocks

VARIABLES
  minted,     \* every block ever signed, a block's hash is its index
  running,    \* the nodes whose process runs
  chain       \* the chain of every node, empty when it does not run

vars == <<minted, running, chain>>

TypeOK ==
  /\ minted \in Seq(BlockData)
  /\ running \subseteq Nodes
  /\ chain \in [Nodes -> Seq(1 .. Len(minted))]

Init ==
  /\ minted = <<>>
  /\ running = {}
  /\ chain = [n \in Nodes |-> <<>>]

\* Somebody signs a block.
Signed ==
  /\ Len(minted') = Len(minted) + 1
  /\ minted'[Len(minted')] \in BlockData
  /\ minted' = Append(minted, minted'[Len(minted')])

Mint ==
  /\ Signed
  /\ UNCHANGED <<running, chain>>

\* A node starts, on a genesis block it signs or on nothing yet.
StartFresh(n) ==
  /\ n \notin running
  /\ Signed
  /\ minted'[Len(minted')].number = 0
  /\ running' = running \cup {n}
  /\ chain' = [chain EXCEPT ![n] = <<Len(minted) + 1>>]

StartSaved(n) ==
  /\ n \notin running
  /\ running' = running \cup {n}
  /\ UNCHANGED <<minted, chain>>

\* A chain begins with a block that has number 0.
Begin(n, h) ==
  /\ n \in running
  /\ chain[n] = <<>>
  /\ minted[h].number = 0
  /\ chain' = [chain EXCEPT ![n] = <<h>>]
  /\ UNCHANGED <<minted, running>>

\* It grows by a block that follows its top.
Extend(n, h) ==
  /\ n \in running
  /\ Acceptable(minted, chain[n], h)
  /\ chain' = [chain EXCEPT ![n] = Append(@, h)]
  /\ UNCHANGED <<minted, running>>

\* A chain of no more than a genesis block may be dropped for another.
Reset(n) ==
  /\ n \in running
  /\ Len(chain[n]) <= 1
  /\ chain' = [chain EXCEPT ![n] = <<>>]
  /\ UNCHANGED <<minted, running>>

Stop(n) ==
  /\ n \in running
  /\ running' = running \ {n}
  /\ chain' = [chain EXCEPT ![n] = <<>>]
  /\ UNCHANGED minted

Next ==
  \/ Mint
  \/ \E n \in Nodes, h \in 1 .. Len(minted) : Begin(n, h) \/ Extend(n, h)
  \/ \E n \in Nodes : StartFresh(n) \/ StartSaved(n) \/ Reset(n) \/ Stop(n)

Spec == Init /\ [][Next]_vars

-----------------------------------------------------------------------------

\* Every chain is a chain: the block at position k has number k and follows the
\* block before it.  (The three checks of Blockchain.add.)
ChainWellFormed == \A n \in Nodes : WellFormed(minted, chain[n])

\* Two nodes that have the same block at a position have the same history up to
\* it: the previous hash in a block (Block.py) fixes everything below the block.
PrefixAgreement ==
  \A m, n \in Nodes : \A i \in 1 .. Len(chain[m]) :
    (i <= Len(chain[n]) /\ chain[m][i] = chain[n][i]) =>
      \A k \in 1 .. i : chain[m][k] = chain[n][k]
=============================================================================
