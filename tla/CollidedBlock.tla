---------------------------- MODULE CollidedBlock ----------------------------
(***************************************************************************)
(* collided_block of blockchain/views.py: where does the chain of another  *)
(* node part from ours?  A binary search with a request for every probe,   *)
(* during which the other chain may grow, and be replaced while it is a    *)
(* genesis block only.  The other node does not crash meanwhile.           *)
(*                                                                         *)
(* A block names the hash of the one before it, so the two chains share    *)
(* some first blocks and nothing after them: all that matters about them   *)
(* is how many they share and how long they are.                           *)
(***************************************************************************)
EXTENDS Integers

CONSTANT MaxLen   \* bound: blocks of a chain

ASSUME CollidedBlockAssumption == MaxLen \in Nat

VARIABLES
  pc,       \* "number", "count", "search", "last", "done", "raise"
  common,   \* how many first blocks the chains share
  mine,     \* the length of our chain
  theirs,   \* the length of the other one
  end,      \* end_block
  low, high,
  result

chains == <<common, mine, theirs>>
vars == <<pc, chains, end, low, high, result>>

Init ==
  /\ pc = "number"
  /\ mine \in 1 .. MaxLen
  /\ theirs \in 1 .. MaxLen
  /\ common \in {k \in 0 .. MaxLen : k <= mine /\ k <= theirs}
  /\ end = 0 /\ low = 0 /\ high = 0 /\ result = 0

-----------------------------------------------------------------------------

\* get_block_hash(i), in Python: a negative position counts from the end, one
\* that is not there has the hash "".
Position(len, i) == IF i < 0 THEN len + i ELSE i
Hash(owner, len, i) ==
  LET p == Position(len, i) IN
  IF p \notin 0 .. len - 1 THEN <<"", 0>>
  ELSE IF p < common THEN <<"both", p>> ELSE <<owner, p>>

SameHash(i) == Hash("mine", mine, i) = Hash("theirs", theirs, i)

\* The other node adds a block: one of its own, or the next one of ours.  The
\* first one of an empty chain is the genesis block of a chain it copies.
Grow ==
  /\ pc \notin {"done", "raise"}
  /\ theirs < MaxLen
  /\ theirs' = theirs + 1
  /\ \/ UNCHANGED common
     \/ common = theirs /\ common < mine /\ common' = common + 1
  /\ UNCHANGED <<pc, mine, end, low, high, result>>

\* The other node takes over a chain in place of its genesis block, which it
\* removes first (/overwriteBlockchain).
Empty ==
  /\ pc \notin {"done", "raise"}
  /\ theirs = 1
  /\ theirs' = 0
  /\ common' = 0
  /\ UNCHANGED <<pc, mine, end, low, high, result>>

\* Mutant: the number of the block after the last one.
AskNumberOff ==
  /\ pc = "number"
  /\ theirs > 0
  /\ end' = theirs
  /\ pc' = "count"
  /\ UNCHANGED <<chains, low, high, result>>

\* /topBlockNumber
AskNumber ==
  /\ pc = "number"
  /\ theirs > 0
  /\ end' = theirs - 1
  /\ pc' = "count"
  /\ UNCHANGED <<chains, low, high, result>>

\* An empty chain has no top block: the answer is an error page, not a number.
AskNumberFails ==
  /\ pc = "number"
  /\ theirs = 0
  /\ pc' = "raise"
  /\ UNCHANGED <<chains, end, low, high, result>>

\* /totalBlocks
AskCount ==
  /\ pc = "count"
  /\ end + 1 >= theirs
  /\ low' = end - theirs
  /\ high' = end
  /\ pc' = "search"
  /\ UNCHANGED <<chains, end, result>>

\* More blocks than the number said: InconsistentBlockchainException.
Inconsistent ==
  /\ pc = "count"
  /\ end + 1 < theirs
  /\ pc' = "raise"
  /\ UNCHANGED <<chains, end, low, high, result>>

\* Mutant: the position of a mismatch is given up.
ProbeBelow ==
  LET mid == (high - low) \div 2 + low IN
  /\ pc = "search"
  /\ low < high
  /\ low' = IF SameHash(mid) THEN mid + 1 ELSE low
  /\ high' = IF SameHash(mid) THEN high ELSE mid - 1
  /\ UNCHANGED <<pc, chains, end, result>>

\* Mutant: the middle stays in the part still to be searched.
ProbeAgain ==
  LET mid == (high - low) \div 2 + low IN
  /\ pc = "search"
  /\ low < high
  /\ low' = IF SameHash(mid) THEN mid ELSE low
  /\ high' = IF SameHash(mid) THEN high ELSE mid
  /\ UNCHANGED <<pc, chains, end, result>>

\* /getHash in the middle
Probe ==
  LET mid == (high - low) \div 2 + low IN
  /\ pc = "search"
  /\ low < high
  /\ low' = IF SameHash(mid) THEN mid + 1 ELSE low
  /\ high' = IF SameHash(mid) THEN high ELSE mid
  /\ UNCHANGED <<pc, chains, end, result>>

\* /getHash where the search has ended
Last ==
  /\ pc = "search"
  /\ low >= high
  /\ result' = IF SameHash(low) THEN -1 ELSE low
  /\ pc' = "done"
  /\ UNCHANGED <<chains, end, low, high>>

Search ==
  AskNumber \/ AskNumberFails \/ AskCount \/ Inconsistent \/ Probe \/ Last

Next == Grow \/ Empty \/ Search

Spec == Init /\ [][Next]_vars

\* The handler goes on as long as it is answered.
FairSpec == Spec /\ WF_vars(Search)

-----------------------------------------------------------------------------

\* The position at which the chains part among the blocks that were there when
\* the search began, -1 if they do not.
Parting == IF common <= end THEN common ELSE -1

TypeOK ==
  /\ pc \in {"number", "count", "search", "done", "raise"}
  /\ mine \in 1 .. MaxLen /\ theirs \in 0 .. MaxLen
  /\ common \in 0 .. MaxLen /\ common <= mine /\ common <= theirs
  /\ end \in 0 .. MaxLen /\ (end = 0 \/ end <= theirs - 1)
  /\ low \in -1 .. MaxLen /\ high \in -1 .. MaxLen
  /\ result \in -1 .. MaxLen

\* If the chains share their genesis block, the search finds where they part,
\* also when the other chain has grown or replaced its genesis block meanwhile.
\* (collided_block)
FindsTheParting == (pc = "done" /\ common > 0) => result = Parting

\* The search ends.
Ends == <>(pc \in {"done", "raise"})
=============================================================================
