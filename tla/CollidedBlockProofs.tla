------------------------- MODULE CollidedBlockProofs -------------------------
(***************************************************************************)
(* collided_block is right for chains of any length that share their       *)
(* genesis block.                                                          *)
(***************************************************************************)
EXTENDS CollidedBlock, TLAPS

\* The parting, if there is one, is between low and high.  With no parting high
\* never moves, but for the position -1, which is probed when there is only one
\* block: there the two last blocks are compared.
Between ==
  /\ low <= high /\ high <= end
  /\ (common > 0 /\ common <= end) => low <= common /\ common <= high
  /\ (common > 0 /\ common > end) => high = end \/ high = -1

SearchInv ==
  /\ TypeOK
  /\ pc = "search" => Between
  /\ FindsTheParting

-----------------------------------------------------------------------------

\* At a position that both chains have, they differ from the parting on.
LEMMA SameBelowParting ==
  ASSUME TypeOK, NEW i \in 0 .. theirs - 1
  PROVE  SameHash(i) <=> i < common
<1>1. /\ i \in Int /\ i >= 0 /\ i < theirs
      /\ common \in Int /\ mine \in Int /\ theirs \in Int /\ common <= mine
  BY DEF TypeOK
<1>2. /\ Position(mine, i) = i /\ Position(theirs, i) = i
      /\ i \in 0 .. theirs - 1
      /\ i < common => i \in 0 .. mine - 1
  BY <1>1 DEF Position
<1>3. Hash("theirs", theirs, i) = IF i < common THEN <<"both", i>> ELSE <<"theirs", i>>
  BY <1>2 DEF Hash
<1>4. CASE i < common
  <2>1. Hash("mine", mine, i) = <<"both", i>>
    BY <1>2, <1>4 DEF Hash
  <2> QED
    BY <1>3, <1>4, <2>1 DEF SameHash
<1>5. CASE ~(i < common)
  <2>1. Hash("mine", mine, i)[1] \in {"", "mine"}
    BY <1>2, <1>5 DEF Hash
  <2>2. Hash("theirs", theirs, i)[1] = "theirs"
    BY <1>3, <1>5
  <2> QED
    BY <1>5, <2>1, <2>2 DEF SameHash
<1> QED
  BY <1>4, <1>5

LEMMA ProbeKeeps ==
  ASSUME SearchInv, Probe
  PROVE  SearchInv'
<1> DEFINE mid == (high - low) \div 2 + low
<1>1. /\ pc = "search" /\ low < high /\ UNCHANGED <<pc, chains, end, result>>
      /\ low' = IF SameHash(mid) THEN mid + 1 ELSE low
      /\ high' = IF SameHash(mid) THEN high ELSE mid
  BY DEF Probe
<1>2. /\ low \in Int /\ high \in Int /\ end \in Int /\ common \in Int
      /\ theirs \in Int /\ mine \in Int /\ MaxLen \in Int
      /\ -1 <= low /\ high <= end /\ 0 <= end /\ (end = 0 \/ end <= theirs - 1)
      /\ end <= MaxLen /\ theirs <= MaxLen /\ common >= 0
  BY <1>1, CollidedBlockAssumption
     DEF CollidedBlockAssumption, SearchInv, TypeOK, Between
<1>3. mid \in Int /\ low <= mid /\ mid < high /\ (high >= 1 => mid >= 0)
  BY <1>1, <1>2
<1> HIDE DEF mid
<1>4. mid >= 0 => (SameHash(mid) <=> mid < common)
  <2> HAVE mid >= 0
  <2>1. mid \in 0 .. theirs - 1
    BY <1>2, <1>3
  <2> QED
    BY <2>1, SameBelowParting DEF SearchInv
<1>5. TypeOK'
  <2>1. low' \in -1 .. MaxLen /\ high' \in -1 .. MaxLen
    BY <1>1, <1>2, <1>3
  <2> QED
    BY <1>1, <2>1 DEF SearchInv, TypeOK, chains
<1>6. Between'
  <2>1. low' <= high' /\ high' <= end'
    BY <1>1, <1>2, <1>3
  <2>2. ASSUME common > 0, common <= end
        PROVE  low' <= common /\ common <= high'
    <3>1. low <= common /\ common <= high /\ mid >= 0
      BY <1>1, <1>2, <1>3, <2>2 DEF SearchInv, Between
    <3> QED
      BY <1>1, <1>2, <1>3, <1>4, <3>1
  <2>3. ASSUME common > 0, common > end
        PROVE  high' = end \/ high' = -1
    <3>1. high = end
      BY <1>1, <1>2, <2>3 DEF SearchInv, Between
    <3>2. CASE mid >= 0
      BY <1>1, <1>2, <1>3, <1>4, <2>3, <3>1, <3>2
    <3>3. CASE mid < 0
      <4>1. mid = -1
        BY <1>2, <1>3, <3>3
      <4> QED
        BY <1>1, <3>1, <4>1
    <3> QED
      BY <1>3, <3>2, <3>3
  <2> QED
    BY <1>1, <2>1, <2>2, <2>3 DEF Between, chains
<1> QED
  BY <1>1, <1>5, <1>6 DEF SearchInv, FindsTheParting

LEMMA LastKeeps ==
  ASSUME SearchInv, Last
  PROVE  SearchInv'
<1>1. /\ pc = "search" /\ pc' = "done" /\ UNCHANGED <<chains, end, low, high>>
      /\ result' = IF SameHash(low) THEN -1 ELSE low
      /\ low >= high
  BY DEF Last
<1>2. /\ low \in Int /\ high \in Int /\ end \in Int /\ common \in Int
      /\ theirs \in Int /\ low = high /\ high <= end
      /\ (end = 0 \/ end <= theirs - 1) /\ common <= theirs
      /\ low \in -1 .. MaxLen /\ common >= 0 /\ end >= 0
  BY <1>1, CollidedBlockAssumption
     DEF CollidedBlockAssumption, SearchInv, TypeOK, Between
<1>3. (low >= 0 /\ common > 0) => (SameHash(low) <=> low < common)
  <2> HAVE low >= 0 /\ common > 0
  <2>1. low \in 0 .. theirs - 1
    BY <1>2
  <2> QED
    BY <2>1, SameBelowParting DEF SearchInv
<1>4. -1 \in -1 .. MaxLen
  BY CollidedBlockAssumption DEF CollidedBlockAssumption
<1>5. TypeOK'
  BY <1>1, <1>2, <1>4 DEF SearchInv, TypeOK, chains
<1>6. ASSUME common > 0
      PROVE  result' = Parting
  <2>1. CASE common <= end
    <3>1. low = common
      BY <1>1, <1>2, <1>6, <2>1 DEF SearchInv, Between
    <3> QED
      BY <1>1, <1>2, <1>3, <1>6, <2>1, <3>1 DEF Parting
  <2>2. CASE common > end
    <3>1. high = end \/ high = -1
      BY <1>1, <1>6, <2>2 DEF SearchInv, Between
    <3> QED
      BY <1>1, <1>2, <1>3, <1>6, <2>2, <3>1 DEF Parting
  <2> QED
    BY <1>2, <2>1, <2>2
<1> QED
  BY <1>1, <1>5, <1>6 DEF SearchInv, FindsTheParting, Parting, chains

LEMMA GrowKeeps ==
  ASSUME SearchInv, Grow
  PROVE  SearchInv'
<1>1. /\ UNCHANGED <<pc, mine, end, low, high, result>>
      /\ pc \notin {"done", "raise"}
      /\ theirs' = theirs + 1 /\ theirs < MaxLen
      /\ common' = common \/ (common = theirs /\ common < mine /\ common' = common + 1)
  BY DEF Grow
<1>2. /\ common \in Int /\ theirs \in Int /\ mine \in Int /\ end \in Int
      /\ MaxLen \in Int /\ common >= 0 /\ common <= theirs
      /\ (end = 0 \/ end <= theirs - 1)
      /\ mine <= MaxLen /\ 0 <= theirs /\ 0 <= end
      /\ low \in Int /\ -1 <= low /\ high \in Int
  BY <1>1, CollidedBlockAssumption DEF CollidedBlockAssumption, SearchInv, TypeOK
<1>3. TypeOK'
  <2>1. /\ theirs' \in 0 .. MaxLen /\ common' \in 0 .. MaxLen
        /\ common' <= mine /\ common' <= theirs' /\ (end = 0 \/ end <= theirs' - 1)
    BY <1>1, <1>2 DEF SearchInv, TypeOK
  <2> QED
    BY <1>1, <2>1 DEF SearchInv, TypeOK
<1>4. pc = "search" => Between'
  <2> HAVE pc = "search"
  <2>1. Between
    BY DEF SearchInv
  <2> QED
    BY <1>1, <1>2, <2>1 DEF Between
<1> QED
  BY <1>1, <1>3, <1>4 DEF SearchInv, FindsTheParting

LEMMA EmptyKeeps ==
  ASSUME SearchInv, Empty
  PROVE  SearchInv'
<1>1. /\ UNCHANGED <<pc, mine, end, low, high, result>>
      /\ pc \notin {"done", "raise"}
      /\ theirs = 1 /\ theirs' = 0 /\ common' = 0
  BY DEF Empty
<1>2. end = 0 /\ mine >= 0 /\ MaxLen \in Int /\ MaxLen >= 0
  BY <1>1, CollidedBlockAssumption DEF CollidedBlockAssumption, SearchInv, TypeOK
<1>3. TypeOK'
  BY <1>1, <1>2 DEF SearchInv, TypeOK
<1>4. pc = "search" => Between'
  BY <1>1 DEF SearchInv, Between
<1> QED
  BY <1>1, <1>3, <1>4 DEF SearchInv, FindsTheParting

LEMMA NextKeepsSearch ==
  ASSUME SearchInv, [Next]_vars
  PROVE  SearchInv'
<1>1. CASE Grow
  BY <1>1, GrowKeeps
<1>2. CASE AskNumber
  <2>1. theirs - 1 \in 0 .. MaxLen /\ end' = theirs - 1 /\ theirs \in Int
    BY <1>2, CollidedBlockAssumption
       DEF CollidedBlockAssumption, AskNumber, SearchInv, TypeOK
  <2> QED
    BY <1>2, <2>1 DEF AskNumber, SearchInv, TypeOK, FindsTheParting, chains
<1>3. CASE AskCount
  <2>1. /\ end \in Int /\ theirs \in Int /\ end <= MaxLen
        /\ end = theirs - 1 \/ (end = 0 /\ theirs = 0)
        /\ common \in Int /\ common <= theirs /\ MaxLen \in Int /\ 0 <= end
        /\ low' = end - theirs /\ high' = end /\ common >= 0
        /\ pc' = "search" /\ UNCHANGED <<chains, end, result>>
    BY <1>3, CollidedBlockAssumption
       DEF CollidedBlockAssumption, AskCount, SearchInv, TypeOK
  <2>2. low' \in {-1, 0} /\ low' <= end /\ low' \in -1 .. MaxLen /\ high' \in -1 .. MaxLen
    BY <2>1
  <2>3. Between'
    BY <2>1, <2>2 DEF Between, chains
  <2> QED
    BY <2>1, <2>2, <2>3 DEF SearchInv, TypeOK, FindsTheParting, chains
<1>4. CASE Inconsistent
  BY <1>4 DEF Inconsistent, SearchInv, TypeOK, FindsTheParting, chains
<1>5. CASE Probe
  BY <1>5, ProbeKeeps
<1>6. CASE Last
  BY <1>6, LastKeeps
<1>7. CASE UNCHANGED vars
  BY <1>7 DEF vars, chains, SearchInv, TypeOK, Between, FindsTheParting, Parting
<1>8. CASE Empty
  BY <1>8, EmptyKeeps
<1>9. CASE AskNumberFails
  BY <1>9 DEF AskNumberFails, SearchInv, TypeOK, FindsTheParting, chains
<1> QED
  BY <1>1, <1>2, <1>3, <1>4, <1>5, <1>6, <1>7, <1>8, <1>9 DEF Next, Search

-----------------------------------------------------------------------------

LEMMA AlwaysSearching == Spec => []SearchInv
<1>1. Init => SearchInv
  BY CollidedBlockAssumption
     DEF CollidedBlockAssumption, Init, SearchInv, TypeOK, FindsTheParting
<1>2. SearchInv /\ [Next]_vars => SearchInv'
  BY NextKeepsSearch
<1> QED
  BY <1>1, <1>2, PTL DEF Spec

\* The search of collided_block stays within the two chains, but for the one
\* position -1 below them, whatever their lengths are.
THEOREM SearchTyped == Spec => []TypeOK
<1>1. SearchInv => TypeOK
  BY DEF SearchInv
<1> QED
  BY <1>1, AlwaysSearching, PTL

\* Chains of any length: the binary search of collided_block returns the first
\* block that differs, or -1, if the genesis blocks are the same.
THEOREM SearchIsRight == Spec => []FindsTheParting
<1>1. SearchInv => FindsTheParting
  BY DEF SearchInv
<1> QED
  BY <1>1, AlwaysSearching, PTL
=============================================================================
