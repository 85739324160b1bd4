---------------------------- MODULE LedgerProofs ----------------------------
(***************************************************************************)
(* Type correctness of Ledger for every number of nodes and workers.       *)
(***************************************************************************)
EXTENDS LedgerInvariants, SequenceTheorems, FiniteSetTheorems,
        TLAPS

\* Known hashes stay known while the ledger grows.
LEMMA KnownStays ==
  ASSUME NEW k \in Nat, NEW l \in Nat, k <= l
  PROVE  /\ 1 .. k \subseteq 1 .. l
         /\ Seq(1 .. k) \subseteq Seq(1 .. l)
<1>1. 1 .. k \subseteq 1 .. l
  OBVIOUS
<1> QED
  BY <1>1

\* What the steps of a worker put together is a job again.
LEMMA HeadAndTail ==
  ASSUME NEW S, NEW s \in Seq(S), s # <<>>
  PROVE  Head(s) \in S /\ Tail(s) \in Seq(S)
  BY HeadTailProperties

LEMMA LoadNextIsJob ==
  ASSUME TypeOK, NEW j \in Job, j.todo # <<>>,
         j.todo \in Seq(Hashes), j.out \in Seq(Hashes)
  PROVE  LoadNext(j) \in Job /\ JobKnown(LoadNext(j), Hashes, NodeHashes)
<1>1. Head(j.todo) \in Hashes /\ Tail(j.todo) \in Seq(Hashes)
  BY HeadAndTail
<1>2. Hashes \subseteq Nat /\ Seq(Hashes) \subseteq Seq(Nat)
  BY DEF Hashes, TypeOK
<1> DEFINE k == LoadNext(j)
<1>3. k \in Job
  BY <1>1, <1>2 DEF LoadNext, Job, Steps
<1>4. k.todo = Tail(j.todo) /\ k.out = j.out /\ k.blk = Head(j.todo) /\ k.pc = "check"
  BY DEF LoadNext, Job
<1> QED
  BY <1>1, <1>3, <1>4 DEF JobKnown
  
LEMMA GotoIsJob ==
  ASSUME NEW j \in Job, NEW pc \in Steps, JobKnown(j, Hashes, NodeHashes),
         pc \notin {"store", "clear", "invite", "tell", "wait"},
         pc = "idle" \/ (pc = "raise" /\ j.kind # "addBlock") \/ Holds(j)
  PROVE  [j EXCEPT !.pc = pc] \in Job /\ JobKnown([j EXCEPT !.pc = pc], Hashes, NodeHashes)
<1> DEFINE k == [j EXCEPT !.pc = pc]
<1>1. k \in Job /\ k.pc = pc /\ k.todo = j.todo /\ k.out = j.out /\ k.blk = j.blk
      /\ k.kind = j.kind
  BY DEF Job
<1> QED
  BY <1>1 DEF JobKnown, Holds

LEMMA AfterAddIsJob ==
  ASSUME TypeOK, NEW j \in Job, JobKnown(j, Hashes, NodeHashes), Holds(j), j.pc # "raise"
  PROVE  AfterAdd(j) \in Job /\ JobKnown(AfterAdd(j), Hashes, NodeHashes)
<1>1. CASE j.todo # <<>>
  BY <1>1, LoadNextIsJob DEF AfterAdd, JobKnown
<1>2. CASE j.todo = <<>>
  <2>1. AfterAdd(j) = [j EXCEPT !.pc = "serve"] \/ AfterAdd(j) = [j EXCEPT !.pc = "save"]
    BY <1>2 DEF AfterAdd
  <2> QED
    BY <2>1, GotoIsJob DEF Steps
<1> QED
  BY <1>1, <1>2

LEMMA IdleIsJob == Idle \in Job /\ JobKnown(Idle, Hashes, NodeHashes)
<1>1. /\ Idle.pc = "idle" /\ Idle.todo = <<>> /\ Idle.out = <<>>
      /\ Idle \in Job
  BY DEF Idle, Job, Steps, Kinds
<1>2. Idle.todo \in Seq(Hashes) /\ Idle.out \in Seq(Hashes)
  BY <1>1
<1> QED
  BY <1>1, <1>2 DEF JobKnown, Holds

LEMMA TellingIsJob ==
  ASSUME NEW j \in Job, JobKnown(j, Hashes, NodeHashes), Holds(j), j.pc # "raise"
  PROVE  Telling(j) \in Job /\ JobKnown(Telling(j), Hashes, NodeHashes)
<1>1. CASE j.tell = <<>>
  BY <1>1, IdleIsJob DEF Telling
<1>2. CASE j.tell # <<>>
  <2> DEFINE k == [j EXCEPT !.pc = "tell"]
  <2>1. k \in Job /\ k.pc = "tell" /\ k.todo = j.todo /\ k.out = j.out
        /\ k.blk = j.blk /\ k.kind = j.kind /\ k.tell = j.tell
    BY DEF Job, Steps
  <2> QED
    BY <1>2, <2>1 DEF JobKnown, Holds, Telling
<1> QED
  BY <1>1, <1>2

-----------------------------------------------------------------------------
(* TypeInv in parts, and what a step leaves of each. *)

JobsOK ==
  /\ job \in [Nodes -> [Workers -> Job]]
  /\ \A n \in Nodes, w \in Workers : JobKnown(job[n][w], Hashes, NodeHashes)

ChainFilesOK ==
  /\ chainFile \in [Nodes -> {NoFile} \cup Seq(Hashes)]
  /\ \A n \in Nodes, w \in Workers : At(n, w, "write") => chainFile[n] # NoFile

NetOK ==
  /\ net \subseteq Request
  /\ \A m \in net : m.blks \in Seq(Hashes) /\ m.blks # <<>>

ChainsOK == minted \in Seq(BlockData) /\ chain \in [Nodes -> Seq(Hashes)]

OthersOK ==
  /\ mode \in [Nodes -> {"down", "boot", "up"}]
  /\ members \in [Nodes -> SUBSET Nodes]
  /\ files \in [Nodes -> SUBSET Files]
  /\ keys \in [Nodes -> SUBSET Nodes]
  /\ memberFile \in [Nodes -> SUBSET Nodes]
  /\ fileFile \in [Nodes -> SUBSET Files]
  /\ crashes \in Nat

LEMMA TypeInvParts ==
  /\ TypeInv <=> JobsOK /\ ChainFilesOK /\ NetOK /\ ChainsOK /\ OthersOK
  /\ TypeInv' <=> (JobsOK /\ ChainFilesOK /\ NetOK /\ ChainsOK /\ OthersOK)'
  BY DEF TypeInv, TypeOK, IdsKnown, JobsOK, ChainFilesOK, NetOK, ChainsOK, OthersOK,
         Hashes, NodeHashes

\* A step may sign a block, it never takes one back.
Grows ==
  /\ minted' \in Seq(BlockData)
  /\ Len(minted) <= Len(minted')
  /\ \A h \in Hashes : minted'[h] = minted[h]

LEMMA SigningGrows ==
  ASSUME ChainsOK, NEW b \in BlockData, minted' = Append(minted, b)
  PROVE  Grows /\ Len(minted') = Len(minted) + 1 /\ minted'[Len(minted) + 1] = b
  BY AppendProperties DEF Grows, ChainsOK, Hashes

LEMMA UnchangedGrows ==
  ASSUME ChainsOK, UNCHANGED minted
  PROVE  Grows
  BY DEF Grows, ChainsOK

LEMMA HashesGrow ==
  ASSUME ChainsOK, Grows
  PROVE  /\ Hashes \subseteq Hashes' /\ Seq(Hashes) \subseteq Seq(Hashes')
         /\ NodeHashes \subseteq NodeHashes'
<1>1. Len(minted) \in Nat /\ Len(minted') \in Nat /\ Len(minted) <= Len(minted')
  BY DEF ChainsOK, Grows
<1>2. Hashes \subseteq Hashes' /\ Seq(Hashes) \subseteq Seq(Hashes')
  BY <1>1, KnownStays DEF Hashes
<1> QED
  BY <1>2 DEF NodeHashes, Grows

LEMMA JobKnownStays ==
  ASSUME ChainsOK, Grows, NEW j, JobKnown(j, Hashes, NodeHashes)
  PROVE  JobKnown(j, Hashes', NodeHashes')
  BY HashesGrow DEF JobKnown

\* One worker moves on.
LEMMA OneMoves ==
  ASSUME JobsOK, ChainsOK, Grows, NEW n \in Nodes, NEW w \in Workers,
         NEW j \in Job, JobKnown(j, Hashes', NodeHashes'), Becomes(n, w, j)
  PROVE  /\ JobsOK'
         /\ job'[n][w] = j
         /\ \A m \in Nodes, v \in Workers :
              job'[m][v] = job[m][v] \/ (m = n /\ v = w /\ job'[m][v] = j)
<1>1. /\ job' \in [Nodes -> [Workers -> Job]]
      /\ job'[n][w] = j
      /\ \A m \in Nodes, v \in Workers :
           job'[m][v] = job[m][v] \/ (m = n /\ v = w /\ job'[m][v] = j)
  BY DEF Becomes, JobsOK
<1>2. ASSUME NEW m \in Nodes, NEW v \in Workers
      PROVE  JobKnown(job'[m][v], Hashes', NodeHashes')
  <2>1. CASE job'[m][v] = j
    BY <2>1
  <2>2. CASE job'[m][v] = job[m][v]
    <3>1. JobKnown(job[m][v], Hashes, NodeHashes)
      BY DEF JobsOK
    <3> QED
      BY <2>2, <3>1, HashesGrow DEF JobKnown
  <2> QED
    BY <1>1, <2>1, <2>2
<1> QED
  BY <1>1, <1>2 DEF JobsOK

LEMMA ChainFilesStay ==
  ASSUME JobsOK, ChainsOK, ChainFilesOK, Grows, NEW n \in Nodes,
         NEW w \in Workers, NEW j \in Job, Becomes(n, w, j), j.pc # "write",
         UNCHANGED chainFile
  PROVE  ChainFilesOK'
<1>1. chainFile' \in [Nodes -> {NoFile} \cup Seq(Hashes')]
  BY HashesGrow DEF ChainFilesOK
<1>2. ASSUME NEW m \in Nodes, NEW v \in Workers, At(m, v, "write")'
      PROVE  At(m, v, "write")
  BY <1>2 DEF At, Becomes, JobsOK
<1> QED
  BY <1>1, <1>2 DEF ChainFilesOK

LEMMA NetStays ==
  ASSUME NetOK, ChainsOK, Grows, net' \subseteq net
  PROVE  NetOK'
  BY HashesGrow DEF NetOK

LEMMA ChainsStay ==
  ASSUME ChainsOK, Grows, UNCHANGED chain
  PROVE  ChainsOK'
  BY HashesGrow DEF ChainsOK, Grows

\* Nothing but the job of one worker changes.
LEMMA OnlyMoves ==
  ASSUME TypeInv, NEW n \in Nodes, NEW w \in Workers,
         NEW j \in Job, JobKnown(j, Hashes, NodeHashes), j.pc # "write", Becomes(n, w, j),
         UNCHANGED <<minted, chain, chainFile>>, net' \subseteq net, OthersOK'
  PROVE  TypeInv'
<1>1. JobsOK /\ ChainFilesOK /\ NetOK /\ ChainsOK
  BY TypeInvParts
<1>2. Grows
  BY <1>1, UnchangedGrows
<1>3. JobKnown(j, Hashes', NodeHashes')
  BY <1>1, <1>2, JobKnownStays
<1>4. JobsOK'
  BY <1>1, <1>2, <1>3, OneMoves
<1>5. ChainFilesOK'
  BY <1>1, <1>2, ChainFilesStay
<1>6. NetOK' /\ ChainsOK'
  BY <1>1, <1>2, NetStays, ChainsStay
<1> QED
  BY <1>4, <1>5, <1>6, TypeInvParts

LEMMA TopIsHash ==
  ASSUME ChainsOK, NEW n \in Nodes, chain[n] # <<>>
  PROVE  /\ TopBlock(chain[n]) \in Hashes
         /\ Len(chain[n]) \in Nat \ {0}
  BY DEF ChainsOK, TopBlock, Hashes

LEMMA GetBlocksDataKnown ==
  ASSUME ChainsOK, NEW n \in Nodes, Serialisable(minted, chain[n])
  PROVE  /\ GetBlocksData(minted, chain[n]) \in Seq(Hashes)
         /\ GetBlocksData(minted, chain[n]) # <<>>
         /\ GetBlocksData(minted, chain[n])[1] = chain[n][1]
<1> DEFINE k == minted[TopBlock(chain[n])].number + 1
<1>1. chain[n] \in Seq(Hashes) /\ chain[n] # <<>>
  BY DEF ChainsOK, Serialisable
<1>2. minted[TopBlock(chain[n])] \in BlockData
  BY <1>1, TopIsHash DEF ChainsOK, Hashes
<1>3. k \in 1 .. Len(chain[n])
  BY <1>1, <1>2, TopIsHash DEF BlockData, NodeBlock, FileBlock, Serialisable
<1>4. /\ SubSeq(chain[n], 1, k) \in Seq(Hashes)
      /\ Len(SubSeq(chain[n], 1, k)) = k
      /\ SubSeq(chain[n], 1, k)[1] = chain[n][1]
  BY <1>1, <1>3, SubSeqProperties
<1> QED
  BY <1>3, <1>4 DEF GetBlocksData

LEMMA OverlayKnown ==
  ASSUME NEW S, NEW new \in Seq(S), NEW old \in Seq(S)
  PROVE  /\ Overlay(new, old) \in Seq(S)
         /\ Overlay(new, old) # <<>> =>
              Overlay(new, old)[1] = IF new # <<>> THEN new[1] ELSE old[1]
<1> DEFINE rest == SubSeq(old, Len(new) + 1, Len(old))
<1>1. rest \in Seq(S)
  BY SubSeqProperties
<1>2. new \o rest \in Seq(S) /\ Len(new \o rest) = Len(new) + Len(rest)
  BY <1>1, ConcatProperties
<1>3. CASE new # <<>>
  BY <1>1, <1>2, <1>3, ConcatProperties DEF Overlay
<1>4. CASE new = <<>>
  <2>1. rest = old
    BY <1>4, SubSeqFull
  <2> QED
    BY <1>2, <1>4, <2>1, ConcatEmptySeq DEF Overlay
<1> QED
  BY <1>3, <1>4

-----------------------------------------------------------------------------
(* Every action keeps TypeInv. *)

LEMMA BootKeepsTypes ==
  ASSUME TypeInv, NEW n \in Nodes
  PROVE  /\ BootFresh(n) => TypeInv'
         /\ BootSaved(n) => TypeInv'
<1> USE TypeInvParts
<1>1. ASSUME BootFresh(n)
      PROVE  TypeInv'
  <2>1. PICK t \in Times : minted' = Append(minted, Genesis(n, t))
    BY <1>1 DEF BootFresh
  <2>2. Genesis(n, t) \in BlockData
    BY DEF Genesis, BlockData, NodeBlock, NodeMethods
  <2>3. Grows /\ Len(minted') = Len(minted) + 1
    BY <2>1, <2>2, SigningGrows
  <2>4. <<Len(minted) + 1>> \in Seq(Hashes')
    BY <2>3 DEF ChainsOK, Hashes
  <2>5. ChainsOK'
    BY <1>1, <2>3, <2>4, HashesGrow DEF BootFresh, ChainsOK, Grows
  <2>6. JobsOK'
    BY <1>1, <2>3, JobKnownStays DEF BootFresh, JobsOK
  <2>7. ChainFilesOK'
    BY <1>1, <2>3, HashesGrow DEF BootFresh, ChainFilesOK, disk, At
  <2>8. NetOK'
    BY <1>1, <2>3, NetStays DEF BootFresh
  <2>9. OthersOK'
    BY <1>1 DEF BootFresh, OthersOK, disk
  <2> QED
    BY <2>5, <2>6, <2>7, <2>8, <2>9
<1>2. ASSUME BootSaved(n)
      PROVE  TypeInv'
  <2>1. Grows
    BY <1>2, UnchangedGrows DEF BootSaved
  <2>2. ChainsOK' /\ NetOK'
    BY <1>2, <2>1, ChainsStay, NetStays DEF BootSaved
  <2>3. OthersOK'
    BY <1>2 DEF BootSaved, OthersOK, disk
  <2>4. CASE UNCHANGED job
    <3>1. JobsOK'
      BY <2>1, <2>4, JobKnownStays DEF JobsOK
    <3>2. ChainFilesOK'
      BY <1>2, <2>1, <2>4, HashesGrow DEF BootSaved, ChainFilesOK, disk, At
    <3> QED
      BY <2>2, <2>3, <3>1, <3>2
  <2>5. CASE chainFile[n] # <<>> /\ ~UNCHANGED job
    <3> DEFINE load == [Idle EXCEPT !.kind = "boot", !.todo = chainFile[n]]
    <3>1. PICK w \in Workers : Becomes(n, w, LoadNext(load))
      BY <1>2, <2>5 DEF BootSaved
    <3>2. chainFile[n] \in Seq(Hashes)
      BY <1>2 DEF BootSaved, ChainFilesOK
    <3>3. /\ load \in Job /\ load.todo = chainFile[n] /\ load.out = <<>>
      <4>1. Hashes \subseteq Nat /\ Seq(Hashes) \subseteq Seq(Nat)
        BY DEF Hashes, ChainsOK
      <4>2. chainFile[n] \in Seq(Nat)
        BY <3>2, <4>1
      <4>3. Idle \in Job /\ Idle.out = <<>>
        BY IdleIsJob DEF Idle
      <4> QED
        BY <4>2, <4>3 DEF Job, Kinds
    <3>4. load.out \in Seq(Hashes)
      <4>1. <<>> \in Seq(Hashes)
        OBVIOUS
      <4> QED
        BY <3>3, <4>1
    <3>5. LoadNext(load) \in Job /\ JobKnown(LoadNext(load), Hashes, NodeHashes)
      BY <2>5, <3>2, <3>3, <3>4, LoadNextIsJob DEF TypeInv
    <3>6. LoadNext(load).pc = "check"
      BY <3>3 DEF LoadNext, Job
    <3>7. JobKnown(LoadNext(load), Hashes', NodeHashes')
      BY <2>1, <3>5, JobKnownStays
    <3> HIDE DEF load
    <3>8. JobsOK'
      BY <2>1, <3>1, <3>5, <3>7, OneMoves
    <3>9. ChainFilesOK'
      BY <1>2, <2>1, <3>1, <3>5, <3>6, ChainFilesStay DEF BootSaved, disk
    <3> QED
      BY <2>2, <2>3, <3>8, <3>9
  <2> QED
    BY <1>2, <2>4, <2>5 DEF BootSaved
<1> QED
  BY <1>1, <1>2

LEMMA HaltKeepsTypes ==
  ASSUME TypeInv, NEW n \in Nodes, Halt(n), net' \subseteq net,
         UNCHANGED <<minted, disk>>, crashes' \in Nat
  PROVE  TypeInv'
<1> USE TypeInvParts
<1>1. Grows
  BY UnchangedGrows
<1>2. OthersOK'
  BY DEF Halt, OthersOK, disk
<1>3. ChainsOK'
  <2>1. <<>> \in Seq(Hashes)
    OBVIOUS
  <2> QED
    BY <2>1 DEF Halt, ChainsOK, Hashes
<1>4. /\ job' \in [Nodes -> [Workers -> Job]]
      /\ \A m \in Nodes, w \in Workers : job'[m][w] = job[m][w] \/ job'[m][w] = Idle
  BY IdleIsJob DEF Halt, JobsOK
<1>5. JobsOK'
  <2>1. \A m \in Nodes, w \in Workers : JobKnown(job'[m][w], Hashes, NodeHashes)
    BY <1>4, IdleIsJob DEF JobsOK
  <2> QED
    BY <1>1, <1>4, <2>1, JobKnownStays DEF JobsOK
<1>6. ChainFilesOK'
  <2>1. \A m \in Nodes, w \in Workers : At(m, w, "write")' => At(m, w, "write")
    BY <1>4 DEF At, Idle
  <2> QED
    BY <1>1, <2>1, HashesGrow DEF ChainFilesOK, disk
<1>7. NetOK'
  BY <1>1, NetStays
<1> QED
  BY <1>2, <1>3, <1>5, <1>6, <1>7

LEMMA CrashKeepsTypes ==
  ASSUME TypeInv, NEW n \in Nodes, Crash(n)
  PROVE  TypeInv'
<1>1. crashes' \in Nat
  BY TypeInvParts DEF Crash, OthersOK
<1>2. net' \subseteq net
  BY DEF Crash
<1> QED
  BY <1>1, <1>2, HaltKeepsTypes DEF Crash

\* The steps that only move a worker on, take a request up or save a list.
LEMMA MovingKeepsTypes ==
  ASSUME TypeInv, NEW n \in Nodes, NEW w \in Workers
  PROVE  /\ \A f \in Files : Upload(n, w, f) => TypeInv'
         /\ UploadClash(n, w) => TypeInv'
         /\ CheckPasses(n, w) => TypeInv'
         /\ CheckFails(n, w) => TypeInv'
         /\ KeyFails(n, w) => TypeInv'
         /\ Invited(n, w) => TypeInv'
         /\ Raise(n, w) => TypeInv'
         /\ Save(n, w) => TypeInv'
         /\ Told(n, w) => TypeInv'
         /\ Serve(n, w) => TypeInv'
<1> DEFINE j == job[n][w]
<1> USE TypeInvParts
<1>1. j \in Job /\ JobKnown(j, Hashes, NodeHashes)
  BY DEF JobsOK
<1>2. Idle \in Job /\ JobKnown(Idle, Hashes, NodeHashes) /\ Idle.pc = "idle"
  BY IdleIsJob DEF Idle
<1>3. ASSUME NEW pc \in Steps, 
             pc \notin {"store", "clear", "invite", "write", "tell", "wait"},
             Goto(n, w, pc), (pc = "raise" /\ j.kind # "addBlock") \/ Holds(j),
             UNCHANGED <<minted, chain, chainFile, net>>, OthersOK'
      PROVE  TypeInv'
  <2>1. [j EXCEPT !.pc = pc] \in Job /\ JobKnown([j EXCEPT !.pc = pc], Hashes, NodeHashes)
    BY <1>1, <1>3, GotoIsJob
  <2>2. [j EXCEPT !.pc = pc].pc = pc
    BY <1>1 DEF Job
  <2> QED
    BY <1>3, <2>1, <2>2, OnlyMoves DEF Goto
<1>4. ASSUME Becomes(n, w, Idle),
             UNCHANGED <<minted, chain, chainFile, net>>, OthersOK'
      PROVE  TypeInv'
  BY <1>2, <1>4, OnlyMoves
<1>5. UNCHANGED <<mode, memory, disk, crashes>> => OthersOK'
  BY DEF OthersOK, memory, disk
<1>6. ASSUME NEW f \in Files, Upload(n, w, f)
      PROVE  TypeInv'
  <2> DEFINE k == [Idle EXCEPT !.pc = "store", !.kind = "upload", !.name = f]
  <2>1. /\ k \in Job /\ k.pc = "store" /\ k.todo = Idle.todo
        /\ k.out = Idle.out /\ k.name = f /\ k.kind = "upload"
    BY <1>2 DEF Job, Steps, Kinds
  <2>2. JobKnown(k, Hashes, NodeHashes)
    BY <1>2, <2>1 DEF JobKnown, Holds
  <2>3. Becomes(n, w, k) /\ UNCHANGED <<minted, mode, memory, disk, net, crashes>>
    BY <1>6 DEF Upload
  <2> HIDE DEF k
  <2> QED
    BY <1>5, <2>1, <2>2, <2>3, OnlyMoves DEF memory, disk
<1>7. UploadClash(n, w) => TypeInv'
  <2>1. j.pc = "store" => j.kind # "addBlock"
    BY <1>1 DEF JobKnown
  <2> QED
    BY <1>3, <1>5, <2>1 DEF UploadClash, At, memory, disk, Steps
<1>8. CheckPasses(n, w) => TypeInv'
  BY <1>3, <1>5 DEF CheckPasses, At, memory, disk, Steps, Holds
<1>9. CheckFails(n, w) => TypeInv'
  BY <1>3, <1>5 DEF CheckFails, At, memory, disk, Steps, Holds
<1>10. KeyFails(n, w) => TypeInv'
  BY <1>3, <1>5 DEF KeyFails, At, memory, disk, Steps, Holds
<1>11. ASSUME Invited(n, w)
       PROVE  TypeInv'
  <2>1. OthersOK'
    BY <1>11 DEF Invited, OthersOK, memory
  <2>2. j.pc = "invited"
    BY <1>11 DEF Invited, At
  <2>3. AfterAdd(j) \in Job /\ JobKnown(AfterAdd(j), Hashes, NodeHashes)
    BY <1>1, <2>2, AfterAddIsJob DEF Holds, TypeInv
  <2>4. AfterAdd(j).pc # "write"
    BY <1>1 DEF AfterAdd, LoadNext, Job
  <2> QED
    BY <1>11, <2>1, <2>3, <2>4, OnlyMoves DEF Invited, memory
<1>12. ASSUME Raise(n, w)
       PROVE  TypeInv'
  <2>1. CASE j.kind = "addBlock" /\ Goto(n, w, "save") /\ UNCHANGED <<mode, memory>>
    BY <1>3, <1>5, <1>12, <2>1 DEF Raise, At, memory, disk, Steps, Holds
  <2>2. CASE Becomes(n, w, Idle) /\ UNCHANGED <<mode, memory>>
    BY <1>4, <1>5, <1>12, <2>2 DEF Raise, memory, disk
  <2>3. CASE Halt(n)
    BY <1>12, <2>3, HaltKeepsTypes DEF Raise, OthersOK
  <2> QED
    BY <1>12, <2>1, <2>2, <2>3 DEF Raise
<1>13. ASSUME Save(n, w)
       PROVE  TypeInv'
  <2>1. CASE Serialisable(minted, chain[n])
    <3> DEFINE out == GetBlocksData(minted, chain[n])
               k == [j EXCEPT !.pc = "open", !.out = out]
    <3>1. out \in Seq(Hashes) /\ out \in Seq(Nat)
      BY <2>1, GetBlocksDataKnown DEF Hashes, ChainsOK
    <3>2. Becomes(n, w, k) /\ j.pc = "save"
          /\ UNCHANGED <<minted, mode, memory, disk, net, crashes>>
      BY <1>13, <2>1 DEF Save, At
    <3> HIDE DEF out
    <3>3. /\ k \in Job /\ k.pc = "open" /\ k.out = out /\ k.todo = j.todo
          /\ k.blk = j.blk /\ k.kind = j.kind
      BY <1>1, <3>1 DEF Job, Steps
    <3>4. JobKnown(k, Hashes, NodeHashes)
      BY <1>1, <3>1, <3>2, <3>3 DEF JobKnown, Holds
    <3> HIDE DEF k
    <3> QED
      BY <1>5, <3>2, <3>3, <3>4, OnlyMoves DEF memory, disk
  <2>2. CASE ~Serialisable(minted, chain[n])
    BY <1>4, <1>5, <1>13, <2>2 DEF Save, memory, disk
  <2> QED
    BY <2>1, <2>2
<1>14. ASSUME Told(n, w)
       PROVE  TypeInv'
  <2> DEFINE k == [j EXCEPT !.tell = Tail(@)]
  <2>1. j.pc = "wait" /\ j.tell # <<>> /\ j.tell \in Seq(Nodes)
    BY <1>1, <1>14 DEF Told, At, JobKnown, Job
  <2>2. Tail(j.tell) \in Seq(Nodes)
    BY <2>1, HeadAndTail
  <2>3. /\ k \in Job /\ k.pc = "wait" /\ k.out = j.out /\ k.todo = j.todo
        /\ k.blk = j.blk /\ k.kind = j.kind /\ k.tell = Tail(j.tell)
    BY <1>1, <2>1, <2>2 DEF Job
  <2>4. Telling(k) \in Job /\ JobKnown(Telling(k), Hashes, NodeHashes) /\ Telling(k).pc # "write"
    <3>1. CASE k.tell = <<>>
      BY <1>2, <3>1 DEF Telling
    <3>2. CASE k.tell # <<>>
      <4> DEFINE l == [k EXCEPT !.pc = "tell"]
      <4>1. l \in Job /\ l.pc = "tell" /\ l.todo = j.todo /\ l.out = j.out
            /\ l.blk = j.blk /\ l.kind = j.kind /\ l.tell = k.tell
        BY <2>3 DEF Job, Steps
      <4> QED
        BY <1>1, <2>1, <3>2, <4>1 DEF JobKnown, Holds, Telling
    <3> QED
      BY <3>1, <3>2
  <2>5. Becomes(n, w, Idle) \/ Becomes(n, w, Telling(k))
    BY <1>14 DEF Told
  <2> HIDE DEF k
  <2>6. UNCHANGED <<minted, mode, memory, disk, net, crashes>>
    BY <1>14 DEF Told
  <2> QED
    BY <1>4, <1>5, <2>4, <2>5, <2>6, OnlyMoves DEF memory, disk
<1>15. ASSUME Serve(n, w)
       PROVE  TypeInv'
  <2>1. OthersOK'
    BY <1>15 DEF Serve, OthersOK, memory, disk
  <2> QED
    BY <1>4, <1>15, <2>1 DEF Serve, memory, disk
<1> QED
  BY <1>6, <1>7, <1>8, <1>9, <1>10, <1>11, <1>12, <1>13, <1>14, <1>15

\* Peers are picked from the nodes that exist.
LEMMA PickIsSeq ==
  ASSUME TypeInv, NEW n \in Nodes, NEW P \in Picks(n)
  PROVE  P \in Seq(Nodes)
<1>1. members[n] \subseteq Nodes
  BY DEF TypeInv, TypeOK
<1> DEFINE size == Cardinality(members[n])
           k == IF size > Fanout THEN Fanout ELSE size
<1>2. P \in [1 .. k -> members[n]]
  BY DEF Picks
<1>3. k \in Nat
  <2>1. size \in Nat
    BY <1>1, LedgerAssumption, FS_Subset, FS_CardinalityType
  <2> QED
    BY <2>1, LedgerAssumption
<1> QED
  BY <1>1, <1>2, <1>3

\* No job changes, a block may be signed, and net may change.
LEMMA NobodyMoves ==
  ASSUME TypeInv, Grows, NetOK', UNCHANGED <<mode, memory, disk, job, crashes>>
  PROVE  TypeInv'
<1> USE TypeInvParts
<1>1. JobsOK'
  BY JobKnownStays DEF JobsOK
<1>2. ChainFilesOK'
  BY HashesGrow DEF ChainFilesOK, At, disk
<1>3. ChainsOK' /\ OthersOK'
  BY ChainsStay DEF OthersOK, memory, disk
<1> QED
  BY <1>1, <1>2, <1>3

\* A block that is signed on top of a chain.
LEMMA OperatorSigns ==
  ASSUME TypeInv, NEW c \in Nodes, NEW to \in Nodes, OperatorPosts(c, to)
  PROVE  \E b \in BlockData :
           minted' = Append(minted, b) /\ b.action \in AdminActions
<1> USE TypeInvParts
<1>1. PICK a \in AdminActions, t \in Times :
        \E d \in IF a \in NodeMethods THEN Nodes \ {c} ELSE files[c] :
          minted' = Append(minted,
            [number |-> Len(chain[c]), prev |-> TopBlock(chain[c]), time |-> t,
             action |-> a, data |-> d, creator |-> c])
  BY DEF OperatorPosts
<1>2. PICK d \in IF a \in NodeMethods THEN Nodes \ {c} ELSE files[c] :
        minted' = Append(minted,
          [number |-> Len(chain[c]), prev |-> TopBlock(chain[c]), time |-> t,
           action |-> a, data |-> d, creator |-> c])
  BY <1>1
<1>3. a \in NodeMethods \/ a \in FileMethods
  BY LedgerAssumption DEF NodeMethods, FileMethods
<1>4. IF a \in NodeMethods THEN d \in Nodes ELSE d \in Files
  BY <1>2 DEF OthersOK
<1>5. Len(chain[c]) \in Nat /\ TopBlock(chain[c]) \in Nat
  BY TopIsHash DEF OperatorPosts, Hashes
<1>6. [number |-> Len(chain[c]), prev |-> TopBlock(chain[c]), time |-> t,
       action |-> a, data |-> d, creator |-> c] \in BlockData
  BY <1>3, <1>4, <1>5 DEF BlockData, NodeBlock, FileBlock
<1> QED
  BY <1>2, <1>6

LEMMA OperatorKeepsTypes ==
  ASSUME TypeInv, NEW c \in Nodes, NEW to \in Nodes, OperatorPosts(c, to)
  PROVE  TypeInv'
<1> USE TypeInvParts
<1>1. Grows /\ Len(minted') = Len(minted) + 1
  BY OperatorSigns, SigningGrows
<1>2. NetOK'
  <2> DEFINE m == [kind |-> "addBlock", to |-> to, blks |-> <<Len(minted) + 1>>]
  <2>1. <<Len(minted) + 1>> \in Seq(Hashes') /\ <<Len(minted) + 1>> \in Seq(Nat)
    BY <1>1 DEF ChainsOK, Hashes
  <2>2. m \in Request /\ m.blks = <<Len(minted) + 1>> /\ m.blks # <<>>
    BY <2>1 DEF Request
  <2>3. net' = net \cup {m}
    BY DEF OperatorPosts
  <2> HIDE DEF m
  <2>4. Seq(Hashes) \subseteq Seq(Hashes')
    BY <1>1, HashesGrow
  <2> QED
    BY <2>1, <2>2, <2>3, <2>4 DEF NetOK
<1> QED
  BY <1>1, <1>2, NobodyMoves DEF OperatorPosts

LEMMA UploadSigns ==
  ASSUME TypeInv, NEW n \in Nodes, NEW w \in Workers, UploadStore(n, w),
         chain[n] # <<>>
  PROVE  \E b \in BlockData :
           /\ minted' = Append(minted, b)
           /\ b.number = Len(chain[n]) /\ b.prev = TopBlock(chain[n])
           /\ b.action = "add_file" /\ b.data = job[n][w].name
           /\ b.creator = n /\ b.time \in Times
<1> USE TypeInvParts
<1> DEFINE f == job[n][w].name
<1>1. PICK t \in Times : minted' = Append(minted,
        [number |-> Len(chain[n]), prev |-> TopBlock(chain[n]), time |-> t,
         action |-> "add_file", data |-> f, creator |-> n])
  BY DEF UploadStore
<1>2. f \in Files
  BY DEF UploadStore, At, JobsOK, JobKnown
<1>3. Len(chain[n]) \in Nat /\ TopBlock(chain[n]) \in Nat
  BY TopIsHash DEF Hashes
<1>4. [number |-> Len(chain[n]), prev |-> TopBlock(chain[n]), time |-> t,
       action |-> "add_file", data |-> f, creator |-> n] \in BlockData
  BY <1>2, <1>3 DEF BlockData, FileBlock, FileMethods
<1> QED
  BY <1>1, <1>4

LEMMA UploadStoreKeepsTypes ==
  ASSUME TypeInv, NEW n \in Nodes, NEW w \in Workers, UploadStore(n, w)
  PROVE  TypeInv'
<1> USE TypeInvParts
<1> DEFINE j == job[n][w]
           f == j.name
<1>1. j \in Job /\ JobKnown(j, Hashes, NodeHashes) /\ j.pc = "store" /\ j.kind # "addBlock"
  BY DEF UploadStore, At, JobsOK, JobKnown
<1>2. OthersOK'
  <2>1. files[n] \cup {f} \subseteq Files
    BY <1>1 DEF OthersOK, JobKnown
  <2> QED
    BY <2>1 DEF UploadStore, OthersOK
<1>3. CASE chain[n] = <<>>
  <2> DEFINE k == [j EXCEPT !.pc = "raise"]
  <2>1. k \in Job /\ JobKnown(k, Hashes, NodeHashes) /\ k.pc = "raise"
    <3>1. k.pc = "raise"
      BY <1>1 DEF Job
    <3> QED
      BY <1>1, <3>1, GotoIsJob DEF Steps
  <2>2. Becomes(n, w, k)
        /\ UNCHANGED <<minted, chain, chainFile, net>>
    BY <1>3 DEF UploadStore, Goto
  <2> HIDE DEF k
  <2> QED
    BY <1>2, <2>1, <2>2, OnlyMoves
<1>4. CASE chain[n] # <<>>
  <2>2. PICK P \in Picks(n) : Becomes(n, w,
          [j EXCEPT !.pc = "check", !.blk = Len(minted) + 1, !.tell = P])
    BY <1>4 DEF UploadStore
  <2> DEFINE k == [j EXCEPT !.pc = "check", !.blk = Len(minted) + 1, !.tell = P]
  <2>6. Grows /\ Len(minted') = Len(minted) + 1
    BY <1>4, UploadSigns, SigningGrows
  <2>7. Len(minted) \in Nat /\ Len(minted) + 1 \in Hashes'
    BY <2>6 DEF ChainsOK, Hashes
  <2>8. P \in Seq(Nodes)
    BY PickIsSeq
  <2>9. /\ k \in Job /\ k.pc = "check" /\ k.blk = Len(minted) + 1
        /\ k.todo = j.todo /\ k.out = j.out /\ k.kind = j.kind
    <3>1. Len(minted) + 1 \in Nat
      BY <2>7
    <3> QED
      BY <1>1, <3>1, <2>8 DEF Job, Steps
  <2>10. JobKnown(k, Hashes', NodeHashes')
    <3>1. JobKnown(j, Hashes', NodeHashes')
      BY <1>1, <2>6, JobKnownStays
    <3>2. k.todo \in Seq(Hashes') /\ k.out \in Seq(Hashes') /\ k.blk \in Hashes'
      BY <2>7, <2>9, <3>1 DEF JobKnown
    <3> QED
      BY <2>9, <3>2 DEF JobKnown
  <2> HIDE DEF k
  <2>11. Becomes(n, w, k) /\ UNCHANGED <<chain, chainFile, net>>
    BY <2>2 DEF UploadStore, k
  <2>12. JobsOK'
    BY <2>6, <2>9, <2>10, <2>11, OneMoves
  <2>13. ChainFilesOK'
    BY <2>6, <2>9, <2>11, ChainFilesStay
  <2>14. NetOK' /\ ChainsOK'
    BY <2>6, <2>11, NetStays, ChainsStay
  <2> QED
    BY <1>2, <2>12, <2>13, <2>14
<1> QED
  BY <1>3, <1>4

\* A job changes, and so may the chains, the node and file lists and net.
LEMMA MovesAlong ==
  ASSUME TypeInv, NEW n \in Nodes, NEW w \in Workers,
         NEW j \in Job, JobKnown(j, Hashes, NodeHashes), j.pc # "write", Becomes(n, w, j),
         UNCHANGED <<minted, chainFile>>, ChainsOK', NetOK', OthersOK'
  PROVE  TypeInv'
<1>1. JobsOK /\ ChainFilesOK /\ ChainsOK
  BY TypeInvParts
<1>2. Grows
  BY <1>1, UnchangedGrows
<1>3. JobKnown(j, Hashes', NodeHashes')
  BY <1>1, <1>2, JobKnownStays
<1>4. JobsOK' /\ ChainFilesOK'
  BY <1>1, <1>2, <1>3, OneMoves, ChainFilesStay
<1> QED
  BY <1>4, TypeInvParts

LEMMA ReceiveKeepsTypes ==
  ASSUME TypeInv, NEW n \in Nodes, NEW w \in Workers, Receive(n, w)
  PROVE  TypeInv'
<1> USE TypeInvParts
<1>1. PICK m \in net : RefuseBlock(n, w, m) \/ AddBlock(n, w, m)
                       \/ RefuseOverwrite(n, w, m) \/ OverwriteBlockchain(n, w, m)
  BY DEF Receive
<1>2. /\ UNCHANGED <<minted, mode, memory, disk, crashes>>
      /\ net' \subseteq net
  BY <1>1 DEF RefuseBlock, AddBlock, RefuseOverwrite, OverwriteBlockchain, Takes
<1>3. Grows
  BY <1>2, UnchangedGrows
<1>4. NetOK' /\ OthersOK'
  BY <1>2, <1>3, NetStays DEF OthersOK, memory, disk
<1>5. m.blks \in Seq(Hashes) /\ m.blks # <<>>
  BY DEF NetOK
<1>6. m.blks[1] \in Hashes /\ m.blks[1] \in Nat /\ m.blks \in Seq(Nat)
  BY <1>5 DEF Hashes, ChainsOK
<1>7. /\ Idle \in Job /\ JobKnown(Idle, Hashes, NodeHashes) /\ Idle.pc = "idle"
      /\ Idle.todo = <<>> /\ Idle.out = <<>>
  BY IdleIsJob DEF Idle
<1>8. CASE UNCHANGED job
  BY <1>2, <1>3, <1>4, <1>8, NobodyMoves
<1>9. ASSUME AddBlock(n, w, m)
      PROVE  TypeInv'
  <2> DEFINE k == [Idle EXCEPT !.pc = "check", !.kind = "addBlock",
                               !.blk = m.blks[1]]
  <2>1. /\ k \in Job /\ k.pc = "check" /\ k.todo = <<>> /\ k.out = <<>>
        /\ k.blk = m.blks[1]
    BY <1>6, <1>7 DEF Job, Steps, Kinds
  <2>2. JobKnown(k, Hashes, NodeHashes)
    BY <1>6, <1>7, <2>1 DEF JobKnown, Holds
  <2>3. Becomes(n, w, k)
    BY <1>9 DEF AddBlock
  <2> HIDE DEF k
  <2> QED
    BY <1>2, <1>4, <2>1, <2>2, <2>3, OnlyMoves DEF memory, disk
<1>10. ASSUME OverwriteBlockchain(n, w, m)
       PROVE  TypeInv'
  <2> DEFINE k == [Idle EXCEPT !.pc = "clear", !.todo = m.blks,
                               !.kind = "overwriteBlockchain"]
  <2>1. /\ k \in Job /\ k.pc = "clear" /\ k.todo = m.blks /\ k.out = <<>>
        /\ k.kind = "overwriteBlockchain"
    BY <1>6, <1>7 DEF Job, Steps, Kinds
  <2>2. JobKnown(k, Hashes, NodeHashes)
    BY <1>5, <1>7, <2>1 DEF JobKnown, Holds
  <2>3. Becomes(n, w, k)
    BY <1>10 DEF OverwriteBlockchain
  <2> HIDE DEF k
  <2> QED
    BY <1>2, <1>4, <2>1, <2>2, <2>3, OnlyMoves DEF memory, disk
<1> QED
  BY <1>1, <1>8, <1>9, <1>10 DEF RefuseBlock, RefuseOverwrite

\* The steps that change the chain of the node.
LEMMA AddingKeepsTypes ==
  ASSUME TypeInv, NEW n \in Nodes, NEW w \in Workers
  PROVE  /\ Clear(n, w) => TypeInv'
         /\ AddGenesis(n, w) => TypeInv'
         /\ AddQuietly(n, w) => TypeInv'
         /\ AddNode(n, w) => TypeInv'
         /\ RemoveNode(n, w) => TypeInv'
         /\ AddFile(n, w) => TypeInv'
         /\ RemoveFile(n, w) => TypeInv'
<1> DEFINE j == job[n][w]
           b == Adding(n, w)
<1> USE TypeInvParts
<1>1. j \in Job /\ JobKnown(j, Hashes, NodeHashes)
  BY DEF JobsOK
<1>2. ASSUME NEW pc \in {"raise", "invite"}, Goto(n, w, pc), j.pc = "key",
             pc = "invite" => b.data \in Nodes,
             UNCHANGED <<minted, chainFile, net>>, ChainsOK', OthersOK'
      PROVE  TypeInv'
  <2> DEFINE k == [j EXCEPT !.pc = pc]
  <2>1. k \in Job /\ JobKnown(k, Hashes, NodeHashes) /\ k.pc = pc
    <3>1. /\ k \in Job /\ k.pc = pc /\ k.todo = j.todo /\ k.out = j.out
          /\ k.blk = j.blk
      BY <1>1 DEF Job, Steps
    <3>2. j.blk \in Hashes
      BY <1>1, <1>2 DEF JobKnown, Holds
    <3>3. pc = "invite" => j.blk \in NodeHashes
      BY <1>2, <3>2 DEF NodeHashes, Adding
    <3> QED
      BY <1>1, <3>1, <3>2, <3>3 DEF JobKnown
  <2>2. NetOK'
    BY <1>2, UnchangedGrows, NetStays
  <2>3. Becomes(n, w, k)
    BY <1>2 DEF Goto
  <2> HIDE DEF k
  <2> QED
    BY <1>2, <2>1, <2>2, <2>3, MovesAlong
<1>3. ASSUME Becomes(n, w, AfterAdd(j)), j.pc \in {"key", "check"},
             UNCHANGED <<minted, chainFile, net>>, ChainsOK', OthersOK'
      PROVE  TypeInv'
  <2>1. AfterAdd(j) \in Job /\ JobKnown(AfterAdd(j), Hashes, NodeHashes)
    BY <1>1, <1>3, AfterAddIsJob DEF Holds, TypeInv
  <2>2. AfterAdd(j).pc # "write"
    BY <1>1 DEF AfterAdd, LoadNext, Job
  <2>3. NetOK'
    BY <1>3, UnchangedGrows, NetStays
  <2> QED
    BY <1>3, <2>1, <2>2, <2>3, MovesAlong
<1>4. ASSUME Append_(n, w)
      PROVE  /\ j.pc = "key" /\ j.blk \in Hashes /\ b \in BlockData
             /\ UNCHANGED <<minted, mode, chainFile, memberFile, fileFile, net,
                            crashes>>
             /\ ChainsOK'
             /\ keys' \in [Nodes -> SUBSET Nodes]
  <2>1. j.pc = "key" /\ j.blk \in Hashes
    BY <1>1, <1>4 DEF Append_, At, JobKnown, Holds
  <2>2. b \in BlockData
    BY <2>1 DEF Adding, ChainsOK, Hashes
  <2>3. UNCHANGED <<minted, mode, chainFile, memberFile, fileFile, net, crashes>>
    BY <1>4 DEF Append_
  <2>4. ChainsOK'
    <3>1. Append(chain[n], j.blk) \in Seq(Hashes)
      BY <2>1 DEF ChainsOK
    <3>2. chain' = [chain EXCEPT ![n] = Append(chain[n], j.blk)]
      BY <1>4 DEF Append_
    <3>3. chain' \in [Nodes -> Seq(Hashes)]
      BY <3>1, <3>2 DEF ChainsOK
    <3> QED
      BY <2>3, <3>3 DEF ChainsOK, Hashes
  <2>5. keys' \in [Nodes -> SUBSET Nodes]
    BY <1>4, <2>2 DEF Append_, OthersOK, BlockData, NodeBlock, FileBlock
  <2> QED
    BY <2>1, <2>2, <2>3, <2>4, <2>5
<1>5. ASSUME Clear(n, w)
      PROVE  TypeInv'
  <2> DEFINE c == chain[n]
             drop == minted[TopBlock(c)].number + 1
  <2>1. /\ UNCHANGED <<minted, mode, members, files, disk, net, crashes>>
        /\ j.pc = "clear" /\ j.kind # "addBlock" /\ j.todo # <<>>
        /\ j.todo \in Seq(Hashes) /\ j.out \in Seq(Hashes)
    BY <1>1, <1>5 DEF Clear, At, JobKnown
  <2>2. OthersOK'
    BY <2>1 DEF OthersOK, disk
  <2>3. NetOK'
    BY <2>1, UnchangedGrows, NetStays
  <2>4. CASE c = <<>> \/ drop > Len(c)
    <3> DEFINE k == [j EXCEPT !.pc = "raise"]
    <3>1. k \in Job /\ JobKnown(k, Hashes, NodeHashes) /\ k.pc = "raise"
      <4>1. k.pc = "raise"
        BY <1>1 DEF Job
      <4> QED
        BY <1>1, <2>1, <4>1, GotoIsJob DEF Steps
    <3>2. Becomes(n, w, k) /\ chain' = [chain EXCEPT ![n] = <<>>]
      BY <1>5, <2>4 DEF Clear, Goto
    <3> HIDE DEF k
    <3>3. ChainsOK'
      <4>1. <<>> \in Seq(Hashes)
        OBVIOUS
      <4> QED
        BY <2>1, <3>2, <4>1 DEF ChainsOK, Hashes
    <3> QED
      BY <2>1, <2>2, <2>3, <3>1, <3>2, <3>3, MovesAlong DEF disk
  <2>5. CASE ~(c = <<>> \/ drop > Len(c))
    <3>1. LoadNext(j) \in Job /\ JobKnown(LoadNext(j), Hashes, NodeHashes)
      BY <1>1, <2>1, LoadNextIsJob DEF TypeInv
    <3>2. LoadNext(j).pc = "check"
      BY <1>1 DEF LoadNext, Job
    <3>3. drop \in Nat /\ c \in Seq(Hashes) /\ Len(c) \in Nat
      <4>1. TopBlock(c) \in Hashes
        BY <2>5, TopIsHash
      <4>2. minted[TopBlock(c)] \in BlockData
        BY <4>1 DEF ChainsOK, Hashes
      <4> QED
        BY <4>2 DEF BlockData, NodeBlock, FileBlock, ChainsOK
    <3>4. SubSeq(c, 1, Len(c) - drop) \in Seq(Hashes)
      BY <2>5, <3>3, SubSeqProperties
    <3>5. /\ Becomes(n, w, LoadNext(j))
          /\ chain' = [chain EXCEPT ![n] = SubSeq(c, 1, Len(c) - drop)]
      BY <1>5, <2>5 DEF Clear
    <3>6. ChainsOK'
      BY <2>1, <3>4, <3>5 DEF ChainsOK, Hashes
    <3> QED
      BY <2>1, <2>2, <2>3, <3>1, <3>2, <3>5, <3>6, MovesAlong DEF disk
  <2> QED
    BY <2>4, <2>5
<1>6. ASSUME AddGenesis(n, w)
      PROVE  TypeInv'
  <2>1. /\ UNCHANGED <<minted, mode, files, disk, net, crashes>>
        /\ j.pc = "check" /\ Becomes(n, w, AfterAdd(j))
    BY <1>6 DEF AddGenesis, At
  <2>2. j.blk \in Hashes /\ b \in BlockData
    BY <1>1, <2>1 DEF JobKnown, Holds, Adding, ChainsOK, Hashes
  <2>3. CASE b.action = "add_node"
    <3>1. /\ chain' = [chain EXCEPT ![n] = <<j.blk>>]
          /\ members' = [members EXCEPT ![n] = @ \cup {b.data}]
      BY <1>6, <2>3 DEF AddGenesis
    <3>2. <<j.blk>> \in Seq(Hashes)
      BY <2>2
    <3>3. ChainsOK'
      BY <2>1, <3>1, <3>2 DEF ChainsOK, Hashes
    <3>4. b.data \in Nodes
      BY <2>2, <2>3 DEF BlockData, NodeBlock, FileBlock, FileMethods
    <3>5. OthersOK'
      BY <2>1, <3>1, <3>4 DEF OthersOK, disk
    <3> QED
      BY <1>3, <2>1, <3>3, <3>5 DEF disk
  <2>4. CASE b.action # "add_node"
    <3>1. UNCHANGED <<chain, members>>
      BY <1>6, <2>4 DEF AddGenesis
    <3>2. ChainsOK' /\ OthersOK'
      BY <2>1, <3>1 DEF OthersOK, disk, ChainsOK, Hashes
    <3> QED
      BY <1>3, <2>1, <3>2 DEF disk
  <2> QED
    BY <2>3, <2>4
<1>7. AddQuietly(n, w) => TypeInv'
  BY <1>3, <1>4 DEF AddQuietly, OthersOK
<1>8. ASSUME AddNode(n, w)
      PROVE  TypeInv'
  <2>1. Append_(n, w) /\ UNCHANGED files
        /\ b.action = "add_node"
    BY <1>8 DEF AddNode
  <2>2. b.data \in Nodes
    BY <1>4, <2>1 DEF BlockData, NodeBlock, FileBlock, FileMethods
  <2>3. \/ members' = [members EXCEPT ![n] = @ \cup {b.data}]
        \/ members' = members
    BY <1>8 DEF AddNode
  <2>4. OthersOK'
    BY <1>4, <2>1, <2>2, <2>3 DEF OthersOK
  <2>5. Goto(n, w, "invite") \/ Becomes(n, w, AfterAdd(j))
    BY <1>8 DEF AddNode
  <2> QED
    BY <1>2, <1>3, <1>4, <2>1, <2>2, <2>4, <2>5
<1>9. ASSUME RemoveNode(n, w)
      PROVE  TypeInv'
  <2>1. Append_(n, w) /\ UNCHANGED files /\ Becomes(n, w, AfterAdd(j))
        /\ members' = [members EXCEPT ![n] = @ \ {b.data}]
    BY <1>9 DEF RemoveNode
  <2>2. OthersOK'
    BY <1>4, <2>1 DEF OthersOK
  <2> QED
    BY <1>3, <1>4, <2>1, <2>2
<1>10. ASSUME AddFile(n, w)
       PROVE  TypeInv'
  <2>1. Append_(n, w) /\ UNCHANGED members /\ Becomes(n, w, AfterAdd(j))
        /\ files' = [files EXCEPT ![n] = @ \cup {b.data}]
        /\ b.action = "add_file"
    BY <1>10 DEF AddFile
  <2>2. b.data \in Files
    BY <1>4, <2>1 DEF BlockData, NodeBlock, FileBlock, NodeMethods
  <2>3. OthersOK'
    BY <1>4, <2>1, <2>2 DEF OthersOK
  <2> QED
    BY <1>3, <1>4, <2>1, <2>3
<1>11. ASSUME RemoveFile(n, w)
       PROVE  TypeInv'
  <2>1. Append_(n, w) /\ UNCHANGED <<members, files>>
    BY <1>11 DEF RemoveFile
  <2>2. OthersOK'
    BY <1>4, <2>1 DEF OthersOK
  <2>3. Goto(n, w, "raise") \/ Becomes(n, w, AfterAdd(j))
    BY <1>11 DEF RemoveFile
  <2> QED
    BY <1>2, <1>3, <1>4, <2>1, <2>2, <2>3
<1> QED
  BY <1>5, <1>6, <1>7, <1>8, <1>9, <1>10, <1>11

\* The steps that post a request.
LEMMA SendingKeepsTypes ==
  ASSUME TypeInv, NEW n \in Nodes, NEW w \in Workers
  PROVE  /\ Invite(n, w) => TypeInv'
         /\ Tell(n, w) => TypeInv'
<1> DEFINE j == job[n][w]
<1> USE TypeInvParts
<1>1. j \in Job /\ JobKnown(j, Hashes, NodeHashes)
  BY DEF JobsOK
<1>2. Idle \in Job /\ JobKnown(Idle, Hashes, NodeHashes) /\ Idle.pc = "idle"
  BY IdleIsJob DEF Idle
<1>3. ASSUME NEW kind \in {"addBlock", "overwriteBlockchain"}, NEW d \in Nodes,
             NEW s \in Seq(Hashes), s # <<>>, UNCHANGED minted,
             \/ net' = net
             \/ net' = net \cup {[kind |-> kind, to |-> d, blks |-> s]}
      PROVE  NetOK'
  <2>1. s \in Seq(Nat)
    BY DEF Hashes, ChainsOK
  <2> DEFINE m == [kind |-> kind, to |-> d, blks |-> s]
  <2>2. m \in Request /\ m.blks = s
    BY <2>1 DEF Request
  <2>3. net' = net \/ net' = net \cup {m}
    BY <1>3
  <2> HIDE DEF m
  <2> QED
    BY <1>3, <2>2, <2>3 DEF NetOK, Hashes
<1>4. ASSUME UNCHANGED <<minted, mode, memory, disk, crashes>>
      PROVE  ChainsOK' /\ OthersOK'
  BY <1>4 DEF ChainsOK, Hashes, OthersOK, memory, disk
<1>5. ASSUME Invite(n, w)
      PROVE  TypeInv'
  <2>1. /\ UNCHANGED <<minted, mode, memory, disk, crashes>>
        /\ j.pc = "invite"
    BY <1>5 DEF Invite, At
  <2>2. CASE Serialisable(minted, chain[n])
    <3> DEFINE s == GetBlocksData(minted, chain[n])
               d == Adding(n, w).data
               k == [j EXCEPT !.pc = "invited"]
    <3>1. s \in Seq(Hashes) /\ s # <<>>
      BY <2>2, GetBlocksDataKnown
    <3>2. /\ net' = IF mode[d] # "up" THEN net
                    ELSE net \cup {[kind |-> "overwriteBlockchain", to |-> d,
                                    blks |-> s]}
          /\ Becomes(n, w, k)
      BY <1>5, <2>2 DEF Invite, Goto
    <3> HIDE DEF s
    <3>3. NetOK'
      <4>1. d \in Nodes
        BY <1>1, <2>1 DEF JobKnown, NodeHashes, Adding
      <4> QED
        BY <1>3, <2>1, <3>1, <3>2, <4>1
    <3>4. k \in Job /\ JobKnown(k, Hashes, NodeHashes) /\ k.pc = "invited"
      <4>1. k.pc = "invited"
        BY <1>1 DEF Job
      <4> QED
        BY <1>1, <2>1, <4>1, GotoIsJob DEF Steps, Holds
    <3> HIDE DEF k
    <3> QED
      BY <1>4, <2>1, <3>2, <3>3, <3>4, MovesAlong DEF disk
  <2>3. CASE ~Serialisable(minted, chain[n])
    <3> DEFINE k == [j EXCEPT !.pc = "raise"]
    <3>1. k \in Job /\ JobKnown(k, Hashes, NodeHashes) /\ k.pc = "raise"
      <4>1. k.pc = "raise"
        BY <1>1 DEF Job
      <4> QED
        BY <1>1, <2>1, <4>1, GotoIsJob DEF Steps, Holds
    <3>2. Becomes(n, w, k) /\ net' = net
      BY <1>5, <2>3 DEF Invite, Goto
    <3>3. NetOK'
      BY <2>1, <3>2 DEF NetOK, Hashes
    <3> HIDE DEF k
    <3> QED
      BY <1>4, <2>1, <3>1, <3>2, <3>3, MovesAlong DEF disk
  <2> QED
    BY <2>2, <2>3
<1>6. ASSUME Tell(n, w)
      PROVE  TypeInv'
  <2> DEFINE p == Head(j.tell)
             k == [j EXCEPT !.pc = "wait"]
  <2>1. /\ UNCHANGED <<minted, mode, memory, disk, crashes>>
        /\ j.pc = "tell" /\ j.tell # <<>> /\ j.blk \in Hashes
    BY <1>1, <1>6 DEF Tell, At, JobKnown, Holds
  <2>2. p \in Nodes
    BY <1>1, <2>1, HeadAndTail DEF Job
  <2>3. /\ k \in Job /\ k.pc = "wait" /\ k.todo = j.todo /\ k.out = j.out
        /\ k.blk = j.blk /\ k.kind = j.kind /\ k.tell = j.tell
    BY <1>1 DEF Job, Steps
  <2>4. JobKnown(k, Hashes, NodeHashes)
    BY <1>1, <2>1, <2>3 DEF JobKnown
  <2>5. \/ /\ net' = net \cup {[kind |-> "addBlock", to |-> p, blks |-> <<j.blk>>]}
           /\ Becomes(n, w, k)
        \/ net' = net /\ Becomes(n, w, Idle)
    BY <1>6 DEF Tell, Goto
  <2> HIDE DEF k
  <2>6. <<j.blk>> \in Seq(Hashes) /\ <<j.blk>> # <<>>
    BY <2>1
  <2>7. NetOK'
    BY <1>3, <2>1, <2>2, <2>5, <2>6
  <2>8. UNCHANGED <<minted, chainFile>> /\ ChainsOK' /\ OthersOK'
    BY <1>4, <2>1 DEF disk
  <2>9. CASE Becomes(n, w, k)
    BY <2>3, <2>4, <2>7, <2>8, <2>9, MovesAlong
  <2>10. CASE Becomes(n, w, Idle)
    BY <1>2, <2>7, <2>8, <2>10, MovesAlong
  <2> QED
    BY <2>5, <2>9, <2>10
<1> QED
  BY <1>5, <1>6

\* The steps that change blockchain.bin: an empty or a written file is a file.
LEMMA SavingKeepsTypes ==
  ASSUME TypeInv, NEW n \in Nodes, NEW w \in Workers
  PROVE  /\ Open(n, w) => TypeInv'
         /\ Write(n, w) => TypeInv'
<1> DEFINE j == job[n][w]
<1> USE TypeInvParts
<1>1. j \in Job /\ JobKnown(j, Hashes, NodeHashes)
  BY DEF JobsOK
<1>2. Idle \in Job /\ JobKnown(Idle, Hashes, NodeHashes)
  BY IdleIsJob
<1>3. ASSUME NEW k \in Job, JobKnown(k, Hashes, NodeHashes), Becomes(n, w, k),
             NEW s \in Seq(Hashes), chainFile' = [chainFile EXCEPT ![n] = s],
             UNCHANGED <<minted, mode, memory, keys, memberFile, fileFile, net,
                         crashes>>,
             k.pc = "write" \/ At(n, w, "write")
      PROVE  TypeInv'
  <2>1. Grows
    BY <1>3, UnchangedGrows
  <2>2. ChainsOK' /\ NetOK' /\ OthersOK'
    BY <1>3, <2>1, ChainsStay, NetStays DEF OthersOK, memory
  <2>3. JobKnown(k, Hashes', NodeHashes')
    BY <1>3, <2>1, JobKnownStays
  <2>4. /\ JobsOK'
        /\ \A m \in Nodes, v \in Workers :
             job'[m][v] = job[m][v] \/ (m = n /\ v = w /\ job'[m][v] = k)
    BY <1>3, <2>1, <2>3, OneMoves
  <2>5. s # NoFile
    <3>1. s \in Seq(Nat)
      BY <1>3 DEF Hashes, ChainsOK
    <3> QED
      BY <3>1, LedgerAssumption
  <2>6. ChainFilesOK'
    <3>1. chainFile' \in [Nodes -> {NoFile} \cup Seq(Hashes')]
      BY <1>3 DEF ChainFilesOK, Hashes
    <3>2. ASSUME NEW m \in Nodes, NEW v \in Workers, At(m, v, "write")'
          PROVE  chainFile'[m] # NoFile
      <4>1. CASE m = n
        BY <1>3, <2>5, <4>1 DEF ChainFilesOK
      <4>2. CASE m # n
        <5>1. chainFile'[m] = chainFile[m] /\ At(m, v, "write")
          BY <1>3, <2>4, <3>2, <4>2 DEF ChainFilesOK, At
        <5> QED
          BY <5>1 DEF ChainFilesOK
      <4> QED
        BY <4>1, <4>2
    <3> QED
      BY <3>1, <3>2 DEF ChainFilesOK
  <2> QED
    BY <2>2, <2>4, <2>6
<1>4. ASSUME Open(n, w)
      PROVE  TypeInv'
  <2> DEFINE k == [j EXCEPT !.pc = "write"]
  <2>1. j.pc = "open"
    BY <1>4 DEF Open, At
  <2>2. k \in Job /\ JobKnown(k, Hashes, NodeHashes) /\ k.pc = "write"
    <3>1. k.pc = "write"
      BY <1>1 DEF Job
    <3> QED
      BY <1>1, <2>1, <3>1, GotoIsJob DEF Steps, Holds
  <2>3. /\ Becomes(n, w, k)
        /\ chainFile' = [chainFile EXCEPT ![n] = <<>>]
        /\ UNCHANGED <<minted, mode, memory, keys, memberFile, fileFile, net,
                       crashes>>
    BY <1>4 DEF Open, Goto
  <2> HIDE DEF k
  <2>4. <<>> \in Seq(Hashes)
    OBVIOUS
  <2> QED
    BY <1>3, <2>2, <2>3, <2>4
<1>5. ASSUME Write(n, w)
      PROVE  TypeInv'
  <2> DEFINE k == [j EXCEPT !.out = <<>>]
             s == Overlay(j.out, chainFile[n])
  <2>1. At(n, w, "write") /\ j.pc = "write" /\ j.out \in Seq(Hashes)
    BY <1>1, <1>5 DEF Write, At, JobKnown
  <2>2. chainFile[n] \in Seq(Hashes)
    BY <2>1 DEF ChainFilesOK
  <2>3. s \in Seq(Hashes)
    BY <2>1, <2>2, OverlayKnown
  <2>4. /\ chainFile' = [chainFile EXCEPT ![n] = s]
        /\ UNCHANGED <<minted, mode, memory, keys, memberFile, fileFile, net,
                       crashes>>
    BY <1>5 DEF Write
  <2>5. /\ k \in Job /\ k.pc = "write" /\ k.out = <<>> /\ k.todo = j.todo
        /\ k.blk = j.blk /\ k.kind = j.kind /\ k.name = j.name
        /\ k.tell = j.tell
    <3>1. <<>> \in Seq(Nat)
      OBVIOUS
    <3>2. ASSUME NEW e \in Seq(Nat)
          PROVE  LET l == [j EXCEPT !.out = e] IN
                 /\ l \in Job /\ l.pc = j.pc /\ l.out = e /\ l.todo = j.todo
                 /\ l.blk = j.blk /\ l.kind = j.kind /\ l.name = j.name
                 /\ l.tell = j.tell
      BY <1>1 DEF Job
    <3> QED
      BY <2>1, <3>1, <3>2
  <2>6. JobKnown(k, Hashes, NodeHashes)
    <3>1. k.out \in Seq(Hashes)
      BY <2>5
    <3> QED
      BY <1>1, <2>1, <2>5, <3>1 DEF JobKnown, Holds
  <2> HIDE DEF k, s
  <2>7. Telling(k) \in Job /\ JobKnown(Telling(k), Hashes, NodeHashes)
    BY <2>5, <2>6, TellingIsJob DEF Holds
  <2>8. CASE Becomes(n, w, Idle)
    BY <1>2, <1>3, <2>1, <2>3, <2>4, <2>8
  <2>9. CASE Becomes(n, w, Telling(k))
    BY <1>3, <2>1, <2>3, <2>4, <2>7, <2>9
  <2>10. ASSUME NEW P \in Picks(n), Becomes(n, w, Telling([k EXCEPT !.tell = P]))
         PROVE  TypeInv'
    <3> DEFINE l == [k EXCEPT !.tell = P]
    <3>1. P \in Seq(Nodes)
      BY PickIsSeq
    <3>2. /\ l \in Job /\ l.pc = "write" /\ l.out = k.out /\ l.todo = k.todo
          /\ l.blk = k.blk /\ l.kind = k.kind /\ l.name = k.name
      BY <2>5, <3>1 DEF Job
    <3>3. JobKnown(l, Hashes, NodeHashes)
      BY <2>5, <2>6, <3>2 DEF JobKnown, Holds
    <3>4. Becomes(n, w, Telling(l))
      BY <2>10
    <3> HIDE DEF l
    <3>5. Telling(l) \in Job /\ JobKnown(Telling(l), Hashes, NodeHashes)
      BY <3>2, <3>3, TellingIsJob DEF Holds
    <3> QED
      BY <1>3, <2>1, <2>3, <2>4, <3>4, <3>5
  <2> QED
    BY <1>5, <2>8, <2>9, <2>10 DEF Write, k
<1> QED
  BY <1>4, <1>5

-----------------------------------------------------------------------------

LEMMA InitTypes == Init => TypeInv
<1> SUFFICES ASSUME Init
             PROVE  TypeInv
  OBVIOUS
<1>1. minted = <<>> /\ Hashes = {}
  BY DEF Init, Hashes
<1>2. JobsOK
  BY IdleIsJob DEF Init, JobsOK
<1>3. ChainFilesOK
  BY DEF Init, ChainFilesOK, At, Idle
<1>4. NetOK /\ ChainsOK /\ OthersOK
  BY <1>1, LedgerAssumption DEF Init, NetOK, ChainsOK, OthersOK
<1> QED
  BY <1>2, <1>3, <1>4, TypeInvParts

LEMMA NextKeepsTypes == TypeInv /\ [Next]_vars => TypeInv'
<1> SUFFICES ASSUME TypeInv, [Next]_vars
             PROVE  TypeInv'
  OBVIOUS
<1>1. ASSUME NEW n \in Nodes, NEW w \in Workers, Continue(n, w)
      PROVE  TypeInv'
  BY <1>1, MovingKeepsTypes, UploadStoreKeepsTypes, AddingKeepsTypes,
     SendingKeepsTypes, SavingKeepsTypes DEF Continue
<1>2. ASSUME NEW n \in Nodes, NEW w \in Workers, Receive(n, w)
      PROVE  TypeInv'
  BY <1>2, ReceiveKeepsTypes
<1>3. ASSUME NEW n \in Nodes, NEW w \in Workers, NEW f \in Files, Upload(n, w, f)
      PROVE  TypeInv'
  BY <1>3, MovingKeepsTypes
<1>4. ASSUME NEW c \in Nodes, NEW to \in Nodes, OperatorPosts(c, to)
      PROVE  TypeInv'
  BY <1>4, OperatorKeepsTypes
<1>5. ASSUME NEW n \in Nodes, BootFresh(n) \/ BootSaved(n) \/ Crash(n)
      PROVE  TypeInv'
  BY <1>5, BootKeepsTypes, CrashKeepsTypes
<1>6. CASE UNCHANGED vars
  <2>1. Grows /\ NetOK'
    BY <1>6, TypeInvParts, UnchangedGrows, NetStays DEF vars
  <2> QED
    BY <1>6, <2>1, NobodyMoves DEF vars
<1> QED
  BY <1>1, <1>2, <1>3, <1>4, <1>5, <1>6 DEF Next

\* Every hash a node holds, has saved, is sent or is about to use is the hash of
\* a signed block, with any number of nodes and of workers.
THEOREM HashesAreKnown == Spec => []TypeInv
  BY InitTypes, NextKeepsTypes, PTL DEF Spec

\* The variables keep their types.
THEOREM TypeCorrect == Spec => []TypeOK
<1>1. TypeInv => TypeOK
  BY DEF TypeInv
<1> QED
  BY <1>1, HashesAreKnown, PTL
=============================================================================
