-------------------------- MODULE LedgerRefinement --------------------------
(***************************************************************************)
(* When every node has one worker the chains of Ledger are those of        *)
(* ChainStore: what a handler has read of the chain still holds when it    *)
(* acts on it.  ChainInv is the inductive invariant that says so; the      *)
(* theorems about ChainStore then hold of Ledger.                          *)
(***************************************************************************)
EXTENDS LedgerProofs

\* A stream that begins well still does when blocks have been signed.
LEMMA BeginsWellStays ==
  ASSUME ChainsOK, Grows, NEW s \in Seq(Hashes), BeginsWell(minted, s)
  PROVE  BeginsWell(minted', s)
<1>1. CASE s # <<>>
  <2>1. s[1] \in Hashes
    BY <1>1
  <2> QED
    BY <2>1 DEF BeginsWell, IsGenesis, Grows
<1> QED
  BY <1>1 DEF BeginsWell

LEMMA AcceptableStays ==
  ASSUME ChainsOK, Grows, NEW c \in Seq(Hashes), NEW h \in Hashes,
         Acceptable(minted, c, h)
  PROVE  Acceptable(minted', c, h)
<1>1. c # <<>>
  BY DEF Acceptable
<1>2. c[Len(c)] \in Hashes
  BY <1>1
<1> QED
  BY <1>2 DEF Acceptable, Follows, TopBlock, Grows

LEMMA ReadsStillHold ==
  ASSUME ChainsOK, Grows, NEW j \in Job, JobKnown(j, Hashes, NodeHashes),
         NEW c \in Seq(Hashes), ReadsHold(minted, j, c)
  PROVE  ReadsHold(minted', j, c)
<1>1. j.out \in Seq(Hashes) /\ j.todo \in Seq(Hashes)
  BY DEF JobKnown
<1>2. BeginsWell(minted', j.out)
  BY <1>1, BeginsWellStays DEF ReadsHold
<1>3. j.pc = "clear" => BeginsWell(minted', j.todo) /\ Len(c) <= 1
  BY <1>1, BeginsWellStays DEF ReadsHold
<1>4. j.pc \in {"check", "key"} => j.blk \in Hashes
  BY DEF JobKnown, Holds
<1>5. (j.pc = "check" /\ Loading(j) /\ c = <<>>) => IsGenesis(minted', j.blk)
  BY <1>4 DEF ReadsHold, IsGenesis, Grows
<1>6. j.pc = "key" => Acceptable(minted', c, j.blk)
  BY <1>4, AcceptableStays DEF ReadsHold
<1> QED
  BY <1>2, <1>3, <1>5, <1>6 DEF ReadsHold

\* A node at which nothing happens stays in order.
LEMMA NodeStays ==
  ASSUME TypeInv, Grows, NEW n \in Nodes, NodeOK(n), mode'[n] = mode[n],
         chain'[n] = chain[n], chainFile'[n] = chainFile[n], job'[n] = job[n]
  PROVE  NodeOK(n)'
<1> USE TypeInvParts
<1>1. mode'[n] = "down" =>
        chain'[n] = <<>> /\ \A w \in Workers : At(n, w, "idle")'
  BY DEF NodeOK, At
<1>2. BeginsWell(minted', chain[n])
  <2>1. chain[n] \in Seq(Hashes)
    BY DEF ChainsOK
  <2> QED
    BY <2>1, BeginsWellStays DEF NodeOK
<1>3. chainFile[n] # NoFile => BeginsWell(minted', chainFile[n])
  <2>1. chainFile[n] # NoFile => chainFile[n] \in Seq(Hashes)
    BY DEF ChainFilesOK
  <2> QED
    BY <2>1, BeginsWellStays DEF NodeOK
<1>4. ASSUME NEW w \in Workers
      PROVE  ReadsHold(minted', job[n][w], chain[n])
  <2>1. /\ chain[n] \in Seq(Hashes)
        /\ job[n][w] \in Job
        /\ JobKnown(job[n][w], Hashes, NodeHashes)
    BY DEF ChainsOK, JobsOK
  <2> QED
    BY <2>1, ReadsStillHold DEF NodeOK
<1> QED
  BY <1>1, <1>2, <1>3, <1>4 DEF NodeOK

LEMMA StreamsStay ==
  ASSUME TypeInv, Grows, StreamsOK,
         \A m \in net' : m \in net \/ m.kind = "addBlock"
  PROVE  StreamsOK'
<1> USE TypeInvParts
<1>1. ASSUME NEW m \in net, m.kind = "overwriteBlockchain"
      PROVE  BeginsWell(minted', m.blks)
  <2>1. m.blks \in Seq(Hashes)
    BY DEF NetOK
  <2> QED
    BY <1>1, <2>1, BeginsWellStays DEF StreamsOK
<1> QED
  BY <1>1 DEF StreamsOK

\* The one worker of a node takes a step: only that node and net matter.
LEMMA WorkerSteps ==
  ASSUME SingleWorker, TypeInv, ChainInv, Grows,
         NEW n \in Nodes, NEW w \in Workers, NEW j, Becomes(n, w, j),
         NEW c, chain' = [chain EXCEPT ![n] = c],
         NEW f, chainFile' = [chainFile EXCEPT ![n] = f],
         NEW md, mode' = [mode EXCEPT ![n] = md], md # "down",
         BeginsWell(minted', c), f # NoFile => BeginsWell(minted', f),
         ReadsHold(minted', j, c), StreamsOK'
  PROVE  ChainInv'
<1> USE TypeInvParts
<1>1. ASSUME NEW m \in Nodes \ {n}
      PROVE  NodeOK(m)'
  <2>1. /\ mode'[m] = mode[m] /\ chain'[m] = chain[m]
        /\ chainFile'[m] = chainFile[m] /\ job'[m] = job[m]
    BY DEF OthersOK, ChainsOK, ChainFilesOK, JobsOK, Becomes
  <2>2. NodeOK(m)
    BY DEF ChainInv
  <2> QED
    BY <2>1, <2>2, NodeStays
<1>2. NodeOK(n)'
  <2>1. mode'[n] = md /\ chain'[n] = c /\ chainFile'[n] = f
    BY DEF OthersOK, ChainsOK, ChainFilesOK
  <2>2. ASSUME NEW v \in Workers
        PROVE  job'[n][v] = j
    <3>1. v = w
      BY DEF SingleWorker
    <3> QED
      BY <3>1 DEF Becomes, JobsOK
  <2> QED
    BY <2>1, <2>2 DEF NodeOK
<1> QED
  BY <1>1, <1>2 DEF ChainInv

\* It only moves on.
LEMMA WorkerMoves ==
  ASSUME SingleWorker, TypeInv, ChainInv, Grows,
         NEW n \in Nodes, NEW w \in Workers, NEW j, Becomes(n, w, j),
         mode[n] # "down", UNCHANGED <<mode, chain, chainFile>>,
         ReadsHold(minted', j, chain[n]),
         \A m \in net' : m \in net \/ m.kind = "addBlock"
  PROVE  ChainInv'
<1> USE TypeInvParts
<1>1. /\ chain' = [chain EXCEPT ![n] = chain[n]]
      /\ chainFile' = [chainFile EXCEPT ![n] = chainFile[n]]
      /\ mode' = [mode EXCEPT ![n] = mode[n]]
  BY DEF OthersOK, ChainsOK, ChainFilesOK
<1>2. BeginsWell(minted', chain[n])
  <2>1. chain[n] \in Seq(Hashes)
    BY DEF ChainsOK
  <2> QED
    BY <2>1, BeginsWellStays DEF ChainInv, NodeOK
<1>3. chainFile[n] # NoFile => BeginsWell(minted', chainFile[n])
  <2>1. chainFile[n] # NoFile => chainFile[n] \in Seq(Hashes)
    BY DEF ChainFilesOK
  <2> QED
    BY <2>1, BeginsWellStays DEF ChainInv, NodeOK
<1>4. StreamsOK'
  BY StreamsStay DEF ChainInv
<1> QED
  BY <1>1, <1>2, <1>3, <1>4, WorkerSteps

-----------------------------------------------------------------------------
(* Every action keeps ChainInv. *)

\* Most steps of a handler rely on nothing they have read.
LEMMA ReadsNothing ==
  ASSUME NEW L, NEW j, NEW k, NEW c, ReadsHold(L, j, c), k.out = j.out,
         k.pc \notin {"clear", "check", "key", "invite", "invited"}
  PROVE  ReadsHold(L, k, c)
  BY DEF ReadsHold

LEMMA IdleReadsNothing ==
  ASSUME NEW L, NEW c
  PROVE  ReadsHold(L, Idle, c)
  BY DEF ReadsHold, Idle, BeginsWell

\* The next block of a stream is read against the chain when it is added.
LEMMA AfterAddReads ==
  ASSUME NEW L, NEW j \in Job, NEW c, BeginsWell(L, j.out),
         c # <<>> \/ ~Loading(j)
  PROVE  ReadsHold(L, AfterAdd(j), c)
<1> DEFINE k == AfterAdd(j)
<1>1. CASE j.todo # <<>>
  <2>1. k.pc = "check" /\ k.out = j.out /\ k.kind = j.kind
    BY <1>1 DEF AfterAdd, LoadNext, Job
  <2> QED
    BY <2>1 DEF ReadsHold, Loading
<1>2. CASE j.todo = <<>>
  <2>1. k.pc \in {"serve", "save"} /\ k.out = j.out
    BY <1>2 DEF AfterAdd, Job
  <2> QED
    BY <2>1 DEF ReadsHold
<1> QED
  BY <1>1, <1>2

LEMMA TellingReads ==
  ASSUME NEW L, NEW j \in Job, NEW c, BeginsWell(L, j.out)
  PROVE  ReadsHold(L, Telling(j), c)
<1>1. CASE j.tell = <<>>
  BY <1>1, IdleReadsNothing DEF Telling
<1>2. CASE j.tell # <<>>
  <2>1. Telling(j).pc = "tell" /\ Telling(j).out = j.out
    BY <1>2 DEF Telling, Job
  <2> QED
    BY <2>1 DEF ReadsHold
<1> QED
  BY <1>1, <1>2

\* What is known of a node whose worker is in the middle of something.
LEMMA Alive ==
  ASSUME TypeInv, ChainInv, NEW n \in Nodes, NEW w \in Workers
  PROVE  /\ job[n][w].pc # "idle" => mode[n] # "down"
         /\ job[n][w] \in Job
         /\ JobKnown(job[n][w], Hashes, NodeHashes)
         /\ ReadsHold(minted, job[n][w], chain[n])
         /\ chain[n] \in Seq(Hashes)
         /\ BeginsWell(minted, chain[n])
  BY TypeInvParts DEF ChainInv, NodeOK, At, JobsOK, ChainsOK

\* The worker moves on, or is done, and nothing else happens to the chain.
LEMMA GoingKeepsChains ==
  ASSUME SingleWorker, TypeInv, ChainInv, NEW n \in Nodes, NEW w \in Workers,
         job[n][w].pc # "idle", UNCHANGED <<minted, mode, chain, chainFile>>,
         \A m \in net' : m \in net \/ m.kind = "addBlock",
         NEW pc \in Steps \ {"clear", "check", "key", "invite", "invited"},
         Goto(n, w, pc) \/ Becomes(n, w, Idle)
  PROVE  ChainInv'
<1> DEFINE j == job[n][w]
           k == [j EXCEPT !.pc = pc]
<1>1. Grows
  BY TypeInvParts, UnchangedGrows
<1>2. CASE Goto(n, w, pc)
  <2>1. k.pc = pc /\ k.out = j.out
    BY Alive DEF Job
  <2>2. Becomes(n, w, k)
    BY <1>2 DEF Goto
  <2> HIDE DEF k
  <2>3. ReadsHold(minted', k, chain[n])
    BY <2>1, Alive, ReadsNothing
  <2> QED
    BY <1>1, <2>2, <2>3, Alive, WorkerMoves
<1>3. CASE Becomes(n, w, Idle)
  BY <1>1, <1>3, Alive, IdleReadsNothing, WorkerMoves
<1> QED
  BY <1>2, <1>3

LEMMA MovingKeepsChains ==
  ASSUME SingleWorker, TypeInv, ChainInv, NEW n \in Nodes, NEW w \in Workers
  PROVE  /\ UploadClash(n, w) => ChainInv'
         /\ CheckPasses(n, w) => ChainInv'
         /\ CheckFails(n, w) => ChainInv'
         /\ KeyFails(n, w) => ChainInv'
         /\ Invited(n, w) => ChainInv'
         /\ Save(n, w) => ChainInv'
         /\ Tell(n, w) => ChainInv'
         /\ Told(n, w) => ChainInv'
<1> DEFINE j == job[n][w]
           c == chain[n]
<1>1. /\ j \in Job /\ JobKnown(j, Hashes, NodeHashes)
      /\ ReadsHold(minted, j, c) /\ BeginsWell(minted, j.out)
      /\ j.pc # "idle" => mode[n] # "down"
  BY Alive DEF ReadsHold
<1>2. UNCHANGED minted => Grows
  BY TypeInvParts, UnchangedGrows
<1>3. /\ UploadClash(n, w) => ChainInv'
      /\ CheckFails(n, w) => ChainInv'
      /\ KeyFails(n, w) => ChainInv'
  BY GoingKeepsChains DEF UploadClash, CheckFails, KeyFails, At, memory, disk,
     Steps
<1>4. ASSUME CheckPasses(n, w)
      PROVE  ChainInv'
  <2> DEFINE k == [j EXCEPT !.pc = "key"]
  <2>1. k.pc = "key" /\ k.out = j.out /\ k.blk = j.blk
    BY <1>1 DEF Job
  <2>2. /\ Becomes(n, w, k) /\ Acceptable(minted, c, j.blk) /\ j.pc = "check"
        /\ UNCHANGED <<minted, mode, chain, chainFile, net>>
    BY <1>4 DEF CheckPasses, Goto, At, memory, disk
  <2> HIDE DEF k
  <2>3. ReadsHold(minted', k, c)
    BY <1>1, <2>1, <2>2 DEF ReadsHold
  <2> QED
    BY <1>1, <1>2, <2>2, <2>3, WorkerMoves
<1>5. ASSUME Invited(n, w)
      PROVE  ChainInv'
  <2>1. /\ j.pc = "invited" /\ Becomes(n, w, AfterAdd(j))
        /\ UNCHANGED <<minted, mode, chain, chainFile, net>>
    BY <1>5 DEF Invited, At, memory
  <2>2. ReadsHold(minted', AfterAdd(j), c)
    BY <1>1, <2>1, AfterAddReads DEF ReadsHold
  <2> QED
    BY <1>1, <1>2, <2>1, <2>2, WorkerMoves
<1>6. ASSUME Save(n, w)
      PROVE  ChainInv'
  <2>1. j.pc = "save" /\ UNCHANGED <<minted, mode, chain, chainFile, net>>
    BY <1>6 DEF Save, At, memory, disk
  <2>2. CASE Serialisable(minted, c)
    <3> DEFINE out == GetBlocksData(minted, c)
               k == [j EXCEPT !.pc = "open", !.out = out]
    <3>1. k.pc = "open" /\ k.out = out
      BY <1>1 DEF Job
    <3>2. Becomes(n, w, k)
      BY <1>6, <2>2 DEF Save
    <3>3. out[1] = c[1] /\ c # <<>>
      BY <2>2, GetBlocksDataKnown, TypeInvParts DEF Serialisable
    <3>4. BeginsWell(minted, out)
      BY <3>3, Alive DEF BeginsWell
    <3> HIDE DEF k, out
    <3>5. ReadsHold(minted', k, c)
      BY <2>1, <3>1, <3>4 DEF ReadsHold
    <3> QED
      BY <1>1, <1>2, <2>1, <3>2, <3>5, WorkerMoves
  <2>3. CASE ~Serialisable(minted, c)
    BY <1>6, <2>1, <2>3, GoingKeepsChains DEF Save, Steps
  <2> QED
    BY <2>2, <2>3
<1>7. Tell(n, w) => ChainInv'
  BY GoingKeepsChains DEF Tell, At, memory, disk, Steps
<1>8. ASSUME Told(n, w)
      PROVE  ChainInv'
  <2> DEFINE k == [j EXCEPT !.tell = Tail(@)]
  <2>1. j.pc = "wait" /\ UNCHANGED <<minted, mode, chain, chainFile, net>>
    BY <1>8 DEF Told, At, memory, disk
  <2>2. k \in Job /\ k.out = j.out
    <3>1. Tail(j.tell) \in Seq(Nodes)
      BY <1>1, <2>1, HeadAndTail DEF JobKnown, Job
    <3> QED
      BY <1>1, <3>1 DEF Job
  <2>3. Becomes(n, w, Idle) \/ Becomes(n, w, Telling(k))
    BY <1>8 DEF Told
  <2> HIDE DEF k
  <2>4. ReadsHold(minted', Idle, c) /\ ReadsHold(minted', Telling(k), c)
    BY <1>1, <2>1, <2>2, IdleReadsNothing, TellingReads
  <2> QED
    BY <1>1, <1>2, <2>1, <2>3, <2>4, WorkerMoves
<1> QED
  BY <1>3, <1>4, <1>5, <1>6, <1>7, <1>8

\* A worker takes up a request, or nothing happens but in the ledger and net.
LEMMA NothingMoves ==
  ASSUME TypeInv, ChainInv, Grows, UNCHANGED <<mode, chain, chainFile, job>>,
         \A m \in net' : m \in net \/ m.kind = "addBlock"
  PROVE  ChainInv'
  BY NodeStays, StreamsStay DEF ChainInv

LEMMA TakingKeepsChains ==
  ASSUME SingleWorker, TypeInv, ChainInv, NEW n \in Nodes, NEW w \in Workers
  PROVE  /\ \A f \in Files : Upload(n, w, f) => ChainInv'
         /\ Receive(n, w) => ChainInv'
<1> DEFINE c == chain[n]
<1> USE TypeInvParts
<1>1. UNCHANGED minted => Grows
  BY UnchangedGrows
<1>2. Idle \in Job /\ Idle.out = <<>>
  BY IdleIsJob DEF Idle
<1>3. ASSUME NEW f \in Files, Upload(n, w, f)
      PROVE  ChainInv'
  <2> DEFINE k == [Idle EXCEPT !.pc = "store", !.kind = "upload", !.name = f]
  <2>1. k.pc = "store" /\ k.out = <<>>
    BY <1>2 DEF Job
  <2>2. ReadsHold(minted', k, c)
    BY <2>1 DEF ReadsHold, BeginsWell
  <2>3. /\ Becomes(n, w, k) /\ mode[n] # "down"
        /\ UNCHANGED <<minted, mode, chain, chainFile, net>>
    BY <1>3 DEF Upload, memory, disk
  <2> HIDE DEF k
  <2> QED
    BY <1>1, <2>2, <2>3, WorkerMoves
<1>4. ASSUME NEW m \in net, AddBlock(n, w, m)
      PROVE  ChainInv'
  <2> DEFINE k == [Idle EXCEPT !.pc = "check", !.kind = "addBlock",
                               !.blk = m.blks[1]]
  <2>1. k.pc = "check" /\ k.out = <<>> /\ k.kind = "addBlock"
    BY <1>2 DEF Job
  <2>2. ReadsHold(minted', k, c)
    BY <2>1 DEF ReadsHold, BeginsWell, Loading
  <2>3. /\ Becomes(n, w, k) /\ mode[n] # "down" /\ net' \subseteq net
        /\ UNCHANGED <<minted, mode, chain, chainFile>>
    BY <1>4 DEF AddBlock, Takes, memory, disk
  <2> HIDE DEF k
  <2> QED
    BY <1>1, <2>2, <2>3, WorkerMoves
<1>5. ASSUME NEW m \in net, OverwriteBlockchain(n, w, m)
      PROVE  ChainInv'
  <2> DEFINE k == [Idle EXCEPT !.pc = "clear", !.todo = m.blks,
                               !.kind = "overwriteBlockchain"]
  <2>1. k.pc = "clear" /\ k.out = <<>> /\ k.todo = m.blks
    BY <1>2 DEF Job
  <2>2. /\ BeginsWell(minted, m.blks) /\ Len(c) <= 1
        /\ UNCHANGED <<minted, mode, chain, chainFile>>
    BY <1>5 DEF OverwriteBlockchain, ChainInv, StreamsOK, memory, disk
  <2>3. ReadsHold(minted', k, c)
    BY <2>1, <2>2 DEF ReadsHold, BeginsWell
  <2>4. Becomes(n, w, k) /\ mode[n] # "down" /\ net' \subseteq net
    BY <1>5 DEF OverwriteBlockchain, Takes
  <2> HIDE DEF k
  <2> QED
    BY <1>1, <2>2, <2>3, <2>4, WorkerMoves
<1>6. ASSUME NEW m \in net, RefuseBlock(n, w, m) \/ RefuseOverwrite(n, w, m)
      PROVE  ChainInv'
  <2>1. /\ UNCHANGED <<minted, mode, chain, chainFile, job>>
        /\ net' \subseteq net
    BY <1>6 DEF RefuseBlock, RefuseOverwrite, Takes, memory, disk
  <2> QED
    BY <1>1, <2>1, NothingMoves
<1> QED
  BY <1>3, <1>4, <1>5, <1>6 DEF Receive

LEMMA UploadStoreKeepsChains ==
  ASSUME SingleWorker, TypeInv, ChainInv, NEW n \in Nodes, NEW w \in Workers,
         UploadStore(n, w), Grows
  PROVE  ChainInv'
<1> DEFINE j == job[n][w]
<1>1. /\ j.pc = "store" /\ j.kind = "upload" /\ j \in Job /\ mode[n] # "down"
      /\ ReadsHold(minted, j, chain[n]) /\ JobKnown(j, Hashes, NodeHashes)
      /\ UNCHANGED <<mode, chain, chainFile, net>>
  BY Alive DEF UploadStore, At, JobKnown
<1>2. CASE chain[n] = <<>>
  BY <1>1, <1>2, GoingKeepsChains DEF UploadStore, Steps
<1>3. CASE chain[n] # <<>>
  <2>1. PICK P \in Picks(n) : Becomes(n, w,
          [j EXCEPT !.pc = "check", !.blk = Len(minted) + 1, !.tell = P])
    BY <1>3 DEF UploadStore
  <2> DEFINE k == [j EXCEPT !.pc = "check", !.blk = Len(minted) + 1, !.tell = P]
  <2>2. k.pc = "check" /\ k.kind = "upload" /\ k.out = j.out
    BY <1>1 DEF Job
  <2>3. Becomes(n, w, k)
    BY <2>1
  <2> HIDE DEF k
  <2>4. ReadsHold(minted', j, chain[n])
    BY <1>1, Alive, ReadsStillHold, TypeInvParts
  <2>5. ReadsHold(minted', k, chain[n])
    BY <2>2, <2>4 DEF ReadsHold, Loading
  <2> QED
    BY <1>1, <2>3, <2>5, WorkerMoves
<1> QED
  BY <1>2, <1>3

\* A process that is gone leaves nothing behind but its files.
LEMMA HaltKeepsChains ==
  ASSUME TypeInv, ChainInv, NEW n \in Nodes, Halt(n),
         UNCHANGED <<minted, chainFile>>, net' \subseteq net
  PROVE  ChainInv'
<1> USE TypeInvParts
<1>1. Grows
  BY UnchangedGrows
<1>2. StreamsOK'
  BY <1>1, StreamsStay DEF ChainInv
<1>3. ASSUME NEW m \in Nodes \ {n}
      PROVE  NodeOK(m)'
  <2>1. /\ mode'[m] = mode[m] /\ chain'[m] = chain[m]
        /\ chainFile'[m] = chainFile[m] /\ job'[m] = job[m]
    BY DEF Halt, OthersOK, ChainsOK, ChainFilesOK, JobsOK
  <2> QED
    BY <1>1, <2>1, NodeStays DEF ChainInv
<1>4. NodeOK(n)'
  <2>1. /\ chain'[n] = <<>>
        /\ \A w \in Workers : job'[n][w] = Idle
        /\ chainFile'[n] = chainFile[n]
    BY DEF Halt, ChainsOK, ChainFilesOK, JobsOK
  <2>2. BeginsWell(minted', chain'[n])
    BY <2>1 DEF BeginsWell
  <2>3. chainFile'[n] # NoFile => BeginsWell(minted', chainFile'[n])
    BY <2>1 DEF ChainInv, NodeOK
  <2>4. \A w \in Workers :
          At(n, w, "idle")' /\ ReadsHold(minted', job'[n][w], chain'[n])
    BY <2>1, IdleReadsNothing DEF At, Idle
  <2> QED
    BY <2>1, <2>2, <2>3, <2>4 DEF NodeOK
<1> QED
  BY <1>2, <1>3, <1>4 DEF ChainInv

LEMMA RaiseKeepsChains ==
  ASSUME SingleWorker, TypeInv, ChainInv, NEW n \in Nodes, NEW w \in Workers,
         Raise(n, w)
  PROVE  ChainInv'
<1>1. /\ UNCHANGED <<minted, chainFile, net>> /\ job[n][w].pc = "raise"
  BY DEF Raise, At, disk
<1>2. CASE UNCHANGED <<mode, memory>>
  <2>1. Goto(n, w, "save") \/ Becomes(n, w, Idle) \/ Halt(n)
    BY DEF Raise
  <2> QED
    BY <1>1, <1>2, <2>1, GoingKeepsChains, HaltKeepsChains DEF memory, Steps
<1>3. CASE Halt(n)
  BY <1>1, <1>3, HaltKeepsChains
<1> QED
  BY <1>2, <1>3 DEF Raise

\* The three ways in which a handler changes the chain of its node.
LEMMA ClearResets ==
  ASSUME TypeInv, ChainInv, NEW n \in Nodes, NEW w \in Workers, Clear(n, w)
  PROVE  /\ Len(chain[n]) <= 1
         /\ chain' = [chain EXCEPT ![n] = <<>>]
         /\ Goto(n, w, "raise") \/ Becomes(n, w, LoadNext(job[n][w]))
<1> DEFINE c == chain[n]
<1>1. c \in Seq(Hashes) /\ BeginsWell(minted, c) /\ Len(c) <= 1
  BY Alive DEF Clear, At, ReadsHold
<1>2. CASE c = <<>>
  BY <1>1, <1>2 DEF Clear
<1>3. CASE c # <<>>
  <2>1. Len(c) = 1
    <3>1. Len(c) \in Nat /\ Len(c) # 0 /\ Len(c) <= 1
      BY <1>1, <1>3, EmptySeq
    <3>2. \A k \in Nat : k # 0 /\ k <= 1 => k = 1
      OBVIOUS
    <3> QED
      BY <3>1, <3>2, Zenon
  <2>2. minted[TopBlock(c)].number + 1 = 1
    BY <1>1, <1>3, <2>1 DEF BeginsWell, IsGenesis, TopBlock
  <2>3. SubSeq(c, 1, Len(c) - 1) = <<>>
    BY <1>1, <2>1, SubSeqProperties
  <2> QED
    BY <1>1, <1>3, <2>1, <2>2, <2>3 DEF Clear
<1> QED
  BY <1>2, <1>3

LEMMA GenesisBegins ==
  ASSUME TypeInv, ChainInv, NEW n \in Nodes, NEW w \in Workers, AddGenesis(n, w)
  PROVE  /\ chain[n] = <<>>
         /\ job[n][w].blk \in Hashes
         /\ IsGenesis(minted, job[n][w].blk)
         /\ chain' = [chain EXCEPT ![n] = <<job[n][w].blk>>]
<1>1. /\ job[n][w].pc = "check" /\ Loading(job[n][w]) /\ chain[n] = <<>>
  BY DEF AddGenesis, At
<1>2. job[n][w].blk \in Hashes /\ IsGenesis(minted, job[n][w].blk)
  BY <1>1, Alive DEF JobKnown, Holds, ReadsHold
<1> QED
  BY <1>1, <1>2 DEF AddGenesis, Adding, IsGenesis

LEMMA AppendExtends ==
  ASSUME TypeInv, ChainInv, NEW n \in Nodes, NEW w \in Workers, Append_(n, w)
  PROVE  /\ job[n][w].blk \in Hashes
         /\ Acceptable(minted, chain[n], job[n][w].blk)
         /\ chain' = [chain EXCEPT ![n] = Append(chain[n], job[n][w].blk)]
  BY Alive DEF Append_, At, JobKnown, Holds, ReadsHold

LEMMA AddingKeepsChains ==
  ASSUME SingleWorker, TypeInv, ChainInv, NEW n \in Nodes, NEW w \in Workers
  PROVE  /\ Clear(n, w) => ChainInv'
         /\ AddGenesis(n, w) => ChainInv'
         /\ AddQuietly(n, w) => ChainInv'
         /\ AddNode(n, w) => ChainInv'
         /\ RemoveNode(n, w) => ChainInv'
         /\ AddFile(n, w) => ChainInv'
         /\ RemoveFile(n, w) => ChainInv'
<1> DEFINE j == job[n][w]
<1> USE TypeInvParts
<1>1. /\ j \in Job /\ JobKnown(j, Hashes, NodeHashes)
      /\ ReadsHold(minted, j, chain[n]) /\ BeginsWell(minted, j.out)
      /\ j.pc # "idle" => mode[n] # "down"
      /\ chain[n] \in Seq(Hashes) /\ BeginsWell(minted, chain[n])
  BY Alive DEF ReadsHold
<1>2. ASSUME NEW k, Becomes(n, w, k), NEW c, chain' = [chain EXCEPT ![n] = c],
             UNCHANGED <<minted, mode, chainFile, net>>, mode[n] # "down",
             BeginsWell(minted, c), ReadsHold(minted, k, c)
      PROVE  ChainInv'
  <2>1. Grows
    BY <1>2, UnchangedGrows
  <2>2. /\ mode' = [mode EXCEPT ![n] = mode[n]]
        /\ chainFile' = [chainFile EXCEPT ![n] = chainFile[n]]
    BY <1>2 DEF OthersOK, ChainFilesOK
  <2>3. chainFile[n] # NoFile => BeginsWell(minted', chainFile[n])
    BY <1>2 DEF ChainInv, NodeOK
  <2>4. StreamsOK'
    BY <1>2, <2>1, StreamsStay DEF ChainInv
  <2>5. BeginsWell(minted', c) /\ ReadsHold(minted', k, c)
    BY <1>2
  <2> QED
    BY <1>2, <2>1, <2>2, <2>3, <2>4, <2>5, WorkerSteps
<1>3. ASSUME Clear(n, w)
      PROVE  ChainInv'
  <2>1. /\ UNCHANGED <<minted, mode, chainFile, net>> /\ j.pc = "clear"
        /\ j.todo # <<>> /\ j.todo \in Seq(Hashes) /\ BeginsWell(minted, j.todo)
    BY <1>1, <1>3 DEF Clear, At, JobKnown, ReadsHold, disk
  <2>2. chain' = [chain EXCEPT ![n] = <<>>] /\ BeginsWell(minted, <<>>)
    BY <1>3, ClearResets DEF BeginsWell
  <2>3. CASE Goto(n, w, "raise")
    <3> DEFINE k == [j EXCEPT !.pc = "raise"]
    <3>1. k.pc = "raise" /\ k.out = j.out
      BY <1>1 DEF Job
    <3>2. Becomes(n, w, k)
      BY <2>3 DEF Goto
    <3> HIDE DEF k
    <3>3. ReadsHold(minted, k, <<>>)
      BY <1>1, <3>1 DEF ReadsHold
    <3> QED
      BY <1>1, <1>2, <2>1, <2>2, <3>2, <3>3
  <2>4. CASE Becomes(n, w, LoadNext(j))
    <3>1. /\ LoadNext(j).pc = "check" /\ LoadNext(j).out = j.out
          /\ LoadNext(j).blk = Head(j.todo)
      BY <1>1 DEF LoadNext, Job
    <3>2. IsGenesis(minted, Head(j.todo))
      BY <2>1 DEF BeginsWell
    <3>3. ReadsHold(minted, LoadNext(j), <<>>)
      BY <1>1, <3>1, <3>2 DEF ReadsHold
    <3> QED
      BY <1>1, <1>2, <2>1, <2>2, <2>4, <3>3
  <2> QED
    BY <1>3, <2>3, <2>4, ClearResets
<1>4. ASSUME AddGenesis(n, w)
      PROVE  ChainInv'
  <2>1. /\ UNCHANGED <<minted, mode, chainFile, net>> /\ j.pc = "check"
        /\ Becomes(n, w, AfterAdd(j))
    BY <1>4 DEF AddGenesis, At, disk
  <2> DEFINE c == <<j.blk>>
  <2>2. chain' = [chain EXCEPT ![n] = c] /\ IsGenesis(minted, j.blk)
    BY <1>4, GenesisBegins
  <2>3. BeginsWell(minted, c) /\ c # <<>>
    BY <2>2 DEF BeginsWell
  <2> HIDE DEF c
  <2>4. ReadsHold(minted, AfterAdd(j), c)
    BY <1>1, <2>3, AfterAddReads
  <2> QED
    BY <1>1, <1>2, <2>1, <2>2, <2>3, <2>4
<1>5. ASSUME Append_(n, w), 
             \/ Becomes(n, w, AfterAdd(j))
             \/ Goto(n, w, "raise")
             \/ Goto(n, w, "invite") /\ ~Loading(j)
      PROVE  ChainInv'
  <2>1. UNCHANGED <<minted, mode, chainFile, net>> /\ j.pc = "key"
    BY <1>5 DEF Append_, At
  <2> DEFINE c == Append(chain[n], j.blk)
  <2>2. /\ chain' = [chain EXCEPT ![n] = c] /\ j.blk \in Hashes
        /\ Acceptable(minted, chain[n], j.blk)
    BY <1>5, AppendExtends
  <2>3. c # <<>> /\ c[1] = chain[n][1] /\ chain[n] # <<>>
    BY <1>1, <2>2, AppendProperties DEF Acceptable
  <2>4. BeginsWell(minted, c)
    BY <1>1, <2>3 DEF BeginsWell
  <2> HIDE DEF c
  <2>5. CASE Becomes(n, w, AfterAdd(j))
    <3>1. ReadsHold(minted, AfterAdd(j), c)
      BY <1>1, <2>3, AfterAddReads
    <3> QED
      BY <1>1, <1>2, <2>1, <2>2, <2>4, <2>5, <3>1
  <2>6. ASSUME NEW pc \in {"raise", "invite"}, Goto(n, w, pc),
               pc = "invite" => ~Loading(j)
        PROVE  ChainInv'
    <3> DEFINE k == [j EXCEPT !.pc = pc]
    <3>1. k.pc = pc /\ k.out = j.out /\ k.kind = j.kind
      BY <1>1 DEF Job
    <3>2. Becomes(n, w, k)
      BY <2>6 DEF Goto
    <3> HIDE DEF k
    <3>3. ReadsHold(minted, k, c)
      BY <1>1, <2>6, <3>1 DEF ReadsHold, Loading
    <3> QED
      BY <1>1, <1>2, <2>1, <2>2, <2>4, <3>2, <3>3
  <2> QED
    BY <1>5, <2>5, <2>6
<1>6. AddNode(n, w) => ~Loading(j)
  BY DEF AddNode, Operates, FileMethods
<1> QED
  BY <1>3, <1>4, <1>5, <1>6 DEF AddQuietly, AddNode, RemoveNode, AddFile,
     RemoveFile

LEMMA InviteKeepsChains ==
  ASSUME SingleWorker, TypeInv, ChainInv, NEW n \in Nodes, NEW w \in Workers,
         Invite(n, w)
  PROVE  ChainInv'
<1> DEFINE j == job[n][w]
           c == chain[n]
           s == GetBlocksData(minted, c)
           d == Adding(n, w).data
<1> USE TypeInvParts
<1>1. /\ j \in Job /\ j.pc = "invite" /\ mode[n] # "down" /\ ~Loading(j)
      /\ BeginsWell(minted, j.out) /\ BeginsWell(minted, c)
      /\ UNCHANGED <<minted, mode, chain, chainFile>>
  BY Alive DEF Invite, At, ReadsHold, memory, disk
<1>2. Grows
  BY <1>1, UnchangedGrows
<1>3. CASE Serialisable(minted, c)
  <2> DEFINE k == [j EXCEPT !.pc = "invited"]
  <2>1. k.pc = "invited" /\ k.out = j.out /\ k.kind = j.kind
    BY <1>1 DEF Job
  <2>2. Becomes(n, w, k)
    BY <1>3 DEF Invite, Goto
  <2> HIDE DEF k
  <2>3. ReadsHold(minted', k, c)
    BY <1>1, <2>1 DEF ReadsHold, Loading
  <2>4. s[1] = c[1] /\ c # <<>>
    BY <1>3, GetBlocksDataKnown DEF Serialisable
  <2>5. BeginsWell(minted, s)
    BY <1>1, <2>4 DEF BeginsWell
  <2>6. StreamsOK'
    <3>1. \A m \in net' : m \in net \/ m.blks = s
      BY <1>3 DEF Invite
    <3>2. \A m \in net : m.kind = "overwriteBlockchain" => BeginsWell(minted, m.blks)
      BY DEF ChainInv, StreamsOK
    <3> HIDE DEF s
    <3>3. \A m \in net' : m.kind = "overwriteBlockchain" => BeginsWell(minted, m.blks)
      BY <2>5, <3>1, <3>2
    <3> QED
      BY <1>1, <3>3 DEF StreamsOK
  <2>7. /\ chain' = [chain EXCEPT ![n] = c]
        /\ chainFile' = [chainFile EXCEPT ![n] = chainFile[n]]
        /\ mode' = [mode EXCEPT ![n] = mode[n]]
    BY <1>1 DEF OthersOK, ChainsOK, ChainFilesOK
  <2>8. chainFile[n] # NoFile => BeginsWell(minted', chainFile[n])
    BY <1>1 DEF ChainInv, NodeOK
  <2>9. BeginsWell(minted', c)
    BY <1>1
  <2> QED
    BY <1>1, <1>2, <2>2, <2>3, <2>6, <2>7, <2>8, <2>9, WorkerSteps
<1>4. CASE ~Serialisable(minted, c)
  <2>1. Goto(n, w, "raise") /\ net' = net
    BY <1>4 DEF Invite
  <2> QED
    BY <1>1, <2>1, GoingKeepsChains DEF Steps
<1> QED
  BY <1>3, <1>4

LEMMA SavingKeepsChains ==
  ASSUME SingleWorker, TypeInv, ChainInv, NEW n \in Nodes, NEW w \in Workers
  PROVE  /\ Open(n, w) => ChainInv'
         /\ Write(n, w) => ChainInv'
         /\ Serve(n, w) => ChainInv'
<1> DEFINE j == job[n][w]
           c == chain[n]
<1> USE TypeInvParts
<1>1. /\ j \in Job /\ JobKnown(j, Hashes, NodeHashes)
      /\ BeginsWell(minted, j.out) /\ BeginsWell(minted, c)
      /\ j.pc # "idle" => mode[n] # "down"
  BY Alive DEF ReadsHold
<1>2. ASSUME NEW k, Becomes(n, w, k), ReadsHold(minted, k, c),
             NEW f, chainFile' = [chainFile EXCEPT ![n] = f],
             f # NoFile => BeginsWell(minted, f),
             NEW md, mode' = [mode EXCEPT ![n] = md], md # "down",
             UNCHANGED <<minted, chain, net>>
      PROVE  ChainInv'
  <2>1. Grows
    BY <1>2, UnchangedGrows
  <2>2. chain' = [chain EXCEPT ![n] = c]
    BY <1>2 DEF ChainsOK
  <2>3. StreamsOK'
    BY <1>2, <2>1, StreamsStay DEF ChainInv
  <2>4. /\ BeginsWell(minted', c) /\ ReadsHold(minted', k, c)
        /\ f # NoFile => BeginsWell(minted', f)
    BY <1>1, <1>2
  <2> QED
    BY <1>2, <2>1, <2>2, <2>3, <2>4, WorkerSteps
<1>3. ASSUME Open(n, w)
      PROVE  ChainInv'
  <2> DEFINE k == [j EXCEPT !.pc = "write"]
  <2>1. k.pc = "write" /\ k.out = j.out
    BY <1>1 DEF Job
  <2>2. Becomes(n, w, k) /\ j.pc = "open"
    BY <1>3 DEF Open, Goto, At
  <2> HIDE DEF k
  <2>3. ReadsHold(minted, k, c)
    BY <1>1, <2>1 DEF ReadsHold
  <2>4. BeginsWell(minted, <<>>)
    BY DEF BeginsWell
  <2>5. /\ chainFile' = [chainFile EXCEPT ![n] = <<>>]
        /\ mode' = [mode EXCEPT ![n] = mode[n]]
        /\ UNCHANGED <<minted, chain, net>>
    BY <1>3 DEF Open, OthersOK, memory
  <2> QED
    BY <1>1, <1>2, <2>2, <2>3, <2>4, <2>5
<1>4. ASSUME Write(n, w)
      PROVE  ChainInv'
  <2> DEFINE k == [j EXCEPT !.out = <<>>]
             f == Overlay(j.out, chainFile[n])
  <2>1. j.pc = "write" /\ chainFile[n] \in Seq(Hashes) /\ j.out \in Seq(Hashes)
    BY <1>1, <1>4 DEF Write, At, ChainFilesOK, JobKnown
  <2>2. BeginsWell(minted, f)
    <3>1. chainFile[n] # NoFile
      BY <1>4 DEF Write, ChainFilesOK
    <3>2. BeginsWell(minted, chainFile[n])
      BY <3>1 DEF ChainInv, NodeOK
    <3>3. f # <<>> => f[1] = IF j.out # <<>> THEN j.out[1] ELSE chainFile[n][1]
      BY <2>1, OverlayKnown
    <3>4. j.out = <<>> => f = chainFile[n]
      <4>1. j.out = <<>> => SubSeq(chainFile[n], Len(j.out) + 1, Len(chainFile[n]))
                              = chainFile[n]
        BY <2>1, SubSeqFull
      <4> QED
        BY <2>1, <4>1, ConcatEmptySeq DEF Overlay
    <3> HIDE DEF f
    <3> QED
      BY <1>1, <3>2, <3>3, <3>4 DEF BeginsWell
  <2>3. k \in Job /\ k.out = <<>>
    <3>1. <<>> \in Seq(Nat)
      OBVIOUS
    <3>2. ASSUME NEW e \in Seq(Nat)
          PROVE  LET l == [j EXCEPT !.out = e] IN l \in Job /\ l.out = e
      BY <1>1 DEF Job
    <3> QED
      BY <3>1, <3>2
  <2>4. /\ chainFile' = [chainFile EXCEPT ![n] = f]
        /\ mode' = [mode EXCEPT ![n] = mode[n]]
        /\ UNCHANGED <<minted, chain, net>>
    BY <1>4 DEF Write, OthersOK, memory
  <2> HIDE DEF k, f
  <2>5. ReadsHold(minted, Idle, c)
    BY IdleReadsNothing
  <2>6. BeginsWell(minted, <<>>)
    BY DEF BeginsWell
  <2>7. ReadsHold(minted, Telling(k), c)
    BY <2>3, <2>6, TellingReads
  <2>8. ASSUME NEW P \in Picks(n), Becomes(n, w, Telling([k EXCEPT !.tell = P]))
        PROVE  ChainInv'
    <3> DEFINE l == [k EXCEPT !.tell = P]
    <3>1. P \in Seq(Nodes)
      BY PickIsSeq
    <3>2. l \in Job /\ l.out = <<>>
      BY <2>3, <3>1 DEF Job
    <3> HIDE DEF l
    <3>3. ReadsHold(minted, Telling(l), c)
      BY <2>6, <3>2, TellingReads
    <3>4. Becomes(n, w, Telling(l))
      BY <2>8 DEF l
    <3> QED
      BY <1>1, <1>2, <2>1, <2>2, <2>4, <3>3, <3>4
  <2>9. \/ \E P \in Picks(n) : Becomes(n, w, Telling([k EXCEPT !.tell = P]))
        \/ Becomes(n, w, Telling(k))
        \/ Becomes(n, w, Idle)
    BY <1>4 DEF Write, k
  <2> QED
    BY <1>1, <1>2, <2>1, <2>2, <2>4, <2>5, <2>7, <2>8, <2>9
<1>5. ASSUME Serve(n, w)
      PROVE  ChainInv'
  <2>1. /\ chainFile' = [chainFile EXCEPT ![n] = chainFile[n]]
        /\ mode' = [mode EXCEPT ![n] = "up"]
        /\ UNCHANGED <<minted, chain, net>>
        /\ Becomes(n, w, Idle)
    BY <1>5 DEF Serve, ChainFilesOK, memory, disk
  <2>2. ReadsHold(minted, Idle, c)
    BY IdleReadsNothing
  <2>3. chainFile[n] # NoFile => BeginsWell(minted, chainFile[n])
    BY DEF ChainInv, NodeOK
  <2> QED
    BY <1>2, <2>1, <2>2, <2>3
<1> QED
  BY <1>3, <1>4, <1>5

LEMMA BootSigns ==
  ASSUME TypeInv, NEW n \in Nodes, BootFresh(n)
  PROVE  \E b \in BlockData :
           /\ minted' = Append(minted, b)
           /\ b.number = 0 /\ b.action = "add_node"
<1>1. PICK t \in Times : minted' = Append(minted, Genesis(n, t))
  BY DEF BootFresh
<1>2. /\ Genesis(n, t) \in BlockData
      /\ Genesis(n, t).number = 0 /\ Genesis(n, t).action = "add_node"
  BY DEF Genesis, BlockData, NodeBlock, NodeMethods
<1> QED
  BY <1>1, <1>2

LEMMA BootKeepsChains ==
  ASSUME SingleWorker, TypeInv, ChainInv, NEW n \in Nodes
  PROVE  /\ BootFresh(n) => ChainInv'
         /\ BootSaved(n) => ChainInv'
<1> USE TypeInvParts
<1>1. /\ chainFile' = [chainFile EXCEPT ![n] = chainFile[n]] <=> UNCHANGED chainFile
      /\ chain' = [chain EXCEPT ![n] = chain[n]] <=> UNCHANGED chain
  BY DEF ChainFilesOK, ChainsOK
<1>2. PICK w \in Workers : TRUE
  BY LedgerAssumption
<1>3. UNCHANGED job => Becomes(n, w, job[n][w])
  BY DEF Becomes, JobsOK
<1>4. ASSUME BootFresh(n)
      PROVE  ChainInv'
  <2>1. PICK b \in BlockData : /\ minted' = Append(minted, b)
                               /\ b.number = 0 /\ b.action = "add_node"
    BY <1>4, BootSigns
  <2>2. Grows /\ minted'[Len(minted) + 1] = b
    BY <2>1, SigningGrows
  <2> DEFINE c == <<Len(minted) + 1>>
  <2>3. BeginsWell(minted', c)
    BY <2>1, <2>2 DEF BeginsWell, IsGenesis
  <2>4. ReadsHold(minted', job[n][w], c)
    <3>1. job[n][w].pc = "idle"
      BY <1>4 DEF BootFresh, ChainInv, NodeOK, At
    <3>2. job[n][w].out \in Seq(Hashes)
      BY Alive DEF JobKnown
    <3>3. BeginsWell(minted', job[n][w].out)
      BY <2>2, <3>2, Alive, BeginsWellStays DEF ReadsHold
    <3> QED
      BY <3>1, <3>3 DEF ReadsHold
  <2>5. chainFile[n] # NoFile => BeginsWell(minted', chainFile[n])
    BY <1>4 DEF BootFresh
  <2>6. /\ Becomes(n, w, job[n][w])
        /\ chain' = [chain EXCEPT ![n] = c]
        /\ chainFile' = [chainFile EXCEPT ![n] = chainFile[n]]
        /\ mode' = [mode EXCEPT ![n] = "up"]
        /\ net' = net
    BY <1>1, <1>3, <1>4 DEF BootFresh, disk
  <2>7. StreamsOK'
    BY <2>2, <2>6, StreamsStay DEF ChainInv
  <2> HIDE DEF c
  <2> QED
    BY <2>2, <2>3, <2>4, <2>5, <2>6, <2>7, WorkerSteps
<1>5. ASSUME BootSaved(n)
      PROVE  ChainInv'
  <2>1. /\ chain' = [chain EXCEPT ![n] = chain[n]]
        /\ chainFile' = [chainFile EXCEPT ![n] = chainFile[n]]
        /\ UNCHANGED <<minted, net>> /\ chainFile[n] # NoFile
        /\ chain[n] = <<>> /\ \A v \in Workers : job[n][v].pc = "idle"
    BY <1>1, <1>5 DEF BootSaved, ChainInv, NodeOK, At, disk
  <2>2. Grows /\ BeginsWell(minted, chainFile[n]) /\ BeginsWell(minted, chain[n])
    BY <2>1, UnchangedGrows DEF ChainInv, NodeOK
  <2>3. StreamsOK'
    BY <2>1, <2>2, StreamsStay DEF ChainInv
  <2>4. CASE /\ UNCHANGED job /\ mode' = [mode EXCEPT ![n] = "up"]
    <3>1. ReadsHold(minted', job[n][w], chain[n])
      BY <2>1, Alive
    <3> QED
      BY <1>3, <2>1, <2>2, <2>3, <2>4, <3>1, WorkerSteps
  <2>5. CASE chainFile[n] # <<>> /\ mode' = [mode EXCEPT ![n] = "boot"]
    <3> DEFINE load == [Idle EXCEPT !.kind = "boot", !.todo = chainFile[n]]
               k == LoadNext(load)
    <3>1. PICK v \in Workers : Becomes(n, v, k)
      BY <1>5, <2>5 DEF BootSaved
    <3>2. Idle \in Job /\ Idle.out = <<>>
      BY IdleIsJob DEF Idle
    <3>3. load.todo = chainFile[n] /\ load.out = <<>>
      BY <3>2 DEF Job
    <3>4. k.pc = "check" /\ k.out = <<>> /\ k.blk = Head(chainFile[n])
      BY <3>2, <3>3 DEF Job, LoadNext
    <3>5. Head(chainFile[n]) = chainFile[n][1]
      BY <2>1, <2>5 DEF ChainFilesOK
    <3> HIDE DEF k
    <3>6. ReadsHold(minted', k, chain[n])
      BY <2>1, <2>2, <2>5, <3>4, <3>5 DEF ReadsHold, BeginsWell
    <3> QED
      BY <2>1, <2>2, <2>3, <2>5, <3>1, <3>6, WorkerSteps
  <2> QED
    BY <1>5, <2>4, <2>5 DEF BootSaved
<1> QED
  BY <1>4, <1>5

LEMMA OperatorKeepsChains ==
  ASSUME TypeInv, ChainInv, NEW c \in Nodes, NEW to \in Nodes,
         OperatorPosts(c, to)
  PROVE  ChainInv'
<1>1. Grows
  BY OperatorSigns, SigningGrows, TypeInvParts
<1>2. \A m \in net' : m \in net \/ m.kind = "addBlock"
  BY DEF OperatorPosts
<1>3. UNCHANGED <<mode, chain, chainFile, job>>
  BY DEF OperatorPosts, memory, disk
<1> QED
  BY <1>1, <1>2, <1>3, NothingMoves

LEMMA NextKeepsChains ==
  ASSUME SingleWorker, TypeInv, ChainInv, [Next]_vars
  PROVE  ChainInv'
<1>1. ASSUME NEW n \in Nodes, NEW w \in Workers, Continue(n, w)
      PROVE  ChainInv'
  <2>1. CASE UploadStore(n, w)
    <3>1. Grows
      <4>1. CASE chain[n] = <<>>
        BY <2>1, <4>1, UnchangedGrows, TypeInvParts DEF UploadStore
      <4>2. CASE chain[n] # <<>>
        BY <2>1, <4>2, UploadSigns, SigningGrows, TypeInvParts
      <4> QED
        BY <4>1, <4>2
    <3> QED
      BY <2>1, <3>1, UploadStoreKeepsChains
  <2> QED
    BY <1>1, <2>1, MovingKeepsChains, AddingKeepsChains, InviteKeepsChains,
       SavingKeepsChains, RaiseKeepsChains DEF Continue
<1>2. ASSUME NEW n \in Nodes, NEW w \in Workers, Receive(n, w)
      PROVE  ChainInv'
  BY <1>2, TakingKeepsChains
<1>3. ASSUME NEW n \in Nodes, NEW w \in Workers, NEW f \in Files, Upload(n, w, f)
      PROVE  ChainInv'
  BY <1>3, TakingKeepsChains
<1>4. ASSUME NEW c \in Nodes, NEW to \in Nodes, OperatorPosts(c, to)
      PROVE  ChainInv'
  BY <1>4, OperatorKeepsChains
<1>5. ASSUME NEW n \in Nodes, BootFresh(n) \/ BootSaved(n) \/ Crash(n)
      PROVE  ChainInv'
  BY <1>5, BootKeepsChains, HaltKeepsChains DEF Crash, disk
<1>6. CASE UNCHANGED vars
  BY <1>6, UnchangedGrows, TypeInvParts, NothingMoves DEF vars, memory, disk
<1> QED
  BY <1>1, <1>2, <1>3, <1>4, <1>5, <1>6 DEF Next

LEMMA InitChains == Init => ChainInv
<1> SUFFICES ASSUME Init
             PROVE  ChainInv
  OBVIOUS
<1>1. ASSUME NEW n \in Nodes
      PROVE  NodeOK(n)
  BY IdleReadsNothing DEF Init, NodeOK, At, Idle, BeginsWell
<1> QED
  BY <1>1 DEF Init, ChainInv, StreamsOK

\* With one worker to a node, what a handler has read of the chain still holds
\* when it acts on it, and whatever is loaded as a chain begins as one.
THEOREM ReadsAreNotStale == SingleWorker => (Spec => []ChainInv)
<1> SUFFICES ASSUME SingleWorker
             PROVE  Spec => []ChainInv
  OBVIOUS
<1>1. TypeInv /\ ChainInv /\ [Next]_vars => ChainInv'
  BY NextKeepsChains
<1> QED
  BY <1>1, InitChains, HashesAreKnown, PTL DEF Spec

-----------------------------------------------------------------------------
(* The refinement: every step is a step of ChainStore, or none. *)

running == {n \in Nodes : mode[n] # "down"}

\* What a step of ChainStore sees of a step of Ledger.
LEMMA SameRunning ==
  ASSUME TypeInv, NEW n \in Nodes, NEW md, mode' = [mode EXCEPT ![n] = md]
  PROVE  running' = IF md = "down" THEN running \ {n} ELSE running \cup {n}
  BY TypeInvParts DEF running, OthersOK

LEMMA SigningIsMint ==
  ASSUME TypeInv, NEW b \in BlockData, minted' = Append(minted, b)
  PROVE  Chains!Signed /\ minted'[Len(minted')] = b /\ Len(minted') = Len(minted) + 1
<1>1. Len(minted') = Len(minted) + 1 /\ minted'[Len(minted) + 1] = b
  BY SigningGrows, TypeInvParts
<1> QED
  BY <1>1 DEF Chains!Signed, Chains!BlockData, Chains!NodeBlock, Chains!FileBlock,
     Chains!NodeMethods, Chains!FileMethods, BlockData, NodeBlock, FileBlock,
     NodeMethods, FileMethods

LEMMA StepIsMint ==
  ASSUME TypeInv, NEW b \in BlockData, minted' = Append(minted, b),
         UNCHANGED <<mode, chain>>
  PROVE  Chains!Next
<1>1. Chains!Mint
  BY SigningIsMint DEF Chains!Mint
<1> QED
  BY <1>1 DEF Chains!Next

LEMMA StepIsStop ==
  ASSUME TypeInv, NEW n \in Nodes, mode[n] # "down", Halt(n), UNCHANGED minted
  PROVE  Chains!Next
<1>1. n \in running /\ running' = running \ {n}
  BY SameRunning DEF Halt, running
<1>2. Chains!Stop(n)
  BY <1>1 DEF Chains!Stop, Halt, running
<1> QED
  BY <1>2 DEF Chains!Next

LEMMA StepIsBoot ==
  ASSUME TypeInv, ChainInv, NEW n \in Nodes, BootFresh(n) \/ BootSaved(n)
  PROVE  Chains!Next
<1>1. n \notin running
  BY DEF BootFresh, BootSaved, running
<1>2. CASE BootFresh(n)
  <2>1. running' = running \cup {n}
    <3>1. mode' = [mode EXCEPT ![n] = "up"] /\ "up" # "down"
      BY <1>2 DEF BootFresh
    <3> QED
      BY <3>1, SameRunning
  <2>2. PICK b \in BlockData : minted' = Append(minted, b) /\ b.number = 0
    BY <1>2, BootSigns
  <2>3. Chains!StartFresh(n)
    BY <1>1, <1>2, <2>1, <2>2, SigningIsMint DEF BootFresh, Chains!StartFresh, running
  <2> QED
    BY <2>3 DEF Chains!Next
<1>3. CASE BootSaved(n)
  <2>1. running' = running \cup {n}
    BY <1>3, SameRunning DEF BootSaved
  <2>2. Chains!StartSaved(n)
    BY <1>1, <1>3, <2>1 DEF BootSaved, Chains!StartSaved, running
  <2> QED
    BY <2>2 DEF Chains!Next
<1> QED
  BY <1>2, <1>3

LEMMA StepOfWorker ==
  ASSUME TypeInv, ChainInv, NEW n \in Nodes, NEW w \in Workers, Continue(n, w)
  PROVE  [Chains!Next]_(Chains!vars)
<1> DEFINE h == job[n][w].blk
<1>1. job[n][w].pc # "idle"
  BY DEF Continue, UploadClash, UploadStore, Clear, AddGenesis, CheckPasses,
     CheckFails, KeyFails, AddQuietly, AddNode, RemoveNode, AddFile, RemoveFile,
     Append_, Invite, Invited, Raise, Save, Open, Write, Serve, Tell, Told, At
<1>2. mode[n] # "down" /\ n \in running
  BY <1>1, Alive DEF running
<1>3. CASE UploadStore(n, w)
  <2>1. UNCHANGED <<mode, chain>>
    BY <1>3 DEF UploadStore
  <2>2. CASE chain[n] = <<>>
    <3>1. UNCHANGED minted
      BY <1>3, <2>2 DEF UploadStore
    <3> QED
      BY <2>1, <3>1 DEF Chains!vars
  <2>3. CASE chain[n] # <<>>
    BY <1>3, <2>1, <2>3, UploadSigns, StepIsMint
  <2> QED
    BY <2>2, <2>3
<1>4. CASE Clear(n, w)
  <2>1. Chains!Reset(n)
    BY <1>2, <1>4, ClearResets DEF Clear, Chains!Reset, running
  <2> QED
    BY <2>1 DEF Chains!Next
<1>5. CASE AddGenesis(n, w)
  <2>1. Chains!Begin(n, h) /\ h \in 1 .. Len(minted)
    BY <1>2, <1>5, GenesisBegins DEF AddGenesis, Chains!Begin, running, IsGenesis,
       Hashes
  <2> QED
    BY <2>1 DEF Chains!Next
<1>6. CASE Append_(n, w)
  <2>1. Acceptable(minted, chain[n], h) /\ h \in 1 .. Len(minted)
    BY <1>6, AppendExtends DEF Hashes
  <2>2. Chains!Acceptable(minted, chain[n], h)
    BY <2>1 DEF Acceptable, Follows, TopBlock, Chains!Acceptable, Chains!Follows,
       Chains!TopBlock
  <2>3. Chains!Extend(n, h)
    BY <1>2, <1>6, <2>2, AppendExtends DEF Append_, Chains!Extend, running
  <2> QED
    BY <2>1, <2>3 DEF Chains!Next
<1>7. CASE Raise(n, w)
  <2>1. UNCHANGED minted
    BY <1>7 DEF Raise
  <2>2. CASE Halt(n)
    BY <1>2, <2>1, <2>2, StepIsStop
  <2>3. CASE UNCHANGED <<mode, memory>>
    BY <2>1, <2>3 DEF memory, Chains!vars
  <2> QED
    BY <1>7, <2>2, <2>3 DEF Raise
<1>8. CASE Serve(n, w)
  <2>1. running' = running /\ UNCHANGED <<minted, chain>>
    <3>1. /\ mode' = [mode EXCEPT ![n] = "up"] /\ "up" # "down"
          /\ UNCHANGED <<minted, chain>>
      BY <1>8 DEF Serve, memory
    <3>2. running' = running \cup {n}
      BY <3>1, SameRunning
    <3> QED
      BY <1>2, <3>1, <3>2
  <2> QED
    BY <2>1 DEF Chains!vars, running
<1>9. CASE UNCHANGED <<minted, mode, chain>>
  BY <1>9 DEF Chains!vars
<1> QED
  BY <1>3, <1>4, <1>5, <1>6, <1>7, <1>8, <1>9 DEF Continue, UploadClash,
     CheckPasses, CheckFails, KeyFails, AddQuietly, AddNode, RemoveNode, AddFile,
     RemoveFile, Invite, Invited, Save, Open, Write, Tell, Told, memory

LEMMA NextRefines ==
  ASSUME TypeInv, ChainInv, [Next]_vars
  PROVE  [Chains!Next]_(Chains!vars)
<1>1. ASSUME NEW n \in Nodes, NEW w \in Workers, Continue(n, w)
      PROVE  [Chains!Next]_(Chains!vars)
  BY <1>1, StepOfWorker
<1>2. ASSUME NEW n \in Nodes, NEW w \in Workers, Receive(n, w)
      PROVE  [Chains!Next]_(Chains!vars)
  <2>1. UNCHANGED <<minted, mode, chain>>
    BY <1>2 DEF Receive, RefuseBlock, AddBlock, RefuseOverwrite,
       OverwriteBlockchain, memory
  <2> QED
    BY <2>1 DEF Chains!vars
<1>3. ASSUME NEW n \in Nodes, NEW w \in Workers, NEW f \in Files, Upload(n, w, f)
      PROVE  [Chains!Next]_(Chains!vars)
  <2>1. UNCHANGED <<minted, mode, chain>>
    BY <1>3 DEF Upload, memory
  <2> QED
    BY <2>1 DEF Chains!vars
<1>4. ASSUME NEW c \in Nodes, NEW to \in Nodes, OperatorPosts(c, to)
      PROVE  Chains!Next
  <2>1. UNCHANGED <<mode, chain>>
    BY <1>4 DEF OperatorPosts, memory
  <2> QED
    BY <1>4, <2>1, OperatorSigns, StepIsMint
<1>5. ASSUME NEW n \in Nodes, BootFresh(n) \/ BootSaved(n) \/ Crash(n)
      PROVE  Chains!Next
  BY <1>5, StepIsBoot, StepIsStop DEF Crash
<1>6. CASE UNCHANGED vars
  BY <1>6 DEF vars, memory, Chains!vars
<1> QED
  BY <1>1, <1>2, <1>3, <1>4, <1>5, <1>6 DEF Next

\* With one worker to a node, Ledger implements ChainStore: the handlers, the
\* restarts and the crashes change the chains only in the ways it allows.
THEOREM LedgerImplementsChainStore == SingleWorker => (Spec => ImplementsChainStore)
<1> SUFFICES ASSUME SingleWorker
             PROVE  Spec => Chains!Spec
  BY DEF ImplementsChainStore
<1>1. Init => Chains!Init
  BY DEF Init, Chains!Init
<1>2. TypeInv /\ ChainInv /\ [Next]_vars => [Chains!Next]_(Chains!vars)
  BY NextRefines
<1> QED
  BY <1>1, <1>2, HashesAreKnown, ReadsAreNotStale, PTL DEF Spec, Chains!Spec

-----------------------------------------------------------------------------
(* What is proved of ChainStore therefore holds of Ledger. *)

Store == INSTANCE ChainStoreProofs
           WITH running <- {n \in Nodes : mode[n] # "down"}

LEMMA SameSpec == Chains!Spec => Store!Spec
<1>1. Chains!Init => Store!Init
  BY DEF Chains!Init, Store!Init
<1>2. [Chains!Next]_(Chains!vars) => [Store!Next]_(Store!vars)
  BY DEF Chains!Next, Chains!vars, Chains!Mint, Chains!Signed, Chains!BlockData,
     Chains!NodeBlock, Chains!FileBlock, Chains!NodeMethods, Chains!FileMethods,
     Chains!StartFresh, Chains!StartSaved, Chains!Begin, Chains!Extend,
     Chains!Acceptable, Chains!Follows, Chains!TopBlock, Chains!Reset,
     Chains!Stop,
     Store!Next, Store!vars, Store!Mint, Store!Signed, Store!BlockData,
     Store!NodeBlock, Store!FileBlock, Store!NodeMethods, Store!FileMethods,
     Store!StartFresh, Store!StartSaved, Store!Begin, Store!Extend,
     Store!Acceptable, Store!Follows, Store!TopBlock, Store!Reset, Store!Stop
<1> QED
  BY <1>1, <1>2, PTL DEF Chains!Spec, Store!Spec

\* With one worker to a node every chain is a chain: the checks of
\* Blockchain.add hold between any two neighbours on it, in every state.
THEOREM LedgerChainsWellFormed == SingleWorker => (Spec => []ChainWellFormed)
<1> SUFFICES ASSUME SingleWorker
             PROVE  Spec => []ChainWellFormed
  OBVIOUS
<1>1. Spec => Store!Spec
  BY LedgerImplementsChainStore, SameSpec DEF ImplementsChainStore
<1>2. Store!ChainWellFormed => ChainWellFormed
  BY DEF Store!ChainWellFormed, Store!WellFormed, Store!Follows,
     ChainWellFormed, WellFormed, Follows
<1>3. Store!Spec => []Store!ChainWellFormed
  BY Store!ChainsAreWellFormed
<1> QED
  BY <1>1, <1>2, <1>3, PTL

\* With one worker to a node, nodes that share a block share the history below
\* it, whatever was overwritten, lost and loaded again.
THEOREM LedgerHistoriesAgree == SingleWorker => (Spec => []PrefixAgreement)
<1> SUFFICES ASSUME SingleWorker
             PROVE  Spec => []PrefixAgreement
  OBVIOUS
<1>1. Spec => Store!Spec
  BY LedgerImplementsChainStore, SameSpec DEF ImplementsChainStore
<1>2. Store!PrefixAgreement => PrefixAgreement
  BY DEF Store!PrefixAgreement, PrefixAgreement
<1>3. Store!Spec => []Store!PrefixAgreement
  BY Store!HistoriesAgree
<1> QED
  BY <1>1, <1>2, <1>3, PTL
=============================================================================
