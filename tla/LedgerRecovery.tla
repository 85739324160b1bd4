--------------------------- MODULE LedgerRecovery ---------------------------
(***************************************************************************)
(* What the nodes of Ledger keep: the keys of the blocks they have, the    *)
(* files of the blocks they have, and the chain on the disk from which     *)
(* they start again.                                                       *)
(***************************************************************************)
EXTENDS LedgerRefinement

-----------------------------------------------------------------------------
(* A step is a step of one node. *)

Untouched(m) ==
  /\ mode'[m] = mode[m] /\ chain'[m] = chain[m] /\ files'[m] = files[m]
  /\ keys'[m] = keys[m] /\ chainFile'[m] = chainFile[m]
  /\ fileFile'[m] = fileFile[m] /\ job'[m] = job[m]

LEMMA NextGrows ==
  ASSUME TypeInv, [Next]_vars
  PROVE  Grows
<1> USE TypeInvParts
<1>1. ASSUME NEW n \in Nodes, NEW w \in Workers, UploadStore(n, w)
      PROVE  Grows
  <2>1. CASE chain[n] = <<>>
    BY <1>1, <2>1, UnchangedGrows DEF UploadStore
  <2>2. CASE chain[n] # <<>>
    BY <1>1, <2>2, UploadSigns, SigningGrows
  <2> QED
    BY <2>1, <2>2
<1>2. ASSUME NEW n \in Nodes, BootFresh(n)
      PROVE  Grows
  BY <1>2, BootSigns, SigningGrows
<1>3. ASSUME NEW c \in Nodes, NEW to \in Nodes, OperatorPosts(c, to)
      PROVE  Grows
  BY <1>3, OperatorSigns, SigningGrows
<1>4. ASSUME NEW n \in Nodes, NEW w \in Workers, Continue(n, w)
      PROVE  Grows
  <2>1. UploadStore(n, w) \/ UNCHANGED minted
    BY <1>4
       DEF Continue, UploadClash, Clear, AddGenesis, CheckPasses, CheckFails,
           KeyFails, AddQuietly, AddNode, RemoveNode, AddFile, RemoveFile,
           Append_, Invite, Invited, Raise, Save, Open, Write, Serve, Tell, Told
  <2> QED
    BY <1>1, <2>1, UnchangedGrows
<1>5. ASSUME NEW n \in Nodes, NEW w \in Workers, Receive(n, w)
      PROVE  Grows
  BY <1>5, UnchangedGrows
     DEF Receive, RefuseBlock, AddBlock, RefuseOverwrite, OverwriteBlockchain
<1>6. ASSUME NEW n \in Nodes, BootSaved(n) \/ Crash(n)
      PROVE  Grows
  BY <1>6, UnchangedGrows DEF BootSaved, Crash
<1>7. ASSUME NEW n \in Nodes, NEW w \in Workers, NEW f \in Files, Upload(n, w, f)
      PROVE  Grows
  BY <1>7, UnchangedGrows DEF Upload
<1>8. CASE UNCHANGED vars
  BY <1>8, UnchangedGrows DEF vars
<1> QED
  BY <1>2, <1>3, <1>4, <1>5, <1>6, <1>7, <1>8 DEF Next

LEMMA HaltTouches ==
  ASSUME TypeInv, NEW n \in Nodes, Halt(n), UNCHANGED <<disk, minted>>,
         NEW m \in Nodes \ {n}
  PROVE  Untouched(m)
  BY TypeInvParts
     DEF Halt, Untouched, disk, JobsOK, ChainsOK, OthersOK, ChainFilesOK

LEMMA ContinueTouches ==
  ASSUME TypeInv, NEW n \in Nodes, NEW w \in Workers, Continue(n, w)
  PROVE  /\ job[n][w].pc # "idle"
         /\ \A m \in Nodes \ {n} : Untouched(m)
<1>1. job[n][w].pc # "idle"
  BY DEF Continue, UploadClash, UploadStore, Clear, AddGenesis, CheckPasses,
     CheckFails, KeyFails, AddQuietly, AddNode, RemoveNode, AddFile, RemoveFile,
     Append_, Invite, Invited, Raise, Save, Open, Write, Serve, Tell, Told, At
<1>2. /\ job \in [Nodes -> [Workers -> Job]] /\ chain \in [Nodes -> Seq(Hashes)]
      /\ chainFile \in [Nodes -> {NoFile} \cup Seq(Hashes)]
      /\ mode \in [Nodes -> {"down", "boot", "up"}]
      /\ members \in [Nodes -> SUBSET Nodes]
      /\ files \in [Nodes -> SUBSET Files]
      /\ keys \in [Nodes -> SUBSET Nodes]
      /\ fileFile \in [Nodes -> SUBSET Files]
  BY TypeInvParts DEF JobsOK, ChainsOK, ChainFilesOK, OthersOK
<1>3. ASSUME NEW m \in Nodes \ {n}
      PROVE  Untouched(m)
  <2>1. CASE UploadClash(n, w) \/ CheckPasses(n, w) \/ CheckFails(n, w)
               \/ KeyFails(n, w) \/ Invite(n, w) \/ Invited(n, w)
    BY <1>2, <2>1 DEF UploadClash, CheckPasses, CheckFails, KeyFails, Invite,
       Invited, Goto, Becomes, memory, disk, Untouched
  <2>2. CASE UploadStore(n, w)
    BY <1>2, <2>2 DEF UploadStore, Goto, Becomes, Untouched
  <2>3. CASE Clear(n, w) \/ AddGenesis(n, w)
    BY <1>2, <2>3 DEF Clear, AddGenesis, Goto, Becomes, disk, Untouched
  <2>4. CASE AddQuietly(n, w) \/ AddNode(n, w) \/ RemoveNode(n, w)
               \/ AddFile(n, w) \/ RemoveFile(n, w)
    BY <1>2, <2>4 DEF AddQuietly, AddNode, RemoveNode, AddFile, RemoveFile,
       Append_, Goto, Becomes, Untouched
  <2>5. CASE Raise(n, w)
    BY <1>2, <2>5, HaltTouches DEF Raise, Goto, Becomes, memory, disk, Untouched
  <2>6. CASE Save(n, w) \/ Open(n, w) \/ Write(n, w)
    BY <1>2, <2>6 DEF Save, Open, Write, Goto, Becomes, memory, disk, Untouched
  <2>7. CASE Serve(n, w) \/ Tell(n, w) \/ Told(n, w)
    BY <1>2, <2>7 DEF Serve, Tell, Told, Goto, Becomes, memory, disk, Untouched
  <2> QED
    BY <2>1, <2>2, <2>3, <2>4, <2>5, <2>6, <2>7 DEF Continue
<1> QED
  BY <1>1, <1>3

LEMMA ReceiveTouches ==
  ASSUME TypeInv, NEW n \in Nodes, NEW w \in Workers, 
         Receive(n, w) \/ \E f \in Files : Upload(n, w, f)
  PROVE  /\ mode[n] = "up" /\ job[n][w].pc = "idle"
         /\ \A m \in Nodes \ {n} : Untouched(m)
         /\ UNCHANGED <<minted, mode, memory, disk, crashes>>
  BY TypeInvParts
     DEF Receive, RefuseBlock, AddBlock, RefuseOverwrite, OverwriteBlockchain,
         Takes, Upload, At, Becomes, memory, disk, Untouched, JobsOK

LEMMA BootTouches ==
  ASSUME TypeInv, NEW n \in Nodes, BootFresh(n) \/ BootSaved(n) \/ Crash(n)
  PROVE  /\ \A m \in Nodes \ {n} : Untouched(m)
         /\ UNCHANGED disk
<1>1. /\ job \in [Nodes -> [Workers -> Job]] /\ chain \in [Nodes -> Seq(Hashes)]
      /\ mode \in [Nodes -> {"down", "boot", "up"}]
      /\ files \in [Nodes -> SUBSET Files]
  BY TypeInvParts DEF JobsOK, ChainsOK, OthersOK
<1>2. CASE BootFresh(n)
  BY <1>1, <1>2 DEF BootFresh, disk, Untouched
<1>3. CASE BootSaved(n)
  BY <1>1, <1>3 DEF BootSaved, Becomes, disk, Untouched
<1>4. CASE Crash(n)
  BY <1>4, HaltTouches DEF Crash, disk
<1> QED
  BY <1>2, <1>3, <1>4

-----------------------------------------------------------------------------
(* What a node has of the blocks on its chain, for any number of workers. *)

LEMMA KeptShortened ==
  ASSUME ChainsOK, Grows, NEW n \in Nodes, KeptOK(n), NEW k \in 0 .. Len(chain[n]),
         chain'[n] = SubSeq(chain[n], 1, k),
         keys[n] \subseteq keys'[n], files[n] \subseteq files'[n]
  PROVE  KeptOK(n)'
<1> DEFINE c == SubSeq(chain[n], 1, k)
<1>1. chain[n] \in Seq(Hashes) /\ Len(chain[n]) \in Nat
  BY DEF ChainsOK
<1>2. Len(c) = k /\ \A i \in 1 .. k : c[i] = chain[n][i] /\ c[i] \in Hashes
  BY <1>1, SubSeqProperties
<1>3. \A i \in 1 .. k : minted'[c[i]] = minted[chain[n][i]]
  BY <1>2 DEF Grows
<1> HIDE DEF c
<1>4. /\ \A i \in 2 .. k : minted'[c[i]].creator \in keys'[n]
      /\ \A i \in 1 .. k : minted'[c[i]].action = "add_file" =>
                            minted'[c[i]].data \in files'[n]
  <2>1. ASSUME NEW i \in 1 .. k
        PROVE  /\ i >= 2 => minted'[c[i]].creator \in keys'[n]
               /\ minted'[c[i]].action = "add_file" => minted'[c[i]].data \in files'[n]
    BY <1>1, <1>3 DEF KeptOK
  <2> QED
    BY <2>1
<1> QED
  BY <1>2, <1>4 DEF KeptOK, c

LEMMA KeptStays ==
  ASSUME ChainsOK, Grows, NEW n \in Nodes, KeptOK(n), chain'[n] = chain[n],
         keys[n] \subseteq keys'[n], files[n] \subseteq files'[n]
  PROVE  KeptOK(n)'
<1>1. chain[n] = SubSeq(chain[n], 1, Len(chain[n])) /\ Len(chain[n]) \in Nat
  BY SubSeqFull DEF ChainsOK
<1> QED
  BY <1>1, KeptShortened

LEMMA KeptNone ==
  ASSUME NEW n \in Nodes, chain'[n] = <<>>
  PROVE  KeptOK(n)'
  BY DEF KeptOK

LEMMA KeptOne ==
  ASSUME NEW n \in Nodes, NEW h, chain'[n] = <<h>>, minted'[h].action # "add_file"
  PROVE  KeptOK(n)'
  BY DEF KeptOK

LEMMA KeptAppended ==
  ASSUME ChainsOK, Grows, NEW n \in Nodes, KeptOK(n), NEW h \in Hashes,
         chain'[n] = Append(chain[n], h), minted[h].creator \in keys'[n],
         minted[h].action = "add_file" => minted[h].data \in files'[n],
         keys[n] \subseteq keys'[n], files[n] \subseteq files'[n]
  PROVE  KeptOK(n)'
<1> DEFINE c == Append(chain[n], h)
           l == Len(chain[n])
<1>1. chain[n] \in Seq(Hashes) /\ l \in Nat
  BY DEF ChainsOK
<1>2. /\ Len(c) = l + 1 /\ c[l + 1] = h
      /\ \A i \in 1 .. l : c[i] = chain[n][i] /\ c[i] \in Hashes
  BY <1>1, AppendProperties
<1>3. \A i \in 1 .. l + 1 : minted'[c[i]] = minted[c[i]]
  BY <1>1, <1>2 DEF Grows
<1> HIDE DEF c, l
<1>4. /\ \A i \in 2 .. l + 1 : minted[c[i]].creator \in keys'[n]
      /\ \A i \in 1 .. l + 1 : minted[c[i]].action = "add_file" =>
                                minted[c[i]].data \in files'[n]
  <2>1. ASSUME NEW i \in 1 .. l
        PROVE  /\ i >= 2 => minted[c[i]].creator \in keys'[n]
               /\ minted[c[i]].action = "add_file" => minted[c[i]].data \in files'[n]
    BY <1>1, <1>2 DEF KeptOK, l
  <2> QED
    BY <1>1, <1>2, <2>1
<1> QED
  BY <1>1, <1>2, <1>3, <1>4 DEF KeptOK, c

\* The steps that add a block.
LEMMA AddingKeeps ==
  ASSUME TypeInv, NEW n \in Nodes, NEW w \in Workers, KeptOK(n), Append_(n, w),
         \/ AddQuietly(n, w) \/ AddNode(n, w) \/ RemoveNode(n, w)
         \/ AddFile(n, w) \/ RemoveFile(n, w)
  PROVE  KeptOK(n)'
<1> DEFINE h == job[n][w].blk
<1> USE TypeInvParts
<1>1. /\ h \in Hashes /\ chain'[n] = Append(chain[n], h)
      /\ keys'[n] = keys[n] \cup {minted[h].creator}
  BY DEF Append_, At, Adding, JobsOK, JobKnown, Holds, ChainsOK, OthersOK
<1>2. Grows
  BY UnchangedGrows DEF Append_
<1>3. files[n] \subseteq files'[n]
  BY DEF AddQuietly, AddNode, RemoveNode, AddFile, RemoveFile, OthersOK
<1>4. minted[h].action = "add_file" => minted[h].data \in files'[n]
  BY DEF AddQuietly, AddNode, RemoveNode, AddFile, RemoveFile, OthersOK,
     Operates, Adding, FileMethods
<1> QED
  BY <1>1, <1>2, <1>3, <1>4, KeptAppended

LEMMA ContinueKeeps ==
  ASSUME TypeInv, NEW n \in Nodes, NEW w \in Workers, KeptOK(n), Continue(n, w)
  PROVE  KeptOK(n)'
<1> USE TypeInvParts
<1>1. Grows
  BY NextGrows DEF Next
<1>2. CASE UploadStore(n, w)
  BY <1>1, <1>2, KeptStays DEF UploadStore, OthersOK
<1>3. CASE Clear(n, w)
  <2> DEFINE c == chain[n]
             drop == minted[TopBlock(c)].number + 1
  <2>1. CASE c = <<>> \/ drop > Len(c)
    BY <1>3, <2>1, KeptNone DEF Clear, ChainsOK
  <2>2. CASE ~(c = <<>> \/ drop > Len(c))
    <3>1. minted[TopBlock(c)] \in BlockData
      BY <2>2, TopIsHash DEF ChainsOK, Hashes
    <3>2. drop \in 1 .. Len(c) /\ Len(c) \in Nat
      BY <2>2, <3>1 DEF BlockData, NodeBlock, FileBlock, ChainsOK
    <3>3. /\ chain'[n] = SubSeq(c, 1, Len(c) - drop)
          /\ UNCHANGED <<keys, files>>
      BY <1>3, <2>2 DEF Clear, ChainsOK, disk
    <3>4. Len(c) - drop \in 0 .. Len(c)
      BY <3>2
    <3> HIDE DEF drop
    <3> QED
      BY <1>1, <3>3, <3>4, KeptShortened
  <2> QED
    BY <2>1, <2>2
<1>4. CASE AddGenesis(n, w)
  <2>1. UNCHANGED <<minted, keys, files>>
    BY <1>4 DEF AddGenesis, disk
  <2>2. CASE Adding(n, w).action = "add_node"
    <3>1. chain'[n] = <<job[n][w].blk>>
      BY <1>4, <2>2 DEF AddGenesis, ChainsOK
    <3>2. minted'[job[n][w].blk].action # "add_file"
      BY <2>1, <2>2 DEF Adding
    <3> QED
      BY <3>1, <3>2, KeptOne
  <2>3. CASE Adding(n, w).action # "add_node"
    BY <1>1, <1>4, <2>1, <2>3, KeptStays DEF AddGenesis
  <2> QED
    BY <2>2, <2>3
<1>5. CASE AddQuietly(n, w) \/ AddNode(n, w) \/ RemoveNode(n, w)
             \/ AddFile(n, w) \/ RemoveFile(n, w)
  BY <1>5, AddingKeeps DEF AddQuietly, AddNode, RemoveNode, AddFile, RemoveFile
<1>6. CASE Raise(n, w)
  <2>1. CASE Halt(n)
    BY <2>1, KeptNone DEF Halt, ChainsOK
  <2>2. CASE UNCHANGED <<mode, memory>>
    BY <1>1, <1>6, <2>2, KeptStays DEF Raise, memory, disk
  <2> QED
    BY <1>6, <2>1, <2>2 DEF Raise
<1>7. CASE UNCHANGED <<chain, keys, files>>
  BY <1>1, <1>7, KeptStays
<1> QED
  BY <1>2, <1>3, <1>4, <1>5, <1>6, <1>7
     DEF Continue, UploadClash, CheckPasses, CheckFails, KeyFails, Invite,
         Invited, Save, Open, Write, Serve, Tell, Told, memory, disk

LEMMA NextKeeps ==
  ASSUME TypeInv, KeptInv, [Next]_vars
  PROVE  KeptInv'
<1> USE TypeInvParts
<1>1. Grows
  BY NextGrows
<1>2. ASSUME NEW m \in Nodes, Untouched(m)
      PROVE  KeptOK(m)' /\ DownOK(m)'
  BY <1>1, <1>2, KeptStays DEF Untouched, KeptInv, DownOK, At
<1>3. ASSUME NEW n \in Nodes, NEW w \in Workers, Continue(n, w)
      PROVE  KeptInv'
  <2>1. KeptOK(n)'
    BY <1>3, ContinueKeeps DEF KeptInv
  <2>2. mode[n] # "down"
    BY <1>3, ContinueTouches DEF KeptInv, DownOK, At
  <2>3. DownOK(n)'
    <3>1. CASE Halt(n)
      BY <3>1 DEF Halt, DownOK, At, Idle, ChainsOK, JobsOK
    <3>2. CASE UNCHANGED mode
      BY <2>2, <3>2 DEF DownOK
    <3>3. CASE Serve(n, w)
      BY <3>3 DEF Serve, DownOK, OthersOK
    <3> QED
      BY <1>3, <3>1, <3>2, <3>3
         DEF Continue, UploadClash, UploadStore, Clear, AddGenesis, CheckPasses,
             CheckFails, KeyFails, AddQuietly, AddNode, RemoveNode, AddFile,
             RemoveFile, Append_, Invite, Invited, Raise, Save, Open, Write,
             Tell, Told
  <2> QED
    BY <1>2, <1>3, <2>1, <2>3, ContinueTouches DEF KeptInv
<1>4. ASSUME NEW n \in Nodes, NEW w \in Workers,
             Receive(n, w) \/ \E f \in Files : Upload(n, w, f)
      PROVE  KeptInv'
  <2>1. /\ UNCHANGED <<mode, chain, keys, files>> /\ mode[n] = "up"
        /\ \A m \in Nodes \ {n} : Untouched(m)
    BY <1>4, ReceiveTouches DEF memory, disk
  <2>2. KeptOK(n)' /\ DownOK(n)'
    BY <1>1, <2>1, KeptStays DEF KeptInv, DownOK
  <2> QED
    BY <1>2, <2>1, <2>2 DEF KeptInv
<1>5. ASSUME NEW n \in Nodes, BootFresh(n)
      PROVE  KeptInv'
  <2>1. PICK b \in BlockData : minted' = Append(minted, b) /\ b.action = "add_node"
    BY <1>5, BootSigns
  <2>2. minted'[Len(minted) + 1].action = "add_node"
    BY <2>1, SigningGrows
  <2>3. chain'[n] = <<Len(minted) + 1>> /\ mode'[n] = "up"
    BY <1>5 DEF BootFresh, ChainsOK, OthersOK
  <2>4. KeptOK(n)' /\ DownOK(n)'
    BY <2>2, <2>3, KeptOne DEF DownOK
  <2> QED
    BY <1>2, <1>5, <2>4, BootTouches DEF KeptInv
<1>6. ASSUME NEW n \in Nodes, BootSaved(n)
      PROVE  KeptInv'
  <2>1. chain'[n] = <<>> /\ mode'[n] # "down"
    BY <1>6 DEF BootSaved, KeptInv, DownOK, OthersOK
  <2>2. KeptOK(n)' /\ DownOK(n)'
    BY <2>1, KeptNone DEF DownOK
  <2> QED
    BY <1>2, <1>6, <2>2, BootTouches DEF KeptInv
<1>7. ASSUME NEW n \in Nodes, Crash(n)
      PROVE  KeptInv'
  <2>1. chain'[n] = <<>> /\ \A w \in Workers : At(n, w, "idle")'
    BY <1>7 DEF Crash, Halt, ChainsOK, JobsOK, At, Idle
  <2>2. KeptOK(n)' /\ DownOK(n)'
    BY <2>1, KeptNone DEF DownOK
  <2> QED
    BY <1>2, <1>7, <2>2, BootTouches DEF KeptInv
<1>8. ASSUME NEW c \in Nodes, NEW to \in Nodes, OperatorPosts(c, to)
      PROVE  KeptInv'
  <2>1. \A m \in Nodes : Untouched(m)
    BY <1>8 DEF OperatorPosts, Untouched, memory, disk
  <2> QED
    BY <1>2, <2>1 DEF KeptInv
<1>9. CASE UNCHANGED vars
  <2>1. \A m \in Nodes : Untouched(m)
    BY <1>9 DEF vars, Untouched, memory, disk
  <2> QED
    BY <1>2, <2>1 DEF KeptInv
<1> QED
  BY <1>3, <1>4, <1>5, <1>6, <1>7, <1>8, <1>9 DEF Next

LEMMA InitKept == Init => KeptInv
<1> SUFFICES ASSUME Init, NEW n \in Nodes
             PROVE  KeptOK(n) /\ DownOK(n)
  BY DEF KeptInv
<1>1. chain[n] = <<>> /\ \A w \in Workers : At(n, w, "idle")
  BY DEF Init, At, Idle
<1> QED
  BY <1>1 DEF KeptOK, DownOK

LEMMA AlwaysKept == Spec => []KeptInv
<1>1. TypeInv /\ KeptInv /\ [Next]_vars => KeptInv'
  BY NextKeeps
<1> QED
  BY <1>1, InitKept, HashesAreKnown, PTL DEF Spec

\* A node keeps the public key of everybody who signed a block it has added,
\* with any number of workers and through crashes, because Blockchain.add asks
\* Key.get_key before it appends and get_key saves what it is answered.
THEOREM LedgerKeysHeld == Spec => []KeysHeld
<1>1. KeptInv => KeysHeld
  BY DEF KeptInv, KeptOK, KeysHeld
<1> QED
  BY <1>1, AlwaysKept, PTL

\* A file whose add_file block is on the chain of a node is in its file list, with
\* any number of workers: add lists it in the step that appends the block, also
\* when blocks are loaded, and nothing takes a file out.
THEOREM LedgerListsFiles == Spec => []FilesFollowChain
<1>1. TypeInv /\ KeptInv => FilesFollowChain
  BY TypeInvParts DEF KeptInv, KeptOK, FilesFollowChain, On, ChainsOK
<1> QED
  BY <1>1, AlwaysKept, HashesAreKnown, PTL

-----------------------------------------------------------------------------
(* With one worker to a node. *)

\* A chain that is longer than one block only grows.
LEMMA ChainsOnlyGrow ==
  ASSUME TypeInv, KeptInv, [Chains!Next]_(Chains!vars), NEW n \in Nodes,
         Len(chain[n]) > 1, mode'[n] # "down"
  PROVE  /\ Len(chain'[n]) >= Len(chain[n])
         /\ SubSeq(chain'[n], 1, Len(chain[n])) = chain[n]
<1> DEFINE c == chain[n]
<1>1. c \in Seq(Hashes) /\ Len(c) \in Nat /\ SubSeq(c, 1, Len(c)) = c
  BY TypeInvParts, SubSeqFull DEF ChainsOK
<1>2. n \in running /\ n \in running'
  <2>1. c # <<>>
    OBVIOUS
  <2> QED
    BY <2>1 DEF running, KeptInv, DownOK
<1>3. CASE chain'[n] = c
  BY <1>1, <1>3
<1>4. ASSUME NEW h \in Hashes, chain'[n] = Append(c, h)
      PROVE  /\ Len(chain'[n]) >= Len(c)
             /\ SubSeq(chain'[n], 1, Len(c)) = c
  <2>1. Len(chain'[n]) = Len(c) + 1
    BY <1>1, <1>4, AppendProperties
  <2>2. Append(c, h) = c \o <<h>> /\ <<h>> \in Seq(Hashes)
    BY <1>1, AppendIsConcat
  <2>3. SubSeq(c \o <<h>>, 1, Len(c)) = SubSeq(c, 1, Len(c))
    BY <1>1, <2>2, SubSeqOfConcat1
  <2> QED
    BY <1>1, <1>4, <2>1, <2>2, <2>3
<1>5. \/ chain'[n] = c
      \/ \E h \in Hashes : chain'[n] = Append(c, h)
  <2>1. ASSUME NEW m \in Nodes, NEW h \in 1 .. Len(minted), Chains!Begin(m, h)
        PROVE  chain'[n] = c
    BY <2>1, TypeInvParts DEF Chains!Begin, ChainsOK
  <2>2. ASSUME NEW m \in Nodes, NEW h \in 1 .. Len(minted), Chains!Extend(m, h)
        PROVE  chain'[n] = c \/ (chain'[n] = Append(c, h) /\ h \in Hashes)
    BY <2>2, TypeInvParts DEF Chains!Extend, ChainsOK, Hashes
  <2>3. ASSUME NEW m \in Nodes, Chains!StartFresh(m) \/ Chains!StartSaved(m)
        PROVE  chain'[n] = c
    BY <1>2, <2>3, TypeInvParts DEF Chains!StartFresh, Chains!StartSaved, ChainsOK,
       running
  <2>4. ASSUME NEW m \in Nodes, Chains!Reset(m)
        PROVE  chain'[n] = c
    BY <2>4, TypeInvParts DEF Chains!Reset, ChainsOK
  <2>5. ASSUME NEW m \in Nodes, Chains!Stop(m)
        PROVE  chain'[n] = c
    BY <1>2, <2>5, TypeInvParts DEF Chains!Stop, ChainsOK, running
  <2>6. CASE UNCHANGED Chains!vars
    BY <2>6 DEF Chains!vars
  <2> QED
    BY <2>1, <2>2, <2>3, <2>4, <2>5, <2>6 DEF Chains!Next, Chains!Mint
<1> QED
  BY <1>3, <1>4, <1>5

\* While a node runs, a chain of two blocks or more loses none of them:
\* overwrite_blockchain only ever drops a genesis block.
THEOREM LedgerAppendOnly == SingleWorker => (Spec => AppendOnly)
<1> SUFFICES ASSUME SingleWorker
             PROVE  Spec => AppendOnly
  OBVIOUS
<1> DEFINE Grown(n) == (Len(chain[n]) > 1 /\ mode'[n] # "down") =>
                         /\ Len(chain'[n]) >= Len(chain[n])
                         /\ SubSeq(chain'[n], 1, Len(chain[n])) = chain[n]
<1>1. TypeInv /\ ChainInv /\ KeptInv /\ [Next]_vars => [\A n \in Nodes : Grown(n)]_vars
  <2> SUFFICES ASSUME TypeInv, ChainInv, KeptInv, [Next]_vars, NEW n \in Nodes
               PROVE  Grown(n)
    OBVIOUS
  <2> QED
    BY NextRefines, ChainsOnlyGrow
<1> QED
  BY <1>1, HashesAreKnown, ReadsAreNotStale, AlwaysKept, PTL DEF Spec, AppendOnly

-----------------------------------------------------------------------------
(* How a worker moves on. *)

\* It goes to pc with what it had.
Moved(j, k, pc) ==
  /\ k.pc = pc /\ k.kind = j.kind /\ k.name = j.name /\ k.blk = j.blk
  /\ k.todo = j.todo /\ k.out = j.out /\ k.tell = j.tell

\* It takes the next block of its stream.
TakesNext(j, k) ==
  /\ j.todo # <<>> /\ k.pc = "check" /\ k.blk = Head(j.todo)
  /\ k.todo = Tail(j.todo) /\ k.kind = j.kind /\ k.out = j.out

LEMMA BecomesIs ==
  ASSUME TypeInv, NEW n \in Nodes, NEW w \in Workers, NEW k, Becomes(n, w, k)
  PROVE  job'[n][w] = k
  BY TypeInvParts DEF Becomes, JobsOK

LEMMA IdleIs == Idle.pc = "idle" /\ Idle.kind = "none" /\ Idle.todo = <<>>
  BY DEF Idle

LEMMA GotoMoves ==
  ASSUME TypeInv, NEW n \in Nodes, NEW w \in Workers, NEW pc, Goto(n, w, pc)
  PROVE  Moved(job[n][w], job'[n][w], pc)
<1>1. job[n][w] \in Job
  BY TypeInvParts DEF JobsOK
<1>2. job'[n][w] = [job[n][w] EXCEPT !.pc = pc]
  BY BecomesIs DEF Goto
<1> QED
  BY <1>1, <1>2 DEF Moved, Job

LEMMA LoadNextMoves ==
  ASSUME NEW j \in Job, j.todo # <<>>
  PROVE  TakesNext(j, LoadNext(j))
  BY DEF LoadNext, TakesNext, Job

LEMMA AfterAddMoves ==
  ASSUME NEW j \in Job
  PROVE  \/ TakesNext(j, AfterAdd(j))
         \/ /\ j.todo = <<>>
            /\ Moved(j, AfterAdd(j), IF j.kind = "boot" THEN "serve" ELSE "save")
<1>1. CASE j.todo # <<>>
  BY <1>1, LoadNextMoves DEF AfterAdd
<1>2. CASE j.todo = <<>>
  BY <1>2 DEF AfterAdd, Moved, Job
<1> QED
  BY <1>1, <1>2

\* It has told some of the peers.
LEMMA TellingMoves ==
  ASSUME TypeInv, NEW n \in Nodes, NEW w \in Workers, Write(n, w) \/ Told(n, w)
  PROVE  \/ /\ job'[n][w].pc = "tell" /\ job'[n][w].kind = job[n][w].kind
            /\ job'[n][w].todo = job[n][w].todo
         \/ job'[n][w].pc = "idle" /\ job'[n][w].kind = "none"
<1> DEFINE j == job[n][w]
           k == job'[n][w]
           Same(i) == i.kind = j.kind /\ i.todo = j.todo
           Done == \/ k.pc = "tell" /\ Same(k)
                   \/ k.pc = "idle" /\ k.kind = "none"
<1>1. j \in Job
  BY TypeInvParts DEF JobsOK
<1>2. ASSUME NEW i \in Job, Becomes(n, w, Telling(i)), Same(i)
      PROVE  Done
  <2>1. \/ /\ Telling(i).pc = "tell" /\ Telling(i).kind = i.kind
           /\ Telling(i).todo = i.todo
        \/ Telling(i).pc = "idle" /\ Telling(i).kind = "none"
    BY IdleIs DEF Telling, Job
  <2> QED
    BY <1>2, <2>1, BecomesIs
<1>3. ASSUME Becomes(n, w, Idle)
      PROVE  Done
  BY <1>3, BecomesIs, IdleIs
<1>4. CASE Write(n, w)
  <2> DEFINE l == [j EXCEPT !.out = <<>>]
  <2>1. l \in Job /\ Same(l)
    <3>1. <<>> \in Seq(Nat)
      OBVIOUS
    <3>2. ASSUME NEW e \in Seq(Nat)
          PROVE  [j EXCEPT !.out = e] \in Job /\ Same([j EXCEPT !.out = e])
      BY <1>1 DEF Job
    <3> QED
      BY <3>1, <3>2
  <2> HIDE DEF l
  <2>2. ASSUME NEW P \in Picks(n)
        PROVE  [l EXCEPT !.tell = P] \in Job /\ Same([l EXCEPT !.tell = P])
    <3>1. P \in Seq(Nodes)
      BY PickIsSeq
    <3> QED
      BY <2>1, <3>1 DEF Job
  <2>3. \/ \E P \in Picks(n) : Becomes(n, w, Telling([l EXCEPT !.tell = P]))
        \/ Becomes(n, w, Telling(l))
        \/ Becomes(n, w, Idle)
    BY <1>4 DEF Write, l
  <2> QED
    BY <1>2, <1>3, <2>1, <2>2, <2>3
<1>5. CASE Told(n, w)
  <2> DEFINE l == [j EXCEPT !.tell = Tail(@)]
  <2>1. Becomes(n, w, Idle) \/ (Becomes(n, w, Telling(l)) /\ j.tell # <<>>)
    BY <1>5, TypeInvParts DEF Told, At, JobsOK, JobKnown
  <2>2. j.tell # <<>> => l \in Job /\ Same(l)
    <3>1. j.tell # <<>> => Tail(j.tell) \in Seq(Nodes)
      BY <1>1, HeadAndTail DEF Job
    <3> QED
      BY <1>1, <3>1 DEF Job
  <2> HIDE DEF l
  <2> QED
    BY <1>2, <1>3, <2>1, <2>2
<1> QED
  BY <1>4, <1>5

\* It serves the same request, or has done with it.
LEMMA KindsStay ==
  ASSUME TypeInv, NEW n \in Nodes, NEW w \in Workers, Continue(n, w)
  PROVE  job'[n][w].kind \in {job[n][w].kind, "none"}
<1> DEFINE j == job[n][w]
           k == job'[n][w]
<1>1. j \in Job
  BY TypeInvParts DEF JobsOK
<1>2. ASSUME NEW pc, Goto(n, w, pc)
      PROVE  k.kind = j.kind
  BY <1>2, GotoMoves DEF Moved
<1>3. ASSUME Becomes(n, w, AfterAdd(j))
      PROVE  k.kind = j.kind
  BY <1>1, <1>3, BecomesIs, AfterAddMoves DEF TakesNext, Moved
<1>4. ASSUME Becomes(n, w, Idle)
      PROVE  k.kind = "none"
  BY <1>4, BecomesIs, IdleIs
<1>5. ASSUME NEW i \in Job
      PROVE  Telling(i).kind \in {i.kind, "none"}
  BY IdleIs DEF Telling, Job
<1>6. CASE UploadStore(n, w)
  <2>1. ASSUME NEW P \in Picks(n),
               Becomes(n, w, [j EXCEPT !.pc = "check", !.blk = Len(minted) + 1,
                                       !.tell = P])
        PROVE  k.kind = j.kind
    BY <1>1, <2>1, BecomesIs DEF Job
  <2> QED
    BY <1>2, <1>6, <2>1 DEF UploadStore
<1>7. CASE Clear(n, w)
  <2>1. Becomes(n, w, LoadNext(j)) => k.kind = j.kind
    BY <1>1, BecomesIs DEF LoadNext, Job
  <2> QED
    BY <1>2, <1>7, <2>1 DEF Clear
<1>8. CASE Raise(n, w)
  <2>1. Halt(n) => k = Idle
    BY TypeInvParts DEF Halt, JobsOK
  <2> QED
    BY <1>2, <1>4, <1>8, <2>1, IdleIs DEF Raise
<1>9. CASE Save(n, w)
  <2>1. ASSUME NEW e, Becomes(n, w, [j EXCEPT !.pc = "open", !.out = e])
        PROVE  k.kind = j.kind
    BY <1>1, <2>1, BecomesIs DEF Job
  <2> QED
    BY <1>4, <1>9, <2>1 DEF Save
<1>10. CASE Write(n, w) \/ Told(n, w)
  BY <1>10, TellingMoves
<1> QED
  BY <1>2, <1>3, <1>4, <1>6, <1>7, <1>8, <1>9, <1>10
     DEF Continue, UploadClash, AddGenesis, CheckPasses, CheckFails, KeyFails,
         AddQuietly, AddNode, RemoveNode, AddFile, RemoveFile, Invite, Invited,
         Open, Serve, Tell
             
\* Only a worker that was loading at the start gets to where it serves.
LEMMA NeverServes ==
  ASSUME TypeInv, NEW n \in Nodes, NEW w \in Workers, Continue(n, w),
         job[n][w].kind # "boot"
  PROVE  job'[n][w].pc # "serve"
<1> DEFINE j == job[n][w]
           k == job'[n][w]
<1>1. j \in Job
  BY TypeInvParts DEF JobsOK
<1>2. ASSUME NEW pc, Goto(n, w, pc), pc # "serve"
      PROVE  k.pc # "serve"
  BY <1>2, GotoMoves DEF Moved
<1>3. ASSUME Becomes(n, w, AfterAdd(j))
      PROVE  k.pc # "serve"
  BY <1>1, <1>3, BecomesIs, AfterAddMoves DEF TakesNext, Moved
<1>4. ASSUME Becomes(n, w, Idle)
      PROVE  k.pc # "serve"
  BY <1>4, BecomesIs, IdleIs
<1>5. CASE UploadStore(n, w)
  <2>1. ASSUME NEW P \in Picks(n),
               Becomes(n, w, [j EXCEPT !.pc = "check", !.blk = Len(minted) + 1,
                                       !.tell = P])
        PROVE  k.pc = "check"
    BY <1>1, <2>1, BecomesIs DEF Job
  <2> QED
    BY <1>2, <1>5, <2>1 DEF UploadStore
<1>6. CASE Clear(n, w)
  <2>1. Becomes(n, w, LoadNext(j)) => k.pc = "check"
    BY <1>1, BecomesIs DEF LoadNext, Job
  <2> QED
    BY <1>2, <1>6, <2>1 DEF Clear
<1>7. CASE Raise(n, w)
  BY <1>2, <1>4, <1>7 DEF Raise
<1>8. CASE Save(n, w)
  <2>1. ASSUME NEW e, Becomes(n, w, [j EXCEPT !.pc = "open", !.out = e])
        PROVE  k.pc = "open"
    BY <1>1, <2>1, BecomesIs DEF Job
  <2> QED
    BY <1>4, <1>8, <2>1 DEF Save
<1>9. CASE Write(n, w) \/ Told(n, w)
  BY <1>9, TellingMoves
<1> QED
  BY <1>2, <1>3, <1>4, <1>5, <1>6, <1>7, <1>8, <1>9
     DEF Continue, UploadClash, AddGenesis, CheckPasses, CheckFails, KeyFails,
         AddQuietly, AddNode, RemoveNode, AddFile, RemoveFile, Invite, Invited,
         Open, Serve, Tell

\* After the steps that do not save a chain or tell anybody of it, the worker is
\* not at one that does.
LEMMA NotSavingYet ==
  ASSUME TypeInv, NEW n \in Nodes, NEW w \in Workers, Continue(n, w)
  PROVE  \/ job'[n][w].pc \notin {"open", "write", "tell", "wait"} /\
            chainFile'[n] = chainFile[n]
         \/ Save(n, w) \/ Open(n, w) \/ Write(n, w) \/ Tell(n, w) \/ Told(n, w)
<1> DEFINE j == job[n][w]
           k == job'[n][w]
<1>1. j \in Job
  BY TypeInvParts DEF JobsOK
<1>2. AfterAdd(j).pc \in {"check", "serve", "save"}
  BY <1>1, AfterAddMoves DEF TakesNext, Moved
<1>3. CASE UploadClash(n, w) \/ CheckPasses(n, w) \/ CheckFails(n, w) \/ KeyFails(n, w)
  BY <1>3, GotoMoves DEF UploadClash, CheckPasses, CheckFails, KeyFails, Moved, disk
<1>4. CASE UploadStore(n, w)
  <2>1. UNCHANGED chainFile
    BY <1>4 DEF UploadStore
  <2>2. CASE Goto(n, w, "raise")
    BY <2>1, <2>2, GotoMoves DEF Moved
  <2>3. ASSUME NEW P \in Picks(n), 
               Becomes(n, w, [j EXCEPT !.pc = "check", !.blk = Len(minted) + 1,
                                       !.tell = P])
        PROVE  k.pc = "check"
    BY <1>1, <2>3, BecomesIs DEF Job
  <2> QED
    BY <1>4, <2>1, <2>2, <2>3 DEF UploadStore
<1>5. CASE Clear(n, w)
  <2>1. UNCHANGED chainFile
    BY <1>5 DEF Clear, disk
  <2>2. CASE Goto(n, w, "raise")
    BY <2>1, <2>2, GotoMoves DEF Moved
  <2>3. CASE Becomes(n, w, LoadNext(j))
    <3>1. LoadNext(j).pc = "check"
      BY <1>1 DEF LoadNext, Job
    <3> QED
      BY <2>1, <2>3, <3>1, BecomesIs
  <2> QED
    BY <1>5, <2>2, <2>3 DEF Clear
<1>6. CASE AddGenesis(n, w)
  BY <1>2, <1>6, BecomesIs DEF AddGenesis, disk
<1>7. CASE AddQuietly(n, w) \/ RemoveNode(n, w) \/ AddFile(n, w)
  BY <1>2, <1>7, BecomesIs DEF AddQuietly, RemoveNode, AddFile, Append_
<1>8. CASE AddNode(n, w) \/ RemoveFile(n, w)
  <2>1. chainFile'[n] = chainFile[n]
    BY <1>8 DEF AddNode, RemoveFile, Append_
  <2>2. \/ Becomes(n, w, AfterAdd(j)) \/ Goto(n, w, "invite") \/ Goto(n, w, "raise")
    BY <1>8 DEF AddNode, RemoveFile
  <2> QED
    BY <1>2, <2>1, <2>2, BecomesIs, GotoMoves DEF Moved
<1>9. CASE Invite(n, w)
  <2>1. Goto(n, w, "invited") \/ Goto(n, w, "raise")
    BY <1>9 DEF Invite
  <2> QED
    BY <1>9, <2>1, GotoMoves DEF Invite, Moved, disk
<1>10. CASE Invited(n, w)
  BY <1>2, <1>10, BecomesIs DEF Invited
<1>11. CASE Raise(n, w)
  <2>1. chainFile'[n] = chainFile[n]
    BY <1>11 DEF Raise, disk
  <2>2. k.pc \in {"save", "idle"}
    <3>1. Halt(n) => k = Idle
      BY TypeInvParts DEF Halt, JobsOK
    <3>2. Goto(n, w, "save") \/ Becomes(n, w, Idle) \/ Halt(n)
      BY <1>11 DEF Raise
    <3> QED
      BY <3>1, <3>2, GotoMoves, BecomesIs, IdleIs DEF Moved
  <2> QED
    BY <2>1, <2>2
<1>12. CASE Serve(n, w)
  BY <1>12, BecomesIs, IdleIs DEF Serve, disk
<1> QED
  BY <1>3, <1>4, <1>5, <1>6, <1>7, <1>8, <1>9, <1>10, <1>11, <1>12 DEF Continue

-----------------------------------------------------------------------------
(* What is on the disk. *)

LEMMA LoadableStays ==
  ASSUME ChainsOK, Grows, NEW K, NEW L, K \subseteq L, NEW c \in Seq(Hashes),
         Loadable(minted, K, c)
  PROVE  Loadable(minted', L, c)
<1>1. Len(c) \in Nat /\ \A i \in 1 .. Len(c) : c[i] \in Hashes /\ minted'[c[i]] = minted[c[i]]
  BY DEF Grows
<1>2. ASSUME NEW i \in 2 .. Len(c)
      PROVE  /\ minted'[c[i]] = minted[c[i]] /\ minted'[c[i - 1]] = minted[c[i - 1]]
             /\ i \in 1 .. Len(c)
  BY <1>1
<1>3. WellFormed(minted', c)
  BY <1>1, <1>2 DEF Loadable, WellFormed, Follows
<1>4. \A i \in 2 .. Len(c) : minted'[c[i]].creator \in L
  BY <1>2 DEF Loadable
<1> QED
  BY <1>3, <1>4 DEF Loadable

LEMMA FileStaysLoadable ==
  ASSUME TypeInv, Grows, NEW n \in Nodes, SavedOK(n), chainFile'[n] = chainFile[n],
         keys[n] \subseteq keys'[n]
  PROVE  chainFile'[n] # NoFile => Loadable(minted', keys'[n], chainFile'[n])
<1>1. chainFile[n] # NoFile => chainFile[n] \in Seq(Hashes)
  BY TypeInvParts DEF ChainFilesOK
<1> QED
  BY <1>1, TypeInvParts, LoadableStays DEF SavedOK

\* What get_blocks_data reads is the whole chain.
LEMMA ReadsWholeChain ==
  ASSUME TypeInv, ChainWellFormed, NEW n \in Nodes, chain[n] # <<>>
  PROVE  GetBlocksData(minted, chain[n]) = chain[n] /\ Serialisable(minted, chain[n])
<1> DEFINE c == chain[n]
<1>1. c \in Seq(Hashes) /\ Len(c) \in Nat \ {0}
  BY TypeInvParts, TopIsHash DEF ChainsOK
<1>2. minted[c[Len(c)]].number = Len(c) - 1
  BY <1>1 DEF ChainWellFormed, WellFormed
<1>3. SubSeq(c, 1, Len(c)) = c
  BY <1>1, SubSeqFull
<1> QED
  BY <1>1, <1>2, <1>3 DEF GetBlocksData, Serialisable, TopBlock

LEMMA KeysGrow ==
  ASSUME TypeInv, NEW n \in Nodes, NEW w \in Workers, Continue(n, w)
  PROVE  keys[n] \subseteq keys'[n]
<1>1. CASE Append_(n, w)
  BY <1>1, TypeInvParts DEF Append_, OthersOK
<1>2. CASE UNCHANGED keys
  BY <1>2
<1> QED
  BY <1>1, <1>2
     DEF Continue, UploadClash, UploadStore, Clear, AddGenesis, CheckPasses,
         CheckFails, KeyFails, AddQuietly, AddNode, RemoveNode, AddFile, RemoveFile,
         Invite, Invited, Raise, Save, Open, Write, Serve, Tell, Told, disk

\* The bytes that are written into the file it has emptied are its chain.
LEMMA WriteSaves ==
  ASSUME TypeInv, NEW n \in Nodes, NEW w \in Workers, Write(n, w),
         Saving(job[n][w], chain[n], chainFile[n])
  PROVE  /\ chainFile'[n] = chain[n]
         /\ UNCHANGED <<minted, mode, chain, keys>>
<1> DEFINE c == chain[n]
<1>1. /\ job[n][w].out = c /\ chainFile[n] = <<>> /\ c \in Seq(Hashes)
      /\ UNCHANGED <<minted, mode, chain, keys>>
  BY TypeInvParts DEF Write, At, memory, Saving, ChainsOK
<1>2. chainFile'[n] = Overlay(c, <<>>)
  BY <1>1, TypeInvParts DEF Write, ChainFilesOK
<1>3. SubSeq(<<>>, Len(c) + 1, Len(<<>>)) = <<>>
  <2>1. Len(<<>>) = 0 /\ Len(c) \in Nat
    BY <1>1
  <2> QED
    BY <2>1, SubSeqEmpty
<1> QED
  BY <1>1, <1>2, <1>3, ConcatEmptySeq DEF Overlay

LEMMA ContinueSaves ==
  ASSUME SingleWorker, TypeInv, KeptInv, ChainWellFormed, SaveInv,
         NEW n \in Nodes, NEW w \in Workers, Continue(n, w)
  PROVE  SavedOK(n)'
<1> DEFINE j == job[n][w]
           k == job'[n][w]
           c == chain[n]
<1>1. /\ j \in Job /\ SavedOK(n) /\ Saving(j, c, chainFile[n])
      /\ c \in Seq(Hashes) /\ j.out \in Seq(Hashes)
  BY TypeInvParts DEF JobsOK, JobKnown, ChainsOK, SaveInv, SavedOK
<1>2. Grows
  BY NextGrows DEF Next
<1>3. ASSUME chainFile'[n] = chainFile[n], Saving(k, chain'[n], chainFile[n])
      PROVE  SavedOK(n)'
  <2>1. \A v \in Workers : v = w
    BY DEF SingleWorker
  <2>2. chainFile'[n] # NoFile => Loadable(minted', keys'[n], chainFile'[n])
    BY <1>1, <1>2, <1>3, FileStaysLoadable, KeysGrow
  <2> QED
    BY <1>3, <2>1, <2>2 DEF SavedOK
<1>4. CASE /\ k.pc \notin {"open", "write", "tell", "wait"}
           /\ chainFile'[n] = chainFile[n]
  BY <1>3, <1>4 DEF Saving
<1>5. CASE Save(n, w)
  <2>1. /\ chainFile'[n] = chainFile[n] /\ chain'[n] = c /\ j.pc = "save"
    BY <1>5 DEF Save, At, memory, disk
  <2>2. CASE Serialisable(minted, c)
    <3> DEFINE out == GetBlocksData(minted, c)
    <3>1. c # <<>> /\ out = c
      BY <2>2, ReadsWholeChain DEF Serialisable
    <3>2. Becomes(n, w, [j EXCEPT !.pc = "open", !.out = out])
      BY <1>5, <2>2 DEF Save
    <3> HIDE DEF out
    <3>3. k = [j EXCEPT !.pc = "open", !.out = out]
      BY <3>2, BecomesIs
    <3>4. k.pc = "open" /\ k.out = out
      BY <1>1, <3>3 DEF Job
    <3> QED
      BY <1>3, <2>1, <3>1, <3>4 DEF Saving
  <2>3. CASE ~Serialisable(minted, c)
    <3>1. k = Idle
      BY <1>5, <2>3, BecomesIs DEF Save
    <3> QED
      BY <1>3, <2>1, <3>1, IdleIs DEF Saving
  <2> QED
    BY <2>2, <2>3
<1>6. CASE Open(n, w)
  <2>1. j.pc = "open" /\ chainFile'[n] = <<>> /\ chain'[n] = c
    BY <1>6, TypeInvParts DEF Open, At, memory, ChainFilesOK
  <2>2. k.pc = "write" /\ k.out = j.out
    BY <1>6, GotoMoves DEF Open, Moved
  <2>3. Saving(k, chain'[n], chainFile'[n])
    BY <1>1, <2>1, <2>2 DEF Saving
  <2>4. Loadable(minted', keys'[n], <<>>)
    BY DEF Loadable, WellFormed
  <2>5. \A v \in Workers : v = w
    BY DEF SingleWorker
  <2> QED
    BY <2>1, <2>3, <2>4, <2>5 DEF SavedOK
<1>7. CASE Write(n, w)
  <2>1. UNCHANGED <<minted, chain, keys>>
    BY <1>1, <1>7, WriteSaves
  <2>2. chainFile'[n] = c
    BY <1>1, <1>7, WriteSaves
  <2>3. k.pc \in {"tell", "idle"}
    BY <1>7, TellingMoves
  <2>4. Saving(k, chain'[n], chainFile'[n])
    BY <2>1, <2>2, <2>3 DEF Saving
  <2>5. Loadable(minted', keys'[n], c)
    BY <2>1 DEF ChainWellFormed, KeptInv, KeptOK, Loadable
  <2>6. \A v \in Workers : v = w
    BY DEF SingleWorker
  <2> QED
    BY <2>2, <2>4, <2>5, <2>6 DEF SavedOK
<1>8. CASE Tell(n, w) \/ Told(n, w)
  <2>1. /\ chainFile'[n] = chainFile[n] /\ chain'[n] = c /\ j.pc \in {"tell", "wait"}
    BY <1>8 DEF Tell, Told, At, memory, disk
  <2>2. k.pc \in {"tell", "wait", "idle"}
    <3>1. CASE Tell(n, w)
      BY <3>1, GotoMoves, BecomesIs, IdleIs DEF Tell, Moved
    <3>2. CASE Told(n, w)
      BY <3>2, TellingMoves
    <3> QED
      BY <1>8, <3>1, <3>2
  <2>3. Saving(k, chain'[n], chainFile[n])
    BY <1>1, <2>1, <2>2 DEF Saving
  <2> QED
    BY <1>3, <2>1, <2>3
<1> QED
  BY <1>4, <1>5, <1>6, <1>7, <1>8, NotSavingYet

\* A worker that takes up a request.
Begins(n, j) ==
  \/ j.pc = "check" /\ j.kind = "addBlock" /\ j.todo = <<>> /\ chain[n] # <<>>
  \/ j.pc = "clear" /\ j.kind = "overwriteBlockchain" /\ Len(chain[n]) <= 1
  \/ j.pc = "store" /\ j.kind = "upload" /\ j.todo = <<>>

LEMMA RequestsBegin ==
  ASSUME TypeInv, NEW n \in Nodes, NEW w \in Workers,
         Receive(n, w) \/ \E f \in Files : Upload(n, w, f), NEW v \in Workers
  PROVE  job'[n][v] = job[n][v] \/ Begins(n, job'[n][v])
<1>1. ASSUME NEW k, Becomes(n, w, k), Begins(n, k)
      PROVE  job'[n][v] = job[n][v] \/ Begins(n, job'[n][v])
  <2>1. job'[n][v] = IF v = w THEN k ELSE job[n][v]
    BY <1>1, TypeInvParts DEF Becomes, JobsOK
  <2> QED
    BY <1>1, <2>1
<1>2. ASSUME NEW m \in net, AddBlock(n, w, m)
      PROVE  job'[n][v] = job[n][v] \/ Begins(n, job'[n][v])
  <2> DEFINE k == [Idle EXCEPT !.pc = "check", !.kind = "addBlock", !.blk = m.blks[1]]
  <2>1. Begins(n, k) /\ Becomes(n, w, k)
    BY <1>2 DEF AddBlock, Unwelcome, Idle, Begins
  <2> QED
    BY <1>1, <2>1
<1>3. ASSUME NEW m \in net, OverwriteBlockchain(n, w, m)
      PROVE  job'[n][v] = job[n][v] \/ Begins(n, job'[n][v])
  <2> DEFINE k == [Idle EXCEPT !.pc = "clear", !.todo = m.blks,
                               !.kind = "overwriteBlockchain"]
  <2>1. Begins(n, k) /\ Becomes(n, w, k)
    BY <1>3 DEF OverwriteBlockchain, Idle, Begins
  <2> QED
    BY <1>1, <2>1
<1>4. ASSUME NEW f \in Files, Upload(n, w, f)
      PROVE  job'[n][v] = job[n][v] \/ Begins(n, job'[n][v])
  <2> DEFINE k == [Idle EXCEPT !.pc = "store", !.kind = "upload", !.name = f]
  <2>1. Begins(n, k) /\ Becomes(n, w, k)
    BY <1>4 DEF Upload, Idle, Begins
  <2> QED
    BY <1>1, <2>1
<1>5. ASSUME UNCHANGED job
      PROVE  job'[n][v] = job[n][v]
  BY <1>5
<1> QED
  BY <1>2, <1>3, <1>4, <1>5 DEF Receive, RefuseBlock, RefuseOverwrite

LEMMA NextSaves ==
  ASSUME SingleWorker, TypeInv, KeptInv, ChainWellFormed, SaveInv, [Next]_vars
  PROVE  SaveInv'
<1> USE TypeInvParts
<1>1. Grows
  BY NextGrows
<1>2. ASSUME NEW m \in Nodes, UNCHANGED disk, chain'[m] = chain[m],
             \A v \in Workers : \/ job'[m][v] = job[m][v]
                               \/ job'[m][v].pc \in {"idle", "check", "store", "clear"}
      PROVE  SavedOK(m)'
  <2>1. SavedOK(m) /\ chainFile'[m] = chainFile[m] /\ keys'[m] = keys[m]
    BY <1>2 DEF SaveInv, disk
  <2>2. chainFile'[m] # NoFile => Loadable(minted', keys'[m], chainFile'[m])
    BY <1>1, <2>1, FileStaysLoadable
  <2>3. ASSUME NEW v \in Workers
        PROVE  Saving(job'[m][v], chain'[m], chainFile'[m])
    BY <1>2, <2>1 DEF SavedOK, Saving
  <2> QED
    BY <2>2, <2>3 DEF SavedOK
<1>3. ASSUME NEW m \in Nodes, Untouched(m)
      PROVE  SavedOK(m)'
  <2>1. chainFile'[m] # NoFile => Loadable(minted', keys'[m], chainFile'[m])
    BY <1>1, <1>3, FileStaysLoadable DEF SaveInv, Untouched
  <2> QED
    BY <1>3, <2>1 DEF Untouched, SavedOK, SaveInv
<1>4. ASSUME NEW n \in Nodes, NEW w \in Workers, Continue(n, w)
      PROVE  SaveInv'
  BY <1>3, <1>4, ContinueSaves, ContinueTouches DEF SaveInv
<1>5. ASSUME NEW n \in Nodes, NEW w \in Workers,
             Receive(n, w) \/ \E f \in Files : Upload(n, w, f)
      PROVE  SaveInv'
  <2>1. /\ UNCHANGED <<memory, disk>>
        /\ \A m \in Nodes \ {n} : Untouched(m)
    BY <1>5, ReceiveTouches
  <2>2. ASSUME NEW v \in Workers
        PROVE  \/ job'[n][v] = job[n][v]
               \/ job'[n][v].pc \in {"check", "store", "clear"}
    BY <1>5, RequestsBegin DEF Begins
  <2> QED
    BY <1>2, <1>3, <2>1, <2>2 DEF SaveInv, memory
<1>6. ASSUME NEW n \in Nodes, BootFresh(n) \/ BootSaved(n) \/ Crash(n)
      PROVE  SaveInv'
  <2>1. UNCHANGED disk /\ \A m \in Nodes \ {n} : Untouched(m)
    BY <1>6, BootTouches
  <2>2. ASSUME NEW v \in Workers
        PROVE  job'[n][v].pc \in {"idle", "check"}
    <3>1. CASE BootFresh(n)
      BY <3>1 DEF BootFresh, KeptInv, DownOK, At
    <3>2. CASE Crash(n)
      BY <3>2, IdleIs DEF Crash, Halt, JobsOK
    <3>3. CASE BootSaved(n)
      <4>1. job[n][v].pc = "idle"
        BY <3>3 DEF BootSaved, KeptInv, DownOK, At
      <4> DEFINE j == [Idle EXCEPT !.kind = "boot", !.todo = chainFile[n]]
      <4>2. LoadNext(j).pc = "check"
        BY DEF LoadNext, Idle
      <4> QED
        BY <3>3, <4>1, <4>2 DEF BootSaved, Becomes, JobsOK
    <3> QED
      BY <1>6, <3>1, <3>2, <3>3
  <2>3. SavedOK(n)'
    <3>1. chainFile'[n] # NoFile => Loadable(minted', keys'[n], chainFile'[n])
      BY <1>1, <2>1, FileStaysLoadable DEF SaveInv, disk
    <3> QED
      BY <2>2, <3>1 DEF SavedOK, Saving
  <2> QED
    BY <1>3, <2>1, <2>3 DEF SaveInv
<1>7. ASSUME NEW c \in Nodes, NEW to \in Nodes, OperatorPosts(c, to)
      PROVE  SaveInv'
  BY <1>3, <1>7 DEF OperatorPosts, Untouched, memory, disk, SaveInv
<1>8. CASE UNCHANGED vars
  BY <1>3, <1>8 DEF vars, Untouched, memory, disk, SaveInv
<1> QED
  BY <1>4, <1>5, <1>6, <1>7, <1>8 DEF Next

LEMMA InitSaved == Init => SaveInv
<1> SUFFICES ASSUME Init, NEW n \in Nodes
             PROVE  SavedOK(n)
  BY DEF SaveInv
<1> QED
  BY IdleIs DEF Init, SavedOK, Saving

LEMMA AlwaysSaved == SingleWorker => (Spec => []SaveInv)
<1> SUFFICES ASSUME SingleWorker
             PROVE  Spec => []SaveInv
  OBVIOUS
<1>1. /\ TypeInv /\ KeptInv /\ ChainWellFormed /\ SaveInv /\ [Next]_vars => SaveInv'
  BY NextSaves
<1> QED
  BY <1>1, InitSaved, HashesAreKnown, AlwaysKept, LedgerChainsWellFormed, PTL DEF Spec

-----------------------------------------------------------------------------
(* What a restart makes of it. *)

LEMMA NobodyRemovesFiles ==
  ASSUME "remove_file" \notin AdminActions
  PROVE  Spec => []NothingRemoved
<1>1. ASSUME TypeInv, NothingRemoved, NEW b \in BlockData,
             minted' = Append(minted, b), b.action # "remove_file"
      PROVE  NothingRemoved'
  <2>1. ChainsOK /\ Grows /\ Len(minted') = Len(minted) + 1 /\ minted'[Len(minted) + 1] = b
    BY <1>1, TypeInvParts, SigningGrows
  <2>2. ASSUME NEW h \in Hashes'
        PROVE  h \in Hashes \/ h = Len(minted) + 1
    BY <2>1 DEF Hashes, ChainsOK
  <2> QED
    BY <1>1, <2>1, <2>2 DEF NothingRemoved, Grows
<1>2. ASSUME TypeInv, NothingRemoved, UNCHANGED minted
      PROVE  NothingRemoved'
  BY <1>2 DEF NothingRemoved, Hashes
<1>3. ASSUME TypeInv, NothingRemoved, NEW n \in Nodes, NEW w \in Workers,
             UploadStore(n, w)
      PROVE  NothingRemoved'
  <2>1. CASE chain[n] = <<>>
    BY <1>2, <1>3, <2>1 DEF UploadStore
  <2>2. CASE chain[n] # <<>>
    <3>1. PICK b \in BlockData : minted' = Append(minted, b) /\ b.action = "add_file"
      BY <1>3, <2>2, UploadSigns
    <3> QED
      BY <1>1, <1>3, <3>1
  <2> QED
    BY <2>1, <2>2
<1>4. ASSUME TypeInv, NothingRemoved, NEW c \in Nodes, NEW to \in Nodes,
             OperatorPosts(c, to)
      PROVE  NothingRemoved'
  <2>1. PICK b \in BlockData : minted' = Append(minted, b) /\ b.action \in AdminActions
    BY <1>4, OperatorSigns
  <2> QED
    BY <1>1, <1>4, <2>1
<1>5. ASSUME TypeInv, NothingRemoved, NEW n \in Nodes, BootFresh(n)
      PROVE  NothingRemoved'
  <2>1. PICK b \in BlockData : minted' = Append(minted, b) /\ b.action = "add_node"
    BY <1>5, BootSigns
  <2> QED
    BY <1>1, <1>5, <2>1
<1>6. TypeInv /\ NothingRemoved /\ [Next]_vars => NothingRemoved'
  <2> SUFFICES ASSUME TypeInv, NothingRemoved, [Next]_vars
               PROVE  NothingRemoved'
    OBVIOUS
  <2>1. ASSUME NEW n \in Nodes, NEW w \in Workers, Continue(n, w)
        PROVE  NothingRemoved'
    <3>1. UploadStore(n, w) \/ UNCHANGED minted
      BY <2>1
         DEF Continue, UploadClash, Clear, AddGenesis, CheckPasses, CheckFails,
             KeyFails, AddQuietly, AddNode, RemoveNode, AddFile, RemoveFile,
             Append_, Invite, Invited, Raise, Save, Open, Write, Serve, Tell, Told
    <3> QED
      BY <1>2, <1>3, <3>1
  <2>2. ASSUME NEW n \in Nodes, NEW w \in Workers,
               Receive(n, w) \/ \E f \in Files : Upload(n, w, f)
        PROVE  UNCHANGED minted
    BY <2>2, ReceiveTouches
  <2>3. ASSUME NEW n \in Nodes, BootSaved(n) \/ Crash(n)
        PROVE  UNCHANGED minted
    BY <2>3 DEF BootSaved, Crash
  <2>4. CASE UNCHANGED vars
    BY <1>2, <2>4 DEF vars
  <2> QED
    BY <1>2, <1>4, <1>5, <2>1, <2>2, <2>3, <2>4 DEF Next
<1>7. Init => NothingRemoved
  BY DEF Init, NothingRemoved, Hashes
<1> QED
  BY <1>6, <1>7, HashesAreKnown, PTL DEF Spec

LEMMA HeadFollows ==
  ASSUME NEW S, NEW d \in Seq(S), NEW s \in Seq(S), s # <<>>
  PROVE  d \o s = Append(d, Head(s)) \o Tail(s)
<1>1. /\ Head(s) \in S /\ Tail(s) \in Seq(S) /\ s = <<Head(s)>> \o Tail(s)
  BY HeadTailProperties
<1>2. Append(d, Head(s)) = d \o <<Head(s)>> /\ <<Head(s)>> \in Seq(S)
  BY <1>1, AppendIsConcat
<1>3. d \o (<<Head(s)>> \o Tail(s)) = (d \o <<Head(s)>>) \o Tail(s)
  BY <1>1, <1>2, ConcatAssociative
<1> QED
  BY <1>1, <1>2, <1>3

\* The blocks of the stream are those of the file, in its order.
LEMMA ReplayAdvances ==
  ASSUME NEW j \in Job, NEW c \in Seq(Nat), NEW f, j.kind = "boot",
         j.pc \in {"check", "key"}, Following(j, c, f)
  PROVE  Replaying(AfterAdd(j), Append(c, j.blk), f)
<1> DEFINE k == AfterAdd(j)
           d == Append(c, j.blk)
<1>1. d \in Seq(Nat) /\ j.todo \in Seq(Nat) /\ f # NoFile /\ f = d \o j.todo
  BY AppendProperties DEF Following, Job
<1> HIDE DEF d
<1>2. CASE TakesNext(j, k)
  <2>1. f = Append(d, Head(j.todo)) \o Tail(j.todo)
    BY <1>1, <1>2, HeadFollows DEF TakesNext
  <2> QED
    BY <1>1, <1>2, <2>1 DEF TakesNext, Following, Replaying, d
<1>3. CASE j.todo = <<>> /\ Moved(j, k, "serve")
  <2>1. f = d
    BY <1>1, <1>3, ConcatEmptySeq
  <2> QED
    BY <1>1, <1>3, <2>1 DEF Moved, Following, Replaying, d
<1> QED
  BY <1>2, <1>3, AfterAddMoves

LEMMA NextFits ==
  ASSUME NEW L, NEW K, NEW c \in Seq(Nat), NEW h \in Nat, NEW s \in Seq(Nat),
         c # <<>>, Loadable(L, K, Append(c, h) \o s)
  PROVE  Acceptable(L, c, h) /\ L[h].creator \in K
<1> DEFINE d == Append(c, h)
           l == Len(c)
           i == l + 1
           f == d \o s
<1>1. l \in Nat \ {0} /\ Len(s) \in Nat
  BY EmptySeq
<1>2. d \in Seq(Nat) /\ Len(d) = l + 1 /\ d[l + 1] = h /\ d[l] = c[l]
  BY <1>1, AppendProperties
<1> HIDE DEF d, l
<1>3. Len(f) = l + 1 + Len(s)
  BY <1>2, ConcatProperties
<1>4. f[l + 1] = h /\ f[l] = c[l]
  BY <1>1, <1>2, ConcatProperties
<1> HIDE DEF f
<1>5. i \in 2 .. Len(f) /\ i - 1 = l /\ f[i] = h
  BY <1>1, <1>3, <1>4
<1>6. Loadable(L, K, f)
  BY DEF f, d
<1> HIDE DEF i
<1>7. Follows(L, f[i], f[i - 1]) /\ L[f[i]].creator \in K
  BY <1>5, <1>6 DEF Loadable, WellFormed
<1> QED
  BY <1>4, <1>5, <1>7 DEF Acceptable, TopBlock, l

\* The block being read may be added, and its creator's key is there.
LEMMA ReplayFits ==
  ASSUME TypeInv, NEW n \in Nodes, NEW w \in Workers, SavedOK(n),
         job[n][w].kind = "boot", job[n][w].pc \in {"check", "key"},
         Following(job[n][w], chain[n], chainFile[n]), chain[n] # <<>>
  PROVE  /\ Acceptable(minted, chain[n], job[n][w].blk)
         /\ Adding(n, w).creator \in keys[n]
<1>1. chain[n] \in Seq(Nat)
  BY TypeInvParts DEF ChainsOK, Hashes
<1>2. job[n][w].blk \in Nat /\ job[n][w].todo \in Seq(Nat)
  BY TypeInvParts DEF JobsOK, Job
<1>3. Loadable(minted, keys[n], Append(chain[n], job[n][w].blk) \o job[n][w].todo)
  BY DEF Following, SavedOK
<1> QED
  BY <1>1, <1>2, <1>3, NextFits DEF Adding

LEMMA ContinueFollows ==
  ASSUME TypeInv, ChainInv, NEW n \in Nodes, NEW w \in Workers, Continue(n, w),
         Following(job[n][w], chain[n], chainFile[n])
  PROVE  /\ Following(job'[n][w], chain'[n], chainFile'[n])
         /\ (job[n][w].kind = "boot" /\ job'[n][w].pc = "raise") =>
               CheckFails(n, w) \/ KeyFails(n, w) \/ RemoveFile(n, w)
<1> DEFINE j == job[n][w]
           k == job'[n][w]
<1>1. j \in Job /\ chain[n] \in Seq(Nat) /\ j.blk \in Nat
  <2>1. j \in Job
    BY TypeInvParts DEF JobsOK
  <2>2. chain[n] \in Seq(Nat)
    BY TypeInvParts DEF ChainsOK, Hashes
  <2> QED
    BY <2>1, <2>2 DEF Job
<1>2. CASE j.kind # "boot"
  BY <1>2, KindsStay DEF Following
<1>3. CASE j.kind = "boot"
  <2>1. j.pc \in {"check", "key", "serve", "raise"} /\ Loading(j)
    BY <1>3 DEF Following, Loading
  <2>2. ASSUME j.pc \in {"check", "key"}, chain'[n] = Append(chain[n], j.blk),
               chainFile'[n] = chainFile[n], k = AfterAdd(j)
        PROVE  Following(k, chain'[n], chainFile'[n]) /\ k.pc # "raise"
    <3>1. AfterAdd(j).pc # "raise"
      BY <1>1, <1>3, AfterAddMoves DEF TakesNext, Moved
    <3> QED
      BY <1>1, <1>3, <2>2, <3>1, ReplayAdvances DEF Replaying
  <2>3. ASSUME Goto(n, w, "raise"), chainFile'[n] = chainFile[n]
        PROVE  Following(k, chain'[n], chainFile'[n])
    <3>1. Moved(j, k, "raise")
      BY <2>3, GotoMoves
    <3> QED
      BY <1>3, <2>3, <3>1 DEF Moved, Following
  <2>4. CASE AddGenesis(n, w)
    <3>1. chain[n] = <<>> /\ chain'[n] = <<j.blk>>
      BY <2>4, GenesisBegins, TypeInvParts DEF ChainsOK
    <3>2. <<j.blk>> = Append(chain[n], j.blk)
      BY <1>1, <3>1
    <3>3. j.pc = "check" /\ chainFile'[n] = chainFile[n] /\ k = AfterAdd(j)
      BY <2>4, BecomesIs DEF AddGenesis, At, disk
    <3> QED
      BY <2>2, <3>1, <3>2, <3>3
  <2>5. CASE CheckPasses(n, w)
    <3>1. Moved(j, k, "key") /\ UNCHANGED <<chain, chainFile>> /\ j.pc = "check"
      BY <2>5, GotoMoves DEF CheckPasses, At, memory, disk
    <3> QED
      BY <1>3, <3>1 DEF Moved, Following
  <2>6. CASE CheckFails(n, w) \/ KeyFails(n, w)
    BY <2>3, <2>6 DEF CheckFails, KeyFails, disk
  <2>7. CASE AddQuietly(n, w) \/ AddFile(n, w)
    <3>1. /\ j.pc = "key" /\ chain'[n] = Append(chain[n], j.blk)
          /\ chainFile'[n] = chainFile[n] /\ k = AfterAdd(j)
      BY <2>7, BecomesIs, TypeInvParts DEF AddQuietly, AddFile, Append_, At, ChainsOK
    <3> QED
      BY <2>2, <3>1
  <2>8. ~AddNode(n, w) /\ ~RemoveNode(n, w)
    BY <2>1 DEF AddNode, RemoveNode, Operates, FileMethods
  <2>9. CASE RemoveFile(n, w)
    <3>1. /\ j.pc = "key" /\ chain'[n] = Append(chain[n], j.blk)
          /\ chainFile'[n] = chainFile[n]
          /\ k = AfterAdd(j) \/ Goto(n, w, "raise")
      BY <2>9, BecomesIs, TypeInvParts DEF RemoveFile, Append_, At, ChainsOK
    <3> QED
      BY <2>2, <2>3, <2>9, <3>1
  <2>10. CASE Serve(n, w)
    BY <2>10, BecomesIs, IdleIs DEF Serve, Following
  <2>11. CASE Raise(n, w)
    <3>1. k = Idle
      BY <1>3, <2>11, TypeInvParts DEF Raise, Halt, JobsOK
    <3> QED
      BY <3>1, IdleIs DEF Following
  <2> QED
    BY <2>1, <2>4, <2>5, <2>6, <2>7, <2>8, <2>9, <2>10, <2>11
       DEF Continue, UploadClash, UploadStore, Clear, Invite, Invited, Save,
           Open, Write, Tell, Told, At
<1> QED
  BY <1>2, <1>3

LEMMA ContinueReplays ==
  ASSUME TypeInv, ChainInv, SaveInv, NothingRemoved,
         NEW n \in Nodes, NEW w \in Workers, Continue(n, w),
         Replaying(job[n][w], chain[n], chainFile[n])
  PROVE  Replaying(job'[n][w], chain'[n], chainFile'[n])
<1> DEFINE j == job[n][w]
           k == job'[n][w]
<1>1. SavedOK(n) /\ Following(j, chain[n], chainFile[n])
  BY DEF SaveInv, Replaying
<1>2. CASE j.kind # "boot"
  BY <1>1, <1>2, KindsStay, ContinueFollows DEF Replaying
<1>3. CASE j.kind = "boot"
  <2>1. j.pc = "key" => chain[n] # <<>>
    BY Alive DEF ReadsHold, Acceptable
  <2>2. ~CheckFails(n, w)
    BY <1>1, <1>3, ReplayFits DEF CheckFails, At, Loading
  <2>3. ~KeyFails(n, w)
    BY <1>1, <1>3, <2>1, ReplayFits DEF KeyFails, At
  <2>4. ~RemoveFile(n, w)
    BY Alive DEF RemoveFile, Append_, At, NothingRemoved, Adding, JobKnown, Holds
  <2> QED
    BY <1>1, <1>3, <2>2, <2>3, <2>4, ContinueFollows DEF Replaying
<1> QED
  BY <1>2, <1>3

\* A process that starts takes the first block of its file.
LEMMA StartReplays ==
  ASSUME TypeInv, KeptInv, NEW n \in Nodes, NEW v \in Workers,
         BootFresh(n) \/ BootSaved(n) \/ Crash(n),
         Following(job[n][v], chain[n], chainFile[n])
  PROVE  Replaying(job'[n][v], chain'[n], chainFile'[n])
<1>1. mode[n] = "down" => chain[n] = <<>> /\ job[n][v].kind # "boot"
  BY DEF KeptInv, DownOK, At, Following
<1>2. CASE BootFresh(n)
  BY <1>1, <1>2 DEF BootFresh, Following, Replaying
<1>3. CASE Crash(n)
  BY <1>3, IdleIs, TypeInvParts DEF Crash, Halt, JobsOK, Following, Replaying
<1>4. CASE BootSaved(n)
  <2> DEFINE f == chainFile[n]
             k == LoadNext([Idle EXCEPT !.kind = "boot", !.todo = f])
  <2>1. /\ chain'[n] = <<>> /\ chainFile'[n] = f /\ f \in Seq(Nat) /\ f # NoFile
        /\ f # <<>> => Head(f) \in Nat /\ Tail(f) \in Seq(Nat)
    <3>1. f \in Seq(Nat) /\ f # NoFile
      BY <1>4, TypeInvParts DEF BootSaved, ChainFilesOK, Hashes
    <3> QED
      BY <1>1, <1>4, <3>1, BootTouches, HeadAndTail DEF BootSaved, disk
  <2>2. k.pc = "check" /\ k.kind = "boot" /\ k.blk = Head(f) /\ k.todo = Tail(f)
    BY DEF LoadNext, Idle
  <2>3. job'[n][v] = job[n][v] \/ (job'[n][v] = k /\ f # <<>>)
    BY <1>4, TypeInvParts DEF BootSaved, Becomes, JobsOK
  <2> HIDE DEF k
  <2>4. f # <<>> => f = Append(<<>>, Head(f)) \o Tail(f)
    <3>1. <<>> \in Seq(Nat) /\ (f \in Seq(Nat) => <<>> \o f = f)
      BY ConcatEmptySeq
    <3> QED
      BY <2>1, <3>1, HeadFollows
  <2> QED
    BY <1>1, <1>4, <2>1, <2>2, <2>3, <2>4 DEF Following, Replaying, BootSaved
<1> QED
  BY <1>2, <1>3, <1>4

LEMMA NextReplays ==
  ASSUME SingleWorker, TypeInv, KeptInv, ChainInv, SaveInv, NothingRemoved, BootInv,
         [Next]_vars
  PROVE  BootInv'
<1> DEFINE Fine(m, v) == Replaying(job'[m][v], chain'[m], chainFile'[m])
<1>1. ASSUME NEW m \in Nodes, NEW v \in Workers, UNCHANGED disk, chain'[m] = chain[m],
             job'[m][v] = job[m][v] \/ job'[m][v].kind # "boot"
      PROVE  Fine(m, v)
  BY <1>1 DEF BootInv, Replaying, Following, disk
<1>2. ASSUME NEW m \in Nodes, NEW v \in Workers, Untouched(m)
      PROVE  Fine(m, v)
  BY <1>2 DEF BootInv, Untouched
<1>3. ASSUME NEW n \in Nodes, NEW w \in Workers, Continue(n, w)
      PROVE  BootInv'
  <2>1. Fine(n, w)
    BY <1>3, ContinueReplays DEF BootInv
  <2>2. \A v \in Workers : v = w
    BY DEF SingleWorker
  <2> QED
    BY <1>2, <1>3, <2>1, <2>2, ContinueTouches DEF BootInv
<1>4. ASSUME NEW n \in Nodes, NEW w \in Workers,
             Receive(n, w) \/ \E f \in Files : Upload(n, w, f)
      PROVE  BootInv'
  <2>1. \A v \in Workers : job'[n][v] = job[n][v] \/ job'[n][v].kind # "boot"
    BY <1>4, RequestsBegin DEF Begins
  <2>2. UNCHANGED <<memory, disk>> /\ \A m \in Nodes \ {n} : Untouched(m)
    BY <1>4, ReceiveTouches
  <2> QED
    BY <1>1, <1>2, <2>1, <2>2 DEF BootInv, memory
<1>5. ASSUME NEW n \in Nodes, BootFresh(n) \/ BootSaved(n) \/ Crash(n)
      PROVE  BootInv'
  <2>1. UNCHANGED disk /\ \A m \in Nodes \ {n} : Untouched(m)
    BY <1>5, BootTouches
  <2>2. \A v \in Workers : Fine(n, v)
    BY <1>5, StartReplays DEF BootInv, Replaying
  <2> QED
    BY <1>2, <2>1, <2>2 DEF BootInv
<1>6. ASSUME NEW c \in Nodes, NEW to \in Nodes, OperatorPosts(c, to)
      PROVE  BootInv'
  BY <1>1, <1>6 DEF OperatorPosts, memory, BootInv
<1>7. CASE UNCHANGED vars
  BY <1>1, <1>7 DEF vars, memory, BootInv
<1> QED
  BY <1>3, <1>4, <1>5, <1>6, <1>7 DEF Next

LEMMA AlwaysReplaying ==
  ASSUME SingleWorker, "remove_file" \notin AdminActions
  PROVE  Spec => []BootInv
<1>1. /\ TypeInv /\ KeptInv /\ ChainInv /\ SaveInv /\ NothingRemoved /\ BootInv
      /\ [Next]_vars
      => BootInv'
  BY NextReplays
<1>2. Init => BootInv
  BY IdleIs DEF Init, BootInv, Replaying, Following
<1> QED
  BY <1>1, <1>2, HashesAreKnown, AlwaysKept, ReadsAreNotStale, AlwaysSaved,
     NobodyRemovesFiles, PTL DEF Spec

\* A node that starts loads the chain it has saved to its end: Blockchain.add
\* refuses none of the blocks and asks no other node for a key.  Unless a block
\* removes a file, which nothing in the code signs: one about a file that the
\* node does not list raises after it was appended, and again at every start.
THEOREM LedgerRestartReplays ==
  SingleWorker /\ "remove_file" \notin AdminActions => (Spec => []RestartReplays)
<1> SUFFICES ASSUME SingleWorker, "remove_file" \notin AdminActions
             PROVE  Spec => []RestartReplays
  OBVIOUS
<1>1. BootInv => RestartReplays
  BY DEF BootInv, Replaying, RestartReplays, At
<1> QED
  BY <1>1, AlwaysReplaying, PTL

-----------------------------------------------------------------------------
(* The difference between the memory and the disk of a node that runs. *)

LEMMA AddingTracks ==
  ASSUME TypeInv, ChainInv, NEW n \in Nodes, NEW w \in Workers,
         \/ AddQuietly(n, w) \/ AddNode(n, w) \/ RemoveNode(n, w)
         \/ AddFile(n, w) \/ RemoveFile(n, w),
         Tracked(minted, mode[n], job[n][w], chain[n], chainFile[n])
  PROVE  Tracked(minted', mode'[n], job'[n][w], chain'[n], chainFile'[n])
<1> DEFINE j == job[n][w]
           k == job'[n][w]
           c == chain[n]
<1>1. /\ j \in Job /\ j.pc = "key" /\ j.kind # "none" /\ j.blk \in Hashes
      /\ UNCHANGED <<minted, mode, chainFile>>
      /\ chain'[n] = Append(c, j.blk) /\ c \in Seq(Hashes)
  BY Alive, AppendExtends, TypeInvParts
     DEF AddQuietly, AddNode, RemoveNode, AddFile, RemoveFile, Append_, At, ChainsOK,
         Tracked
<1>2. chain'[n] # <<>>
  <2>1. Len(chain'[n]) = Len(c) + 1 /\ Len(c) \in Nat
    BY <1>1, AppendProperties
  <2> QED
    BY <2>1
<1>3. \/ TakesNext(j, k)
      \/ j.todo = <<>> /\ Moved(j, k, IF j.kind = "boot" THEN "serve" ELSE "save")
      \/ AddNode(n, w) /\ Moved(j, k, "invite") /\ Operates(n, w)
      \/ RemoveFile(n, w) /\ Moved(j, k, "raise")
  <2>1. \/ Becomes(n, w, AfterAdd(j))
        \/ AddNode(n, w) /\ Goto(n, w, "invite") /\ Operates(n, w)
        \/ RemoveFile(n, w) /\ Goto(n, w, "raise")
    BY DEF AddQuietly, AddNode, RemoveNode, AddFile, RemoveFile
  <2> QED
    BY <1>1, <2>1, BecomesIs, GotoMoves, AfterAddMoves
<1>4. j.kind = "upload" => AddFile(n, w) /\ j.todo = <<>>
  BY <1>1 DEF AddQuietly, AddNode, RemoveNode, RemoveFile, Operates, Loading, Adding,
     Tracked
<1>5. j.kind \in Kinds
  BY <1>1 DEF Job
<1>6. AddNode(n, w) => Adding(n, w).action = "add_node"
  BY DEF AddNode
<1>7. CASE j.kind = "boot"
  BY <1>1, <1>3, <1>6, <1>7
     DEF TakesNext, Moved, Tracked, Operates, Loading, FileMethods
<1>8. CASE j.kind = "overwriteBlockchain"
  BY <1>1, <1>3, <1>6, <1>8
     DEF TakesNext, Moved, Tracked, Operates, Loading, FileMethods
<1>9. CASE j.kind = "addBlock"
  BY <1>1, <1>2, <1>3, <1>9 DEF TakesNext, Moved, Tracked, Unsaved
<1>10. CASE j.kind = "upload"
  <2>1. Moved(j, k, "save")
    BY <1>3, <1>4, <1>10 DEF AddFile, AddNode, RemoveFile, TakesNext
  <2> QED
    BY <1>1, <1>2, <1>10, <2>1 DEF Moved, Tracked, Unsaved
<1> QED
  BY <1>1, <1>5, <1>7, <1>8, <1>9, <1>10 DEF Kinds

LEMMA ContinueTracks ==
  ASSUME TypeInv, ChainInv, ChainWellFormed, SaveInv,
         NEW n \in Nodes, NEW w \in Workers, Continue(n, w),
         Following(job[n][w], chain[n], chainFile[n]),
         Tracked(minted, mode[n], job[n][w], chain[n], chainFile[n])
  PROVE  Tracked(minted', mode'[n], job'[n][w], chain'[n], chainFile'[n])
<1> DEFINE j == job[n][w]
           k == job'[n][w]
           c == chain[n]
           f == chainFile[n]
<1>1. /\ j \in Job /\ c \in Seq(Hashes) /\ JobKnown(j, Hashes, NodeHashes)
      /\ ReadsHold(minted, j, c) /\ Saving(j, c, f)
      /\ j.pc # "idle" /\ j.kind \in Kinds \ {"none"}
  BY Alive, ContinueTouches DEF SaveInv, SavedOK, Tracked, Job
<1>2. Tracked(minted, mode[n], j, c, f)
  OBVIOUS
<1>3. ASSUME UNCHANGED <<minted, mode, chain, chainFile>>, k = Idle,
             mode[n] = "up" => f = c \/ Short(f)
      PROVE  Tracked(minted', mode'[n], k, chain'[n], chainFile'[n])
  BY <1>3, IdleIs DEF Tracked
<1>4. CASE UploadClash(n, w) \/ CheckFails(n, w) \/ KeyFails(n, w)
  <2>1. /\ Moved(j, k, "raise") /\ UNCHANGED <<minted, mode, chain, chainFile>>
        /\ j.pc \in {"store", "check", "key"}
    BY <1>4, GotoMoves DEF UploadClash, CheckFails, KeyFails, memory, disk, At
  <2>2. j.pc = "store" => j.kind = "upload"
    BY <1>1 DEF JobKnown
  <2> QED
    BY <1>1, <1>2, <2>1, <2>2 DEF Moved, Tracked, Unsaved
<1>5. CASE CheckPasses(n, w)
  <2>1. /\ Moved(j, k, "key") /\ UNCHANGED <<minted, mode, chain, chainFile>>
        /\ j.pc = "check"
    BY <1>5, GotoMoves DEF CheckPasses, memory, disk, At
  <2> QED
    BY <1>1, <1>2, <2>1 DEF Moved, Tracked, Unsaved
<1>6. CASE UploadStore(n, w)
  <2>1. /\ j.pc = "store" /\ j.kind = "upload" /\ UNCHANGED <<mode, chain, chainFile>>
        /\ j.todo = <<>>
    BY <1>1, <1>2, <1>6 DEF UploadStore, At, JobKnown, Tracked
  <2>2. CASE c = <<>>
    <3>1. Moved(j, k, "raise")
      BY <1>6, <2>2, GotoMoves DEF UploadStore
    <3> QED
      BY <1>2, <2>1, <3>1 DEF Moved, Tracked, Unsaved
  <2>3. CASE c # <<>>
    <3> DEFINE h == Len(minted) + 1
    <3>1. PICK P \in Picks(n) :
            Becomes(n, w, [j EXCEPT !.pc = "check", !.blk = h, !.tell = P])
      BY <1>6, <2>3 DEF UploadStore
    <3>2. k.pc = "check" /\ k.blk = h /\ k.kind = "upload" /\ k.todo = <<>>
      <4> DEFINE i == [j EXCEPT !.pc = "check", !.blk = h, !.tell = P]
      <4>1. i.pc = "check" /\ i.blk = h /\ i.kind = j.kind /\ i.todo = j.todo
        BY <1>1 DEF Job
      <4>2. k = i
        BY <3>1, BecomesIs
      <4> HIDE DEF i
      <4> QED
        BY <2>1, <4>1, <4>2
    <3>3. minted'[h].action = "add_file"
      BY <1>6, <2>3, TypeInvParts, UploadSigns, SigningGrows
    <3> HIDE DEF h
    <3> QED
      BY <1>2, <2>1, <2>3, <3>2, <3>3 DEF Tracked, Unsaved
  <2> QED
    BY <2>2, <2>3
<1>7. CASE Clear(n, w)
  <2>1. j.pc = "clear" /\ j.kind = "overwriteBlockchain" /\ j.todo # <<>>
    BY <1>1, <1>7 DEF Clear, At, JobKnown
  <2>2. UNCHANGED <<minted, mode, chainFile>> /\ Short(f)
    BY <1>2, <1>7, <2>1 DEF Clear, disk, Tracked
  <2>3. Moved(j, k, "raise") \/ TakesNext(j, k)
    BY <1>1, <1>7, <2>1, ClearResets, BecomesIs, GotoMoves, LoadNextMoves
  <2> QED
    BY <2>1, <2>2, <2>3 DEF Moved, TakesNext, Tracked
<1>8. CASE AddGenesis(n, w)
  <2>1. /\ j.pc = "check" /\ Loading(j) /\ k = AfterAdd(j)
        /\ UNCHANGED <<minted, mode, chainFile>>
    BY <1>8, BecomesIs DEF AddGenesis, At, disk
  <2>2. \/ TakesNext(j, k)
        \/ Moved(j, k, IF j.kind = "boot" THEN "serve" ELSE "save")
    BY <1>1, <2>1, AfterAddMoves
  <2> QED
    BY <1>2, <2>1, <2>2 DEF Loading, Moved, TakesNext, Tracked, Unsaved
<1>9. CASE \/ AddQuietly(n, w) \/ AddNode(n, w) \/ RemoveNode(n, w)
           \/ AddFile(n, w) \/ RemoveFile(n, w)
  BY <1>9, AddingTracks
<1>10. CASE Invite(n, w) \/ Invited(n, w)
  <2>1. /\ j.pc \in {"invite", "invited"}
        /\ UNCHANGED <<minted, mode, chain, chainFile>>
    BY <1>10 DEF Invite, Invited, At, memory, disk
  <2>2. j.kind = "addBlock"
    BY <1>1, <1>2, <2>1 DEF Tracked, ReadsHold, Loading, Kinds
  <2>3. k.pc \in {"invited", "raise", "save"} /\ k.kind = j.kind /\ k.todo = j.todo
    <3>1. CASE Invite(n, w)
      BY <3>1, GotoMoves DEF Invite, Moved
    <3>2. CASE Invited(n, w)
      BY <1>1, <1>2, <2>2, <3>2, AfterAddMoves, BecomesIs
         DEF Invited, Moved, TakesNext, Tracked
    <3> QED
      BY <1>10, <3>1, <3>2
  <2> QED
    BY <1>2, <2>1, <2>2, <2>3 DEF Tracked, Unsaved
<1>11. CASE Raise(n, w)
  <2>1. j.pc = "raise"
    BY <1>11 DEF Raise, At
  <2>2. CASE j.kind = "addBlock"
    <3>1. Moved(j, k, "save") /\ UNCHANGED <<minted, mode, chain, chainFile>>
      BY <1>11, <2>2, GotoMoves DEF Raise, memory, disk
    <3> QED
      BY <1>2, <2>1, <2>2, <3>1 DEF Moved, Tracked, Unsaved
  <2>3. CASE j.kind \in {"overwriteBlockchain", "upload"}
    <3>1. k = Idle /\ UNCHANGED <<minted, mode, chain, chainFile>>
      BY <1>11, <2>3, BecomesIs DEF Raise, memory, disk
    <3> QED
      BY <1>2, <1>3, <2>1, <2>3, <3>1 DEF Tracked
  <2>4. CASE j.kind = "boot"
    <3>1. k = Idle /\ mode'[n] = "down"
      BY <1>11, <2>4, TypeInvParts DEF Raise, Halt, JobsOK, OthersOK
    <3> QED
      BY <3>1, IdleIs DEF Tracked
  <2> QED
    BY <1>1, <2>2, <2>3, <2>4 DEF Kinds
<1>12. CASE Save(n, w)
  <2>1. j.pc = "save" /\ UNCHANGED <<minted, mode, chain, chainFile>>
    BY <1>12 DEF Save, At, memory, disk
  <2>2. CASE Serialisable(minted, c)
    <3>1. PICK e : Becomes(n, w, [j EXCEPT !.pc = "open", !.out = e])
      BY <1>12, <2>2 DEF Save
    <3>2. k.pc = "open" /\ k.kind = j.kind /\ k.todo = j.todo
      BY <1>1, <3>1, BecomesIs DEF Job
    <3> QED
      BY <1>1, <1>2, <2>1, <3>2 DEF Tracked, Unsaved
  <2>3. CASE ~Serialisable(minted, c)
    <3>1. c = <<>> /\ k = Idle
      BY <1>12, <2>3, ReadsWholeChain, BecomesIs DEF Save
    <3>2. j.kind = "overwriteBlockchain"
      BY <1>1, <1>2, <2>1, <3>1 DEF Tracked, Following, Kinds
    <3> QED
      BY <1>2, <1>3, <2>1, <3>1, <3>2 DEF Tracked
  <2> QED
    BY <2>2, <2>3
<1>13. CASE Open(n, w)
  <2>1. Moved(j, k, "write") /\ j.pc = "open" /\ UNCHANGED <<minted, mode, chain>>
    BY <1>13, GotoMoves DEF Open, At, memory
  <2> QED
    BY <1>1, <1>2, <2>1 DEF Moved, Tracked, Unsaved
<1>14. CASE Write(n, w)
  <2>1. /\ chainFile'[n] = c /\ chain'[n] = c /\ UNCHANGED <<minted, mode>>
        /\ j.pc = "write"
    BY <1>1, <1>14, WriteSaves DEF Write, At
  <2> QED
    BY <1>1, <1>2, <1>14, <2>1, TellingMoves DEF Tracked
<1>15. CASE Tell(n, w) \/ Told(n, w)
  <2>1. /\ UNCHANGED <<minted, mode, chain, chainFile>>
        /\ j.pc \in {"tell", "wait"} /\ f = c
    BY <1>1, <1>15 DEF Tell, Told, At, memory, disk, Saving
  <2>2. \/ /\ k.pc \in {"tell", "wait"} /\ k.kind = j.kind /\ k.todo = j.todo
        \/ k.pc = "idle" /\ k.kind = "none"
    <3>1. CASE Tell(n, w)
      BY <3>1, GotoMoves, BecomesIs, IdleIs DEF Tell, Moved
    <3>2. CASE Told(n, w)
      BY <3>2, TellingMoves
    <3> QED
      BY <1>15, <3>1, <3>2
  <2> QED
    BY <1>1, <1>2, <2>1, <2>2 DEF Tracked
<1>16. CASE Serve(n, w)
  <2>1. j.pc = "serve" /\ k = Idle /\ chain'[n] = c /\ chainFile'[n] = f
    BY <1>16, BecomesIs DEF Serve, At, memory, disk
  <2>2. f = c
    BY <1>2, <2>1 DEF Tracked, Following
  <2> QED
    BY <2>1, <2>2, IdleIs DEF Tracked
<1> QED
  BY <1>4, <1>5, <1>6, <1>7, <1>8, <1>9, <1>10, <1>11, <1>12, <1>13, <1>14, <1>15,
     <1>16 DEF Continue

LEMMA NextSettles ==
  ASSUME SingleWorker, TypeInv, KeptInv, ChainInv, ChainWellFormed, SaveInv, SettledInv,
         [Next]_vars
  PROVE  SettledInv'
<1> DEFINE Fine(m, v) == /\ Following(job'[m][v], chain'[m], chainFile'[m])
                         /\ Tracked(minted', mode'[m], job'[m][v], chain'[m],
                                    chainFile'[m])
<1>1. Grows
  BY NextGrows
<1>2. ASSUME NEW m \in Nodes, NEW v \in Workers, Untouched(m)
      PROVE  Fine(m, v)
  <2>1. /\ Following(job[m][v], chain[m], chainFile[m])
        /\ Tracked(minted, mode[m], job[m][v], chain[m], chainFile[m])
    BY DEF SettledInv
  <2>2. job[m][v].pc \in {"check", "key"} =>
          minted'[job[m][v].blk] = minted[job[m][v].blk]
    BY <1>1, Alive DEF JobKnown, Holds, Grows
  <2> QED
    BY <1>2, <2>1, <2>2 DEF Untouched, Tracked
<1>3. ASSUME NEW n \in Nodes, NEW w \in Workers, Continue(n, w)
      PROVE  SettledInv'
  <2>1. Fine(n, w)
    BY <1>3, ContinueFollows, ContinueTracks DEF SettledInv
  <2>2. \A v \in Workers : v = w
    BY DEF SingleWorker
  <2> QED
    BY <1>2, <1>3, <2>1, <2>2, ContinueTouches DEF SettledInv
<1>4. ASSUME NEW n \in Nodes, NEW w \in Workers,
             Receive(n, w) \/ \E f \in Files : Upload(n, w, f)
      PROVE  SettledInv'
  <2>1. /\ UNCHANGED <<minted, mode, chain, chainFile>>
        /\ \A m \in Nodes \ {n} : Untouched(m)
        /\ mode[n] = "up" /\ job[n][w].pc = "idle"
    BY <1>4, ReceiveTouches DEF memory, disk
  <2>2. /\ Following(job[n][w], chain[n], chainFile[n])
        /\ Tracked(minted, mode[n], job[n][w], chain[n], chainFile[n])
    BY DEF SettledInv
  <2>3. chainFile[n] = chain[n] \/ Short(chainFile[n])
    BY <2>1, <2>2 DEF Tracked, Unsaved
  <2>4. Len(chain[n]) <= 1 => Short(chainFile[n])
    BY <2>3 DEF Short
  <2>5. job'[n][w] = job[n][w] \/ Begins(n, job'[n][w])
    BY <1>4, RequestsBegin
  <2>6. Fine(n, w)
    BY <2>1, <2>2, <2>3, <2>4, <2>5 DEF Begins, Following, Tracked
  <2>7. \A v \in Workers : v = w
    BY DEF SingleWorker
  <2> QED
    BY <1>2, <2>1, <2>6, <2>7 DEF SettledInv
<1>5. ASSUME NEW n \in Nodes, BootFresh(n) \/ BootSaved(n) \/ Crash(n)
      PROVE  SettledInv'
  <2>1. UNCHANGED disk /\ \A m \in Nodes \ {n} : Untouched(m)
    BY <1>5, BootTouches
  <2>2. ASSUME NEW v \in Workers
        PROVE  Fine(n, v)
    <3>1. /\ Following(job[n][v], chain[n], chainFile[n])
          /\ Tracked(minted, mode[n], job[n][v], chain[n], chainFile[n])
      BY DEF SettledInv
    <3>2. Following(job'[n][v], chain'[n], chainFile'[n])
      BY <1>5, <3>1, StartReplays DEF Replaying
    <3>3. mode[n] = "down" => chain[n] = <<>> /\ job[n][v].pc = "idle"
      BY DEF KeptInv, DownOK, At
    <3>4. Tracked(minted', mode'[n], job'[n][v], chain'[n], chainFile'[n])
      <4>1. CASE BootFresh(n)
        <5>1. job'[n][v] = job[n][v] /\ Short(chainFile'[n])
          BY <4>1, <2>1 DEF BootFresh, disk, Short
        <5> QED
          BY <3>1, <3>3, <4>1, <5>1 DEF BootFresh, Tracked
      <4>2. CASE Crash(n)
        <5>1. job'[n][v] = Idle /\ mode'[n] = "down"
          BY <4>2, TypeInvParts DEF Crash, Halt, JobsOK, OthersOK
        <5> QED
          BY <5>1, IdleIs DEF Tracked
      <4>3. CASE BootSaved(n)
        <5> DEFINE i == LoadNext([Idle EXCEPT !.kind = "boot", !.todo = chainFile[n]])
        <5>1. i.pc = "check" /\ i.kind = "boot"
          BY DEF LoadNext, Idle
        <5>2. \/ /\ job'[n][v] = job[n][v]
                 /\ mode'[n] = "up" => chainFile'[n] = <<>> /\ chain'[n] = <<>>
              \/ job'[n][v] = i /\ mode'[n] = "boot"
          BY <2>1, <3>3, <4>3, TypeInvParts
             DEF BootSaved, Becomes, JobsOK, OthersOK, disk, SingleWorker
        <5> HIDE DEF i
        <5> QED
          BY <3>1, <3>3, <4>3, <5>1, <5>2 DEF BootSaved, Tracked
      <4> QED
        BY <1>5, <4>1, <4>2, <4>3
    <3> QED
      BY <3>2, <3>4
  <2> QED
    BY <1>2, <2>1, <2>2 DEF SettledInv
<1>6. ASSUME NEW c \in Nodes, NEW to \in Nodes, OperatorPosts(c, to)
      PROVE  SettledInv'
  BY <1>2, <1>6 DEF OperatorPosts, Untouched, memory, disk, SettledInv
<1>7. CASE UNCHANGED vars
  BY <1>2, <1>7 DEF vars, Untouched, memory, disk, SettledInv
<1> QED
  BY <1>3, <1>4, <1>5, <1>6, <1>7 DEF Next

LEMMA AlwaysSettled == SingleWorker => (Spec => []SettledInv)
<1> SUFFICES ASSUME SingleWorker
             PROVE  Spec => []SettledInv
  OBVIOUS
<1>1. /\ TypeInv /\ KeptInv /\ ChainInv /\ ChainWellFormed /\ SaveInv /\ SettledInv
      /\ [Next]_vars
      => SettledInv'
  BY NextSettles
<1>2. Init => SettledInv
  BY IdleIs DEF Init, SettledInv, Following, Tracked
<1> QED
  BY <1>1, <1>2, HashesAreKnown, AlwaysKept, ReadsAreNotStale, LedgerChainsWellFormed,
     AlwaysSaved, PTL DEF Spec

\* What a crash can undo: except between an append and the save that follows it, a
\* node that runs has its chain in blockchain.bin, or there is no chain worth
\* loading in the file; and while a handler tells its peers with send_block the
\* file does hold the chain.  Within that stretch a chain with an unsaved block
\* does leave the node: Invite sends it to the node that the block adds.
THEOREM LedgerSavedWhenSettled == SingleWorker => (Spec => []SavedWhenSettled)
<1> SUFFICES ASSUME SingleWorker
             PROVE  Spec => []SavedWhenSettled
  OBVIOUS
<1>1. SaveInv /\ SettledInv => SavedWhenSettled
  <2> SUFFICES ASSUME SaveInv, SettledInv, NEW n \in Nodes, mode[n] = "up",
                      \A w \in Workers : job[n][w].pc \notin Unsaved,
                      chainFile[n] # chain[n]
               PROVE  /\ Short(chainFile[n])
                      /\ \A w \in Workers : job[n][w].pc \notin {"tell", "wait"}
    BY DEF SavedWhenSettled
  <2>1. PICK w \in Workers : TRUE
    BY LedgerAssumption
  <2>2. Short(chainFile[n])
    BY <2>1 DEF SettledInv, Tracked
  <2> QED
    BY <2>2 DEF SaveInv, SavedOK, Saving
<1> QED
  BY <1>1, AlwaysSaved, AlwaysSettled, PTL

-----------------------------------------------------------------------------
(* While nobody has crashed. *)

LEMMA ContinueServes ==
  ASSUME SingleWorker, TypeInv, ChainInv, NEW n \in Nodes, NEW w \in Workers,
         ServingOK(n), Continue(n, w)
  PROVE  ServingOK(n)' /\ UNCHANGED crashes /\ mode[n] = "up" /\ mode'[n] = "up"
<1> DEFINE j == job[n][w]
           k == job'[n][w]
<1>1. /\ j \in Job /\ j.kind # "boot" /\ j.pc # "serve" /\ j.pc # "idle"
      /\ mode[n] = "up" /\ \A v \in Workers : v = w
  BY Alive, ContinueTouches, TypeInvParts DEF ServingOK, At, OthersOK, SingleWorker
<1>2. UNCHANGED <<mode, crashes>>
  BY <1>1 DEF Continue, UploadClash, UploadStore, Clear, AddGenesis, CheckPasses,
     CheckFails, KeyFails, AddQuietly, AddNode, RemoveNode, AddFile, RemoveFile,
     Append_, Invite, Invited, Raise, Save, Open, Write, Serve, Tell, Told, At
<1>3. k.kind # "boot"
  BY <1>1, KindsStay
<1>4. k.pc # "serve"
  BY <1>1, NeverServes
<1>5. chain'[n] = <<>> => k.pc = "check" /\ Loading(k)
  <2>1. chain[n] = <<>> => j.pc = "check" /\ Loading(j)
    BY <1>1 DEF ServingOK, At
  <2>2. CASE Clear(n, w)
    <3>1. j.pc = "clear" /\ chain[n] # <<>>
      BY <2>1, <2>2 DEF Clear, At
    <3>2. chain[n] \in Seq(Hashes) /\ Len(chain[n]) = 1
      <4>1. chain[n] \in Seq(Hashes) /\ Len(chain[n]) \in Nat /\ Len(chain[n]) # 0
        BY <3>1, TypeInvParts, TopIsHash DEF ChainsOK
      <4>2. Len(chain[n]) <= 1
        BY <2>2, ClearResets
      <4>3. \A l \in Nat : l # 0 /\ l <= 1 => l = 1
        OBVIOUS
      <4> QED
        BY <4>1, <4>2, <4>3, Zenon
    <3>3. minted[TopBlock(chain[n])].number + 1 = 1
      BY <3>1, <3>2, Alive DEF BeginsWell, IsGenesis, TopBlock
    <3>4. Becomes(n, w, LoadNext(j))
      BY <2>2, <3>1, <3>2, <3>3 DEF Clear
    <3>5. LoadNext(j).pc = "check" /\ LoadNext(j).kind = j.kind
      BY <1>1 DEF LoadNext, Job
    <3>6. j.kind = "overwriteBlockchain"
      BY <3>1, Alive DEF JobKnown
    <3> QED
      BY <3>4, <3>5, <3>6, BecomesIs DEF Loading
  <2>3. CASE AddGenesis(n, w)
    <3>1. chain'[n] = <<j.blk>>
      BY <2>3, GenesisBegins, TypeInvParts DEF ChainsOK
    <3>2. ASSUME NEW h
          PROVE  <<h>> # <<>>
      OBVIOUS
    <3> QED
      BY <3>1, <3>2, Zenon
  <2>4. CASE Append_(n, w)
    <3>1. /\ chain'[n] = Append(chain[n], j.blk) /\ chain[n] \in Seq(Nat)
          /\ j.blk \in Nat
      BY <2>4, AppendExtends, TypeInvParts DEF ChainsOK, Hashes
    <3>2. Len(Append(chain[n], j.blk)) = Len(chain[n]) + 1 /\ Len(chain[n]) \in Nat
      BY <3>1, AppendProperties
    <3>3. Len(<<>>) = 0
      OBVIOUS
    <3> QED
      BY <3>1, <3>2, <3>3
  <2>5. CASE chain'[n] = chain[n]
    BY <1>1, <2>1, <2>2, <2>3, <2>4, <2>5
       DEF Continue, UploadClash, UploadStore, CheckPasses, CheckFails, KeyFails,
           AddQuietly, AddNode, RemoveNode, AddFile, RemoveFile, Invite, Invited,
           Raise, Save, Open, Write, Serve, Tell, Told, At, Acceptable
  <2> QED
    BY <1>1, <2>2, <2>3, <2>4, <2>5
       DEF Continue, UploadClash, UploadStore, CheckPasses, CheckFails, KeyFails,
           AddQuietly, AddNode, RemoveNode, AddFile, RemoveFile, Invite, Invited,
           Raise, Save, Open, Write, Serve, Tell, Told, At, memory
<1> QED
  BY <1>1, <1>2, <1>3, <1>4, <1>5 DEF ServingOK, At

LEMMA NextServes ==
  ASSUME SingleWorker, TypeInv, KeptInv, ChainInv, ServeInv, [Next]_vars
  PROVE  ServeInv'
<1> SUFFICES ASSUME crashes' = 0
             PROVE  \A n \in Nodes : ServingOK(n)'
  BY DEF ServeInv
<1>1. ASSUME NEW m \in Nodes, ServingOK(m), Untouched(m)
      PROVE  ServingOK(m)'
  BY <1>1 DEF ServingOK, Untouched, At
<1>2. ASSUME NEW n \in Nodes, NEW w \in Workers, Continue(n, w)
      PROVE  \A m \in Nodes : ServingOK(m)'
  <2>1. UNCHANGED crashes
    BY <1>2 DEF Continue, UploadClash, UploadStore, Clear, AddGenesis, CheckPasses,
       CheckFails, KeyFails, AddQuietly, AddNode, RemoveNode, AddFile, RemoveFile,
       Append_, Invite, Invited, Raise, Save, Open, Write, Serve, Tell, Told
  <2> QED
    BY <1>1, <1>2, <2>1, ContinueServes, ContinueTouches DEF ServeInv
<1>3. ASSUME NEW n \in Nodes, NEW w \in Workers,
             Receive(n, w) \/ \E f \in Files : Upload(n, w, f)
      PROVE  \A m \in Nodes : ServingOK(m)'
  <2>1. /\ \A m \in Nodes \ {n} : Untouched(m)
        /\ mode[n] = "up" /\ job[n][w].pc = "idle"
        /\ UNCHANGED <<mode, memory, disk, crashes>>
    BY <1>3, ReceiveTouches
  <2>2. ServingOK(n) /\ \A v \in Workers : v = w
    BY <2>1 DEF ServeInv, SingleWorker
  <2>3. chain[n] # <<>>
    BY <2>1, <2>2 DEF ServingOK, At
  <2>4. ASSUME NEW v \in Workers
        PROVE  job'[n][v].kind # "boot" /\ job'[n][v].pc # "serve"
    BY <1>3, <2>2, RequestsBegin DEF Begins, ServingOK, At
  <2>5. ServingOK(n)'
    BY <2>1, <2>2, <2>3, <2>4 DEF ServingOK, At, memory, disk
  <2> QED
    BY <1>1, <2>1, <2>5 DEF ServeInv
<1>4. ASSUME NEW n \in Nodes, BootFresh(n)
      PROVE  \A m \in Nodes : ServingOK(m)'
  <2>1. /\ mode'[n] = "up" /\ chain'[n] = <<Len(minted) + 1>> /\ UNCHANGED <<job, crashes>>
    BY <1>4, TypeInvParts DEF BootFresh, OthersOK, ChainsOK
  <2>2. ServingOK(n)'
    BY <2>1 DEF ServeInv, ServingOK, At
  <2> QED
    BY <1>1, <1>4, <2>1, <2>2, BootTouches DEF ServeInv
<1>5. ASSUME NEW n \in Nodes, BootSaved(n)
      PROVE  FALSE
  BY <1>5 DEF BootSaved, ServeInv, ServingOK
<1>6. ASSUME NEW n \in Nodes, Crash(n)
      PROVE  FALSE
  BY <1>6, TypeInvParts DEF Crash, OthersOK
<1>7. ASSUME NEW c \in Nodes, NEW to \in Nodes, OperatorPosts(c, to)
      PROVE  \A m \in Nodes : ServingOK(m)'
  BY <1>1, <1>7 DEF OperatorPosts, Untouched, memory, disk, ServeInv
<1>8. CASE UNCHANGED vars
  BY <1>1, <1>8 DEF vars, Untouched, memory, disk, ServeInv
<1> QED
  BY <1>2, <1>3, <1>4, <1>5, <1>6, <1>7, <1>8 DEF Next

LEMMA AlwaysServing == SingleWorker => (Spec => []ServeInv)
<1> SUFFICES ASSUME SingleWorker
             PROVE  Spec => []ServeInv
  OBVIOUS
<1>1. TypeInv /\ KeptInv /\ ChainInv /\ ServeInv /\ [Next]_vars => ServeInv'
  BY NextServes
<1>2. Init => ServeInv
  <2> SUFFICES ASSUME Init, NEW n \in Nodes
               PROVE  ServingOK(n)
    BY DEF ServeInv
  <2>1. /\ mode[n] = "down" /\ chainFile[n] = NoFile /\ fileFile[n] = {}
        /\ \A w \in Workers : job[n][w] = Idle
    BY DEF Init
  <2> QED
    BY <2>1, IdleIs DEF ServingOK, At
<1> QED
  BY <1>1, <1>2, HashesAreKnown, AlwaysKept, ReadsAreNotStale, PTL DEF Spec

\* Until a process crashes a node that serves requests and is doing nothing has
\* a chain: overwrite_blockchain, which empties it first, is only ever sent
\* streams that begin with a block add_genesis takes.
THEOREM LedgerServesAChain == SingleWorker => (Spec => [](crashes = 0 => ServesAChain))
<1> SUFFICES ASSUME SingleWorker
             PROVE  Spec => [](crashes = 0 => ServesAChain)
  OBVIOUS
<1>1. ServeInv => (crashes = 0 => ServesAChain)
  <2> SUFFICES ASSUME ServeInv, crashes = 0, NEW n \in Nodes, Quiet(n)
               PROVE  chain[n] # <<>>
    BY DEF ServesAChain
  <2> QED
    BY DEF ServeInv, ServingOK, Quiet, At
<1> QED
  BY <1>1, AlwaysServing, PTL

-----------------------------------------------------------------------------
(* What an upload leaves. *)

LEMMA OnAppended ==
  ASSUME NEW S, NEW c \in Seq(S), NEW h \in S
  PROVE  On(Append(c, h)) = On(c) \cup {h}
<1>1. /\ Len(c) \in Nat /\ Len(Append(c, h)) = Len(c) + 1
      /\ Append(c, h)[Len(c) + 1] = h
      /\ \A i \in 1 .. Len(c) : Append(c, h)[i] = c[i]
  BY AppendProperties
<1>2. 1 .. Len(c) + 1 = (1 .. Len(c)) \cup {Len(c) + 1}
  BY <1>1
<1> QED
  BY <1>1, <1>2 DEF On

\* A block about f is on the chain of n, or n has signed one and refused it.
Listed(n, f) ==
  \/ \E h \in On(chain[n]) : minted[h].action = "add_file" /\ minted[h].data = f
  \/ Refused(n, f)

LEMMA RefusedStays ==
  ASSUME Grows, NEW n \in Nodes, NEW f, Refused(n, f)
  PROVE  Refused(n, f)'
<1>1. PICK h \in Hashes :
        /\ minted[h].action = "add_file" /\ minted[h].data = f /\ minted[h].creator = n
        /\ minted[h].prev \in Hashes /\ RefusedAtHome(h)
  BY DEF Refused
<1>2. /\ minted'[h] = minted[h] /\ minted'[minted[h].prev] = minted[minted[h].prev]
      /\ h \in Hashes' /\ minted[h].prev \in Hashes'
  BY <1>1 DEF Grows, Hashes
<1>3. RefusedAtHome(h)'
  BY <1>1, <1>2 DEF RefusedAtHome
<1> QED
  BY <1>1, <1>2, <1>3 DEF Refused

LEMMA ListedStays ==
  ASSUME ChainsOK, Grows, NEW n \in Nodes, NEW f, Listed(n, f),
         On(chain[n]) \subseteq On(chain'[n])
  PROVE  Listed(n, f)'
<1>1. On(chain[n]) \subseteq Hashes
  BY DEF On, ChainsOK
<1> QED
  BY <1>1, RefusedStays DEF Listed, Grows

LEMMA AnnouncingStays ==
  ASSUME TypeInv, Grows, NEW n \in Nodes, NEW w \in Workers,
         Announcing(minted, n, job[n][w], chain[n])
  PROVE  /\ Announcing(minted', n, job[n][w], chain[n])
         /\ minted'[job[n][w].blk] = minted[job[n][w].blk]
<1>1. job[n][w].blk \in Hashes
  BY TypeInvParts DEF JobsOK, JobKnown, Holds, Announcing
<1>2. Acceptable(minted, chain[n], job[n][w].blk)
      => Acceptable(minted', chain[n], job[n][w].blk)
  BY <1>1, TypeInvParts, AcceptableStays DEF ChainsOK
<1>3. /\ minted'[job[n][w].blk] = minted[job[n][w].blk]
      /\ minted[job[n][w].blk].prev \in Hashes
      /\ minted[job[n][w].blk].prev \in Hashes'
  BY <1>1 DEF Announcing, Grows, Hashes
<1>4. minted'[minted[job[n][w].blk].prev] = minted[minted[job[n][w].blk].prev]
  BY <1>3 DEF Grows
<1> QED
  BY <1>2, <1>3, <1>4 DEF Announcing, Hashes

LEMMA FilesStay ==
  ASSUME TypeInv, Grows, NEW n \in Nodes, FilesOK(n), chain'[n] = chain[n],
         files'[n] = files[n], job'[n] = job[n]
  PROVE  FilesOK(n)'
<1>1. ASSUME NEW f \in files[n]
      PROVE  Announced(n, f)'
  <2>1. CASE Listed(n, f)
    BY <2>1, ListedStays, TypeInvParts DEF Announced, Listed
  <2>2. ASSUME NEW w \in Workers, Announcing(minted, n, job[n][w], chain[n]),
               minted[job[n][w].blk].data = f
        PROVE  Announced(n, f)'
    BY <2>2, AnnouncingStays DEF Announced
  <2> QED
    BY <2>1, <2>2 DEF FilesOK, Announced, Listed
<1>2. ASSUME NEW w \in Workers, job[n][w].kind = "upload",
             job[n][w].pc \in {"check", "key"}
      PROVE  Announcing(minted', n, job[n][w], chain[n])
  BY <1>2, AnnouncingStays DEF FilesOK
<1> QED
  BY <1>1, <1>2 DEF FilesOK, At

\* Nothing that is not on the chain yet is known to a worker that is not itself
\* announcing it.
LEMMA FilesListed ==
  ASSUME SingleWorker, NEW n \in Nodes, NEW w \in Workers, FilesOK(n),
         ~Announcing(minted, n, job[n][w], chain[n])
  PROVE  \A f \in files[n] : Listed(n, f)
  BY DEF SingleWorker, FilesOK, Announced, Listed

\* The steps that list no file and take none.
LEMMA FilesKept ==
  ASSUME SingleWorker, TypeInv, Grows, NEW n \in Nodes, NEW w \in Workers, FilesOK(n),
         ~Announcing(minted, n, job[n][w], chain[n]),
         On(chain[n]) \subseteq On(chain'[n]), files'[n] = files[n],
         \/ job'[n][w].kind # "upload"
         \/ job'[n][w].pc \in {"raise", "save", "open", "write", "tell", "wait", "idle"}
  PROVE  FilesOK(n)'
<1>1. \A f \in files'[n] : Announced(n, f)'
  BY FilesListed, ListedStays, TypeInvParts DEF Announced, Listed
<1>2. \A v \in Workers : v = w
  BY DEF SingleWorker
<1> QED
  BY <1>1, <1>2 DEF FilesOK, At

LEMMA UploadAnnounces ==
  ASSUME SingleWorker, TypeInv, ChainWellFormed, NEW n \in Nodes, NEW w \in Workers,
         ServingOK(n), FilesOK(n), UploadStore(n, w), mode[n] = "up"
  PROVE  FilesOK(n)'
<1> DEFINE j == job[n][w]
           k == job'[n][w]
           c == chain[n]
           h == Len(minted) + 1
<1> USE TypeInvParts
<1>1. /\ j \in Job /\ j.pc = "store" /\ j.kind = "upload" /\ j.todo = <<>>
      /\ \A v \in Workers : v = w
  BY DEF UploadStore, At, JobsOK, JobKnown, FilesOK, SingleWorker
<1>2. c # <<>>
  BY <1>1 DEF ServingOK, At
<1>3. PICK b \in BlockData :
        /\ minted' = Append(minted, b)
        /\ b.number = Len(c) /\ b.prev = TopBlock(c)
        /\ b.action = "add_file" /\ b.data = j.name
        /\ b.creator = n /\ b.time \in Times
  BY <1>2, UploadSigns
<1>4. Grows /\ minted'[h] = b /\ Len(minted') = h /\ Len(minted) \in Nat
  BY <1>3, SigningGrows DEF ChainsOK
<1>5. /\ files'[n] = files[n] \cup {j.name} /\ chain'[n] = c
  BY DEF UploadStore, OthersOK
<1>6. PICK P \in Picks(n) :
        Becomes(n, w, [j EXCEPT !.pc = "check", !.blk = h, !.tell = P])
  BY <1>2 DEF UploadStore
<1>7. k.pc = "check" /\ k.blk = h /\ k.kind = "upload" /\ k.todo = <<>>
  <2> DEFINE i == [j EXCEPT !.pc = "check", !.blk = h, !.tell = P]
  <2>1. i.pc = "check" /\ i.blk = h /\ i.kind = j.kind /\ i.todo = j.todo
    BY <1>1 DEF Job
  <2>2. k = i
    BY <1>6, BecomesIs
  <2> HIDE DEF i
  <2> QED
    BY <1>1, <2>1, <2>2
<1>8. /\ Acceptable(minted', c, h) \/ minted'[h].time < minted'[minted'[h].prev].time
      /\ minted'[h].prev \in 1 .. Len(minted')
  <2>1. /\ TopBlock(c) \in Hashes /\ Len(c) \in Nat \ {0} /\ c \in Seq(Hashes)
    BY <1>2, TopIsHash DEF ChainsOK
  <2>2. minted[TopBlock(c)].number = Len(c) - 1
    BY <2>1 DEF ChainWellFormed, WellFormed, TopBlock
  <2>3. /\ minted'[TopBlock(c)] = minted[TopBlock(c)]
        /\ TopBlock(c) \in 1 .. Len(minted')
    BY <1>4, <2>1 DEF Grows, Hashes
  <2>4. minted'[TopBlock(c)].time \in Nat /\ minted'[h].time \in Nat
    <3>1. minted[TopBlock(c)] \in BlockData /\ Times \subseteq Nat
      BY <2>1, LedgerAssumption DEF ChainsOK, Hashes
    <3> QED
      BY <1>3, <1>4, <2>3, <3>1 DEF BlockData, NodeBlock, FileBlock
  <2>5. minted'[h].number = minted'[TopBlock(c)].number + 1
    BY <1>3, <1>4, <2>1, <2>2, <2>3
  <2> QED
    BY <1>2, <1>3, <1>4, <2>3, <2>4, <2>5 DEF Acceptable, Follows
<1>9. Announcing(minted', n, k, c)
  BY <1>3, <1>4, <1>7, <1>8 DEF Announcing
<1>10. ASSUME NEW f \in files'[n]
       PROVE  Announced(n, f)'
  <2>1. CASE f = j.name
    BY <1>3, <1>4, <1>5, <1>7, <1>9, <2>1 DEF Announced
  <2>2. CASE f \in files[n]
    <3>1. Listed(n, f)
      BY <1>1, <2>2, FilesListed DEF Announcing
    <3> QED
      BY <1>4, <1>5, <3>1, ListedStays DEF Announced, Listed
  <2> QED
    BY <1>5, <2>1, <2>2
<1> QED
  BY <1>1, <1>5, <1>7, <1>9, <1>10 DEF FilesOK, At

LEMMA ContinueFiles ==
  ASSUME SingleWorker, TypeInv, ChainInv, ChainWellFormed, NEW n \in Nodes,
         NEW w \in Workers, ServingOK(n), FilesOK(n), KeysStart,
         Continue(n, w)
  PROVE  FilesOK(n)'
<1> DEFINE j == job[n][w]
           k == job'[n][w]
           c == chain[n]
           Done == {"raise", "save", "open", "write", "tell", "wait", "idle"}
<1> USE TypeInvParts
<1>1. /\ j \in Job /\ j.kind # "boot" /\ j.pc # "serve"
      /\ mode[n] = "up" /\ c \in Seq(Hashes) /\ \A v \in Workers : v = w
      /\ k.kind \in {j.kind, "none"}
  BY ContinueServes, Alive, KindsStay DEF ServingOK, At, SingleWorker
<1>2. Grows
  BY NextGrows DEF Next
<1>3. j.kind = "upload" => /\ j.pc \notin {"clear", "invite", "invited"}
                           /\ j.pc = "store" => j.todo = <<>>
                           /\ j.pc \in {"check", "key"} => Announcing(minted, n, j, c)
  BY DEF FilesOK, At
<1>4. Announcing(minted, n, j, c) => j.kind = "upload" /\ j.pc \in {"check", "key"}
  BY DEF Announcing
<1>5. ASSUME UNCHANGED <<chain, files>>, j.kind # "upload" \/ j.pc \notin {"check", "key"},
             k.kind # "upload" \/ k.pc \in Done
      PROVE  FilesOK(n)'
  BY <1>2, <1>4, <1>5, FilesKept
<1>6. CASE UploadClash(n, w)
  <2>1. UNCHANGED <<chain, files>> /\ j.pc = "store" /\ k.pc = "raise"
    BY <1>6, GotoMoves DEF UploadClash, At, memory, Moved
  <2> QED
    BY <1>5, <2>1
<1>7. CASE UploadStore(n, w)
  BY <1>1, <1>7, UploadAnnounces
<1>8. CASE Clear(n, w)
  <2>1. j.pc = "clear" /\ j.kind # "upload" /\ k.kind # "upload"
    BY <1>1, <1>3, <1>8 DEF Clear, At
  <2>2. c # <<>> /\ Len(c) <= 1 /\ UNCHANGED <<minted, files>>
    BY <1>1, <1>8, <2>1, ClearResets DEF ServingOK, At, Clear
  <2>3. \A h \in On(c) : minted[h].action # "add_file"
    <3>1. \A i \in 1 .. Len(c) : i = 1
      BY <1>1, <2>2
    <3> QED
      BY <2>2, <3>1, Alive DEF On, BeginsWell, IsGenesis
  <2>4. \A f \in files[n] : Refused(n, f)
    BY <1>4, <2>1, <2>3, FilesListed DEF Listed
  <2>5. \A f \in files'[n] : Announced(n, f)'
    BY <1>2, <2>2, <2>4, RefusedStays DEF Announced
  <2> QED
    BY <1>1, <2>1, <2>5 DEF FilesOK, At
<1>9. CASE AddGenesis(n, w)
  <2>1. c = <<>> /\ files'[n] = files[n] /\ j.kind # "upload" /\ k.kind # "upload"
    BY <1>1, <1>9 DEF AddGenesis, Loading
  <2>2. On(c) = {}
    BY <2>1 DEF On
  <2> QED
    BY <1>2, <1>4, <2>1, <2>2, FilesKept
<1>10. CASE CheckPasses(n, w)
  <2>1. /\ Moved(j, k, "key") /\ j.pc = "check"
        /\ UNCHANGED <<minted, chain, files>>
    BY <1>10, GotoMoves DEF CheckPasses, At, memory
  <2>2. CASE j.kind = "upload"
    <3>1. Announcing(minted, n, j, c)
      BY <1>3, <2>1, <2>2
    <3>2. Announcing(minted, n, k, c)
      BY <2>1, <3>1 DEF Announcing, Moved
    <3>3. \A f \in files[n] : Announced(n, f)'
      BY <1>1, <1>2, <2>1, <3>2, RefusedStays DEF FilesOK, Announced, Moved
    <3> QED
      BY <1>1, <2>1, <3>2, <3>3 DEF FilesOK, Moved, At
  <2>3. CASE j.kind # "upload"
    BY <1>1, <1>5, <2>1, <2>3
  <2> QED
    BY <2>2, <2>3
<1>11. CASE CheckFails(n, w) \/ KeyFails(n, w)
  <2>1. UNCHANGED <<chain, files, minted>> /\ k.pc = "raise" /\ j.pc \in {"check", "key"}
    BY <1>11, GotoMoves DEF CheckFails, KeyFails, memory, Moved, At
  <2>2. CASE j.kind = "upload"
    <3>1. Announcing(minted, n, j, c) /\ j.blk \in Hashes
      BY <1>3, <2>1, <2>2, Alive DEF JobKnown, Holds
    <3>2. RefusedAtHome(j.blk)
      <4>1. CASE CheckFails(n, w)
        BY <3>1, <4>1 DEF CheckFails, Announcing, RefusedAtHome
      <4>2. CASE KeyFails(n, w)
        BY <3>1, <4>2 DEF KeyFails, Announcing, Adding, KeysStart, RefusedAtHome
      <4> QED
        BY <1>11, <4>1, <4>2
    <3>3. Refused(n, minted[j.blk].data)
      BY <3>1, <3>2 DEF Refused, Announcing, Hashes
    <3>4. ASSUME NEW f \in files[n]
          PROVE  Listed(n, f)
      BY <1>1, <3>3 DEF FilesOK, Announced, Listed
    <3>5. \A f \in files'[n] : Announced(n, f)'
      BY <1>2, <2>1, <3>4, ListedStays DEF Announced, Listed
    <3> QED
      BY <1>1, <2>1, <3>5 DEF FilesOK, At
  <2>3. CASE j.kind # "upload"
    BY <1>1, <1>5, <2>1, <2>3
  <2> QED
    BY <2>2, <2>3
<1>12. ASSUME Append_(n, w)
       PROVE  /\ j.pc = "key" /\ chain'[n] = Append(c, j.blk) /\ UNCHANGED minted
              /\ On(chain'[n]) = On(c) \cup {j.blk}
  <2>1. j.blk \in Hashes /\ chain'[n] = Append(c, j.blk)
    BY <1>12, AppendExtends DEF ChainsOK
  <2> QED
    BY <1>1, <1>12, <2>1, OnAppended DEF Append_, At
<1>13. CASE AddQuietly(n, w) \/ AddNode(n, w) \/ RemoveNode(n, w) \/ RemoveFile(n, w)
  <2>1. Append_(n, w) /\ files'[n] = files[n]
    BY <1>13 DEF AddQuietly, AddNode, RemoveNode, RemoveFile
  <2>2. ~Announcing(minted, n, j, c)
    BY <1>13
       DEF AddQuietly, AddNode, RemoveNode, RemoveFile, Operates, Loading, Announcing,
           Adding
  <2>3. k.kind # "upload"
    BY <1>1, <1>3, <1>12, <2>1, <2>2
  <2> QED
    BY <1>2, <1>12, <2>1, <2>2, <2>3, FilesKept
<1>14. CASE AddFile(n, w)
  <2>1. PICK d : d = Adding(n, w).data
    OBVIOUS
  <2>2. /\ Append_(n, w) /\ Adding(n, w).action = "add_file"
        /\ files'[n] = files[n] \cup {d}
    BY <1>14, <2>1 DEF AddFile, OthersOK
  <2>3. ASSUME NEW f \in files'[n]
        PROVE  Listed(n, f)'
    <3>1. CASE f = d
      BY <1>12, <2>1, <2>2, <3>1 DEF Listed, Adding
    <3>2. CASE f \in files[n] /\ Listed(n, f)
      BY <1>2, <1>12, <2>2, <3>2, ListedStays
    <3>3. CASE f \in files[n] /\ ~Listed(n, f)
      BY <1>1, <2>1, <3>1, <3>3 DEF FilesOK, Announced, Listed, Adding
    <3> QED
      BY <2>2, <3>1, <3>2, <3>3
  <2>4. k.kind # "upload" \/ k.pc = "save"
    <3>1. k = AfterAdd(j)
      BY <1>14, BecomesIs DEF AddFile
    <3>2. j.kind = "upload" => j.todo = <<>>
      BY <1>3, <1>12, <2>2 DEF Announcing
    <3> QED
      BY <1>1, <3>1, <3>2, AfterAddMoves DEF TakesNext, Moved
  <2> QED
    BY <1>1, <2>3, <2>4 DEF FilesOK, Announced, Listed, At
<1>15. CASE Invite(n, w) \/ Invited(n, w)
  <2>1. UNCHANGED <<chain, files>> /\ j.pc \in {"invite", "invited"}
    BY <1>15 DEF Invite, Invited, memory, At
  <2> QED
    BY <1>1, <1>3, <1>5, <2>1
<1>16. CASE Raise(n, w)
  <2>1. UNCHANGED <<chain, files>> /\ j.pc = "raise"
    BY <1>1, <1>16 DEF Raise, memory, At
  <2>2. Goto(n, w, "save") \/ Becomes(n, w, Idle)
    BY <1>1, <1>16 DEF Raise
  <2>3. k.pc \in {"save", "idle"}
    BY <2>2, GotoMoves, BecomesIs, IdleIs DEF Moved
  <2> QED
    BY <1>5, <2>1, <2>3
<1>17. CASE Save(n, w) \/ Open(n, w) \/ Write(n, w) \/ Tell(n, w) \/ Told(n, w)
  <2>1. /\ UNCHANGED <<chain, files>>
        /\ j.pc \in {"save", "open", "write", "tell", "wait"}
    BY <1>17 DEF Save, Open, Write, Tell, Told, memory, At
  <2>2. k.pc \in Done
    <3>1. CASE Save(n, w)
      <4>1. ASSUME NEW e, Becomes(n, w, [j EXCEPT !.pc = "open", !.out = e])
            PROVE  k.pc = "open"
        BY <1>1, <4>1, BecomesIs DEF Job
      <4> QED
        BY <3>1, <4>1, BecomesIs, IdleIs DEF Save
    <3>2. CASE Open(n, w) \/ Tell(n, w)
      BY <3>2, GotoMoves, BecomesIs, IdleIs DEF Open, Tell, Moved
    <3>3. CASE Write(n, w) \/ Told(n, w)
      BY <3>3, TellingMoves
    <3> QED
      BY <1>17, <3>1, <3>2, <3>3
  <2> QED
    BY <1>5, <2>1, <2>2
<1>18. ~Serve(n, w)
  BY <1>1 DEF Serve, At
<1> QED
  BY <1>6, <1>7, <1>8, <1>9, <1>10, <1>11, <1>13, <1>14, <1>15, <1>16, <1>17, <1>18
     DEF Continue

LEMMA NextFiles ==
  ASSUME SingleWorker, TypeInv, KeptInv, ChainInv, ChainWellFormed, ServeInv, FilesInv,
         KeysStart, [Next]_vars
  PROVE  FilesInv'
<1> SUFFICES ASSUME crashes' = 0
             PROVE  \A n \in Nodes : FilesOK(n)'
  BY DEF FilesInv
<1>1. Grows
  BY NextGrows
<1>2. ASSUME NEW m \in Nodes, FilesOK(m), Untouched(m)
      PROVE  FilesOK(m)'
  BY <1>1, <1>2, FilesStay DEF Untouched
<1>3. ASSUME NEW n \in Nodes, NEW w \in Workers, Continue(n, w)
      PROVE  \A m \in Nodes : FilesOK(m)'
  <2>1. UNCHANGED crashes
    BY <1>3 DEF Continue, UploadClash, UploadStore, Clear, AddGenesis, CheckPasses,
       CheckFails, KeyFails, AddQuietly, AddNode, RemoveNode, AddFile, RemoveFile,
       Append_, Invite, Invited, Raise, Save, Open, Write, Serve, Tell, Told
  <2>2. FilesOK(n)'
    BY <1>3, <2>1, ContinueFiles DEF FilesInv, ServeInv
  <2> QED
    BY <1>2, <1>3, <2>1, <2>2, ContinueTouches DEF FilesInv
<1>4. ASSUME NEW n \in Nodes, NEW w \in Workers,
             Receive(n, w) \/ \E f \in Files : Upload(n, w, f)
      PROVE  \A m \in Nodes : FilesOK(m)'
  <2>1. /\ \A m \in Nodes \ {n} : Untouched(m)
        /\ job[n][w].pc = "idle"
        /\ UNCHANGED <<minted, chain, files, crashes>>
    BY <1>4, ReceiveTouches DEF memory
  <2>2. FilesOK(n) /\ \A v \in Workers : v = w
    BY <2>1 DEF FilesInv, SingleWorker
  <2>3. ~Announcing(minted, n, job[n][w], chain[n])
    BY <2>1 DEF Announcing
  <2>4. \A f \in files'[n] : Announced(n, f)'
    <3>1. \A f \in files[n] : Listed(n, f)
      BY <2>2, <2>3, FilesListed
    <3> QED
      BY <1>1, <2>1, <3>1, ListedStays, TypeInvParts DEF Announced, Listed
  <2>5. \/ job'[n][w] = job[n][w]
        \/ job'[n][w].kind # "upload"
        \/ job'[n][w].pc = "store" /\ job'[n][w].todo = <<>>
    BY <1>4, RequestsBegin DEF Begins
  <2>6. FilesOK(n)'
    BY <2>1, <2>2, <2>4, <2>5 DEF FilesOK, At
  <2> QED
    BY <1>2, <2>1, <2>6 DEF FilesInv
<1>5. ASSUME NEW n \in Nodes, BootFresh(n)
      PROVE  \A m \in Nodes : FilesOK(m)'
  <2>1. crashes = 0 /\ files'[n] = fileFile[n] /\ fileFile[n] = {} /\ UNCHANGED job
    BY <1>5, TypeInvParts DEF BootFresh, OthersOK, ServeInv, ServingOK
  <2>2. \A w \in Workers : job[n][w].pc = "idle"
    BY <1>5 DEF BootFresh, KeptInv, DownOK, At
  <2>3. FilesOK(n)'
    BY <2>1, <2>2 DEF FilesOK, At
  <2> QED
    BY <1>2, <1>5, <2>1, <2>3, BootTouches DEF FilesInv
<1>6. ASSUME NEW n \in Nodes, BootSaved(n) \/ Crash(n)
      PROVE  FALSE
  BY <1>6, TypeInvParts DEF BootSaved, Crash, OthersOK, ServeInv, ServingOK
<1>7. ASSUME NEW c \in Nodes, NEW to \in Nodes, OperatorPosts(c, to)
      PROVE  \A m \in Nodes : FilesOK(m)'
  BY <1>2, <1>7 DEF OperatorPosts, Untouched, memory, disk, FilesInv
<1>8. CASE UNCHANGED vars
  BY <1>2, <1>8 DEF vars, Untouched, memory, disk, FilesInv
<1> QED
  BY <1>3, <1>4, <1>5, <1>6, <1>7, <1>8 DEF Next

LEMMA AlwaysKeysStart == Spec => []KeysStart
<1>1. TypeInv /\ KeysStart /\ [Next]_vars => KeysStart'
  <2> SUFFICES ASSUME TypeInv, KeysStart, [Next]_vars
               PROVE  KeysStart'
    OBVIOUS
  <2>1. ASSUME NEW n \in Nodes, NEW w \in Workers, Continue(n, w)
        PROVE  KeysStart'
    BY <2>1, KeysGrow, ContinueTouches DEF KeysStart, Untouched
  <2>2. ASSUME UNCHANGED disk
        PROVE  KeysStart'
    BY <2>2 DEF disk, KeysStart
  <2>3. ASSUME NEW n \in Nodes, NEW w \in Workers,
               Receive(n, w) \/ \E f \in Files : Upload(n, w, f)
        PROVE  KeysStart'
    BY <2>2, <2>3, ReceiveTouches
  <2>4. ASSUME NEW n \in Nodes, BootFresh(n) \/ BootSaved(n) \/ Crash(n)
        PROVE  KeysStart'
    BY <2>2, <2>4, BootTouches
  <2>5. ASSUME NEW c \in Nodes, NEW to \in Nodes, OperatorPosts(c, to)
        PROVE  KeysStart'
    BY <2>2, <2>5 DEF OperatorPosts
  <2>6. CASE UNCHANGED vars
    BY <2>2, <2>6 DEF vars
  <2> QED
    BY <2>1, <2>3, <2>4, <2>5, <2>6 DEF Next
<1>2. Init => KeysStart
  BY DEF Init, KeysStart
<1> QED
  BY <1>1, <1>2, HashesAreKnown, PTL DEF Spec

LEMMA AlwaysAnnounced == SingleWorker => (Spec => []FilesInv)
<1> SUFFICES ASSUME SingleWorker
             PROVE  Spec => []FilesInv
  OBVIOUS
<1>1. /\ TypeInv /\ KeptInv /\ ChainInv /\ ChainWellFormed /\ ServeInv /\ FilesInv
      /\ KeysStart /\ [Next]_vars
      => FilesInv'
  BY NextFiles
<1>2. Init => FilesInv
  <2> SUFFICES ASSUME Init, NEW n \in Nodes
               PROVE  FilesOK(n)
    BY DEF FilesInv
  <2>1. files[n] = {} /\ \A w \in Workers : job[n][w] = Idle
    BY DEF Init
  <2> QED
    BY <2>1, IdleIs DEF FilesOK, At
<1> QED
  BY <1>1, <1>2, HashesAreKnown, AlwaysKept, ReadsAreNotStale, LedgerChainsWellFormed,
     AlwaysServing, AlwaysKeysStart, PTL DEF Spec

\* A file in the list of a node that is doing nothing has its block on the chain of
\* the node, unless the node refused the block it signed itself, because its own
\* public key was not there or its clock was behind: until a process crashes an
\* upload loses its block neither to another handler of the node nor to a chain
\* that is copied over, whatever keys and clocks the nodes have.
THEOREM LedgerListedOrRefused == SingleWorker => (Spec => []ListedOrRefused)
<1> SUFFICES ASSUME SingleWorker
             PROVE  Spec => []ListedOrRefused
  OBVIOUS
<1>1. TypeInv /\ FilesInv => ListedOrRefused
  <2> SUFFICES ASSUME TypeInv, FilesInv, crashes = 0, NEW n \in Nodes, Quiet(n),
                      NEW f \in files[n]
               PROVE  \E h \in 1 .. Len(minted) :
                        /\ minted[h].action = "add_file" /\ minted[h].data = f
                        /\ \/ h \in On(chain[n])
                           \/ minted[h].creator = n /\ RefusedAtHome(h)
    BY DEF ListedOrRefused
  <2>1. Listed(n, f)
    BY DEF FilesInv, FilesOK, Announced, Announcing, Listed, Quiet, At
  <2>2. On(chain[n]) \subseteq 1 .. Len(minted)
    BY TypeInvParts DEF ChainsOK, On, Hashes
  <2> QED
    BY <2>1, <2>2 DEF Listed, Refused, Hashes
<1> QED
  BY <1>1, AlwaysAnnounced, HashesAreKnown, PTL

-----------------------------------------------------------------------------
(* Names, for any number of workers. *)

\* No add_file block is signed.
LEMMA NamesStay ==
  ASSUME TypeInv, Grows, NamesInv,
         \A h \in Hashes' : h \in Hashes \/ minted'[h].action # "add_file",
         UNCHANGED fileFile,
         \A n \in Nodes : mode'[n] # "down" => fileFile[n] \subseteq files'[n]
  PROVE  NamesInv'
<1>1. \A h \in Hashes : minted'[h] = minted[h] /\ minted[h].creator \in Nodes
  <2>1. \A b \in BlockData : b.creator \in Nodes
    BY DEF BlockData, NodeBlock, FileBlock
  <2> QED
    BY <2>1, TypeInvParts DEF Grows, ChainsOK, Hashes
<1>2. \A h \in Hashes' : minted'[h].action = "add_file" => h \in Hashes
  OBVIOUS
<1>3. UploadedOnce'
  BY <1>1, <1>2 DEF NamesInv, UploadedOnce, Hashes
<1> QED
  BY <1>1, <1>2, <1>3 DEF NamesInv

\* The one block that UploadStore signs is about a name that is in no list of its
\* node yet.
LEMMA UploadNames ==
  ASSUME TypeInv, KeptInv, NamesInv, NEW n \in Nodes, NEW w \in Workers,
         UploadStore(n, w)
  PROVE  NamesInv'
<1> USE TypeInvParts
<1> DEFINE f == job[n][w].name
           l == Len(minted)
<1>1. /\ f \notin files[n] /\ mode[n] # "down" /\ fileFile[n] \subseteq files[n]
      /\ mode' = mode
      /\ files' = [files EXCEPT ![n] = @ \cup {f}]
      /\ fileFile' = [fileFile EXCEPT ![n] = files[n] \cup {f}]
  BY DEF UploadStore, At, KeptInv, DownOK, NamesInv
<1>2. \A m \in Nodes : mode'[m] # "down" => fileFile'[m] \subseteq files'[m]
  BY <1>1 DEF OthersOK, NamesInv
<1>3. /\ \A m \in Nodes : fileFile[m] \subseteq fileFile'[m]
      /\ f \in fileFile'[n]
  BY <1>1 DEF OthersOK
<1>4. \A h \in Hashes : minted[h].creator \in Nodes
  <2>1. \A b \in BlockData : b.creator \in Nodes
    BY DEF BlockData, NodeBlock, FileBlock
  <2> QED
    BY <2>1 DEF ChainsOK, Hashes
<1>5. CASE chain[n] = <<>>
  <2>1. UNCHANGED minted
    BY <1>5 DEF UploadStore
  <2>2. UploadedOnce'
    BY <2>1 DEF NamesInv, UploadedOnce
  <2>3. \A h \in Hashes' : minted'[h].action = "add_file" =>
          minted'[h].data \in fileFile'[minted'[h].creator]
    BY <1>3, <1>4, <2>1 DEF NamesInv, Hashes
  <2> QED
    BY <1>2, <2>2, <2>3 DEF NamesInv
<1>6. CASE chain[n] # <<>>
  <2>1. PICK b \in BlockData : /\ minted' = Append(minted, b) /\ b.action = "add_file"
                               /\ b.data = f /\ b.creator = n
    BY <1>6, UploadSigns
  <2>2. /\ \A h \in Hashes : minted'[h] = minted[h]
        /\ minted'[l + 1] = b /\ Hashes' = Hashes \cup {l + 1}
    <3>1. Grows /\ Len(minted') = l + 1 /\ minted'[l + 1] = b /\ l \in Nat
      BY <2>1, SigningGrows DEF ChainsOK
    <3> QED
      BY <3>1 DEF Grows, Hashes
  <2>3. \A h \in Hashes : ~(/\ minted[h].action = "add_file" /\ minted[h].data = f
                            /\ minted[h].creator = n)
    BY <1>1 DEF NamesInv
  <2>4. UploadedOnce'
    BY <2>1, <2>2, <2>3 DEF NamesInv, UploadedOnce, Hashes
  <2>5. \A h \in Hashes' : minted'[h].action = "add_file" =>
          minted'[h].data \in fileFile'[minted'[h].creator]
    BY <1>3, <1>4, <2>1, <2>2 DEF NamesInv
  <2> QED
    BY <1>2, <2>4, <2>5 DEF NamesInv
<1> QED
  BY <1>5, <1>6

LEMMA SignsNoFile ==
  ASSUME TypeInv, NEW b \in BlockData, minted' = Append(minted, b),
         b.action # "add_file"
  PROVE  \A h \in Hashes' : h \in Hashes \/ minted'[h].action # "add_file"
<1>1. Len(minted') = Len(minted) + 1 /\ minted'[Len(minted) + 1] = b
      /\ Len(minted) \in Nat
  BY TypeInvParts DEF ChainsOK
<1> QED
  BY <1>1 DEF Hashes

\* A node that goes on running forgets no file.
LEMMA ContinueFileList ==
  ASSUME TypeInv, KeptInv, NEW n \in Nodes, NEW w \in Workers, Continue(n, w),
         mode'[n] # "down"
  PROVE  mode[n] # "down" /\ files[n] \subseteq files'[n]
<1>1. files \in [Nodes -> SUBSET Files] /\ mode \in [Nodes -> {"down", "boot", "up"}]
  BY TypeInvParts DEF OthersOK
<1>2. mode[n] # "down"
  BY ContinueTouches DEF KeptInv, DownOK, At
<1>3. CASE UNCHANGED files
  BY <1>2, <1>3
<1>4. CASE UploadStore(n, w) \/ AddFile(n, w)
  BY <1>1, <1>2, <1>4 DEF UploadStore, AddFile
<1>5. CASE Raise(n, w)
  BY <1>1, <1>2, <1>5 DEF Raise, Halt, memory
<1> QED
  BY <1>3, <1>4, <1>5
     DEF Continue, UploadClash, Clear, AddGenesis, CheckPasses, CheckFails,
         KeyFails, AddQuietly, AddNode, RemoveNode, RemoveFile, Append_,
         Invite, Invited, Save, Open, Write, Serve, Tell, Told, memory

LEMMA NextNames ==
  ASSUME TypeInv, KeptInv, NamesInv, [Next]_vars
  PROVE  NamesInv'
<1>1. Grows
  BY NextGrows
<1>2. ASSUME NEW n \in Nodes,
             \A m \in Nodes \ {n} : mode'[m] = mode[m] /\ files'[m] = files[m],
             UNCHANGED fileFile,
             mode'[n] # "down" => fileFile[n] \subseteq files'[n]
      PROVE  \A m \in Nodes : mode'[m] # "down" => fileFile[m] \subseteq files'[m]
  BY <1>2 DEF NamesInv
<1>3. ASSUME NEW n \in Nodes, NEW w \in Workers, Continue(n, w), ~UploadStore(n, w)
      PROVE  NamesInv'
  <2>1. UNCHANGED <<minted, fileFile>>
    BY <1>3
       DEF Continue, UploadClash, Clear, AddGenesis, CheckPasses, CheckFails,
           KeyFails, AddQuietly, AddNode, RemoveNode, AddFile, RemoveFile,
           Append_, Invite, Invited, Raise, Save, Open, Write, Serve, Tell, Told,
           disk
  <2>2. mode'[n] # "down" => mode[n] # "down" /\ files[n] \subseteq files'[n]
    BY <1>3, ContinueFileList
  <2>3. \A m \in Nodes : mode'[m] # "down" => fileFile[m] \subseteq files'[m]
    BY <1>2, <1>3, <2>1, <2>2, ContinueTouches DEF Untouched, NamesInv
  <2> QED
    BY <1>1, <2>1, <2>3, NamesStay DEF Hashes
<1>4. ASSUME NEW n \in Nodes, NEW w \in Workers,
             Receive(n, w) \/ \E f \in Files : Upload(n, w, f)
      PROVE  NamesInv'
  <2>1. UNCHANGED <<minted, mode, memory, disk>>
    BY <1>4, ReceiveTouches
  <2> QED
    BY <1>1, <2>1, NamesStay DEF NamesInv, Hashes, memory, disk
<1>5. ASSUME NEW n \in Nodes, BootFresh(n) \/ BootSaved(n) \/ Crash(n)
      PROVE  NamesInv'
  <2>1. UNCHANGED disk /\ \A m \in Nodes \ {n} : Untouched(m)
    BY <1>5, BootTouches
  <2>2. mode'[n] # "down" => files'[n] = fileFile[n]
    BY <1>5, TypeInvParts DEF BootFresh, BootSaved, Crash, Halt, OthersOK
  <2>3. \A m \in Nodes : mode'[m] # "down" => fileFile[m] \subseteq files'[m]
    BY <1>2, <2>1, <2>2 DEF Untouched, disk
  <2>4. \A h \in Hashes' : h \in Hashes \/ minted'[h].action # "add_file"
    <3>1. CASE BootFresh(n)
      <4>1. PICK b \in BlockData : /\ minted' = Append(minted, b)
                                   /\ b.action = "add_node"
        BY <3>1, BootSigns
      <4> QED
        BY <4>1, SignsNoFile
    <3>2. CASE BootSaved(n) \/ Crash(n)
      BY <3>2 DEF BootSaved, Crash, Hashes
    <3> QED
      BY <1>5, <3>1, <3>2
  <2> QED
    BY <1>1, <2>1, <2>3, <2>4, NamesStay DEF disk
<1>6. ASSUME NEW c \in Nodes, NEW to \in Nodes, OperatorPosts(c, to)
      PROVE  NamesInv'
  <2>1. PICK b \in BlockData : minted' = Append(minted, b) /\ b.action \in AdminActions
    BY <1>6, OperatorSigns
  <2>2. b.action # "add_file"
    BY <2>1, LedgerAssumption
  <2>3. UNCHANGED <<mode, memory, disk>>
    BY <1>6 DEF OperatorPosts
  <2> QED
    BY <1>1, <2>1, <2>2, <2>3, NamesStay, SignsNoFile DEF NamesInv, memory, disk
<1>7. CASE UNCHANGED vars
  BY <1>1, <1>7, NamesStay DEF vars, NamesInv, Hashes, memory, disk
<1>8. ASSUME NEW n \in Nodes, NEW w \in Workers, UploadStore(n, w)
      PROVE  NamesInv'
  BY <1>8, UploadNames
<1> QED
  BY <1>3, <1>4, <1>5, <1>6, <1>7, <1>8 DEF Next

\* A node signs an add_file block for a name at most once, with any number of
\* workers, through crashes and after the file was removed: two threads of /upload
\* that find the same name free race for FileList.add, which one of them loses, and
\* the list is saved before the block is signed.
THEOREM LedgerUploadedOnce == Spec => []UploadedOnce
<1>1. TypeInv /\ KeptInv /\ NamesInv /\ [Next]_vars => NamesInv'
  BY NextNames
<1>2. Init => NamesInv
  BY DEF Init, NamesInv, UploadedOnce, Hashes
<1>3. NamesInv => UploadedOnce
  BY DEF NamesInv
<1> QED
  BY <1>1, <1>2, <1>3, HashesAreKnown, AlwaysKept, PTL DEF Spec

=============================================================================
