--------------------------- MODULE TransferProofs ---------------------------
(***************************************************************************)
(* As long as nobody crashes and nobody reads half a chunk, every file is  *)
(* a beginning of the original: for any nodes, sizes and node lists, any   *)
(* failures of calls and any messages lost.                                *)
(*                                                                         *)
(* Through crashes, a complete file is the right one or deleted, and the   *)
(* chunks a saved list counts are in the file.                             *)
(***************************************************************************)
EXTENDS Transfer, SequenceTheorems, TLAPS

(* Sizes *)

LEMMA DivMod ==
  ASSUME NEW s \in Nat \ {0}, NEW c \in Nat \ {0, 1}
  PROVE  /\ s = c * (s \div c) + (s % c)
         /\ s % c \in 0 .. c - 1
         /\ s \div c \in Nat
<1>1. s % c \in 0 .. c - 1
  BY SMT
<1>2. s \div c \in Nat
  BY SMT
<1>3. s = c * (s \div c) + (s % c)
  BY SMT
<1> QED
  BY <1>1, <1>2, <1>3

\* The chunks cover the file, and all but the last are whole.
LEMMA TotalCovers ==
  /\ Total \in Nat \ {0}
  /\ (Total - 1) * ChunkSize < Size
  /\ Size <= Total * ChunkSize
<1> DEFINE d == Size \div ChunkSize
           r == Size % ChunkSize
<1>1. Size \in Nat \ {0} /\ ChunkSize \in Nat \ {0, 1}
  BY TransferAssumption DEF TransferAssumption
<1>2. Size = ChunkSize * d + r /\ r \in 0 .. ChunkSize - 1 /\ d \in Nat
  BY <1>1, DivMod
<1>3. Total = d + (IF r = 0 THEN 0 ELSE 1)
  BY DEF Total
<1> HIDE DEF d, r
<1>4. (d - 1) * ChunkSize = ChunkSize * d - ChunkSize
      /\ (d + 1) * ChunkSize = ChunkSize * d + ChunkSize
      /\ d * ChunkSize = ChunkSize * d
  BY <1>1, <1>2
<1>5. CASE r = 0
  <2>1. d # 0
    BY <1>1, <1>2, <1>5
  <2> QED
    BY <1>1, <1>2, <1>3, <1>4, <1>5, <2>1
<1>6. CASE r # 0
  BY <1>1, <1>2, <1>3, <1>4, <1>6
<1> QED
  BY <1>5, <1>6

LEMMA EndOfFacts ==
  ASSUME NEW k \in 0 .. Total
  PROVE  /\ EndOf(k) \in 0 .. Size
         /\ EndOf(0) = 0
         /\ EndOf(Total) = Size
         /\ k < Total => /\ EndOf(k) = k * ChunkSize
                         /\ EndOf(k) < EndOf(k + 1)
                         /\ EndOf(k + 1) = IF EndOf(k) + ChunkSize < Size
                                           THEN EndOf(k) + ChunkSize ELSE Size
<1>1. Size \in Nat \ {0} /\ ChunkSize \in Nat \ {0, 1}
  BY TransferAssumption DEF TransferAssumption
<1>2. k * ChunkSize \in Nat /\ Total \in Nat \ {0}
  BY <1>1, TotalCovers
<1>3. EndOf(k) \in 0 .. Size
  BY <1>1, <1>2 DEF EndOf
<1>4. EndOf(0) = 0 /\ EndOf(Total) = Size
  BY <1>1, TotalCovers DEF EndOf
<1>5. ASSUME k < Total
      PROVE  /\ EndOf(k) = k * ChunkSize
             /\ EndOf(k) < EndOf(k + 1)
             /\ EndOf(k + 1) = IF EndOf(k) + ChunkSize < Size
                               THEN EndOf(k) + ChunkSize ELSE Size
  <2>1. k * ChunkSize <= (Total - 1) * ChunkSize
    BY <1>1, <1>2, <1>5
  <2>2. k * ChunkSize < Size
    BY <1>1, <1>2, <2>1, TotalCovers
  <2>3. (k + 1) * ChunkSize = k * ChunkSize + ChunkSize
    BY <1>1
  <2> QED
    BY <1>1, <1>2, <2>2, <2>3 DEF EndOf
<1> QED
  BY <1>3, <1>4, <1>5

(* The original and what is read of a file *)

LEMMA OriginalType ==
  /\ Original \in Bytes
  /\ Len(Original) = Size
  /\ \A k \in 1 .. Size : Original[k] = k
<1>1. Size \in Nat \ {0}
  BY TransferAssumption DEF TransferAssumption
<1>2. \A k \in 1 .. Size : k \in 1 .. Size
  OBVIOUS
<1> QED
  BY <1>1, <1>2 DEF Original, Bytes

LEMMA ReadType ==
  ASSUME NEW f \in Bytes, NEW start \in Nat, NEW length \in Int
  PROVE  Read(f, start, length) \in Bytes
<1> DEFINE last == IF start + length < Len(f) THEN start + length ELSE Len(f)
<1>1. Len(f) \in Nat /\ \A i \in 1 .. Len(f) : f[i] \in 1 .. Size
  BY LenProperties, ElementOfSeq DEF Bytes
<1>2. last \in Int /\ last <= Len(f)
  BY <1>1
<1> HIDE DEF last
<1>3. \A i \in start + 1 .. last : f[i] \in 1 .. Size
  BY <1>1, <1>2
<1>4. SubSeq(f, start + 1, last) \in Seq(1 .. Size)
  BY <1>2, <1>3, SubSeqProperties
<1> QED
  BY <1>4 DEF Read, last, Bytes

LEMMA SubBytes ==
  ASSUME NEW f \in Bytes, NEW i \in Nat \ {0}, NEW k \in Int, k <= Len(f)
  PROVE  SubSeq(f, i, k) \in Bytes
<1>1. Len(f) \in Nat /\ \A x \in 1 .. Len(f) : f[x] \in 1 .. Size
  BY LenProperties, ElementOfSeq DEF Bytes
<1>2. \A x \in i .. k : f[x] \in 1 .. Size
  BY <1>1
<1>3. i \in Int
  OBVIOUS
<1> QED
  BY <1>2, <1>3, SubSeqProperties DEF Bytes

LEMMA SomethingInBytes ==
  /\ <<>> \in Bytes
  /\ Missing \notin Bytes
  BY EmptySeq, TransferAssumption DEF Bytes, TransferAssumption

-----------------------------------------------------------------------------
(* Types *)

FetcherBusy == [pc : FetchSteps, job : Job, data : Bytes, tell : SUBSET Nodes]

LEMMA FetcherBusyWhen ==
  ASSUME NEW t \in FetcherThread, t.pc \in FetchSteps
  PROVE  t \in FetcherBusy
  BY DEF FetcherThread, FetcherBusy, FetchSteps

LEMMA FetcherIdle ==
  ASSUME NEW pc \in {"off", "look", "leave"}
  PROVE  FetcherAt(pc) \in FetcherThread /\ FetcherAt(pc).pc = pc
  BY DEF FetcherThread, FetcherAt

LEMMA FetcherStart ==
  ASSUME NEW j \in Job
  PROVE  FetcherWith(j) \in FetcherThread
<1>1. FetcherWith(j) \in FetcherBusy
  BY SomethingInBytes DEF FetcherBusy, FetcherWith, FetchSteps
<1>2. FetcherBusy \subseteq FetcherThread
  BY DEF FetcherBusy, FetcherThread
<1> QED
  BY <1>1, <1>2

LEMMA FetcherGoesOn ==
  ASSUME NEW t \in FetcherBusy, NEW pc \in FetchSteps, NEW d \in Bytes,
         NEW P \in SUBSET Nodes
  PROVE  /\ [t EXCEPT !.pc = pc] \in FetcherThread
         /\ [t EXCEPT !.pc = pc, !.data = d] \in FetcherThread
         /\ [t EXCEPT !.data = d] \in FetcherThread
         /\ [t EXCEPT !.pc = pc, !.tell = P] \in FetcherThread
         /\ [t EXCEPT !.tell = P] \in FetcherThread
  BY DEF FetcherBusy, FetcherThread

SenderBusy == [pc : {"read"}, job : SendJob, offer : {None}]
SenderOffers == [pc : {"post", "wait", "answered"}, job : SendJob, offer : Job]

LEMMA SenderBusyWhen ==
  ASSUME NEW t \in SenderThread
  PROVE  /\ t.pc = "read" => t \in SenderBusy
         /\ t.pc \in {"post", "wait", "answered"} => t \in SenderOffers
  BY DEF SenderThread, SenderBusy, SenderOffers

LEMMA SenderIdle ==
  ASSUME NEW pc \in {"off", "look", "leave"}
  PROVE  SenderAt(pc) \in SenderThread /\ SenderAt(pc).pc = pc
  BY DEF SenderThread, SenderAt

LEMMA SenderStart ==
  ASSUME NEW j \in SendJob
  PROVE  /\ SenderWith(j) = [pc |-> "read", job |-> j, offer |-> None]
         /\ SenderWith(j) \in SenderThread
<1>1. ~(j.chunk + 1 > Total)
  BY TotalCovers DEF SendJob, Job
<1>2. SenderWith(j) = [pc |-> "read", job |-> j, offer |-> None]
  BY <1>1 DEF SenderWith
<1> QED
  BY <1>2 DEF SenderThread

LEMMA SenderGoesOn ==
  /\ \A t \in SenderBusy, o \in Job :
       [t EXCEPT !.pc = "post", !.offer = o] \in SenderThread
  /\ \A t \in SenderOffers, pc \in {"wait", "answered"} :
       [t EXCEPT !.pc = pc] \in SenderThread
  BY DEF SenderThread, SenderBusy, SenderOffers

LEMMA OfferType ==
  ASSUME NEW n \in Nodes, NEW k \in 1 .. Total, NEW start \in Nat, NEW end \in Nat,
         NEW data \in Bytes
  PROVE  Offer(n, k, start, end, data) \in Job
  BY DEF Offer, Job

LEMMA PostType ==
  ASSUME NEW kind \in {"response", "webhook"}, NEW to \in Nodes, NEW job \in Job,
         net \subseteq Request, lost \in Nat, Post(kind, to, job)
  PROVE  net' \subseteq Request /\ lost' \in Nat
  BY TransferAssumption DEF Post, Request, TransferAssumption

LEMMA PicksType ==
  ASSUME NEW n \in Nodes, NEW P \in Picks(n)
  PROVE  P \in SUBSET Nodes
  BY TransferAssumption DEF Picks, TransferAssumption

\* The node the file is uploaded to keeps it and fetches nothing.
Uploaded ==
  /\ file[Origin] = Original
  /\ listFile[Origin] = Total
  /\ count[Origin] = IF mode[Origin] = "down" THEN None ELSE Total
  /\ fetcher[Origin].pc \in {"off", "look", "leave", "check"}

TypeInv == TypeOK /\ Uploaded

LEMMA SizeTypes ==
  /\ Origin \in Nodes
  /\ Size \in Nat \ {0} /\ ChunkSize \in Nat \ {0, 1}
  /\ FirstEnd \in Nat /\ InviteEnd \in Nat
  /\ Total \in Nat \ {0}
  /\ None \notin Nat
  BY TransferAssumption, TotalCovers DEF TransferAssumption, FirstEnd, InviteEnd

LEMMA TypesInit == Init => TypeInv
<1> SUFFICES ASSUME Init PROVE TypeInv
  OBVIOUS
<1>1. 0 \in 0 .. Total /\ Total \in 0 .. Total
  BY SizeTypes
<1>2. /\ mode \in [Nodes -> {"down", "starting", "up"}]
      /\ count \in [Nodes -> 0 .. Total \cup {None}]
      /\ listFile \in [Nodes -> 0 .. Total \cup {None}]
      /\ telling \subseteq Nodes
      /\ net \subseteq Request
      /\ faults \in Nat /\ lost \in Nat /\ torn \in Nat /\ invites \in Nat
      /\ crashes \in [Nodes -> Nat]
  BY <1>1, SizeTypes, PicksType DEF Init
<1>3. file \in [Nodes -> Bytes \cup {Missing}]
  BY OriginalType DEF Init
<1>4. /\ fetchQueue \in [Nodes -> Seq(Job)]
      /\ sendQueue \in [Nodes -> Seq(SendJob)]
  BY EmptySeq DEF Init
<1>5. /\ fetcher \in [Nodes -> FetcherThread]
      /\ sender \in [Nodes -> SenderThread]
  BY FetcherIdle, SenderIdle DEF Init
<1>6. Uploaded
  BY SizeTypes, FetcherIdle DEF Init, Uploaded
<1> QED
  BY <1>2, <1>3, <1>4, <1>5, <1>6 DEF TypeInv, TypeOK

LEMMA TypesMessages ==
  ASSUME TypeInv,
         \/ \E p \in Nodes : TellPeer(p)
         \/ \E n, d \in Nodes : Invite(n, d)
         \/ \E m \in net : Receive(m)
  PROVE  TypeInv'
<1> USE SizeTypes
<1>1. ASSUME NEW p \in Nodes, TellPeer(p)
      PROVE  TypeInv'
  <2>1. ByteRange(file[Origin], 0, FirstEnd) \in Bytes
    <3>1. FirstEnd - 0 + 1 \in Int
      OBVIOUS
    <3> QED
      BY <3>1, OriginalType, ReadType DEF TypeInv, Uploaded, ByteRange
  <2>2. Offer(Origin, 1, 0, FirstEnd, ByteRange(file[Origin], 0, FirstEnd)) \in Job
    BY <2>1, OfferType
  <2>3. net' \subseteq Request /\ lost' \in Nat
    BY <1>1, <2>2, PostType DEF TellPeer, TypeInv, TypeOK
  <2> QED
    BY <1>1, <2>3 DEF TellPeer, TypeInv, TypeOK, Uploaded, disk
<1>2. ASSUME NEW n \in Nodes, NEW d \in Nodes, Invite(n, d)
      PROVE  TypeInv'
  <2>1. Read(file[n], 0, InviteEnd + 1) \in Bytes
    BY <1>2, ReadType DEF TypeInv, TypeOK, Invite
  <2>2. Offer(n, 1, 0, InviteEnd, Read(file[n], 0, InviteEnd + 1)) \in Job
    BY <2>1, OfferType
  <2>3. net' \subseteq Request /\ lost' \in Nat
    BY <1>2, <2>2, PostType DEF Invite, TypeInv, TypeOK
  <2>4. invites' \in Nat
    BY <1>2 DEF Invite, TypeInv, TypeOK
  <2>5. UNCHANGED <<mode, count, disk, fetcher, sender, telling, faults, torn, crashes>>
    BY <1>2 DEF Invite
  <2> QED
    BY <2>3, <2>4, <2>5 DEF TypeInv, TypeOK, Uploaded, disk
<1>3. ASSUME NEW m \in net, Receive(m)
      PROVE  TypeInv'
  <2>1. m.to \in Nodes /\ m.job \in Job /\ m.job.from \in Nodes
    BY DEF TypeInv, TypeOK, Request, Job
  <2>2. CASE Response(m)
    <3>1. fetchQueue' \in [Nodes -> Seq(Job)]
      BY <2>1, <2>2, AppendProperties DEF TypeInv, TypeOK, Response
    <3>2. fetcher' \in [Nodes -> FetcherThread]
      BY <2>1, <2>2, FetcherIdle DEF TypeInv, TypeOK, Response
    <3>3. sender' \in [Nodes -> SenderThread]
      BY <2>1, <2>2, SenderBusyWhen, SenderGoesOn DEF TypeInv, TypeOK, Response
    <3>4. fetcher'[Origin].pc \in {"off", "look", "leave", "check"}
      BY <2>1, <2>2, FetcherIdle DEF TypeInv, TypeOK, Uploaded, Response
    <3> QED
      BY <1>3, <2>2, <3>1, <3>2, <3>3, <3>4
      DEF TypeInv, TypeOK, Uploaded, Receive, Response, bounds
  <2>3. CASE Webhook(m)
    <3>1. sendQueue' \in [Nodes -> Seq(SendJob)]
      <4>1. CASE m.job.chunk + 1 > Total
        BY <2>3, <4>1 DEF TypeInv, TypeOK, Webhook
      <4>2. CASE ~(m.job.chunk + 1 > Total)
        <5>1. m.job \in SendJob
          BY <2>1, <4>2 DEF Job, SendJob
        <5>2. sendQueue[m.to] \in Seq(SendJob)
          BY <2>1 DEF TypeInv, TypeOK
        <5>3. Append(sendQueue[m.to], m.job) \in Seq(SendJob)
          BY <5>1, <5>2, AppendProperties
        <5> QED
          BY <2>1, <2>3, <4>2, <5>3 DEF TypeInv, TypeOK, Webhook
      <4> QED
        BY <4>1, <4>2
    <3>2. sender' \in [Nodes -> SenderThread]
      BY <2>1, <2>3, SenderIdle DEF TypeInv, TypeOK, Webhook
    <3> QED
      BY <1>3, <2>3, <3>1, <3>2
      DEF TypeInv, TypeOK, Uploaded, Receive, Webhook, bounds
  <2> QED
    BY <1>3, <2>2, <2>3 DEF Receive
<1> QED
  BY <1>1, <1>2, <1>3

LEMMA FetchAgainTypes ==
  ASSUME TypeInv, NEW n \in Nodes, fetcher[n].pc \in FetchSteps, FetchAgain(n)
  PROVE  /\ fetchQueue' \in [Nodes -> Seq(Job)]
         /\ fetcher' \in [Nodes -> FetcherThread]
         /\ fetcher'[n].pc = "look"
<1>1. fetcher[n].job \in Job
  BY FetcherBusyWhen DEF TypeInv, TypeOK, FetcherBusy
<1>2. fetchQueue[n] \in Seq(Job)
  BY DEF TypeInv, TypeOK
<1>3. Append(fetchQueue[n], fetcher[n].job) \in Seq(Job)
  BY <1>1, <1>2, AppendProperties
<1> QED
  BY <1>3, FetcherIdle DEF TypeInv, TypeOK, FetchAgain, FetcherTo

LEMMA TypesFetcher ==
  ASSUME TypeInv, NEW n \in Nodes, FetchStep(n)
  PROVE  TypeInv'
<1> USE SizeTypes
<1> DEFINE t == fetcher[n]
<1>0. /\ t \in FetcherThread
      /\ t.pc \in FetchSteps => t \in FetcherBusy /\ t.job \in Job /\ t.data \in Bytes
                                 /\ t.tell \in SUBSET Nodes
      /\ n = Origin => t.pc \in {"off", "look", "leave", "check"}
  BY FetcherBusyWhen DEF TypeInv, TypeOK, Uploaded, FetcherBusy
<1>1. ASSUME FetchLook(n)
      PROVE  TypeInv'
  <2>1. CASE fetchQueue[n] = <<>>
    BY <1>1, <2>1, FetcherIdle DEF FetchLook, FetcherTo, TypeInv, TypeOK, Uploaded, bounds
  <2>2. CASE fetchQueue[n] # <<>>
    <3>1. Head(fetchQueue[n]) \in Job /\ Tail(fetchQueue[n]) \in Seq(Job)
      BY <2>2, HeadTailProperties DEF TypeInv, TypeOK
    <3>2. FetcherWith(Head(fetchQueue[n])) \in FetcherThread
      BY <3>1, FetcherStart
    <3>3. FetcherWith(Head(fetchQueue[n])).pc = "check"
      BY DEF FetcherWith
    <3> QED
      BY <1>1, <2>2, <3>1, <3>2, <3>3
      DEF FetchLook, FetcherTo, TypeInv, TypeOK, Uploaded, bounds
  <2> QED
    BY <2>1, <2>2
<1>2. ASSUME FetchLeave(n)
      PROVE  TypeInv'
  BY <1>2, FetcherIdle
  DEF FetchLeave, FetcherTo, TypeInv, TypeOK, Uploaded, disk, bounds
<1>3. ASSUME FetchCheck(n)
      PROVE  TypeInv'
  <2>0. t.pc = "check" /\ t.pc \in FetchSteps
    BY <1>3 DEF FetchCheck, FetchSteps
  <2>1. CASE FetcherTo(n, FetcherAt("off")) /\ UNCHANGED fetchQueue
    BY <1>3, <2>1, FetcherIdle
    DEF FetchCheck, FetcherTo, TypeInv, TypeOK, Uploaded, bounds
  <2>2. CASE FetcherTo(n, FetcherAt("look")) /\ UNCHANGED fetchQueue
    BY <1>3, <2>2, FetcherIdle
    DEF FetchCheck, FetcherTo, TypeInv, TypeOK, Uploaded, bounds
  <2>3. CASE FetchAgain(n)
    <3>1. /\ fetchQueue' \in [Nodes -> Seq(Job)]
          /\ fetcher' \in [Nodes -> FetcherThread]
          /\ fetcher'[n].pc = "look"
      BY <2>0, <2>3, FetchAgainTypes
    <3> QED
      BY <1>3, <2>3, <3>1
      DEF FetchCheck, FetchAgain, FetcherTo, TypeInv, TypeOK, Uploaded, bounds
  <2>4. CASE /\ Listed(n) /\ ~IsDownloaded(n)
             /\ FetcherTo(n, [t EXCEPT !.pc = "fetch"])
             /\ UNCHANGED fetchQueue
    <3>1. n # Origin
      BY <2>4 DEF Listed, IsDownloaded, TypeInv, Uploaded
    <3>2. [t EXCEPT !.pc = "fetch"] \in FetcherThread
      BY <1>0, <2>0, FetcherGoesOn DEF FetchSteps
    <3> QED
      BY <1>3, <2>4, <3>1, <3>2
      DEF FetchCheck, FetcherTo, TypeInv, TypeOK, Uploaded, bounds
  <2> QED
    BY <1>3, <2>1, <2>2, <2>3, <2>4 DEF FetchCheck
<1>4. ASSUME Fetch(n)
      PROVE  TypeInv'
  <2>1. t.pc = "fetch" /\ t.pc \in FetchSteps /\ n # Origin
    BY <1>0, <1>4 DEF Fetch, FetchSteps
  <2>2. t.job.sha1 \in Bytes
    BY <1>0, <2>1 DEF Job
  <2>3. [t EXCEPT !.pc = "append", !.data = t.job.sha1] \in FetcherThread
    BY <1>0, <2>1, <2>2, FetcherGoesOn DEF FetchSteps
  <2> QED
    BY <1>4, <2>1, <2>3
    DEF Fetch, SaveList, FetcherTo, TypeInv, TypeOK, Uploaded, bounds
<1>5. ASSUME FetchFails(n)
      PROVE  TypeInv'
  <2>1. t.pc = "fetch" /\ t.pc \in FetchSteps /\ n # Origin /\ FetchAgain(n)
    BY <1>0, <1>5 DEF FetchFails, FetchSteps
  <2>2. fetchQueue' \in [Nodes -> Seq(Job)] /\ fetcher' \in [Nodes -> FetcherThread]
    BY <2>1, FetchAgainTypes
  <2>3. faults' \in Nat
    BY <1>5 DEF FetchFails, TypeInv, TypeOK
  <2>4. fetcher'[Origin] = fetcher[Origin]
    BY <2>1 DEF FetchAgain, FetcherTo, TypeInv, TypeOK
  <2> QED
    BY <1>5, <2>2, <2>3, <2>4 DEF FetchFails, TypeInv, TypeOK, Uploaded
<1>6. ASSUME AppendChunk(n)
      PROVE  TypeInv'
  <2>1. t.pc = "append" /\ t.pc \in FetchSteps /\ n # Origin
    BY <1>0, <1>6 DEF AppendChunk, FetchSteps
  <2>2. Content(n) \in Bytes
    BY SomethingInBytes DEF Content, TypeInv, TypeOK
  <2>3. Content(n) \o t.data \in Bytes
    BY <1>0, <2>1, <2>2, ConcatProperties DEF Bytes
  <2>4. [t EXCEPT !.pc = "complete", !.data = <<>>] \in FetcherThread
    BY <1>0, <2>1, SomethingInBytes, FetcherGoesOn DEF FetchSteps
  <2> QED
    BY <1>6, <2>1, <2>3, <2>4
    DEF AppendChunk, FetcherTo, TypeInv, TypeOK, Uploaded, bounds
<1>7. ASSUME AppendPart(n)
      PROVE  TypeInv'
  <2>1. t.pc = "append" /\ t.pc \in FetchSteps /\ n # Origin
    BY <1>0, <1>7 DEF AppendPart, FetchSteps
  <2>2. PICK i \in 1 .. Len(t.data) - 1 :
          /\ file' = [file EXCEPT ![n] = Content(n) \o SubSeq(t.data, 1, i)]
          /\ FetcherTo(n, [t EXCEPT !.data = SubSeq(@, i + 1, Len(@))])
    BY <1>7 DEF AppendPart
  <2>3. Len(t.data) \in Nat /\ i \in Nat \ {0} /\ i <= Len(t.data)
    BY <1>0, <2>1, LenProperties DEF Bytes
  <2>4. SubSeq(t.data, 1, i) \in Bytes /\ SubSeq(t.data, i + 1, Len(t.data)) \in Bytes
    BY <1>0, <2>1, <2>3, SubBytes
  <2>5. Content(n) \in Bytes
    BY SomethingInBytes DEF Content, TypeInv, TypeOK
  <2>6. Content(n) \o SubSeq(t.data, 1, i) \in Bytes
    BY <2>4, <2>5, ConcatProperties DEF Bytes
  <2>7. [t EXCEPT !.data = SubSeq(@, i + 1, Len(@))] \in FetcherThread
    BY <1>0, <2>1, <2>4, FetcherGoesOn
  <2>8. torn' \in Nat
    <3>1. torn \in Nat
      BY DEF TypeInv, TypeOK
    <3>2. torn' = torn + 1
      BY <1>7 DEF AppendPart
    <3> QED
      BY <3>1, <3>2
  <2> QED
    BY <1>7, <2>1, <2>2, <2>6, <2>7, <2>8
    DEF AppendPart, FetcherTo, TypeInv, TypeOK, Uploaded
<1>8. ASSUME Complete(n)
      PROVE  TypeInv'
  <2>1. t.pc = "complete" /\ t.pc \in FetchSteps /\ n # Origin
    BY <1>0, <1>8 DEF Complete, FetchSteps
  <2>2. count' \in [Nodes -> 0 .. Total \cup {None}] /\ count'[Origin] = count[Origin]
    <3>1. t.job.chunk \in 0 .. Total
      BY <1>0, <2>1 DEF Job
    <3> QED
      BY <1>8, <2>1, <3>1 DEF Complete, TypeInv, TypeOK
  <2>3. listFile' \in [Nodes -> 0 .. Total \cup {None}]
        /\ listFile'[Origin] = listFile[Origin]
    BY <1>8, <2>1, <2>2 DEF Complete, SaveList, TypeInv, TypeOK
  <2>4. fetcher' \in [Nodes -> FetcherThread] /\ fetcher'[Origin] = fetcher[Origin]
    <3>1. CASE FetcherTo(n, FetcherAt("off"))
      BY <2>1, <3>1, FetcherIdle DEF FetcherTo, TypeInv, TypeOK
    <3>2. ASSUME NEW P \in Picks(n), FetcherTo(n, [t EXCEPT !.pc = "tell", !.tell = P])
          PROVE  fetcher' \in [Nodes -> FetcherThread] /\ fetcher'[Origin] = fetcher[Origin]
      <4>1. [t EXCEPT !.pc = "tell", !.tell = P] \in FetcherThread
        BY <1>0, <2>1, PicksType, FetcherGoesOn DEF FetchSteps
      <4> QED
        BY <2>1, <3>2, <4>1 DEF FetcherTo, TypeInv, TypeOK
    <3> QED
      BY <1>8, <3>1, <3>2 DEF Complete
  <2> QED
    BY <1>8, <2>2, <2>3, <2>4 DEF Complete, TypeInv, TypeOK, Uploaded, bounds
<1>9. ASSUME Tell(n)
      PROVE  TypeInv'
  <2>1. t.pc = "tell" /\ t.pc \in FetchSteps /\ n # Origin
    BY <1>0, <1>9 DEF Tell, FetchSteps
  <2>2. [t.job EXCEPT !.from = n] \in Job
    BY <1>0, <2>1 DEF Job
  <2>3. net' \subseteq Request /\ lost' \in Nat
        /\ fetcher' \in [Nodes -> FetcherThread] /\ fetcher'[Origin] = fetcher[Origin]
    <3>1. ASSUME NEW p \in t.tell,
                 Post("response", p, [t.job EXCEPT !.from = n]),
                 FetcherTo(n, [t EXCEPT !.tell = @ \ {p}])
          PROVE  net' \subseteq Request /\ lost' \in Nat
                 /\ fetcher' \in [Nodes -> FetcherThread] /\ fetcher'[Origin] = fetcher[Origin]
      <4>1. p \in Nodes /\ t.tell \ {p} \in SUBSET Nodes
        BY <1>0, <2>1
      <4>2. net' \subseteq Request /\ lost' \in Nat
        BY <2>2, <3>1, <4>1, PostType DEF TypeInv, TypeOK
      <4>3. [t EXCEPT !.tell = @ \ {p}] \in FetcherThread
        BY <1>0, <2>1, <4>1, FetcherGoesOn
      <4> QED
        BY <2>1, <3>1, <4>2, <4>3 DEF FetcherTo, TypeInv, TypeOK
    <3>2. CASE FetcherTo(n, [t EXCEPT !.pc = "confirm"]) /\ UNCHANGED <<net, lost>>
      <4>1. [t EXCEPT !.pc = "confirm"] \in FetcherThread
        BY <1>0, <2>1, FetcherGoesOn DEF FetchSteps
      <4> QED
        BY <2>1, <3>2, <4>1 DEF FetcherTo, TypeInv, TypeOK
    <3> QED
      BY <1>9, <3>1, <3>2 DEF Tell
  <2> QED
    BY <1>9, <2>3 DEF Tell, TypeInv, TypeOK, Uploaded, disk
<1>10. ASSUME Confirm(n)
       PROVE  TypeInv'
  <2>1. t.pc = "confirm" /\ t.pc \in FetchSteps /\ n # Origin
    BY <1>0, <1>10 DEF Confirm, FetchSteps
  <2>2. t.job.from \in Nodes /\ [t.job EXCEPT !.from = n] \in Job
    BY <1>0, <2>1 DEF Job
  <2>3. net' \subseteq Request /\ lost' \in Nat
    BY <1>10, <2>2, PostType DEF Confirm, TypeInv, TypeOK
  <2>4. [t EXCEPT !.pc = "verify"] \in FetcherThread
    BY <1>0, <2>1, FetcherGoesOn DEF FetchSteps
  <2> QED
    BY <1>10, <2>1, <2>3, <2>4, FetcherIdle
    DEF Confirm, FetcherTo, TypeInv, TypeOK, Uploaded, disk
<1>11. ASSUME Verify(n)
       PROVE  TypeInv'
  <2>1. t.pc = "verify" /\ n # Origin
    BY <1>0, <1>11 DEF Verify
  <2> QED
    BY <1>11, <2>1, FetcherIdle
    DEF Verify, FetcherTo, TypeInv, TypeOK, Uploaded, bounds
<1> QED
  BY <1>1, <1>2, <1>3, <1>4, <1>5, <1>6, <1>7, <1>8, <1>9, <1>10, <1>11 DEF FetchStep

LEMMA SendAgainTypes ==
  ASSUME TypeInv, NEW n \in Nodes, sender[n].job \in SendJob, SendAgain(n)
  PROVE  /\ sendQueue' \in [Nodes -> Seq(SendJob)]
         /\ sender' \in [Nodes -> SenderThread]
<1>1. sendQueue[n] \in Seq(SendJob)
  BY DEF TypeInv, TypeOK
<1>2. Append(sendQueue[n], sender[n].job) \in Seq(SendJob)
  BY <1>1, AppendProperties
<1> QED
  BY <1>2, SenderIdle DEF TypeInv, TypeOK, SendAgain, SenderTo

\* The next offer is one: there is a chunk after the one that was confirmed.
LEMMA NextOfferType ==
  ASSUME TypeInv, NEW n \in Nodes, sender[n].pc = "read", file[n] # Missing
  PROVE  NextOffer(n) \in Job
<1> DEFINE j == sender[n].job
           start == j.end + 1
           data == Read(file[n], start, ChunkSize)
           place == start + Len(data)
<1>1. j \in Job /\ j.chunk < Total
  BY SenderBusyWhen DEF TypeInv, TypeOK, SenderBusy, SendJob
<1>2. j.chunk + 1 \in 1 .. Total /\ start \in Nat \ {0}
  BY <1>1, SizeTypes DEF Job
<1>3. file[n] \in Bytes
  BY DEF TypeInv, TypeOK
<1>30. data \in Bytes
  BY <1>2, <1>3, SizeTypes, ReadType
<1> HIDE DEF data
<1>4. data \in Bytes /\ Len(data) \in Nat
  BY <1>30, LenProperties DEF Bytes
<1>5. place \in Nat /\ place - 1 \in Nat
  BY <1>2, <1>4
<1>6. (IF j.chunk + 1 = Total THEN place ELSE place - 1) \in Nat
  BY <1>5
<1>7. Offer(n, j.chunk + 1, start, IF j.chunk + 1 = Total THEN place ELSE place - 1, data)
      \in Job
  BY <1>2, <1>4, <1>6, OfferType
<1> QED
  BY <1>7 DEF NextOffer, data

LEMMA TypesSender ==
  ASSUME TypeInv, NEW n \in Nodes, SendStep(n)
  PROVE  TypeInv'
<1> USE SizeTypes
<1> DEFINE t == sender[n]
<1>0. /\ t \in SenderThread
      /\ t.pc = "read" => t \in SenderBusy
      /\ t.pc \in {"post", "wait", "answered"} => t \in SenderOffers
  BY SenderBusyWhen DEF TypeInv, TypeOK
<1>1. ASSUME SendLook(n)
      PROVE  TypeInv'
  <2>1. CASE sendQueue[n] = <<>>
    BY <1>1, <2>1, SenderIdle DEF SendLook, SenderTo, TypeInv, TypeOK, Uploaded, bounds
  <2>2. CASE sendQueue[n] # <<>>
    <3>1. Head(sendQueue[n]) \in SendJob /\ Tail(sendQueue[n]) \in Seq(SendJob)
      BY <2>2, HeadTailProperties DEF TypeInv, TypeOK
    <3>2. SenderWith(Head(sendQueue[n])) \in SenderThread
      BY <3>1, SenderStart
    <3> QED
      BY <1>1, <2>2, <3>1, <3>2 DEF SendLook, SenderTo, TypeInv, TypeOK, Uploaded, bounds
  <2> QED
    BY <2>1, <2>2
<1>2. ASSUME SendLeave(n)
      PROVE  TypeInv'
  BY <1>2, SenderIdle DEF SendLeave, SenderTo, TypeInv, TypeOK, Uploaded, disk, bounds
<1>3. ASSUME SendRead(n)
      PROVE  TypeInv'
  <2>1. t.job \in SendJob
    BY <1>0, <1>3 DEF SendRead, SenderBusy
  <2>2. CASE SendAgain(n)
    BY <1>3, <2>1, <2>2, SendAgainTypes DEF SendRead, TypeInv, TypeOK, Uploaded, bounds
  <2>3. ASSUME CanOffer(n), UNCHANGED sendQueue,
               SenderTo(n, IF mode[n] = "starting" THEN SenderAt("off")
                           ELSE [t EXCEPT !.pc = "post", !.offer = NextOffer(n)])
        PROVE  TypeInv'
    <3>1. NextOffer(n) \in Job
      BY <1>3, <2>3, NextOfferType DEF SendRead, CanOffer
    <3>2. [t EXCEPT !.pc = "post", !.offer = NextOffer(n)] \in SenderThread
      BY <1>0, <1>3, <3>1, SenderGoesOn DEF SendRead
    <3>3. sender' \in [Nodes -> SenderThread]
      BY <2>3, <3>2, SenderIdle DEF SenderTo, TypeInv, TypeOK
    <3> QED
      BY <1>3, <2>3, <3>3 DEF SendRead, TypeInv, TypeOK, Uploaded, bounds
  <2> QED
    BY <1>3, <2>2, <2>3 DEF SendRead
<1>4. ASSUME SendPost(n)
      PROVE  TypeInv'
  <2>1. t \in SenderOffers
    BY <1>0, <1>4 DEF SendPost
  <2>2. Offered(n) \in Request
    BY <2>1 DEF Offered, Request, SenderOffers, SendJob, Job
  <2>3. [t EXCEPT !.pc = "wait"] \in SenderThread
    BY <2>1, SenderGoesOn
  <2> QED
    BY <1>4, <2>2, <2>3 DEF SendPost, SenderTo, TypeInv, TypeOK, Uploaded, disk, bounds
<1>5. ASSUME SendAnswered(n)
      PROVE  TypeInv'
  BY <1>5, SenderIdle DEF SendAnswered, SenderTo, TypeInv, TypeOK, Uploaded, disk, bounds
<1>6. ASSUME SendFails(n)
      PROVE  TypeInv'
  <2>1. t.job \in SendJob
    BY <1>0, <1>6 DEF SendFails, SenderOffers
  <2>2. SendAgain(n)
    BY <1>6 DEF SendFails
  <2>3. faults' \in Nat
    BY <1>6 DEF SendFails, TypeInv, TypeOK
  <2>4. UNCHANGED <<mode, count, listFile, file, fetchQueue, fetcher, telling, net,
                    lost, torn, invites, crashes>>
    BY <1>6 DEF SendFails
  <2> QED
    BY <2>1, <2>2, <2>3, <2>4, SendAgainTypes DEF TypeInv, TypeOK, Uploaded
<1> QED
  BY <1>1, <1>2, <1>3, <1>4, <1>5, <1>6 DEF SendStep

LEMMA TypesNode ==
  ASSUME TypeInv, NEW n \in Nodes, ListFile(n) \/ Crash(n) \/ Boot(n) \/ Ready(n)
  PROVE  TypeInv'
<1> USE SizeTypes
<1>1. ASSUME ListFile(n)
      PROVE  TypeInv'
  <2>1. n # Origin
    BY <1>1 DEF ListFile, Listed, TypeInv, Uploaded
  <2> QED
    BY <1>1, <2>1 DEF ListFile, TypeInv, TypeOK, Uploaded, disk, bounds
<1>2. ASSUME Crash(n)
      PROVE  TypeInv'
  BY <1>2, FetcherIdle, SenderIdle DEF Crash, TypeInv, TypeOK, Uploaded, disk
<1>3. ASSUME Boot(n)
      PROVE  TypeInv'
  <2>1. /\ fetcher' \in [Nodes -> FetcherThread]
        /\ sender' \in [Nodes -> SenderThread]
        /\ fetcher'[Origin].pc \in {"off", "look", "leave", "check"}
    BY <1>3, FetcherIdle, SenderIdle
    DEF Boot, FetcherTo, SenderTo, TypeInv, TypeOK, Uploaded
  <2>2. count' \in [Nodes -> 0 .. Total \cup {None}]
        /\ mode' \in [Nodes -> {"down", "starting", "up"}]
    BY <1>3 DEF Boot, TypeInv, TypeOK
  <2>3. count'[Origin] = IF mode'[Origin] = "down" THEN None ELSE Total
    BY <1>3 DEF Boot, TypeInv, TypeOK, Uploaded
  <2> QED
    BY <1>3, <2>1, <2>2, <2>3 DEF Boot, TypeInv, TypeOK, Uploaded, disk, bounds
<1>4. ASSUME Ready(n)
      PROVE  TypeInv'
  BY <1>4 DEF Ready, TypeInv, TypeOK, Uploaded, disk, bounds
<1> QED
  BY <1>1, <1>2, <1>3, <1>4

LEMMA TypesNext == TypeInv /\ [Next]_vars => TypeInv'
<1> SUFFICES ASSUME TypeInv, [Next]_vars PROVE TypeInv'
  OBVIOUS
<1>1. CASE UNCHANGED vars
  BY <1>1 DEF vars, disk, bounds, TypeInv, TypeOK, Uploaded
<1>2. CASE Next
  BY <1>2, TypesMessages, TypesFetcher, TypesSender, TypesNode DEF Next
<1> QED
  BY <1>1, <1>2

\* Every variable keeps its type; the Sender never has a job of the last chunk.
THEOREM Typed == Spec => []TypeOK
<1>1. Spec => []TypeInv
  BY TypesInit, TypesNext, PTL DEF Spec
<1>2. TypeInv => TypeOK
  BY DEF TypeInv
<1> QED
  BY <1>1, <1>2, PTL

\* The node that a file was uploaded to keeps it, whoever offers it chunks of it,
\* and through crashes.
THEOREM OriginKeepsTheFile == Spec => []OriginKeeps
<1>1. Spec => []TypeInv
  BY TypesInit, TypesNext, PTL DEF Spec
<1>2. TypeInv => OriginKeeps
  BY DEF TypeInv, Uploaded, OriginKeeps
<1> QED
  BY <1>1, <1>2, PTL

-----------------------------------------------------------------------------
(* The beginnings of the file and its chunks *)

First(k) == SubSeq(Original, 1, EndOf(k))
Chunk(k) == SubSeq(Original, EndOf(k - 1) + 1, EndOf(k))

LEMMA EndOfGrows ==
  ASSUME NEW k \in 0 .. Total, NEW l \in 0 .. Total, k <= l
  PROVE  EndOf(k) <= EndOf(l)
<1>1. k * ChunkSize <= l * ChunkSize /\ k * ChunkSize \in Nat /\ l * ChunkSize \in Nat
  BY SizeTypes
<1> QED
  BY <1>1, SizeTypes DEF EndOf

LEMMA FirstFacts ==
  ASSUME NEW k \in 0 .. Total
  PROVE  /\ First(k) \in Bytes
         /\ Len(First(k)) = EndOf(k)
         /\ k # 0 => First(k) # Missing
         /\ First(0) = <<>>
         /\ First(Total) = Original
<1>1. EndOf(k) \in 0 .. Size /\ EndOf(0) = 0 /\ EndOf(Total) = Size
  BY EndOfFacts
<1>2. EndOf(k) \in Int /\ \A i \in 1 .. EndOf(k) : Original[i] \in 1 .. Size
  BY <1>1, OriginalType, SizeTypes
<1>3. First(k) \in Bytes /\ Len(First(k)) = EndOf(k)
  BY <1>1, <1>2, SubSeqProperties DEF First, Bytes
<1>4. First(0) = <<>>
  BY <1>1, SubSeqEmpty DEF First
<1>5. First(Total) = Original
  BY <1>1, OriginalType, SubSeqFull DEF First, Bytes
<1> QED
  BY <1>3, <1>4, <1>5, SomethingInBytes

LEMMA ChunkExtends ==
  ASSUME NEW k \in 1 .. Total
  PROVE  /\ First(k - 1) \o Chunk(k) = First(k)
         /\ Chunk(k) \in Bytes
         /\ Len(Chunk(k)) = EndOf(k) - EndOf(k - 1)
<1>1. k - 1 \in 0 .. Total /\ k \in 0 .. Total
  BY SizeTypes
<1>2. EndOf(k - 1) \in 0 .. Size /\ EndOf(k) \in EndOf(k - 1) .. Size
  BY <1>1, EndOfFacts, EndOfGrows
<1>3. Original \in Seq(1 .. Size) /\ Len(Original) = Size
  BY OriginalType DEF Bytes
<1>4. First(k - 1) \o Chunk(k) = First(k)
  <2>1. /\ 1 \in 1 .. Len(Original) + 1
        /\ EndOf(k - 1) \in 1 - 1 .. Len(Original)
        /\ EndOf(k) \in EndOf(k - 1) .. Len(Original)
    BY <1>2, <1>3, SizeTypes
  <2>2. SubSeq(Original, 1, EndOf(k - 1)) \o SubSeq(Original, EndOf(k - 1) + 1, EndOf(k))
        = SubSeq(Original, 1, EndOf(k))
    BY <1>3, <2>1, ConcatAdjacentSubSeq
  <2> QED
    BY <2>2 DEF First, Chunk
<1>5. EndOf(k - 1) + 1 \in Int /\ EndOf(k) \in Int
      /\ \A i \in EndOf(k - 1) + 1 .. EndOf(k) : Original[i] \in 1 .. Size
  BY <1>2, OriginalType, SizeTypes
<1>6. Chunk(k) \in Bytes
      /\ Len(Chunk(k)) = IF EndOf(k - 1) + 1 <= EndOf(k)
                         THEN EndOf(k) - (EndOf(k - 1) + 1) + 1 ELSE 0
  BY <1>5, SubSeqProperties DEF Chunk, Bytes
<1> QED
  BY <1>2, <1>4, <1>6

\* Reading the file of a node that has the first h chunks.
LEMMA ReadFirst ==
  ASSUME NEW h \in 0 .. Total, NEW start \in Nat, NEW length \in Nat \ {0}
  PROVE  Read(First(h), start, length) =
           IF start < EndOf(h)
           THEN SubSeq(Original, start + 1, IF start + length < EndOf(h)
                                            THEN start + length ELSE EndOf(h))
           ELSE <<>>
<1> DEFINE last == IF start + length < EndOf(h) THEN start + length ELSE EndOf(h)
<1>1. EndOf(h) \in 0 .. Size /\ First(h) \in Bytes /\ Len(First(h)) = EndOf(h)
  BY EndOfFacts, FirstFacts
<1>2. Read(First(h), start, length) = SubSeq(First(h), start + 1, last)
  BY <1>1 DEF Read
<1>3. CASE start < EndOf(h)
  <2>1. start + 1 \in 1 .. EndOf(h) /\ last \in 1 .. EndOf(h)
    BY <1>1, <1>3, SizeTypes
  <2> HIDE DEF last
  <2>2. 1 \in 1 .. Len(Original) /\ EndOf(h) \in 1 .. Len(Original)
    BY <1>1, <1>3, OriginalType, SizeTypes
  <2>3. Original \in Seq(1 .. Size)
    BY OriginalType DEF Bytes
  <2>4. start + 1 \in 1 .. EndOf(h) - 1 + 1 /\ last \in 1 .. EndOf(h) - 1 + 1
    BY <1>1, <2>1, SizeTypes
  <2>5. SubSeq(First(h), start + 1, last)
        = SubSeq(Original, 1 + (start + 1) - 1, 1 + last - 1)
    BY <2>2, <2>3, <2>4, SubSeqOfSubSeq DEF First
  <2>6. 1 + (start + 1) - 1 = start + 1 /\ 1 + last - 1 = last
    BY <2>1, <1>1, SizeTypes
  <2>7. Read(First(h), start, length) = SubSeq(Original, start + 1, last)
    BY <1>2, <2>5, <2>6
  <2> QED
    BY <1>3, <2>7 DEF last
<1>4. CASE ~(start < EndOf(h))
  <2>1. last \in Int /\ last < start + 1 /\ start + 1 \in Int
    BY <1>1, <1>4, SizeTypes
  <2> HIDE DEF last
  <2> QED
    BY <1>2, <1>4, <2>1, SubSeqEmpty
<1> QED
  BY <1>3, <1>4

-----------------------------------------------------------------------------
(* Without crashes and half written chunks, every job is about a chunk of    *)
(* the file, and every file is its first chunks                              *)

\* The end of the last chunk is its last byte or one more.
Genuine(j) ==
  /\ j.start = EndOf(j.chunk - 1)
  /\ j.sha1 = Chunk(j.chunk)
  /\ IF j.chunk < Total THEN j.end = EndOf(j.chunk) - 1 ELSE j.end \in {Size - 1, Size}

TrueJob == {j \in Job : Genuine(j)}

\* Where the thread of the Fetcher is, and what it has counted.
InStep(n) ==
  /\ fetcher[n].pc \in FetchSteps => fetcher[n].job \in TrueJob
  /\ fetcher[n].pc \in {"fetch", "append", "complete"} =>
       Listed(n) /\ count[n] + 1 = fetcher[n].job.chunk
  /\ fetcher[n].pc = "append" => fetcher[n].data = Chunk(fetcher[n].job.chunk)
  /\ fetcher[n].pc \in {"tell", "confirm"} => count[n] = fetcher[n].job.chunk
  /\ fetcher[n].pc = "verify" => IsDownloaded(n)

OffersInStep(n) ==
  /\ sender[n].pc \in {"read", "post", "wait", "answered"} => sender[n].job \in TrueJob
  /\ sender[n].pc \in {"post", "wait", "answered"} => sender[n].offer \in TrueJob

Exact(n) == file[n] = IF Have(n) = 0 THEN Missing ELSE First(Have(n))

QueuesTrue ==
  /\ fetchQueue \in [Nodes -> Seq(TrueJob)]
  /\ sendQueue \in [Nodes -> Seq(TrueJob)]
  /\ \A m \in net : m.job \in TrueJob

ExactInv ==
  /\ mode = [n \in Nodes |-> "up"]
  /\ QueuesTrue
  /\ \A n \in Nodes : InStep(n)
  /\ \A n \in Nodes : OffersInStep(n)
  /\ \A n \in Nodes : Exact(n)

Quiet == torn = 0 /\ \A n \in Nodes : crashes[n] = 0

LEMMA ExactInit == Init => ExactInv
<1> SUFFICES ASSUME Init PROVE ExactInv
  OBVIOUS
<1>1. mode = [n \in Nodes |-> "up"] /\ QueuesTrue
  BY EmptySeq DEF Init, QueuesTrue
<1>2. \A n \in Nodes : InStep(n) /\ OffersInStep(n)
  BY FetcherIdle, SenderIdle DEF Init, InStep, OffersInStep, FetchSteps
<1>3. ASSUME NEW n \in Nodes
      PROVE  Exact(n)
  <2>1. fetcher[n].pc = "off"
    BY FetcherIdle DEF Init
  <2>2. count[n] = (IF n = Origin THEN Total ELSE 0) \/ (n # Origin /\ count[n] = None)
    BY DEF Init
  <2>3. Have(n) = IF n = Origin THEN Total ELSE 0
    BY <2>1, <2>2, SizeTypes DEF Have, Listed
  <2> QED
    BY <2>1, <2>3, SizeTypes, FirstFacts DEF Init, Exact
<1> QED
  BY <1>1, <1>2, <1>3 DEF ExactInv

LEMMA PostTrue ==
  ASSUME NEW kind, NEW to, NEW job \in TrueJob,
         \A m \in net : m.job \in TrueJob, Post(kind, to, job)
  PROVE  \A m \in net' : m.job \in TrueJob
  BY DEF Post

LEMMA HaveType ==
  ASSUME TypeInv, ExactInv, NEW n \in Nodes
  PROVE  Have(n) \in 0 .. Total
<1>1. CASE fetcher[n].pc = "complete"
  <2>1. InStep(n) /\ fetcher[n].pc \in FetchSteps
    BY <1>1 DEF ExactInv, FetchSteps
  <2>2. fetcher[n].job.chunk \in 1 .. Total
    BY <2>1 DEF InStep, TrueJob, Job
  <2>3. count[n] + 1 = fetcher[n].job.chunk /\ count[n] # None
    BY <1>1, <2>1 DEF InStep, Listed
  <2>4. count[n] \in 0 .. Total
    BY <2>3 DEF TypeInv, TypeOK
  <2> QED
    BY <1>1, <2>2, <2>3, <2>4 DEF Have, Listed
<1>2. CASE fetcher[n].pc # "complete"
  BY <1>2, SizeTypes DEF TypeInv, TypeOK, Have, Listed
<1> QED
  BY <1>1, <1>2

\* An offer of the first chunk, or of the one after that: its bytes are what a
\* node that has more than the chunks before reads.
LEMMA OfferTrue ==
  ASSUME NEW n \in Nodes, NEW k \in 1 .. Total, NEW h \in 0 .. Total, k <= h,
         NEW length \in Nat \ {0}, NEW end \in Nat,
         IF k < Total THEN end = EndOf(k) - 1 ELSE end \in {Size - 1, Size},
         EndOf(k) = IF EndOf(k - 1) + length < EndOf(h) THEN EndOf(k - 1) + length ELSE EndOf(h)
  PROVE  /\ Read(First(h), EndOf(k - 1), length) = Chunk(k)
         /\ Offer(n, k, EndOf(k - 1), end, Chunk(k)) \in TrueJob
<1>1. k - 1 \in 0 .. Total /\ k - 1 < Total /\ k - 1 + 1 = k
  BY SizeTypes
<1>2. EndOf(k - 1) \in Nat /\ EndOf(k - 1) < EndOf(k) /\ EndOf(k) <= EndOf(h)
      /\ EndOf(k) \in Nat /\ EndOf(h) \in Nat
  BY <1>1, EndOfFacts, EndOfGrows, SizeTypes
<1>3. EndOf(k - 1) < EndOf(h)
  BY <1>2
<1>4. Read(First(h), EndOf(k - 1), length) = SubSeq(Original, EndOf(k - 1) + 1, EndOf(k))
  BY <1>2, <1>3, ReadFirst
<1>5. Offer(n, k, EndOf(k - 1), end, Chunk(k)) \in Job
  BY <1>2, ChunkExtends, OfferType
<1> QED
  BY <1>4, <1>5 DEF Chunk, TrueJob, Genuine, Offer

LEMMA FirstOffers ==
  /\ FirstEnd \in Nat /\ InviteEnd \in Nat
  /\ \A end \in {FirstEnd, InviteEnd} :
       /\ IF 1 < Total THEN end = EndOf(1) - 1 ELSE end \in {Size - 1, Size}
       /\ \A h \in 1 .. Total :
            EndOf(1) = IF EndOf(0) + (end + 1) < EndOf(h) THEN EndOf(0) + (end + 1) ELSE EndOf(h)
<1> USE SizeTypes
<1>1. EndOf(0) = 0 /\ EndOf(Total) = Size
      /\ EndOf(1) = IF ChunkSize < Size THEN ChunkSize ELSE Size
  BY EndOfFacts DEF EndOf
<1>2. CASE Total = 1
  <2>1. ~(Size > ChunkSize)
    BY <1>2, TotalCovers
  <2>2. FirstEnd = Size /\ InviteEnd = Size - 1
    BY <1>2, <2>1 DEF FirstEnd, InviteEnd
  <2> QED
    BY <1>1, <1>2, <2>2
<1>3. CASE Total # 1
  <2>1. Size > ChunkSize
    <3>1. (Total - 1) * ChunkSize >= ChunkSize
      BY <1>3
    <3> QED
      BY <3>1, TotalCovers
  <2>2. FirstEnd = ChunkSize - 1 /\ InviteEnd = ChunkSize - 1 /\ EndOf(1) = ChunkSize
    BY <1>1, <1>3, <2>1 DEF FirstEnd, InviteEnd
  <2>3. \A h \in 1 .. Total : EndOf(1) <= EndOf(h) /\ EndOf(h) \in Nat
    BY EndOfGrows, EndOfFacts
  <2> QED
    BY <1>1, <1>3, <2>2, <2>3
<1> QED
  BY <1>2, <1>3

LEMMA ReceivedQueues ==
  ASSUME NEW m, Receive(m)
  PROVE  /\ \/ fetchQueue' = fetchQueue
            \/ fetchQueue' = [fetchQueue EXCEPT ![m.to] = Append(fetchQueue[m.to], m.job)]
         /\ \/ sendQueue' = sendQueue
            \/ sendQueue' = [sendQueue EXCEPT ![m.to] = Append(sendQueue[m.to], m.job)]
<1>1. CASE Response(m)
  BY <1>1 DEF Response
<1>2. CASE Webhook(m)
  BY <1>2 DEF Webhook
<1> QED
  BY <1>1, <1>2 DEF Receive

LEMMA ExactMessages ==
  ASSUME TypeInv, ExactInv,
         \/ \E p \in Nodes : TellPeer(p)
         \/ \E n, d \in Nodes : Invite(n, d)
         \/ \E m \in net : Receive(m)
  PROVE  ExactInv'
<1> USE SizeTypes
<1>0. EndOf(0) = 0
  BY EndOfFacts
<1>1. ASSUME NEW p \in Nodes, TellPeer(p)
      PROVE  ExactInv'
  <2>1. file[Origin] = First(Total)
    BY FirstFacts DEF TypeInv, Uploaded
  <2>2. ByteRange(file[Origin], 0, FirstEnd) = Read(First(Total), 0, FirstEnd + 1)
    BY <2>1 DEF ByteRange
  <2>3. Offer(Origin, 1, 0, FirstEnd, ByteRange(file[Origin], 0, FirstEnd)) \in TrueJob
    <3>1. FirstEnd + 1 \in Nat \ {0} /\ Total \in 1 .. Total /\ 1 \in 1 .. Total
          /\ Total \in 0 .. Total
      OBVIOUS
    <3> QED
      BY <1>0, <2>2, <3>1, FirstOffers, OfferTrue
  <2>4. \A m \in net' : m.job \in TrueJob
    BY <1>1, <2>3, PostTrue DEF TellPeer, ExactInv, QueuesTrue
  <2> QED
    BY <1>1, <2>4
    DEF TellPeer, disk, ExactInv, QueuesTrue, InStep, OffersInStep, Exact, Have,
        Listed, IsDownloaded
<1>2. ASSUME NEW n \in Nodes, NEW d \in Nodes, Invite(n, d)
      PROVE  ExactInv'
  <2>1. Have(n) \in 1 .. Total /\ file[n] = First(Have(n))
    BY <1>2, HaveType DEF Invite, ExactInv, Exact
  <2>2. Offer(n, 1, 0, InviteEnd, Read(file[n], 0, InviteEnd + 1)) \in TrueJob
    <3>1. InviteEnd + 1 \in Nat \ {0} /\ 1 \in 1 .. Total /\ Have(n) \in 0 .. Total
          /\ 1 <= Have(n)
      BY <2>1
    <3> QED
      BY <1>0, <2>1, <3>1, FirstOffers, OfferTrue
  <2>3. \A m \in net' : m.job \in TrueJob
    BY <1>2, <2>2, PostTrue DEF Invite, ExactInv, QueuesTrue
  <2>4. UNCHANGED <<mode, count, disk, fetcher, sender>>
    BY <1>2 DEF Invite
  <2> QED
    BY <2>3, <2>4
    DEF disk, ExactInv, QueuesTrue, InStep, OffersInStep, Exact, Have,
        Listed, IsDownloaded
<1>3. ASSUME NEW m \in net, Receive(m)
      PROVE  ExactInv'
  <2>1. m.to \in Nodes /\ m.job \in TrueJob
    BY DEF TypeInv, TypeOK, Request, ExactInv, QueuesTrue
  <2>2. /\ fetchQueue' \in [Nodes -> Seq(TrueJob)]
        /\ sendQueue' \in [Nodes -> Seq(TrueJob)]
    <3>1. fetchQueue[m.to] \in Seq(TrueJob) /\ sendQueue[m.to] \in Seq(TrueJob)
      BY <2>1 DEF ExactInv, QueuesTrue
    <3>2. Append(fetchQueue[m.to], m.job) \in Seq(TrueJob)
          /\ Append(sendQueue[m.to], m.job) \in Seq(TrueJob)
      BY <2>1, <3>1, AppendProperties
    <3>3. fetchQueue \in [Nodes -> Seq(TrueJob)] /\ sendQueue \in [Nodes -> Seq(TrueJob)]
      BY DEF ExactInv, QueuesTrue
    <3>4. [fetchQueue EXCEPT ![m.to] = Append(fetchQueue[m.to], m.job)]
          \in [Nodes -> Seq(TrueJob)]
      BY <3>2, <3>3
    <3>5. [sendQueue EXCEPT ![m.to] = Append(sendQueue[m.to], m.job)]
          \in [Nodes -> Seq(TrueJob)]
      BY <3>2, <3>3
    <3>6. \/ fetchQueue' = fetchQueue
          \/ fetchQueue' = [fetchQueue EXCEPT ![m.to] = Append(fetchQueue[m.to], m.job)]
      BY <1>3, ReceivedQueues
    <3>7. \/ sendQueue' = sendQueue
          \/ sendQueue' = [sendQueue EXCEPT ![m.to] = Append(sendQueue[m.to], m.job)]
      BY <1>3, ReceivedQueues
    <3> QED
      BY <3>3, <3>4, <3>5, <3>6, <3>7
  <2>3. UNCHANGED <<mode, count, file>> /\ net' \subseteq net
    BY <1>3 DEF Receive
  <2>4. \A n \in Nodes :
          \/ fetcher'[n] = fetcher[n]
          \/ fetcher[n].pc = "off" /\ fetcher'[n].pc = "look"
    <3>1. CASE Response(m)
      BY <2>1, <3>1, FetcherIdle DEF Response, TypeInv, TypeOK
    <3>2. CASE Webhook(m)
      BY <3>2 DEF Webhook
    <3> QED
      BY <1>3, <3>1, <3>2 DEF Receive
  <2>5. \A n \in Nodes :
          \/ sender'[n] = sender[n]
          \/ sender'[n].pc = "look"
          \/ /\ sender[n].pc = "wait" /\ sender'[n].pc = "answered"
             /\ sender'[n].job = sender[n].job /\ sender'[n].offer = sender[n].offer
    <3>1. CASE Response(m)
      <4>1. m.job.from \in Nodes
        BY <2>1 DEF TrueJob, Job
      <4>2. ASSUME NEW n \in Nodes, sender[n].pc = "wait"
            PROVE  LET t == [sender[n] EXCEPT !.pc = "answered"]
                   IN  t.pc = "answered" /\ t.job = sender[n].job /\ t.offer = sender[n].offer
        BY <4>2, SenderBusyWhen DEF TypeInv, TypeOK, SenderOffers
      <4> QED
        BY <3>1, <4>1, <4>2 DEF Response, TypeInv, TypeOK
    <3>2. CASE Webhook(m)
      BY <3>2, <2>1, SenderIdle DEF Webhook, TypeInv, TypeOK
    <3> QED
      BY <1>3, <3>1, <3>2 DEF Receive
  <2>6. QueuesTrue'
    BY <2>2, <2>3 DEF ExactInv, QueuesTrue
  <2>7. ASSUME NEW n \in Nodes
        PROVE  InStep(n)' /\ Exact(n)'
    BY <2>3, <2>4 DEF ExactInv, InStep, Exact, Have, Listed, IsDownloaded, FetchSteps
  <2>8. ASSUME NEW n \in Nodes
        PROVE  OffersInStep(n)'
    BY <2>5 DEF ExactInv, OffersInStep
  <2> QED
    BY <2>3, <2>6, <2>7, <2>8 DEF ExactInv
<1> QED
  BY <1>1, <1>2, <1>3

\* What a step of the Fetcher of one node has to establish.
LEMMA OneFetcher ==
  ASSUME ExactInv, NEW n \in Nodes, UNCHANGED <<mode, sender>>,
         \A m \in Nodes \ {n} :
           fetcher'[m] = fetcher[m] /\ count'[m] = count[m] /\ file'[m] = file[m],
         QueuesTrue', InStep(n)', Exact(n)'
  PROVE  ExactInv'
<1>1. ASSUME NEW m \in Nodes \ {n}
      PROVE  InStep(m)' /\ Exact(m)'
  BY DEF ExactInv, InStep, Exact, Have, Listed, IsDownloaded
<1>2. \A m \in Nodes : OffersInStep(m)'
  BY DEF ExactInv, OffersInStep
<1> QED
  BY <1>1, <1>2 DEF ExactInv

\* A thread that looks for the next job or ends, with no chunk that is there and
\* not counted.
LEMMA IdleFetcher ==
  ASSUME ExactInv, NEW n \in Nodes, fetcher[n].pc # "complete",
         fetcher'[n].pc \in {"off", "look", "leave"}, UNCHANGED <<count, file>>
  PROVE  InStep(n)' /\ Exact(n)'
  BY DEF ExactInv, InStep, Exact, Have, Listed, FetchSteps

LEMMA ExactFetchAgain ==
  ASSUME TypeInv, ExactInv, NEW n \in Nodes, fetcher[n].pc \in {"check", "fetch"},
         FetchAgain(n), UNCHANGED <<mode, count, file, sendQueue, sender, net>>
  PROVE  ExactInv'
<1>1. fetcher[n].job \in TrueJob /\ fetcher[n].pc # "complete"
  BY DEF ExactInv, InStep, FetchSteps
<1>2. fetchQueue \in [Nodes -> Seq(TrueJob)]
  BY DEF ExactInv, QueuesTrue
<1>3. Append(fetchQueue[n], fetcher[n].job) \in Seq(TrueJob)
  BY <1>1, <1>2, AppendProperties
<1>4. QueuesTrue'
  BY <1>2, <1>3 DEF ExactInv, QueuesTrue, FetchAgain
<1>5. fetcher'[n].pc = "look" /\ \A m \in Nodes \ {n} : fetcher'[m] = fetcher[m]
  BY FetcherIdle DEF FetchAgain, FetcherTo, TypeInv, TypeOK
<1>6. InStep(n)' /\ Exact(n)'
  BY <1>1, <1>5, IdleFetcher
<1> QED
  BY <1>4, <1>5, <1>6, OneFetcher

LEMMA ExactFetcher ==
  ASSUME TypeInv, ExactInv, NEW n \in Nodes, FetchStep(n), UNCHANGED torn
  PROVE  ExactInv'
<1> USE SizeTypes
<1> DEFINE t == fetcher[n]
<1>0. /\ fetcher \in [Nodes -> FetcherThread]
      /\ t.pc \in FetchSteps => t \in FetcherBusy /\ t.job \in TrueJob
      /\ InStep(n) /\ Exact(n) /\ QueuesTrue
      /\ mode[n] = "up"
      /\ count[n] \in 0 .. Total \cup {None}
      /\ count \in [Nodes -> 0 .. Total \cup {None}]
      /\ file \in [Nodes -> Bytes \cup {Missing}]
  BY FetcherBusyWhen DEF TypeInv, TypeOK, ExactInv, InStep
<1>00. ASSUME NEW pc \in {"off", "look", "leave"}, FetcherTo(n, FetcherAt(pc)),
              t.pc # "complete",
              UNCHANGED <<mode, count, file, sender>>, QueuesTrue'
       PROVE  ExactInv'
  <2>1. fetcher'[n].pc = pc /\ \A m \in Nodes \ {n} : fetcher'[m] = fetcher[m]
    BY <1>0, <1>00, FetcherIdle DEF FetcherTo
  <2>2. InStep(n)' /\ Exact(n)'
    BY <1>00, <2>1, IdleFetcher
  <2> QED
    BY <1>00, <2>1, <2>2, OneFetcher
<1>1. ASSUME FetchLook(n)
      PROVE  ExactInv'
  <2>1. CASE fetchQueue[n] = <<>>
    <3>1. QueuesTrue'
      BY <1>0, <1>1, <2>1 DEF FetchLook, QueuesTrue
    <3> QED
      BY <1>00, <1>1, <2>1, <3>1 DEF FetchLook
  <2>2. CASE fetchQueue[n] # <<>>
    <3>1. Head(fetchQueue[n]) \in TrueJob /\ Tail(fetchQueue[n]) \in Seq(TrueJob)
      BY <1>0, <2>2, HeadTailProperties DEF QueuesTrue
    <3>2. QueuesTrue'
      BY <1>0, <1>1, <2>2, <3>1 DEF FetchLook, QueuesTrue
    <3>3. fetcher'[n] = FetcherWith(Head(fetchQueue[n]))
          /\ \A m \in Nodes \ {n} : fetcher'[m] = fetcher[m]
      BY <1>0, <1>1, <2>2 DEF FetchLook, FetcherTo
    <3>4. fetcher'[n].pc = "check" /\ fetcher'[n].job = Head(fetchQueue[n])
      BY <3>3 DEF FetcherWith
    <3>5. InStep(n)' /\ Exact(n)'
      BY <1>0, <1>1, <3>1, <3>4
      DEF FetchLook, InStep, Exact, Have, Listed
    <3> QED
      BY <1>1, <3>2, <3>3, <3>5, OneFetcher DEF FetchLook
  <2> QED
    BY <2>1, <2>2
<1>2. ASSUME FetchLeave(n)
      PROVE  ExactInv'
  <2>1. QueuesTrue'
    BY <1>0, <1>2 DEF FetchLeave, QueuesTrue, disk
  <2> QED
    BY <1>00, <1>2, <2>1 DEF FetchLeave, disk
<1>3. ASSUME FetchCheck(n)
      PROVE  ExactInv'
  <2>1. CASE FetchAgain(n)
    BY <1>3, <2>1, ExactFetchAgain DEF FetchCheck
  <2>2. ASSUME NEW pc \in {"off", "look"}, FetcherTo(n, FetcherAt(pc)),
               UNCHANGED fetchQueue
        PROVE  ExactInv'
    <3>1. QueuesTrue'
      BY <1>0, <1>3, <2>2 DEF FetchCheck, QueuesTrue
    <3> QED
      BY <1>00, <1>3, <2>2, <3>1 DEF FetchCheck
  <2>3. CASE /\ Listed(n) /\ LastChunk(n) + 1 = t.job.chunk
             /\ FetcherTo(n, [t EXCEPT !.pc = "fetch"])
             /\ UNCHANGED fetchQueue
    <3>1. t.pc = "check" /\ t.pc \in FetchSteps
      BY <1>3 DEF FetchCheck, FetchSteps
    <3>2. fetcher'[n].pc = "fetch" /\ fetcher'[n].job = t.job
          /\ \A m \in Nodes \ {n} : fetcher'[m] = fetcher[m]
      BY <1>0, <2>3, <3>1 DEF FetcherTo, FetcherBusy
    <3>3. QueuesTrue'
      BY <1>0, <1>3, <2>3 DEF FetchCheck, QueuesTrue
    <3>4. InStep(n)' /\ Exact(n)'
      BY <1>0, <1>3, <2>3, <3>1, <3>2
      DEF FetchCheck, InStep, Exact, Have, Listed, LastChunk
    <3> QED
      BY <1>3, <3>2, <3>3, <3>4, OneFetcher DEF FetchCheck
  <2> QED
    BY <1>3, <2>1, <2>2, <2>3 DEF FetchCheck
<1>4. ASSUME Fetch(n)
      PROVE  ExactInv'
  <2>1. t.pc = "fetch" /\ t.pc \in FetchSteps
    BY <1>4 DEF Fetch, FetchSteps
  <2>2. /\ fetcher'[n].pc = "append" /\ fetcher'[n].job = t.job
        /\ fetcher'[n].data = t.job.sha1
        /\ \A m \in Nodes \ {n} : fetcher'[m] = fetcher[m]
    BY <1>0, <1>4, <2>1 DEF Fetch, FetcherTo, FetcherBusy
  <2>3. QueuesTrue'
    BY <1>0, <1>4 DEF Fetch, QueuesTrue
  <2>4. InStep(n)' /\ Exact(n)'
    BY <1>0, <1>4, <2>1, <2>2
    DEF Fetch, InStep, Exact, Have, Listed, TrueJob, Genuine
  <2> QED
    BY <1>4, <2>2, <2>3, <2>4, OneFetcher DEF Fetch
<1>5. ASSUME FetchFails(n)
      PROVE  ExactInv'
  BY <1>5, ExactFetchAgain DEF FetchFails
<1>6. ASSUME AppendChunk(n)
      PROVE  ExactInv'
  <2>1. t.pc = "append" /\ t.pc \in FetchSteps
    BY <1>6 DEF AppendChunk, FetchSteps
  <2> DEFINE k == t.job.chunk
  <2>2. k \in 1 .. Total /\ count[n] = k - 1 /\ Listed(n) /\ t.data = Chunk(k)
    <3>1. k \in 1 .. Total
      BY <1>0, <2>1 DEF TrueJob, Job
    <3> QED
      BY <1>0, <2>1, <3>1 DEF InStep, Listed
  <2>3. Have(n) = k - 1 /\ Content(n) = First(k - 1)
    <3>1. Have(n) = k - 1
      BY <2>1, <2>2 DEF Have
    <3>2. k - 1 \in 0 .. Total
      BY <2>2
    <3>3. First(0) = <<>> /\ (k - 1 # 0 => First(k - 1) # Missing)
      BY <3>2, FirstFacts
    <3> QED
      BY <1>0, <3>1, <3>3 DEF Exact, Content
  <2>4. file'[n] = First(k) /\ \A m \in Nodes \ {n} : file'[m] = file[m]
    BY <1>0, <1>6, <2>2, <2>3, ChunkExtends DEF AppendChunk
  <2>5. fetcher'[n].pc = "complete" /\ fetcher'[n].job = t.job
        /\ \A m \in Nodes \ {n} : fetcher'[m] = fetcher[m]
    BY <1>0, <1>6, <2>1 DEF AppendChunk, FetcherTo, FetcherBusy
  <2>6. QueuesTrue'
    BY <1>0, <1>6 DEF AppendChunk, QueuesTrue
  <2>7. Have(n)' = k
    BY <1>6, <2>2, <2>5 DEF AppendChunk, Have, Listed
  <2>8. InStep(n)'
    BY <1>0, <1>6, <2>1, <2>2, <2>5 DEF AppendChunk, InStep, Listed
  <2> QED
    BY <1>6, <2>2, <2>4, <2>5, <2>6, <2>7, <2>8, OneFetcher DEF AppendChunk, Exact
<1>7. ~AppendPart(n)
  BY DEF AppendPart, TypeInv, TypeOK
<1>8. ASSUME Complete(n)
      PROVE  ExactInv'
  <2>1. t.pc = "complete" /\ t.pc \in FetchSteps
    BY <1>8 DEF Complete, FetchSteps
  <2> DEFINE k == t.job.chunk
  <2>2. k \in 1 .. Total /\ count[n] + 1 = k /\ Listed(n)
    <3>1. k \in 1 .. Total
      BY <1>0, <2>1 DEF TrueJob, Job
    <3> QED
      BY <1>0, <2>1, <3>1 DEF InStep
  <2>3. count'[n] = k /\ \A m \in Nodes \ {n} : count'[m] = count[m]
    <3>1. count[n] \in Nat /\ k <= Total
      BY <1>0, <2>2 DEF Listed
    <3>2. count' = [count EXCEPT ![n] = IF k = @ + 1 /\ k <= Total THEN k ELSE @]
      BY <1>8 DEF Complete
    <3> QED
      BY <1>0, <2>2, <3>1, <3>2
  <2>4. PICK P \in Picks(n) : FetcherTo(n, [t EXCEPT !.pc = "tell", !.tell = P])
    BY <1>0, <1>8 DEF Complete
  <2>5. fetcher'[n].pc = "tell" /\ fetcher'[n].job = t.job
        /\ \A m \in Nodes \ {n} : fetcher'[m] = fetcher[m]
    BY <1>0, <2>1, <2>4 DEF FetcherTo, FetcherBusy
  <2>6. QueuesTrue'
    BY <1>0, <1>8 DEF Complete, QueuesTrue
  <2>7. Have(n) = k /\ Have(n)' = k
    <3>1. count[n] \in Nat
      BY <1>0, <2>2 DEF Listed
    <3> QED
      BY <2>1, <2>2, <2>3, <2>5, <3>1 DEF Have, Listed
  <2>8. InStep(n)'
    BY <1>0, <2>1, <2>3, <2>5 DEF InStep
  <2> QED
    BY <1>0, <1>8, <2>3, <2>5, <2>6, <2>7, <2>8, OneFetcher DEF Complete, Exact
<1>9. ASSUME Tell(n)
      PROVE  ExactInv'
  <2>1. t.pc = "tell" /\ t.pc \in FetchSteps
    BY <1>9 DEF Tell, FetchSteps
  <2>2. [t.job EXCEPT !.from = n] \in TrueJob
    BY <1>0, <2>1 DEF TrueJob, Job, Genuine
  <2>3. \A m \in net' : m.job \in TrueJob
    <3>1. \A m \in net : m.job \in TrueJob
      BY <1>0 DEF QueuesTrue
    <3>2. CASE UNCHANGED net
      BY <3>1, <3>2
    <3>3. ASSUME NEW p \in t.tell, Post("response", p, [t.job EXCEPT !.from = n])
          PROVE  \A m \in net' : m.job \in TrueJob
      BY <2>2, <3>1, <3>3, PostTrue
    <3> QED
      BY <1>9, <3>2, <3>3 DEF Tell
  <2>4. fetcher'[n].pc \in {"tell", "confirm"} /\ fetcher'[n].job = t.job
        /\ \A m \in Nodes \ {n} : fetcher'[m] = fetcher[m]
    <3>1. ASSUME NEW p, FetcherTo(n, [t EXCEPT !.tell = @ \ {p}])
          PROVE  fetcher'[n].pc = "tell" /\ fetcher'[n].job = t.job
                 /\ \A m \in Nodes \ {n} : fetcher'[m] = fetcher[m]
      BY <1>0, <2>1, <3>1 DEF FetcherTo, FetcherBusy
    <3>2. CASE FetcherTo(n, [t EXCEPT !.pc = "confirm"])
      BY <1>0, <2>1, <3>2 DEF FetcherTo, FetcherBusy
    <3> QED
      BY <1>9, <3>1, <3>2 DEF Tell
  <2>5. QueuesTrue'
    BY <1>0, <1>9, <2>3 DEF Tell, disk, QueuesTrue
  <2>6. InStep(n)' /\ Exact(n)'
    BY <1>0, <1>9, <2>1, <2>4 DEF Tell, disk, InStep, Exact, Have, Listed
  <2> QED
    BY <1>9, <2>4, <2>5, <2>6, OneFetcher DEF Tell, disk
<1>10. ASSUME Confirm(n)
       PROVE  ExactInv'
  <2>1. t.pc = "confirm" /\ t.pc \in FetchSteps
    BY <1>10 DEF Confirm, FetchSteps
  <2>2. [t.job EXCEPT !.from = n] \in TrueJob
    BY <1>0, <2>1 DEF TrueJob, Job, Genuine
  <2>3. \A m \in net' : m.job \in TrueJob
    BY <1>0, <1>10, <2>2, PostTrue DEF Confirm, QueuesTrue
  <2>4. QueuesTrue'
    BY <1>0, <1>10, <2>3 DEF Confirm, disk, QueuesTrue
  <2>5. CASE FetcherTo(n, FetcherAt("look"))
    BY <1>00, <1>10, <2>1, <2>4, <2>5 DEF Confirm, disk
  <2>6. CASE t.job.chunk = Total /\ FetcherTo(n, [t EXCEPT !.pc = "verify"])
    <3>1. fetcher'[n].pc = "verify" /\ fetcher'[n].job = t.job
          /\ \A m \in Nodes \ {n} : fetcher'[m] = fetcher[m]
      BY <1>0, <2>1, <2>6 DEF FetcherTo, FetcherBusy
    <3>2. InStep(n)' /\ Exact(n)'
      BY <1>0, <1>10, <2>1, <2>6, <3>1
      DEF Confirm, disk, InStep, Exact, Have, Listed, IsDownloaded
    <3> QED
      BY <1>10, <2>4, <3>1, <3>2, OneFetcher DEF Confirm, disk
  <2> QED
    BY <1>10, <2>5, <2>6 DEF Confirm
<1>11. ASSUME Verify(n)
       PROVE  ExactInv'
  <2>1. t.pc = "verify"
    BY <1>11 DEF Verify
  <2>2. count[n] = Total /\ Have(n) = Total
    BY <1>0, <2>1 DEF InStep, IsDownloaded, Have, Listed
  <2>3. file[n] = Original
    BY <1>0, <2>2, FirstFacts DEF Exact
  <2>4. UNCHANGED file
    BY <1>0, <1>11, <2>3 DEF Verify
  <2>5. QueuesTrue'
    BY <1>0, <1>11 DEF Verify, QueuesTrue
  <2> QED
    BY <1>00, <1>11, <2>1, <2>4, <2>5 DEF Verify
<1> QED
  BY <1>1, <1>2, <1>3, <1>4, <1>5, <1>6, <1>7, <1>8, <1>9, <1>10, <1>11 DEF FetchStep

\* The end of a chunk, as the node that reads the file of h chunks finds it.
LEMMA EndOfNext ==
  ASSUME NEW c \in 1 .. Total - 1, NEW h \in c + 1 .. Total
  PROVE  EndOf(c + 1) = IF EndOf(c) + ChunkSize < EndOf(h)
                        THEN EndOf(c) + ChunkSize ELSE EndOf(h)
<1> USE SizeTypes
<1>1. c \in 0 .. Total /\ c < Total /\ c + 1 \in 0 .. Total /\ h \in 0 .. Total
  OBVIOUS
<1>2. EndOf(c + 1) = IF EndOf(c) + ChunkSize < Size THEN EndOf(c) + ChunkSize ELSE Size
  BY <1>1, EndOfFacts
<1>3. EndOf(c + 1) <= EndOf(h) /\ EndOf(h) \in 0 .. Size /\ EndOf(c) \in 0 .. Size
  BY <1>1, EndOfFacts, EndOfGrows
<1> QED
  BY <1>2, <1>3

LEMMA NextOfferTrue ==
  ASSUME TypeInv, ExactInv, NEW n \in Nodes, sender[n].pc = "read", CanOffer(n)
  PROVE  NextOffer(n) \in TrueJob
<1> USE SizeTypes
<1> DEFINE j == sender[n].job
           c == j.chunk
           h == Have(n)
           start == EndOf(c)
           data == Read(file[n], start, ChunkSize)
           place == start + Len(data)
           end == IF c + 1 = Total THEN place ELSE place - 1
<1>1. j \in TrueJob /\ j.chunk < Total
  BY SenderBusyWhen DEF TypeInv, TypeOK, SenderBusy, SendJob, ExactInv, OffersInStep
<1>2. c \in 1 .. Total - 1 /\ c \in 0 .. Total /\ j.end + 1 = start
      /\ start \in 0 .. Size
  <2>1. c \in 1 .. Total - 1 /\ c \in 0 .. Total
    BY <1>1 DEF TrueJob, Job
  <2>2. start \in 0 .. Size /\ j.end = start - 1
    BY <1>1, <2>1, EndOfFacts DEF TrueJob, Genuine
  <2> QED
    BY <2>1, <2>2
<1>3. h \in 1 .. Total /\ file[n] = First(h)
  BY HaveType DEF CanOffer, ExactInv, Exact
<1>4. NextOffer(n) = Offer(n, c + 1, start, end, data)
  BY <1>2 DEF NextOffer
<1>5. start < end
  BY <1>4 DEF CanOffer, Offer
<1>6. c + 1 <= h
  <2> SUFFICES ASSUME h <= c PROVE FALSE
    BY <1>2, <1>3
  <2>1. EndOf(h) <= start /\ EndOf(h) \in 0 .. Size
    BY <1>2, <1>3, EndOfGrows, EndOfFacts
  <2>2. h \in 0 .. Total /\ start \in Nat /\ ~(start < EndOf(h))
    BY <1>2, <1>3, <2>1
  <2>3. data = <<>>
    BY <1>3, <2>2, ReadFirst
  <2>4. Len(data) = 0
    BY <2>3
  <2> QED
    BY <1>2, <1>5, <2>4
<1>7. EndOf(c + 1) = IF start + ChunkSize < EndOf(h) THEN start + ChunkSize ELSE EndOf(h)
  BY <1>2, <1>3, <1>6, EndOfNext
<1>8. c + 1 \in 1 .. Total /\ (c + 1) - 1 = c /\ h \in 0 .. Total
  BY <1>2, <1>3
<1>9. EndOf(c + 1) \in 0 .. Size /\ start < EndOf(c + 1) /\ EndOf(Total) = Size
  BY <1>2, <1>8, EndOfFacts
<1>10. data = Chunk(c + 1)
  <2>1. start < EndOf(h) /\ start \in Nat
    BY <1>2, <1>3, <1>7, <1>9, EndOfFacts
  <2>2. Read(First(h), start, ChunkSize) = SubSeq(Original, start + 1, EndOf(c + 1))
    BY <1>7, <1>8, <2>1, ReadFirst
  <2> QED
    BY <1>3, <1>8, <2>2 DEF Chunk
<1>11. Len(Chunk(c + 1)) = EndOf(c + 1) - start
  BY <1>8, ChunkExtends
<1>12. place = EndOf(c + 1)
  BY <1>2, <1>9, <1>10, <1>11
<1>13. end \in Nat /\ IF c + 1 < Total THEN end = EndOf(c + 1) - 1 ELSE end \in {Size - 1, Size}
  BY <1>2, <1>9, <1>12
<1> HIDE DEF end
<1>14. Offer(n, c + 1, start, end, Chunk(c + 1)) \in Job
  <2>1. Chunk(c + 1) \in Bytes
    BY <1>8, ChunkExtends
  <2>2. start \in Nat
    BY <1>2
  <2> HIDE DEF start
  <2> QED
    BY <1>8, <1>13, <2>1, <2>2, OfferType
<1>15. NextOffer(n) = Offer(n, c + 1, start, end, Chunk(c + 1))
  BY <1>4, <1>10
<1> QED
  BY <1>8, <1>13, <1>14, <1>15 DEF TrueJob, Genuine, Offer

LEMMA ExactSender ==
  ASSUME TypeInv, ExactInv, NEW n \in Nodes, SendStep(n)
  PROVE  ExactInv'
<1> DEFINE t == sender[n]
<1>0. /\ sender \in [Nodes -> SenderThread]
      /\ OffersInStep(n) /\ QueuesTrue
  BY DEF TypeInv, TypeOK, ExactInv
<1>1. UNCHANGED <<mode, count, file, fetcher, fetchQueue>>
  BY DEF SendStep, SendLook, SendLeave, SendRead, SendPost, SendAnswered, SendFails, disk
<1>2. ASSUME QueuesTrue', OffersInStep(n)',
             \A m \in Nodes \ {n} : sender'[m] = sender[m]
      PROVE  ExactInv'
  BY <1>1, <1>2
  DEF ExactInv, InStep, OffersInStep, Exact, Have, Listed, IsDownloaded
<1>3. ASSUME NEW pc \in {"off", "look", "leave"}, SenderTo(n, SenderAt(pc)), QueuesTrue'
      PROVE  ExactInv'
  <2>1. sender'[n].pc = pc /\ \A m \in Nodes \ {n} : sender'[m] = sender[m]
    BY <1>0, <1>3, SenderIdle DEF SenderTo
  <2> QED
    BY <1>2, <1>3, <2>1 DEF OffersInStep
<1>4. ASSUME SendAgain(n), t.job \in TrueJob, UNCHANGED net
      PROVE  ExactInv'
  <2>1. Append(sendQueue[n], t.job) \in Seq(TrueJob)
    BY <1>0, <1>4, AppendProperties DEF QueuesTrue
  <2>2. QueuesTrue'
    BY <1>0, <1>1, <1>4, <2>1 DEF QueuesTrue, SendAgain
  <2> QED
    BY <1>3, <1>4, <2>2 DEF SendAgain
<1>5. ASSUME SendLook(n)
      PROVE  ExactInv'
  <2>1. CASE sendQueue[n] = <<>>
    <3>1. QueuesTrue'
      BY <1>0, <1>1, <1>5, <2>1 DEF SendLook, QueuesTrue
    <3> QED
      BY <1>3, <1>5, <2>1, <3>1 DEF SendLook
  <2>2. CASE sendQueue[n] # <<>>
    <3>1. Head(sendQueue[n]) \in TrueJob /\ Tail(sendQueue[n]) \in Seq(TrueJob)
      BY <1>0, <2>2, HeadTailProperties DEF QueuesTrue
    <3>2. QueuesTrue'
      BY <1>0, <1>1, <1>5, <2>2, <3>1 DEF SendLook, QueuesTrue
    <3>3. sender'[n] = SenderWith(Head(sendQueue[n]))
          /\ \A m \in Nodes \ {n} : sender'[m] = sender[m]
      BY <1>0, <1>5, <2>2 DEF SendLook, SenderTo
    <3>4. sender'[n].pc = "read" /\ sender'[n].job = Head(sendQueue[n])
      <4>1. Head(sendQueue[n]) \in SendJob
        BY <1>0, <2>2, HeadTailProperties DEF TypeInv, TypeOK
      <4> QED
        BY <3>3, <4>1, SenderStart
    <3> QED
      BY <1>2, <3>1, <3>2, <3>3, <3>4 DEF OffersInStep
  <2> QED
    BY <2>1, <2>2
<1>6. ASSUME SendLeave(n)
      PROVE  ExactInv'
  <2>1. QueuesTrue'
    BY <1>0, <1>6 DEF SendLeave, QueuesTrue, disk
  <2> QED
    BY <1>3, <1>6, <2>1 DEF SendLeave
<1>7. ASSUME SendRead(n)
      PROVE  ExactInv'
  <2>1. t.pc = "read" /\ t.job \in TrueJob /\ t \in SenderBusy
    BY <1>0, <1>7, SenderBusyWhen DEF SendRead, OffersInStep
  <2>2. CASE SendAgain(n)
    BY <1>4, <1>7, <2>1, <2>2 DEF SendRead
  <2>3. ASSUME CanOffer(n), UNCHANGED sendQueue,
               SenderTo(n, IF mode[n] = "starting" THEN SenderAt("off")
                           ELSE [t EXCEPT !.pc = "post", !.offer = NextOffer(n)])
        PROVE  ExactInv'
    <3>1. SenderTo(n, [t EXCEPT !.pc = "post", !.offer = NextOffer(n)])
      BY <2>3 DEF ExactInv
    <3>2. sender'[n].job = t.job /\ sender'[n].offer = NextOffer(n)
          /\ \A m \in Nodes \ {n} : sender'[m] = sender[m]
      BY <1>0, <2>1, <3>1 DEF SenderTo, SenderBusy
    <3>3. OffersInStep(n)'
      BY <2>1, <2>3, <3>2, NextOfferTrue DEF OffersInStep
    <3>4. QueuesTrue'
      BY <1>0, <1>7, <2>3 DEF SendRead, QueuesTrue
    <3> QED
      BY <1>2, <3>2, <3>3, <3>4
  <2> QED
    BY <1>7, <2>2, <2>3 DEF SendRead
<1>8. ASSUME SendPost(n)
      PROVE  ExactInv'
  <2>1. t.pc = "post" /\ t \in SenderOffers /\ t.job \in TrueJob /\ t.offer \in TrueJob
    BY <1>0, <1>8, SenderBusyWhen DEF SendPost, OffersInStep
  <2>2. \A m \in net' : m.job \in TrueJob
    BY <1>0, <1>8, <2>1 DEF SendPost, Offered, QueuesTrue
  <2>3. QueuesTrue'
    BY <1>0, <1>8, <2>2 DEF SendPost, disk, QueuesTrue
  <2>4. sender'[n].job = t.job /\ sender'[n].offer = t.offer
        /\ \A m \in Nodes \ {n} : sender'[m] = sender[m]
    BY <1>0, <1>8, <2>1 DEF SendPost, SenderTo, SenderOffers
  <2>5. OffersInStep(n)'
    BY <2>1, <2>4 DEF OffersInStep
  <2> QED
    BY <1>2, <2>3, <2>4, <2>5
<1>9. ASSUME SendAnswered(n)
      PROVE  ExactInv'
  <2>1. QueuesTrue'
    BY <1>0, <1>9 DEF SendAnswered, QueuesTrue, disk
  <2> QED
    BY <1>3, <1>9, <2>1 DEF SendAnswered
<1>10. ASSUME SendFails(n)
       PROVE  ExactInv'
  <2>1. t.job \in TrueJob
    BY <1>0, <1>10 DEF SendFails, OffersInStep
  <2> QED
    BY <1>4, <1>10, <2>1 DEF SendFails
<1> QED
  BY <1>5, <1>6, <1>7, <1>8, <1>9, <1>10 DEF SendStep

LEMMA ExactListFile ==
  ASSUME TypeInv, ExactInv, NEW n \in Nodes, ListFile(n)
  PROVE  ExactInv'
<1>1. UNCHANGED <<mode, disk, fetcher, sender, net>> /\ ~Listed(n)
      /\ count' = [count EXCEPT ![n] = 0]
  BY DEF ListFile
<1>2. fetcher[n].pc \notin {"fetch", "append", "complete"}
  BY <1>1 DEF ExactInv, InStep
<1>3. fetcher[n].pc \notin {"tell", "confirm", "verify"}
  <2>1. ASSUME fetcher[n].pc \in {"tell", "confirm"}
        PROVE  FALSE
    <3>1. fetcher[n].pc \in FetchSteps
      BY <2>1 DEF FetchSteps
    <3>2. count[n] = fetcher[n].job.chunk /\ fetcher[n].job \in TrueJob
      BY <2>1, <3>1 DEF ExactInv, InStep
    <3>3. count[n] \in Nat
      BY <3>2 DEF TrueJob, Job
    <3> QED
      BY <1>1, <3>3, SizeTypes DEF Listed
  <2>2. ASSUME fetcher[n].pc = "verify"
        PROVE  FALSE
    BY <1>1, <2>2, SizeTypes DEF ExactInv, InStep, IsDownloaded, Listed
  <2> QED
    BY <2>1, <2>2
<1>4. count'[n] = 0 /\ \A m \in Nodes \ {n} : count'[m] = count[m]
  BY <1>1 DEF TypeInv, TypeOK
<1>5. Have(n)' = Have(n)
  BY <1>1, <1>2, <1>4, SizeTypes DEF Have, Listed
<1>6. InStep(n)' /\ Exact(n)'
  BY <1>1, <1>2, <1>3, <1>5 DEF ExactInv, InStep, Exact, disk
<1>7. ASSUME NEW m \in Nodes \ {n}
      PROVE  InStep(m)' /\ Exact(m)'
  BY <1>1, <1>4 DEF ExactInv, InStep, Exact, Have, Listed, IsDownloaded, disk
<1>8. QueuesTrue' /\ \A m \in Nodes : OffersInStep(m)'
  BY <1>1 DEF ExactInv, QueuesTrue, OffersInStep, disk
<1> QED
  BY <1>1, <1>6, <1>7, <1>8 DEF ExactInv

LEMMA FetcherFaults ==
  ASSUME NEW n, FetchStep(n)
  PROVE  UNCHANGED crashes /\ (UNCHANGED torn \/ (torn' = torn + 1 /\ torn < MaxTorn))
  BY DEF FetchStep, FetchLook, FetchLeave, FetchCheck, Fetch, FetchFails, AppendChunk,
         AppendPart, Complete, Tell, Confirm, Verify, bounds

LEMMA OtherFaults ==
  /\ \A n : SendStep(n) => UNCHANGED <<torn, crashes>>
  /\ \A n : ListFile(n) \/ Boot(n) \/ Ready(n) => UNCHANGED <<torn, crashes>>
  /\ \A p : TellPeer(p) => UNCHANGED <<torn, crashes>>
  /\ \A n, d : Invite(n, d) => UNCHANGED <<torn, crashes>>
  /\ \A m : Receive(m) => UNCHANGED <<torn, crashes>>
  BY DEF SendStep, SendLook, SendLeave, SendRead, SendPost, SendAnswered, SendFails,
         ListFile, Boot, Ready, TellPeer, Invite, Receive, bounds

\* The numbers of crashes and of half written chunks only grow.
LEMMA StaysUnquiet ==
  ASSUME TypeInv, Next
  PROVE  /\ Quiet' => Quiet /\ UNCHANGED <<torn, crashes>>
         /\ \A n \in Nodes : Crash(n) => ~Quiet'
<1>1. torn \in Nat /\ crashes \in [Nodes -> Nat]
  BY DEF TypeInv, TypeOK
<1>2. ASSUME UNCHANGED <<torn, crashes>>
      PROVE  Quiet' => Quiet /\ UNCHANGED <<torn, crashes>>
  BY <1>2 DEF Quiet
<1>3. ASSUME NEW n \in Nodes, FetchStep(n)
      PROVE  Quiet' => Quiet /\ UNCHANGED <<torn, crashes>>
  BY <1>1, <1>3, FetcherFaults DEF Quiet
<1>4. ASSUME NEW n \in Nodes, Crash(n)
      PROVE  ~Quiet'
  <2>1. crashes'[n] = crashes[n] + 1 /\ crashes[n] \in Nat
    BY <1>1, <1>4 DEF Crash
  <2> QED
    BY <2>1 DEF Quiet
<1> QED
  BY <1>2, <1>3, <1>4, OtherFaults DEF Next

LEMMA ExactNext ==
  ASSUME TypeInv, Quiet => ExactInv, [Next]_vars
  PROVE  (Quiet => ExactInv)'
<1> SUFFICES ASSUME Quiet' PROVE ExactInv'
  OBVIOUS
<1>1. CASE UNCHANGED vars
  BY <1>1 DEF vars, disk, bounds, Quiet, ExactInv, QueuesTrue, InStep, OffersInStep,
              Exact, Have, Listed, IsDownloaded
<1>2. CASE Next
  <2>1. ExactInv /\ UNCHANGED <<torn, crashes>>
    BY <1>2, StaysUnquiet
  <2>2. \A n \in Nodes : ~Crash(n)
    BY <1>2, StaysUnquiet
  <2>3. \A n \in Nodes : ~Boot(n) /\ ~Ready(n)
    BY <2>1 DEF ExactInv, Boot, Ready
  <2> QED
    BY <1>2, <2>1, <2>2, <2>3, ExactMessages, ExactFetcher, ExactSender, ExactListFile
    DEF Next
<1> QED
  BY <1>1, <1>2

LEMMA AlwaysExact == Spec => [](TypeInv /\ (Quiet => ExactInv))
<1>1. Init => TypeInv /\ (Quiet => ExactInv)
  BY TypesInit, ExactInit
<1>2. TypeInv /\ (Quiet => ExactInv) /\ [Next]_vars => (TypeInv /\ (Quiet => ExactInv))'
  BY TypesNext, ExactNext
<1> QED
  BY <1>1, <1>2, PTL DEF Spec

\* As long as nobody crashes and nobody reads half a chunk, the file of every
\* node is the first chunks of the original, in any order of the offers, with
\* any lost and repeated messages.
THEOREM ExactFiles == Spec => []FilesAreExact
<1>1. TypeInv /\ (Quiet => ExactInv) => FilesAreExact
  BY DEF FilesAreExact, Quiet, ExactInv, Exact, First
<1> QED
  BY <1>1, AlwaysExact, PTL

-----------------------------------------------------------------------------
(* The transfer implements Spreading *)

ContentOf == [n \in Nodes |-> Content(n)]

LEMMA SpreadsChunk ==
  ASSUME TypeInv, ExactInv, NEW n \in Nodes, AppendChunk(n)
  PROVE  Spread!Copy(n, Origin)
<1> USE SizeTypes
<1> DEFINE k == fetcher[n].job.chunk
           start == EndOf(k - 1)
<1>1. fetcher[n].pc = "append" /\ InStep(n) /\ Exact(n)
  BY DEF AppendChunk, ExactInv
<1>2. k \in 1 .. Total /\ k - 1 \in 0 .. Total /\ k - 1 < Total /\ k - 1 + 1 = k
      /\ count[n] = k - 1 /\ Listed(n) /\ fetcher[n].data = Chunk(k)
  <2>1. k \in 1 .. Total
    BY <1>1 DEF InStep, FetchSteps, TrueJob, Job
  <2>2. count[n] \in 0 .. Total
    BY <1>1 DEF InStep, Listed, TypeInv, TypeOK
  <2> QED
    BY <1>1, <2>1, <2>2 DEF InStep
<1>3. Content(n) = First(k - 1) /\ Len(Content(n)) = start
  <2>1. Have(n) = k - 1
    BY <1>1, <1>2 DEF Have
  <2>2. First(0) = <<>> /\ (k - 1 # 0 => First(k - 1) # Missing) /\ Len(First(k - 1)) = start
    BY <1>2, FirstFacts
  <2> QED
    BY <1>1, <2>1, <2>2 DEF Exact, Content
<1>4. Content(Origin) = Original /\ Len(Original) = Size
  BY OriginalType, SomethingInBytes DEF Content, TypeInv, Uploaded
<1>5. start \in 0 .. Size /\ start < EndOf(k) /\ EndOf(k) \in 0 .. Size
      /\ EndOf(k) = IF start + ChunkSize < Size THEN start + ChunkSize ELSE Size
  BY <1>2, EndOfFacts
<1>6. Spread!ChunkAt(Content(Origin), Len(Content(n)) + 1) = Chunk(k)
  <2>1. (IF start + 1 + ChunkSize - 1 < Size THEN start + 1 + ChunkSize - 1 ELSE Size) = EndOf(k)
    BY <1>5
  <2> QED
    BY <1>3, <1>4, <2>1 DEF Spread!ChunkAt, Chunk
<1>7. Content(n)' = Content(n) \o Chunk(k) /\ \A m \in Nodes \ {n} : Content(m)' = Content(m)
  <2>1. file'[n] = First(k) /\ \A m \in Nodes \ {n} : file'[m] = file[m]
    BY <1>2, <1>3, ChunkExtends DEF AppendChunk, TypeInv, TypeOK
  <2>2. First(k) # Missing
    <3>1. k \in 0 .. Total /\ k # 0
      BY <1>2
    <3> QED
      BY <3>1, FirstFacts
  <2> QED
    BY <1>2, <1>3, <2>1, <2>2, ChunkExtends DEF Content
<1>8. Len(ContentOf[n]) < Len(ContentOf[Origin])
  BY <1>3, <1>4, <1>5 DEF ContentOf
<1>9. ContentOf' = [ContentOf EXCEPT ![n] = @ \o Spread!ChunkAt(ContentOf[Origin], Len(@) + 1)]
  BY <1>6, <1>7 DEF ContentOf
<1> QED
  BY <1>8, <1>9 DEF Spread!Copy, ContentOf

LEMMA FilesStay ==
  ASSUME TypeInv, ExactInv, [Next]_vars, UNCHANGED <<torn, crashes>>,
         \A n \in Nodes : ~AppendChunk(n)
  PROVE  UNCHANGED file
<1>1. \A n \in Nodes : ~AppendPart(n) /\ ~Crash(n)
  BY DEF AppendPart, Crash, TypeInv, TypeOK
<1>2. ASSUME NEW n \in Nodes, Verify(n)
      PROVE  UNCHANGED file
  <2>1. fetcher[n].pc = "verify" /\ InStep(n) /\ Exact(n)
    BY <1>2 DEF Verify, ExactInv
  <2>2. count[n] = Total /\ Have(n) = Total
    BY <2>1, SizeTypes DEF InStep, IsDownloaded, Have, Listed
  <2>3. file[n] = Original
    BY <2>1, <2>2, SizeTypes, FirstFacts DEF Exact
  <2> QED
    BY <1>2, <2>3 DEF Verify, TypeInv, TypeOK
<1>3. ASSUME NEW n \in Nodes, FetchStep(n)
      PROVE  UNCHANGED file
  BY <1>1, <1>2, <1>3
  DEF FetchStep, FetchLook, FetchLeave, FetchCheck, Fetch, FetchFails, Complete, Tell,
      Confirm, disk
<1>4. ASSUME NEW n \in Nodes, SendStep(n)
      PROVE  UNCHANGED file
  BY <1>4
  DEF SendStep, SendLook, SendLeave, SendRead, SendPost, SendAnswered, SendFails, disk
<1>5. ASSUME NEW n \in Nodes, ListFile(n) \/ Boot(n) \/ Ready(n)
      PROVE  UNCHANGED file
  BY <1>5 DEF ListFile, Boot, Ready, disk
<1> QED
  BY <1>1, <1>3, <1>4, <1>5 DEF Next, TellPeer, Invite, Receive, vars, disk

\* If the bounds allow no crash and no half chunk, the transfer implements
\* Spreading: files grow chunk by chunk, each the next one of the original.
THEOREM TransferSpreads ==
  ASSUME MaxTorn = 0, \A n \in Nodes : MaxCrashes[n] = 0
  PROVE  Spec => ImplementsSpreading
<1>1. Init => Quiet
  BY DEF Init, Quiet
<1>2. TypeInv /\ Quiet /\ [Next]_vars => Quiet' /\ UNCHANGED <<torn, crashes>>
  <2> SUFFICES ASSUME TypeInv, Quiet, [Next]_vars PROVE UNCHANGED <<torn, crashes>>
    BY DEF Quiet
  <2>1. torn = 0 /\ \A n \in Nodes : crashes[n] = 0
    BY DEF Quiet
  <2>2. \A n \in Nodes : ~Crash(n)
    BY <2>1 DEF Crash
  <2>3. \A n \in Nodes : FetchStep(n) => UNCHANGED <<torn, crashes>>
    BY <2>1, FetcherFaults
  <2> QED
    BY <2>2, <2>3, OtherFaults DEF Next, vars, bounds
<1>3. Spec => [](TypeInv /\ ExactInv /\ Quiet)
  BY <1>1, <1>2, AlwaysExact, PTL DEF Spec
<1>4. Init => Spread!Init
  BY FirstFacts, SomethingInBytes, OriginalType DEF Init, Spread!Init, Content
<1>5. TypeInv /\ ExactInv /\ Quiet /\ [Next]_vars => [Spread!Next]_ContentOf
  <2> SUFFICES ASSUME TypeInv, ExactInv, Quiet, [Next]_vars
               PROVE  [Spread!Next]_ContentOf
    OBVIOUS
  <2>1. CASE \E n \in Nodes : AppendChunk(n)
    BY <2>1, SizeTypes, SpreadsChunk DEF Spread!Next
  <2>2. CASE \A n \in Nodes : ~AppendChunk(n)
    <3>1. UNCHANGED file
      BY <1>2, <2>2, FilesStay
    <3> QED
      BY <3>1 DEF ContentOf, Content
  <2> QED
    BY <2>1, <2>2
<1> QED
  BY <1>3, <1>4, <1>5, PTL DEF Spec, Spread!Spec, ImplementsSpreading, ContentOf

-----------------------------------------------------------------------------
(* What holds through crashes, half written chunks and wrong bytes           *)

\* The thread of the Fetcher of a node and what the node has counted and saved.
Counted(n) ==
  /\ mode[n] = "down" => fetcher[n].pc = "off"
  /\ mode[n] # "down" /\ listFile[n] # None => Listed(n) /\ count[n] >= listFile[n]
  /\ fetcher[n].pc \in {"fetch", "append", "complete"} =>
       Listed(n) /\ count[n] + 1 = fetcher[n].job.chunk

\* A node that has not crashed: its file is compared after the last chunk.
Checked(n) ==
  crashes[n] = 0 =>
    /\ mode[n] = "up"
    /\ fetcher[n].pc \in {"tell", "confirm"} => count[n] = fetcher[n].job.chunk
    /\ IsDownloaded(n) =>
         fetcher[n].pc \in {"tell", "confirm", "verify"} \/ file[n] \in {Original, Missing}

CrashInv == TypeInv /\ \A n \in Nodes : Counted(n) /\ Checked(n)

LEMMA CrashInit == Init => CrashInv
<1> SUFFICES ASSUME Init, NEW n \in Nodes PROVE Counted(n) /\ Checked(n)
  BY TypesInit DEF CrashInv
<1>1. fetcher[n].pc = "off" /\ mode[n] = "up"
  BY FetcherIdle DEF Init
<1>2. /\ listFile[n] # None => n = Origin /\ listFile[n] = Total /\ count[n] = Total
      /\ file[n] \in {Original, Missing}
  BY DEF Init
<1> QED
  BY <1>1, <1>2, SizeTypes DEF Counted, Checked, Listed

\* The nodes whose thread and file a step leaves alone.
LEMMA CountedStays ==
  ASSUME NEW n \in Nodes, Counted(n), Checked(n),
         fetcher'[n] = fetcher[n], count'[n] = count[n], file'[n] = file[n],
         listFile'[n] = listFile[n], mode'[n] = mode[n], crashes'[n] = crashes[n]
  PROVE  Counted(n)' /\ Checked(n)'
  BY DEF Counted, Checked, Listed, IsDownloaded

\* A thread that had no chunk looks for the next job, or ends.
LEMMA CountedIdle ==
  ASSUME NEW n \in Nodes, Counted(n), Checked(n),
         fetcher[n].pc \in {"off", "look", "leave", "check", "fetch", "append"},
         fetcher'[n].pc \in {"off", "look", "leave", "check"},
         TypeInv, count'[n] = count[n], file'[n] = file[n],
         mode[n] # "down" \/ fetcher'[n].pc = "off",
         listFile'[n] = listFile[n], mode'[n] = mode[n], crashes'[n] = crashes[n]
  PROVE  Counted(n)' /\ Checked(n)'
  BY DEF Counted, Checked, Listed, IsDownloaded

LEMMA CrashFetcher ==
  ASSUME CrashInv, NEW n \in Nodes, FetchStep(n)
  PROVE  Counted(n)' /\ Checked(n)'
<1> USE SizeTypes
<1> DEFINE t == fetcher[n]
<1>0. /\ fetcher \in [Nodes -> FetcherThread]
      /\ t.pc \in FetchSteps => t \in FetcherBusy /\ t.job.chunk \in 1 .. Total
      /\ TypeInv /\ Counted(n) /\ Checked(n)
      /\ count \in [Nodes -> 0 .. Total \cup {None}] /\ count[n] \in 0 .. Total \cup {None}
      /\ listFile \in [Nodes -> 0 .. Total \cup {None}]
      /\ listFile[n] \in 0 .. Total \cup {None}
      /\ file \in [Nodes -> Bytes \cup {Missing}]
  <2>1. TypeInv /\ TypeOK /\ Counted(n) /\ Checked(n)
    BY DEF CrashInv, TypeInv
  <2>2. t \in FetcherThread
    BY <2>1 DEF TypeOK
  <2>3. t.pc \in FetchSteps => t \in FetcherBusy /\ t.job \in Job
    BY <2>2, FetcherBusyWhen DEF FetcherBusy
  <2>4. t.job \in Job => t.job.chunk \in 1 .. Total
    BY DEF Job
  <2> QED
    BY <2>1, <2>3, <2>4 DEF TypeOK
<1>1. ASSUME FetchLook(n)
      PROVE  Counted(n)' /\ Checked(n)'
  <2>1. fetcher'[n].pc \in {"leave", "check"}
    BY <1>0, <1>1, FetcherIdle DEF FetchLook, FetcherTo, FetcherWith
  <2>2. t.pc = "look" /\ mode[n] # "down"
    BY <1>0, <1>1 DEF FetchLook, Counted
  <2>3. UNCHANGED <<mode, count, listFile, file, crashes>>
    BY <1>1 DEF FetchLook, bounds
  <2> QED
    BY <1>0, <2>1, <2>2, <2>3, CountedIdle
<1>2. ASSUME FetchLeave(n)
      PROVE  Counted(n)' /\ Checked(n)'
  <2>1. fetcher'[n].pc = "off" /\ t.pc = "leave"
    BY <1>0, <1>2, FetcherIdle DEF FetchLeave, FetcherTo
  <2>2. UNCHANGED <<mode, count, listFile, file, crashes>>
    BY <1>2 DEF FetchLeave, disk, bounds
  <2> QED
    BY <1>0, <2>1, <2>2, CountedIdle
<1>3. ASSUME FetchCheck(n)
      PROVE  Counted(n)' /\ Checked(n)'
  <2>1. t.pc = "check" /\ t.pc \in FetchSteps /\ mode[n] # "down"
    BY <1>0, <1>3 DEF FetchCheck, FetchSteps, Counted
  <2>2. UNCHANGED <<mode, count, listFile, file, crashes>>
    BY <1>3 DEF FetchCheck, bounds
  <2>3. CASE \/ FetcherTo(n, FetcherAt("off"))
             \/ FetcherTo(n, FetcherAt("look"))
             \/ FetchAgain(n)
    <3>1. fetcher'[n].pc \in {"off", "look"}
      BY <1>0, <2>3, FetcherIdle DEF FetchAgain, FetcherTo
    <3> QED
      BY <1>0, <2>1, <2>2, <3>1, CountedIdle
  <2>4. CASE /\ Listed(n) /\ ~IsDownloaded(n) /\ LastChunk(n) + 1 = t.job.chunk
             /\ FetcherTo(n, [t EXCEPT !.pc = "fetch"])
    <3>1. fetcher'[n].pc = "fetch" /\ fetcher'[n].job = t.job
      BY <1>0, <2>1, <2>4 DEF FetcherTo, FetcherBusy
    <3> QED
      BY <1>0, <2>1, <2>2, <2>4, <3>1
      DEF Counted, Checked, Listed, IsDownloaded, LastChunk
  <2> QED
    BY <1>3, <2>3, <2>4 DEF FetchCheck
<1>4. ASSUME Fetch(n)
      PROVE  Counted(n)' /\ Checked(n)'
  <2>1. t.pc = "fetch" /\ t.pc \in FetchSteps
    BY <1>4 DEF Fetch, FetchSteps
  <2>2. fetcher'[n].pc = "append" /\ fetcher'[n].job = t.job
    BY <1>0, <1>4, <2>1 DEF Fetch, FetcherTo, FetcherBusy
  <2>3. listFile'[n] = count[n] /\ UNCHANGED <<mode, count, file, crashes>>
    BY <1>0, <1>4 DEF Fetch, SaveList, bounds
  <2> QED
    BY <1>0, <2>1, <2>2, <2>3 DEF Counted, Checked, Listed, IsDownloaded
<1>5. ASSUME FetchFails(n)
      PROVE  Counted(n)' /\ Checked(n)'
  <2>1. t.pc = "fetch" /\ mode[n] # "down"
    BY <1>0, <1>5 DEF FetchFails, Counted
  <2>2. fetcher'[n].pc = "look"
    BY <1>0, <1>5, FetcherIdle DEF FetchFails, FetchAgain, FetcherTo
  <2>3. UNCHANGED <<mode, count, listFile, file, crashes>>
    BY <1>5 DEF FetchFails
  <2> QED
    BY <1>0, <2>1, <2>2, <2>3, CountedIdle
<1>6. ASSUME AppendChunk(n) \/ AppendPart(n)
      PROVE  Counted(n)' /\ Checked(n)'
  <2>1. t.pc = "append" /\ t.pc \in FetchSteps
    BY <1>6 DEF AppendChunk, AppendPart, FetchSteps
  <2>2. fetcher'[n].pc \in {"append", "complete"} /\ fetcher'[n].job = t.job
    <3>1. CASE AppendChunk(n)
      BY <1>0, <2>1, <3>1 DEF AppendChunk, FetcherTo, FetcherBusy
    <3>2. CASE AppendPart(n)
      <4>1. PICK i \in 1 .. Len(t.data) - 1 :
              FetcherTo(n, [t EXCEPT !.data = SubSeq(@, i + 1, Len(@))])
        BY <3>2 DEF AppendPart
      <4> QED
        BY <1>0, <2>1, <4>1 DEF FetcherTo, FetcherBusy
    <3> QED
      BY <1>6, <3>1, <3>2
  <2>3. UNCHANGED <<mode, count, listFile, crashes>>
    BY <1>6 DEF AppendChunk, AppendPart, bounds
  <2>4. ~IsDownloaded(n)
    BY <1>0, <2>1 DEF Counted, Listed, IsDownloaded
  <2> QED
    BY <1>0, <2>1, <2>2, <2>3, <2>4 DEF Counted, Checked, Listed, IsDownloaded
<1>7. ASSUME Complete(n)
      PROVE  Counted(n)' /\ Checked(n)'
  <2>1. t.pc = "complete" /\ t.pc \in FetchSteps
    BY <1>7 DEF Complete, FetchSteps
  <2>2. count[n] \in Nat /\ count[n] + 1 = t.job.chunk /\ t.job.chunk <= Total
    BY <1>0, <2>1 DEF Counted, Listed
  <2>3. count'[n] = t.job.chunk
    BY <1>0, <1>7, <2>2 DEF Complete
  <2>4. listFile'[n] = count'[n] /\ UNCHANGED <<mode, crashes>>
    BY <1>0, <1>7 DEF Complete, SaveList, bounds
  <2>5. mode[n] # "down"
    BY <1>0, <2>1 DEF Counted
  <2>6. \/ mode[n] = "starting" /\ fetcher'[n].pc = "off"
        \/ fetcher'[n].pc = "tell" /\ fetcher'[n].job = t.job
    <3>1. CASE mode[n] = "starting"
      BY <1>0, <1>7, <3>1, FetcherIdle DEF Complete, FetcherTo
    <3>2. CASE mode[n] # "starting"
      <4>1. PICK P \in Picks(n) : FetcherTo(n, [t EXCEPT !.pc = "tell", !.tell = P])
        BY <1>7, <3>2 DEF Complete
      <4> QED
        BY <1>0, <2>1, <4>1 DEF FetcherTo, FetcherBusy
    <3> QED
      BY <3>1, <3>2
  <2> QED
    BY <1>0, <2>2, <2>3, <2>4, <2>5, <2>6 DEF Counted, Checked, Listed, IsDownloaded
<1>8. ASSUME Tell(n)
      PROVE  Counted(n)' /\ Checked(n)'
  <2>1. t.pc = "tell" /\ t.pc \in FetchSteps
    BY <1>8 DEF Tell, FetchSteps
  <2>2. fetcher'[n].pc \in {"tell", "confirm"} /\ fetcher'[n].job = t.job
    <3>1. ASSUME NEW p, FetcherTo(n, [t EXCEPT !.tell = @ \ {p}])
          PROVE  fetcher'[n].pc = "tell" /\ fetcher'[n].job = t.job
      BY <1>0, <2>1, <3>1 DEF FetcherTo, FetcherBusy
    <3>2. CASE FetcherTo(n, [t EXCEPT !.pc = "confirm"])
      BY <1>0, <2>1, <3>2 DEF FetcherTo, FetcherBusy
    <3> QED
      BY <1>8, <3>1, <3>2 DEF Tell
  <2>3. UNCHANGED <<mode, count, listFile, file, crashes>>
    BY <1>8 DEF Tell, disk
  <2> QED
    BY <1>0, <2>1, <2>2, <2>3 DEF Counted, Checked, Listed, IsDownloaded
<1>9. ASSUME Confirm(n)
      PROVE  Counted(n)' /\ Checked(n)'
  <2>1. t.pc = "confirm" /\ t.pc \in FetchSteps /\ mode[n] # "down"
    BY <1>0, <1>9 DEF Confirm, FetchSteps, Counted
  <2>2. \/ t.job.chunk = Total /\ fetcher'[n].pc = "verify"
        \/ t.job.chunk # Total /\ fetcher'[n].pc = "look"
    BY <1>0, <1>9, <2>1, FetcherIdle DEF Confirm, FetcherTo, FetcherBusy
  <2>3. UNCHANGED <<mode, count, listFile, file, crashes>>
    BY <1>9 DEF Confirm, disk
  <2> QED
    BY <1>0, <2>1, <2>2, <2>3 DEF Counted, Checked, Listed, IsDownloaded
<1>10. ASSUME Verify(n)
       PROVE  Counted(n)' /\ Checked(n)'
  <2>1. t.pc = "verify" /\ mode[n] # "down"
    BY <1>0, <1>10 DEF Verify, Counted
  <2>2. fetcher'[n].pc = "look" /\ file'[n] \in {Original, Missing}
    BY <1>0, <1>10, FetcherIdle DEF Verify, FetcherTo
  <2>3. UNCHANGED <<mode, count, listFile, crashes>>
    BY <1>10 DEF Verify, bounds
  <2> QED
    BY <1>0, <2>1, <2>2, <2>3 DEF Counted, Checked, Listed, IsDownloaded
<1> QED
  BY <1>1, <1>2, <1>3, <1>4, <1>5, <1>6, <1>7, <1>8, <1>9, <1>10 DEF FetchStep

LEMMA FetcherOthers ==
  ASSUME TypeInv, NEW n \in Nodes, FetchStep(n), NEW m \in Nodes \ {n}
  PROVE  /\ fetcher'[m] = fetcher[m] /\ count'[m] = count[m] /\ file'[m] = file[m]
         /\ listFile'[m] = listFile[m] /\ mode'[m] = mode[m] /\ crashes'[m] = crashes[m]
<1>1. /\ fetcher \in [Nodes -> FetcherThread]
      /\ count \in [Nodes -> 0 .. Total \cup {None}]
      /\ listFile \in [Nodes -> 0 .. Total \cup {None}]
      /\ file \in [Nodes -> Bytes \cup {Missing}]
  BY DEF TypeInv, TypeOK
<1>2. CASE FetchLook(n) \/ FetchLeave(n) \/ FetchCheck(n) \/ Fetch(n) \/ FetchFails(n)
  BY <1>1, <1>2
  DEF FetchLook, FetchLeave, FetchCheck, Fetch, FetchFails, FetchAgain, FetcherTo,
      SaveList, disk, bounds
<1>3. CASE AppendChunk(n) \/ AppendPart(n) \/ Confirm(n) \/ Verify(n)
  BY <1>1, <1>3 DEF AppendChunk, AppendPart, Confirm, Verify, FetcherTo, disk, bounds
<1>4. CASE Complete(n)
  BY <1>1, <1>4 DEF Complete, FetcherTo, SaveList, bounds
<1>5. CASE Tell(n)
  BY <1>1, <1>5 DEF Tell, FetcherTo, disk
<1> QED
  BY <1>2, <1>3, <1>4, <1>5 DEF FetchStep

LEMMA CrashNext == CrashInv /\ [Next]_vars => CrashInv'
<1> SUFFICES ASSUME CrashInv, [Next]_vars, NEW n \in Nodes
             PROVE  Counted(n)' /\ Checked(n)'
  BY TypesNext DEF CrashInv
<1> USE SizeTypes
<1>0. TypeInv /\ Counted(n) /\ Checked(n)
  BY DEF CrashInv
<1>1. CASE UNCHANGED vars
  BY <1>0, <1>1, CountedStays DEF vars, disk, bounds
<1>2. ASSUME NEW m \in Nodes, FetchStep(m)
      PROVE  Counted(n)' /\ Checked(n)'
  BY <1>0, <1>2, CrashFetcher, FetcherOthers, CountedStays
<1>3. ASSUME NEW m \in Nodes, SendStep(m)
      PROVE  Counted(n)' /\ Checked(n)'
  <2>1. UNCHANGED <<mode, count, listFile, file, fetcher, crashes>>
    BY <1>3
    DEF SendStep, SendLook, SendLeave, SendRead, SendPost, SendAnswered, SendFails,
        disk, bounds
  <2> QED
    BY <1>0, <2>1, CountedStays
<1>4. CASE (\E p \in Nodes : TellPeer(p)) \/ (\E m, d \in Nodes : Invite(m, d))
  <2>1. UNCHANGED <<mode, count, listFile, file, fetcher, crashes>>
    BY <1>4 DEF TellPeer, Invite, disk
  <2> QED
    BY <1>0, <2>1, CountedStays
<1>5. ASSUME NEW m \in net, Receive(m)
      PROVE  Counted(n)' /\ Checked(n)'
  <2>1. UNCHANGED <<mode, count, listFile, file, crashes>> /\ mode[m.to] = "up"
    BY <1>5 DEF Receive, bounds
  <2>2. \/ fetcher'[n] = fetcher[n]
        \/ n = m.to /\ fetcher[n].pc = "off" /\ fetcher'[n].pc = "look"
    <3>1. CASE Response(m)
      BY <3>1, FetcherIdle DEF Response, CrashInv, TypeInv, TypeOK
    <3>2. CASE Webhook(m)
      BY <3>2 DEF Webhook
    <3> QED
      BY <1>5, <3>1, <3>2 DEF Receive
  <2> QED
    BY <1>0, <2>1, <2>2, CountedStays, CountedIdle
<1>6. ASSUME NEW m \in Nodes, ListFile(m)
      PROVE  Counted(n)' /\ Checked(n)'
  <2>1. /\ UNCHANGED <<mode, listFile, file, fetcher, crashes>>
        /\ count' = [count EXCEPT ![m] = 0] /\ ~Listed(m) /\ mode[m] # "down"
    BY <1>6 DEF ListFile, disk, bounds
  <2>2. CASE n = m
    <3>1. count'[n] = 0 /\ listFile[n] = None
      BY <1>0, <2>1, <2>2 DEF Counted, TypeInv, TypeOK
    <3>2. Counted(n)'
      BY <1>0, <2>1, <2>2, <3>1 DEF Counted, Listed
    <3>3. fetcher[n].pc \in {"tell", "confirm"} => crashes[n] # 0
      <4> SUFFICES ASSUME fetcher[n].pc \in {"tell", "confirm"}, crashes[n] = 0
                   PROVE  FALSE
        OBVIOUS
      <4>1. fetcher[n] \in FetcherBusy
        BY <1>0, FetcherBusyWhen DEF TypeInv, TypeOK, FetchSteps
      <4>2. count[n] \in Nat
        BY <1>0, <4>1 DEF Checked, FetcherBusy, Job
      <4> QED
        BY <2>1, <2>2, <4>2 DEF Listed
    <3>4. Checked(n)'
      BY <1>0, <2>1, <3>1, <3>3 DEF Checked, IsDownloaded
    <3> QED
      BY <3>2, <3>4
  <2>3. CASE n # m
    BY <1>0, <2>1, <2>3, CountedStays DEF TypeInv, TypeOK
  <2> QED
    BY <2>2, <2>3
<1>7. ASSUME NEW m \in Nodes, Crash(m) \/ Boot(m) \/ Ready(m)
      PROVE  Counted(n)' /\ Checked(n)'
  <2>1. CASE n # m
    BY <1>0, <1>7, <2>1, CountedStays
    DEF Crash, Boot, Ready, FetcherTo, disk, bounds, TypeInv, TypeOK
  <2>2. CASE n = m /\ Crash(m)
    <3>1. crashes'[n] = crashes[n] + 1 /\ crashes[n] \in Nat /\ mode'[n] = "down"
          /\ fetcher'[n].pc = "off"
      BY <1>0, <2>2, FetcherIdle DEF Crash, TypeInv, TypeOK
    <3> QED
      BY <3>1 DEF Counted, Checked
  <2>3. CASE n = m /\ Boot(m)
    <3>1. /\ mode[n] = "down" /\ mode'[n] = "starting" /\ count'[n] = listFile[n]
          /\ listFile[n] \in 0 .. Total \cup {None} /\ UNCHANGED <<listFile, crashes>>
          /\ fetcher'[n].pc \in {"off", "look"}
      BY <1>0, <2>3, FetcherIdle DEF Boot, FetcherTo, Counted, disk, bounds, TypeInv, TypeOK
    <3> QED
      BY <1>0, <3>1 DEF Counted, Checked, Listed
  <2>4. CASE n = m /\ Ready(m)
    <3>1. mode[n] = "starting" /\ mode'[n] = "up"
          /\ UNCHANGED <<listFile, count, fetcher, file, crashes>>
      BY <1>0, <2>4 DEF Ready, disk, bounds, TypeInv, TypeOK
    <3> QED
      BY <1>0, <3>1 DEF Counted, Checked, Listed
  <2> QED
    BY <1>7, <2>1, <2>2, <2>3, <2>4
<1> QED
  BY <1>1, <1>2, <1>3, <1>4, <1>5, <1>6, <1>7 DEF Next

\* A node that has not crashed has the right file or none once the transfer has
\* ended there, whatever the nodes it has the chunks from have in their files.
THEOREM CompleteFilesAreChecked == Spec => []CheckedWhenComplete
<1>1. Spec => []CrashInv
  BY CrashInit, CrashNext, PTL DEF Spec
<1>2. CrashInv => CheckedWhenComplete
  BY DEF CrashInv, Checked, CheckedWhenComplete
<1> QED
  BY <1>1, <1>2, PTL

\* What the saved file list counts never decreases, through crashes and restarts.
THEOREM SavedCountsGrow == Spec => CountsGrow
<1>1. Spec => []CrashInv
  BY CrashInit, CrashNext, PTL DEF Spec
<1>2. CrashInv /\ [Next]_vars =>
        \/ \A n \in Nodes : listFile[n] # None =>
              listFile'[n] # None /\ listFile'[n] >= listFile[n]
        \/ UNCHANGED vars
  <2> SUFFICES ASSUME CrashInv, Next, NEW n \in Nodes, listFile[n] # None
               PROVE  listFile'[n] # None /\ listFile'[n] >= listFile[n]
    OBVIOUS
  <2>0. listFile[n] \in Nat /\ listFile \in [Nodes -> 0 .. Total \cup {None}]
        /\ count \in [Nodes -> 0 .. Total \cup {None}]
        /\ Counted(n) /\ TypeInv
    BY SizeTypes DEF CrashInv, TypeInv, TypeOK
  <2>1. CASE UNCHANGED listFile
    BY <2>0, <2>1
  <2>2. ASSUME NEW m \in Nodes, m # n, FetchStep(m)
        PROVE  listFile'[n] # None /\ listFile'[n] >= listFile[n]
    BY <2>0, <2>2, FetcherOthers
  <2>3. CASE Fetch(n) \/ Complete(n)
    <3>1. mode[n] # "down" /\ Listed(n) /\ count[n] \in Nat /\ count[n] >= listFile[n]
      <4>1. fetcher[n].pc \in {"fetch", "complete"}
        BY <2>3 DEF Fetch, Complete
      <4>2. mode[n] # "down" /\ Listed(n)
        BY <2>0, <4>1 DEF Counted
      <4> QED
        BY <2>0, <4>2 DEF Counted, Listed
    <3>2. CASE Fetch(n)
      BY <2>0, <3>1, <3>2, SizeTypes DEF Fetch, SaveList
    <3>3. CASE Complete(n)
      <4>1. count'[n] \in Nat /\ count'[n] >= count[n]
        <5> DEFINE k == fetcher[n].job.chunk
        <5>1. count'[n] = IF k = count[n] + 1 /\ k <= Total THEN k ELSE count[n]
          BY <2>0, <3>3 DEF Complete
        <5> QED
          BY <3>1, <5>1
      <4>2. listFile'[n] = count'[n]
        BY <2>0, <3>3 DEF Complete, SaveList
      <4> QED
        BY <2>0, <3>1, <4>1, <4>2, SizeTypes
    <3> QED
      BY <2>3, <3>2, <3>3
  <2>4. CASE FetchStep(n) /\ ~Fetch(n) /\ ~Complete(n)
    <3>1. UNCHANGED listFile
      BY <2>4
      DEF FetchStep, FetchLook, FetchLeave, FetchCheck, FetchFails, AppendChunk,
          AppendPart, Tell, Confirm, Verify, disk
    <3> QED
      BY <2>1, <3>1
  <2>5. ASSUME NEW m \in Nodes, SendStep(m)
        PROVE  UNCHANGED listFile
    BY <2>5
    DEF SendStep, SendLook, SendLeave, SendRead, SendPost, SendAnswered, SendFails, disk
  <2>6. ASSUME NEW m \in Nodes, ListFile(m) \/ Crash(m) \/ Boot(m) \/ Ready(m)
        PROVE  UNCHANGED listFile
    BY <2>6 DEF ListFile, Crash, Boot, Ready, disk
  <2>7. CASE \/ \E p \in Nodes : TellPeer(p)
             \/ \E m, d \in Nodes : Invite(m, d)
             \/ \E m \in net : Receive(m)
    BY <2>1, <2>7 DEF TellPeer, Invite, Receive, disk
  <2> QED
    BY <2>1, <2>2, <2>3, <2>4, <2>5, <2>6, <2>7 DEF Next
<1> QED
  BY <1>1, <1>2, PTL DEF Spec, CountsGrow

-----------------------------------------------------------------------------
(* What is saved is there: through crashes, as long as nobody reads half a   *)
(* chunk                                                                     *)

\* The chunks that are counted, saved and about to be confirmed are the same.
Saved(n) ==
  /\ mode[n] = "down" => count[n] = None
  /\ mode[n] # "down" /\ listFile[n] # None => count[n] = listFile[n]
  /\ listFile[n] = None => count[n] \in {None, 0}
  /\ fetcher[n].pc \in {"tell", "confirm"} => listFile[n] = fetcher[n].job.chunk
  /\ fetcher[n].pc = "verify" => listFile[n] = Total

\* A job of a chunk that is not the last has a whole chunk to hash, and ends
\* where the chunk does, whatever the bytes are.
Placed(j) ==
  j.chunk < Total => j.end + 1 = EndOf(j.chunk) /\ Len(j.sha1) = ChunkSize

PlacedJob == {j \in Job : Placed(j)}

FetchesPlaced(n) ==
  /\ fetcher[n].pc \in FetchSteps => fetcher[n].job \in PlacedJob
  /\ fetcher[n].pc = "append" => fetcher[n].data = fetcher[n].job.sha1

SendsPlaced(n) ==
  /\ sender[n].pc \in {"read", "post", "wait", "answered"} => sender[n].job \in PlacedJob
  /\ sender[n].pc \in {"post", "wait", "answered"} => sender[n].offer \in PlacedJob

QueuesPlaced ==
  /\ fetchQueue \in [Nodes -> Seq(PlacedJob)]
  /\ sendQueue \in [Nodes -> Seq(PlacedJob)]
  /\ \A m \in net : m.job \in PlacedJob

\* A file has whole chunks only, as long as the last one is not among them.
Even(f) == Len(f) >= EndOf(Total - 1) \/ \E q \in Nat \ {0} : Len(f) = q * ChunkSize

\* The file of a node is long enough for what its list says of it.
Stored(n) ==
  /\ file[n] # Missing => Even(file[n])
  /\ listFile[n] \in 1 .. Total - 1 =>
       file[n] # Missing /\ Len(file[n]) >= EndOf(listFile[n])
  /\ fetcher[n].pc = "complete" /\ fetcher[n].job.chunk < Total =>
       file[n] # Missing /\ Len(file[n]) >= EndOf(fetcher[n].job.chunk)

StoredInv ==
  /\ QueuesPlaced
  /\ \A n \in Nodes : FetchesPlaced(n)
  /\ \A n \in Nodes : SendsPlaced(n)
  /\ \A n \in Nodes : Stored(n)

-----------------------------------------------------------------------------

\* Multiples of the chunk size.
LEMMA Multiples ==
  ASSUME NEW q \in Nat, NEW k \in Nat, q * ChunkSize > k * ChunkSize
  PROVE  q * ChunkSize >= (k + 1) * ChunkSize
<1> USE SizeTypes
<1>1. q > k
  <2> SUFFICES ASSUME q <= k PROVE FALSE
    OBVIOUS
  <2>1. q * ChunkSize <= k * ChunkSize
    OBVIOUS
  <2>2. q * ChunkSize \in Nat /\ k * ChunkSize \in Nat
    OBVIOUS
  <2> QED
    BY <2>1, <2>2
<1>2. q >= k + 1
  BY <1>1
<1> QED
  BY <1>2

LEMMA EndOfNat ==
  ASSUME NEW k \in 0 .. Total
  PROVE  EndOf(k) \in Nat
<1>1. EndOf(k) \in 0 .. Size
  BY EndOfFacts
<1> QED
  BY <1>1, SizeTypes

\* A node that has a byte of a chunk that is not the last has all of it.
LEMMA EvenRead ==
  ASSUME NEW f \in Bytes, Even(f), NEW k \in 0 .. Total - 2, Len(f) > EndOf(k)
  PROVE  /\ Len(f) >= EndOf(k) + ChunkSize
         /\ Len(Read(f, EndOf(k), ChunkSize)) = ChunkSize
<1> USE SizeTypes
<1>1. k \in 0 .. Total /\ k + 1 \in 0 .. Total /\ k + 1 < Total /\ k < Total
      /\ Total - 1 \in 0 .. Total
  OBVIOUS
<1>2. /\ EndOf(k) = k * ChunkSize /\ EndOf(k + 1) = (k + 1) * ChunkSize
      /\ EndOf(k) \in Nat /\ EndOf(k + 1) \in Nat /\ EndOf(Total - 1) \in Nat
      /\ (k + 1) * ChunkSize = k * ChunkSize + ChunkSize
      /\ EndOf(k + 1) <= EndOf(Total - 1)
  <2>1. EndOf(k) = k * ChunkSize /\ EndOf(k) \in Nat
    BY <1>1, EndOfFacts
  <2>2. EndOf(k + 1) = (k + 1) * ChunkSize /\ EndOf(k + 1) \in Nat
    BY <1>1, EndOfFacts
  <2>3. EndOf(Total - 1) \in Nat
    BY <1>1, EndOfNat
  <2>4. EndOf(k + 1) <= EndOf(Total - 1)
    BY <1>1, EndOfGrows
  <2>5. (k + 1) * ChunkSize = k * ChunkSize + ChunkSize
    OBVIOUS
  <2> QED
    BY <2>1, <2>2, <2>3, <2>4, <2>5
<1>8. EndOf(k) \in Nat
  BY <1>2
<1>3. Len(f) \in Nat
  BY LenProperties DEF Bytes
<1>4. Len(f) >= EndOf(k) + ChunkSize
  <2>1. CASE Len(f) >= EndOf(Total - 1)
    BY <1>2, <1>3, <2>1
  <2>2. ASSUME NEW q \in Nat \ {0}, Len(f) = q * ChunkSize
        PROVE  Len(f) >= EndOf(k) + ChunkSize
    <3>1. k \in Nat /\ q * ChunkSize > k * ChunkSize
      BY <1>2, <2>2
    <3> QED
      BY <1>2, <2>2, <3>1, Multiples
  <2> QED
    BY <2>1, <2>2 DEF Even
<1>5. Read(f, EndOf(k), ChunkSize) = SubSeq(f, EndOf(k) + 1, EndOf(k) + ChunkSize)
  BY <1>8, <1>3, <1>4 DEF Read
<1>6. \A i \in EndOf(k) + 1 .. EndOf(k) + ChunkSize : f[i] \in 1 .. Size
  <2>1. \A i \in 1 .. Len(f) : f[i] \in 1 .. Size
    BY ElementOfSeq DEF Bytes
  <2> QED
    BY <1>8, <1>3, <1>4, <2>1
<1>7. Len(SubSeq(f, EndOf(k) + 1, EndOf(k) + ChunkSize)) = ChunkSize
  <2> DEFINE a == EndOf(k) + 1
             b == EndOf(k) + ChunkSize
  <2>1. a \in Int /\ b \in Int /\ a <= b /\ b - a + 1 = ChunkSize
    BY <1>8
  <2>2. \A i \in a .. b : f[i] \in 1 .. Size
    BY <1>6
  <2> HIDE DEF a, b
  <2>3. Len(SubSeq(f, a, b)) = IF a <= b THEN b - a + 1 ELSE 0
    BY <2>1, <2>2, SubSeqProperties
  <2>4. Len(SubSeq(f, a, b)) = ChunkSize
    BY <2>1, <2>3
  <2> QED
    BY <2>4 DEF a, b
<1> QED
  BY <1>4, <1>5, <1>7

\* Another whole chunk, or the first.
LEMMA EvenAppend ==
  ASSUME NEW f \in Bytes, f = <<>> \/ Even(f), NEW d \in Bytes, Len(d) = ChunkSize
  PROVE  Even(f \o d) /\ Len(f \o d) = Len(f) + ChunkSize
<1> USE SizeTypes
<1>1. Len(f) \in Nat /\ Len(f \o d) = Len(f) + ChunkSize
  BY LenProperties, ConcatProperties DEF Bytes
<1>2. CASE f = <<>>
  <2>1. Len(f) = 0 /\ 1 * ChunkSize = ChunkSize
    BY <1>2
  <2>2. Len(f \o d) = 1 * ChunkSize
    BY <1>1, <2>1
  <2> QED
    BY <1>1, <2>2 DEF Even
<1>3. CASE Len(f) >= EndOf(Total - 1)
  <2>1. EndOf(Total - 1) \in Nat
    <3>1. Total - 1 \in 0 .. Total
      OBVIOUS
    <3> QED
      BY <3>1, EndOfNat
  <2> QED
    BY <1>1, <1>3, <2>1 DEF Even
<1>4. ASSUME NEW q \in Nat \ {0}, Len(f) = q * ChunkSize
      PROVE  Even(f \o d)
  <2>1. (q + 1) * ChunkSize = q * ChunkSize + ChunkSize /\ q + 1 \in Nat \ {0}
    OBVIOUS
  <2> QED
    BY <1>1, <1>4, <2>1 DEF Even
<1> QED
  BY <1>1, <1>2, <1>3, <1>4 DEF Even

-----------------------------------------------------------------------------

LEMMA StoredInit == Init => StoredInv /\ \A n \in Nodes : Saved(n)
<1> SUFFICES ASSUME Init PROVE StoredInv /\ \A n \in Nodes : Saved(n)
  OBVIOUS
<1> USE SizeTypes
<1>1. QueuesPlaced
  BY EmptySeq DEF Init, QueuesPlaced
<1>2. ASSUME NEW n \in Nodes
      PROVE  FetchesPlaced(n) /\ SendsPlaced(n) /\ Saved(n)
  BY FetcherIdle, SenderIdle DEF Init, FetchesPlaced, SendsPlaced, Saved, FetchSteps
<1>3. ASSUME NEW n \in Nodes
      PROVE  Stored(n)
  <2>1. fetcher[n].pc = "off" /\ listFile[n] \in {Total, None}
    BY FetcherIdle DEF Init
  <2>2. file[n] # Missing => Even(file[n])
    BY EndOfFacts, OriginalType DEF Init, Even
  <2> QED
    BY <2>1, <2>2 DEF Stored
<1> QED
  BY <1>1, <1>2, <1>3 DEF StoredInv

\* The nodes whose threads, file and list a step leaves alone.
LEMMA StoredStays ==
  ASSUME NEW n \in Nodes,
         fetcher'[n] = fetcher[n], file'[n] = file[n], listFile'[n] = listFile[n]
  PROVE  /\ FetchesPlaced(n) => FetchesPlaced(n)'
         /\ Stored(n) => Stored(n)'
         /\ Saved(n) /\ count'[n] = count[n] /\ mode'[n] = mode[n] => Saved(n)'
  BY DEF FetchesPlaced, Stored, Saved

LEMMA SendsStay ==
  ASSUME NEW n \in Nodes, SendsPlaced(n),
         \/ sender'[n] = sender[n]
         \/ sender'[n].pc \in {"off", "look", "leave"}
         \/ /\ sender[n].pc \in {"post", "wait"} /\ sender'[n].pc \in {"wait", "answered"}
            /\ sender'[n].job = sender[n].job /\ sender'[n].offer = sender[n].offer
  PROVE  SendsPlaced(n)'
  BY DEF SendsPlaced

LEMMA PostPlaced ==
  ASSUME NEW kind, NEW to, NEW job \in PlacedJob,
         \A m \in net : m.job \in PlacedJob, Post(kind, to, job)
  PROVE  \A m \in net' : m.job \in PlacedJob
  BY DEF Post

\* The first chunk, as the upload and an invitation offer it.
LEMMA FirstPlaced ==
  ASSUME NEW n \in Nodes, NEW f \in Bytes, Even(f), NEW end \in {FirstEnd, InviteEnd}
  PROVE  Offer(n, 1, 0, end, Read(f, 0, end + 1)) \in PlacedJob
<1> USE SizeTypes
<1>1. end \in Nat /\ end + 1 \in Int /\ 0 \in Nat /\ 1 \in 1 .. Total
  OBVIOUS
<1>2. Offer(n, 1, 0, end, Read(f, 0, end + 1)) \in Job
  BY <1>1, ReadType, OfferType
<1>3. ASSUME 1 < Total
      PROVE  end + 1 = EndOf(1) /\ Len(Read(f, 0, end + 1)) = ChunkSize
  <2>1. EndOf(0) = 0 /\ EndOf(1) = ChunkSize /\ end = ChunkSize - 1
    <3>1. end = EndOf(1) - 1 /\ EndOf(1) \in 0 .. Size
      BY <1>1, <1>3, FirstOffers, EndOfFacts
    <3>2. EndOf(1) = 1 * ChunkSize /\ EndOf(0) = 0
      BY <1>1, <1>3, EndOfFacts
    <3> QED
      BY <3>1, <3>2
  <2>2. 0 \in 0 .. Total - 2
    BY <1>3
  <2>3. Len(f) > 0
    <3>1. Len(f) \in Nat
      BY LenProperties DEF Bytes
    <3>2. CASE Len(f) >= EndOf(Total - 1)
      <4>1. EndOf(1) <= EndOf(Total - 1) /\ EndOf(Total - 1) \in Nat
        BY <1>3, EndOfGrows, EndOfFacts
      <4> QED
        BY <2>1, <3>1, <3>2, <4>1
    <3>3. ASSUME NEW q \in Nat \ {0}, Len(f) = q * ChunkSize
          PROVE  Len(f) > 0
      BY <3>1, <3>3
    <3> QED
      BY <3>2, <3>3 DEF Even
  <2> QED
    BY <2>1, <2>2, <2>3, EvenRead
<1> QED
  BY <1>2, <1>3 DEF PlacedJob, Placed, Offer

\* What the Sender offers after a chunk that is placed.
LEMMA NextOfferPlaced ==
  ASSUME TypeInv, NEW n \in Nodes, SendsPlaced(n), Stored(n),
         sender[n].pc = "read", CanOffer(n)
  PROVE  NextOffer(n) \in PlacedJob
<1> USE SizeTypes
<1> DEFINE j == sender[n].job
           c == j.chunk
<1>1. NextOffer(n) \in Job /\ j \in PlacedJob /\ c \in 1 .. Total - 1 /\ j.end \in Nat
  <2>1. sender[n] \in SenderBusy /\ j \in SendJob
    BY SenderBusyWhen DEF TypeInv, TypeOK, SenderBusy
  <2>2. NextOffer(n) \in Job
    BY NextOfferType DEF CanOffer
  <2> QED
    BY <2>1, <2>2 DEF SendsPlaced, SendJob, Job
<1>2. j.end + 1 = EndOf(c)
  BY <1>1 DEF PlacedJob, Placed
<1>3. file[n] \in Bytes /\ Even(file[n])
  BY DEF CanOffer, TypeInv, TypeOK, Stored
<1> DEFINE start == EndOf(c)
           data == Read(file[n], start, ChunkSize)
           place == start + Len(data)
           end == IF c + 1 = Total THEN place ELSE place - 1
<1>4. NextOffer(n) = Offer(n, c + 1, start, end, data) /\ start < end
  BY <1>2 DEF NextOffer, CanOffer, Offer
<1>5. ASSUME c + 1 < Total
      PROVE  end + 1 = EndOf(c + 1) /\ Len(data) = ChunkSize
  <2>1. c \in 0 .. Total - 2 /\ c \in 0 .. Total /\ c < Total /\ c + 1 \in 0 .. Total
    BY <1>1, <1>5
  <2>2. start \in Nat
    BY <2>1, EndOfNat
  <2>3. Len(file[n]) \in Nat
    BY <1>3, LenProperties DEF Bytes
  <2>4. Len(file[n]) > start
    <3> SUFFICES ASSUME ~(Len(file[n]) > start) PROVE FALSE
      OBVIOUS
    <3>1. data = SubSeq(file[n], start + 1, Len(file[n]))
      BY <2>2, <2>3 DEF Read
    <3>2. data = <<>>
      BY <2>2, <2>3, <3>1, SubSeqEmpty
    <3>3. Len(data) = 0
      BY <3>2
    <3> QED
      BY <1>4, <1>5, <2>2, <3>3
  <2>5. Len(data) = ChunkSize
    BY <1>3, <2>1, <2>4, EvenRead
  <2>6. EndOf(c + 1) = start + ChunkSize
    <3>1. EndOf(c) = c * ChunkSize
      BY <2>1, EndOfFacts
    <3>2. EndOf(c + 1) = (c + 1) * ChunkSize
      BY <1>5, <2>1, EndOfFacts
    <3> QED
      BY <1>1, <3>1, <3>2
  <2> QED
    BY <1>5, <2>2, <2>5, <2>6
<1> HIDE DEF start, data, end
<1>6. NextOffer(n).chunk = c + 1 /\ NextOffer(n).end = end /\ NextOffer(n).sha1 = data
  BY <1>4 DEF Offer
<1> QED
  BY <1>1, <1>5, <1>6 DEF PlacedJob, Placed

LEMMA StoredSender ==
  ASSUME TypeInv, StoredInv, NEW n \in Nodes, SendStep(n)
  PROVE  StoredInv'
<1> DEFINE t == sender[n]
<1>0. /\ sender \in [Nodes -> SenderThread]
      /\ SendsPlaced(n) /\ QueuesPlaced
  BY DEF TypeInv, TypeOK, StoredInv
<1>1. UNCHANGED <<listFile, file, fetcher, fetchQueue>>
  BY DEF SendStep, SendLook, SendLeave, SendRead, SendPost, SendAnswered, SendFails, disk
<1>2. ASSUME QueuesPlaced', SendsPlaced(n)',
             \A m \in Nodes \ {n} : sender'[m] = sender[m]
      PROVE  StoredInv'
  <2>1. \A m \in Nodes : FetchesPlaced(m)' /\ Stored(m)'
    BY <1>1, StoredStays DEF StoredInv
  <2>2. \A m \in Nodes : SendsPlaced(m)'
    BY <1>2, SendsStay DEF StoredInv
  <2> QED
    BY <1>2, <2>1, <2>2 DEF StoredInv
<1>3. ASSUME NEW pc \in {"off", "look", "leave"}, SenderTo(n, SenderAt(pc)), QueuesPlaced'
      PROVE  StoredInv'
  <2>1. sender'[n].pc = pc /\ \A m \in Nodes \ {n} : sender'[m] = sender[m]
    BY <1>0, <1>3, SenderIdle DEF SenderTo
  <2> QED
    BY <1>0, <1>2, <1>3, <2>1, SendsStay
<1>4. ASSUME SendAgain(n), t.job \in PlacedJob, UNCHANGED net
      PROVE  StoredInv'
  <2>1. Append(sendQueue[n], t.job) \in Seq(PlacedJob)
    BY <1>0, <1>4, AppendProperties DEF QueuesPlaced
  <2>2. QueuesPlaced'
    BY <1>0, <1>1, <1>4, <2>1 DEF QueuesPlaced, SendAgain
  <2> QED
    BY <1>3, <1>4, <2>2 DEF SendAgain
<1>5. ASSUME SendLook(n)
      PROVE  StoredInv'
  <2>1. CASE sendQueue[n] = <<>>
    <3>1. QueuesPlaced'
      BY <1>0, <1>1, <1>5, <2>1 DEF SendLook, QueuesPlaced
    <3> QED
      BY <1>3, <1>5, <2>1, <3>1 DEF SendLook
  <2>2. CASE sendQueue[n] # <<>>
    <3>1. Head(sendQueue[n]) \in PlacedJob /\ Tail(sendQueue[n]) \in Seq(PlacedJob)
      BY <1>0, <2>2, HeadTailProperties DEF QueuesPlaced
    <3>2. QueuesPlaced'
      BY <1>0, <1>1, <1>5, <2>2, <3>1 DEF SendLook, QueuesPlaced
    <3>3. sender'[n] = SenderWith(Head(sendQueue[n]))
          /\ \A m \in Nodes \ {n} : sender'[m] = sender[m]
      BY <1>0, <1>5, <2>2 DEF SendLook, SenderTo
    <3>4. sender'[n].pc = "read" /\ sender'[n].job = Head(sendQueue[n])
      <4>1. Head(sendQueue[n]) \in SendJob
        BY <1>0, <2>2, HeadTailProperties DEF TypeInv, TypeOK
      <4> QED
        BY <3>3, <4>1, SenderStart
    <3> QED
      BY <1>2, <3>1, <3>2, <3>3, <3>4 DEF SendsPlaced
  <2> QED
    BY <2>1, <2>2
<1>6. ASSUME SendLeave(n) \/ SendAnswered(n)
      PROVE  StoredInv'
  <2>1. QueuesPlaced'
    BY <1>0, <1>6 DEF SendLeave, SendAnswered, QueuesPlaced, disk
  <2> QED
    BY <1>3, <1>6, <2>1 DEF SendLeave, SendAnswered
<1>7. ASSUME SendRead(n)
      PROVE  StoredInv'
  <2>1. t.pc = "read" /\ t.job \in PlacedJob /\ t \in SenderBusy
    BY <1>0, <1>7, SenderBusyWhen DEF SendRead, SendsPlaced
  <2>2. CASE SendAgain(n)
    BY <1>4, <1>7, <2>1, <2>2 DEF SendRead
  <2>3. ASSUME CanOffer(n), UNCHANGED sendQueue,
               SenderTo(n, IF mode[n] = "starting" THEN SenderAt("off")
                           ELSE [t EXCEPT !.pc = "post", !.offer = NextOffer(n)])
        PROVE  StoredInv'
    <3>1. QueuesPlaced'
      BY <1>0, <1>7, <2>3 DEF SendRead, QueuesPlaced
    <3>2. CASE mode[n] = "starting"
      BY <1>3, <2>3, <3>1, <3>2
    <3>3. CASE mode[n] # "starting"
      <4>1. sender'[n].job = t.job /\ sender'[n].offer = NextOffer(n)
            /\ \A m \in Nodes \ {n} : sender'[m] = sender[m]
        BY <1>0, <2>1, <2>3, <3>3 DEF SenderTo, SenderBusy
      <4>2. NextOffer(n) \in PlacedJob
        BY <1>0, <2>1, <2>3, NextOfferPlaced DEF StoredInv
      <4> QED
        BY <1>2, <2>1, <3>1, <4>1, <4>2 DEF SendsPlaced
    <3> QED
      BY <3>2, <3>3
  <2> QED
    BY <1>7, <2>2, <2>3 DEF SendRead
<1>8. ASSUME SendPost(n)
      PROVE  StoredInv'
  <2>1. t.pc = "post" /\ t \in SenderOffers /\ t.job \in PlacedJob /\ t.offer \in PlacedJob
    BY <1>0, <1>8, SenderBusyWhen DEF SendPost, SendsPlaced
  <2>2. \A m \in net' : m.job \in PlacedJob
    BY <1>0, <1>8, <2>1 DEF SendPost, Offered, QueuesPlaced
  <2>3. QueuesPlaced'
    BY <1>0, <1>8, <2>2 DEF SendPost, disk, QueuesPlaced
  <2>4. sender'[n].job = t.job /\ sender'[n].offer = t.offer
        /\ \A m \in Nodes \ {n} : sender'[m] = sender[m]
    BY <1>0, <1>8, <2>1 DEF SendPost, SenderTo, SenderOffers
  <2> QED
    BY <1>2, <2>1, <2>3, <2>4 DEF SendsPlaced
<1>9. ASSUME SendFails(n)
      PROVE  StoredInv'
  <2>1. t.job \in PlacedJob
    BY <1>0, <1>9 DEF SendFails, SendsPlaced
  <2> QED
    BY <1>4, <1>9, <2>1 DEF SendFails
<1> QED
  BY <1>5, <1>6, <1>7, <1>8, <1>9 DEF SendStep

LEMMA StoredMessages ==
  ASSUME TypeInv, StoredInv,
         \/ \E p \in Nodes : TellPeer(p)
         \/ \E n, d \in Nodes : Invite(n, d)
         \/ \E m \in net : Receive(m)
  PROVE  StoredInv'
<1> USE SizeTypes
<1>1. UNCHANGED <<listFile, file>>
  BY DEF TellPeer, Invite, Receive, disk
<1>2. ASSUME UNCHANGED <<disk, fetcher, sender>>, \A m \in net' : m.job \in PlacedJob
      PROVE  StoredInv'
  <2>1. QueuesPlaced'
    BY <1>2 DEF StoredInv, QueuesPlaced, disk
  <2> QED
    BY <1>2, <2>1, StoredStays, SendsStay DEF StoredInv, disk
<1>3. ASSUME NEW p \in Nodes, TellPeer(p)
      PROVE  StoredInv'
  <2>1. file[Origin] \in Bytes /\ Even(file[Origin])
    BY OriginalType, SomethingInBytes DEF TypeInv, Uploaded, StoredInv, Stored
  <2>2. ByteRange(file[Origin], 0, FirstEnd) = Read(file[Origin], 0, FirstEnd + 1)
    BY DEF ByteRange
  <2>3. Offer(Origin, 1, 0, FirstEnd, ByteRange(file[Origin], 0, FirstEnd)) \in PlacedJob
    BY <2>1, <2>2, FirstPlaced
  <2> QED
    BY <1>2, <1>3, <2>3, PostPlaced DEF TellPeer, StoredInv, QueuesPlaced
<1>4. ASSUME NEW n \in Nodes, NEW d \in Nodes, Invite(n, d)
      PROVE  StoredInv'
  <2>1. file[n] \in Bytes /\ Even(file[n])
    BY <1>4 DEF Invite, TypeInv, TypeOK, StoredInv, Stored
  <2>2. Offer(n, 1, 0, InviteEnd, Read(file[n], 0, InviteEnd + 1)) \in PlacedJob
    BY <2>1, FirstPlaced
  <2> QED
    BY <1>2, <1>4, <2>2, PostPlaced DEF Invite, StoredInv, QueuesPlaced
<1>5. ASSUME NEW m \in net, Receive(m)
      PROVE  StoredInv'
  <2>1. m.to \in Nodes /\ m.job \in PlacedJob
    BY DEF TypeInv, TypeOK, Request, StoredInv, QueuesPlaced
  <2>2. QueuesPlaced'
    <3>1. Append(fetchQueue[m.to], m.job) \in Seq(PlacedJob)
          /\ Append(sendQueue[m.to], m.job) \in Seq(PlacedJob)
      BY <2>1, AppendProperties DEF StoredInv, QueuesPlaced
    <3>2. fetchQueue \in [Nodes -> Seq(PlacedJob)] /\ sendQueue \in [Nodes -> Seq(PlacedJob)]
      BY DEF StoredInv, QueuesPlaced
    <3>3. fetchQueue' \in [Nodes -> Seq(PlacedJob)]
      <4>1. \/ fetchQueue' = fetchQueue
            \/ fetchQueue' = [fetchQueue EXCEPT ![m.to] = Append(fetchQueue[m.to], m.job)]
        BY <1>5, ReceivedQueues
      <4> QED
        BY <3>1, <3>2, <4>1
    <3>4. sendQueue' \in [Nodes -> Seq(PlacedJob)]
      <4>1. \/ sendQueue' = sendQueue
            \/ sendQueue' = [sendQueue EXCEPT ![m.to] = Append(sendQueue[m.to], m.job)]
        BY <1>5, ReceivedQueues
      <4> QED
        BY <3>1, <3>2, <4>1
    <3>5. net' \subseteq net
      BY <1>5 DEF Receive
    <3> QED
      BY <3>3, <3>4, <3>5 DEF StoredInv, QueuesPlaced
  <2>3. ASSUME NEW n \in Nodes
        PROVE  FetchesPlaced(n)' /\ Stored(n)'
    <3>1. \/ fetcher'[n] = fetcher[n]
          \/ fetcher[n].pc = "off" /\ fetcher'[n].pc = "look"
      <4>1. CASE Response(m)
        BY <2>1, <4>1, FetcherIdle DEF Response, TypeInv, TypeOK
      <4>2. CASE Webhook(m)
        BY <4>2 DEF Webhook
      <4> QED
        BY <1>5, <4>1, <4>2 DEF Receive
    <3> QED
      BY <1>1, <3>1 DEF StoredInv, FetchesPlaced, Stored, FetchSteps
  <2>4. ASSUME NEW n \in Nodes
        PROVE  SendsPlaced(n)'
    <3>1. \/ sender'[n] = sender[n]
          \/ sender'[n].pc = "look"
          \/ /\ sender[n].pc = "wait" /\ sender'[n].pc = "answered"
             /\ sender'[n].job = sender[n].job /\ sender'[n].offer = sender[n].offer
      <4>1. CASE Response(m)
        <5>1. m.job.from \in Nodes
          BY <2>1 DEF PlacedJob, Job
        <5>2. ASSUME sender[n].pc = "wait"
              PROVE  LET t == [sender[n] EXCEPT !.pc = "answered"]
                     IN  t.pc = "answered" /\ t.job = sender[n].job /\ t.offer = sender[n].offer
          BY <5>2, SenderBusyWhen DEF TypeInv, TypeOK, SenderOffers
        <5> QED
          BY <4>1, <5>1, <5>2 DEF Response, TypeInv, TypeOK
      <4>2. CASE Webhook(m)
        BY <4>2, <2>1, SenderIdle DEF Webhook, TypeInv, TypeOK
      <4> QED
        BY <1>5, <4>1, <4>2 DEF Receive
    <3>2. SendsPlaced(n)
      BY DEF StoredInv
    <3> QED
      BY <3>1, <3>2, SendsStay
  <2> QED
    BY <2>2, <2>3, <2>4 DEF StoredInv
<1> QED
  BY <1>3, <1>4, <1>5

\* What a step of the Fetcher of one node has to establish.
LEMMA OneStored ==
  ASSUME StoredInv, NEW n \in Nodes, UNCHANGED sender,
         \A m \in Nodes \ {n} :
           fetcher'[m] = fetcher[m] /\ file'[m] = file[m] /\ listFile'[m] = listFile[m],
         QueuesPlaced', FetchesPlaced(n)', Stored(n)'
  PROVE  StoredInv'
<1>1. ASSUME NEW m \in Nodes \ {n}
      PROVE  FetchesPlaced(m)' /\ Stored(m)'
  BY StoredStays DEF StoredInv
<1>2. \A m \in Nodes : SendsPlaced(m)'
  BY SendsStay DEF StoredInv
<1> QED
  BY <1>1, <1>2 DEF StoredInv

\* A node appends the bytes of the chunk after the ones it has counted.
LEMMA AppendStored ==
  ASSUME CrashInv, NEW n \in Nodes, Saved(n), Stored(n), FetchesPlaced(n),
         fetcher[n].pc = "append"
  PROVE  LET d == fetcher[n].data
             f == Content(n) \o d
             k == fetcher[n].job.chunk
         IN  /\ f \in Bytes /\ Even(f) /\ Len(f) >= Len(Content(n))
             /\ k < Total => Len(f) >= EndOf(k)
<1> USE SizeTypes
<1> DEFINE d == fetcher[n].data
           c == Content(n)
           f == c \o d
           k == fetcher[n].job.chunk
<1>1. d \in Bytes /\ k \in 1 .. Total /\ fetcher[n].job \in PlacedJob
      /\ d = fetcher[n].job.sha1
  <2>1. fetcher[n].pc \in FetchSteps /\ fetcher[n] \in FetcherThread
    BY DEF CrashInv, TypeInv, TypeOK, FetchSteps
  <2>2. fetcher[n] \in FetcherBusy
    BY <2>1, FetcherBusyWhen
  <2> QED
    BY <2>1, <2>2 DEF FetchesPlaced, FetcherBusy, Job
<1>2. c \in Bytes /\ (c = <<>> \/ (file[n] # Missing /\ c = file[n]))
  BY SomethingInBytes DEF Content, CrashInv, TypeInv, TypeOK
<1>3. Len(c) \in Nat /\ Len(d) \in Nat /\ f \in Bytes /\ Len(f) = Len(c) + Len(d)
  BY <1>1, <1>2, LenProperties, ConcatProperties DEF Bytes
<1>4. count[n] = k - 1 /\ mode[n] # "down"
  <2>1. Counted(n) /\ count[n] \in 0 .. Total \cup {None}
    BY DEF CrashInv, TypeInv, TypeOK
  <2> QED
    BY <1>1, <2>1 DEF Counted, Listed
<1>5. k - 1 \in 0 .. Total /\ EndOf(k - 1) \in Nat /\ Len(c) >= EndOf(k - 1)
  <2>1. k - 1 \in 0 .. Total /\ EndOf(k - 1) \in Nat
    BY <1>1, EndOfNat
  <2>2. CASE k = 1
    BY <1>3, <2>1, <2>2, EndOfFacts
  <2>3. CASE k # 1
    <3>1. count[n] \in 1 .. Total - 1
      BY <1>1, <1>4, <2>3
    <3>2. listFile[n] = count[n]
      BY <1>4, <3>1 DEF Saved
    <3>3. file[n] # Missing /\ Len(file[n]) >= EndOf(k - 1)
      BY <1>4, <3>1, <3>2 DEF Stored
    <3> QED
      BY <2>1, <3>3 DEF Content
  <2> QED
    BY <2>2, <2>3
<1> HIDE DEF c, d, f
<1>6. ASSUME k < Total
      PROVE  Even(f) /\ Len(f) >= EndOf(k)
  <2>1. Len(d) = ChunkSize
    BY <1>1, <1>6 DEF PlacedJob, Placed
  <2>2. c = <<>> \/ Even(c)
    BY <1>2 DEF Stored
  <2>3. Even(f) /\ Len(f) = Len(c) + ChunkSize
    BY <1>1, <1>2, <2>1, <2>2, EvenAppend DEF f
  <2>4. EndOf(k) = EndOf(k - 1) + ChunkSize
    <3>1. k \in 0 .. Total /\ k - 1 < Total
      BY <1>1
    <3>2. EndOf(k) = k * ChunkSize /\ EndOf(k - 1) = (k - 1) * ChunkSize
      BY <1>5, <1>6, <3>1, EndOfFacts
    <3> QED
      BY <1>1, <3>2
  <2> QED
    BY <1>3, <1>5, <2>3, <2>4
<1>7. ASSUME ~(k < Total)
      PROVE  Even(f)
  <2>1. k - 1 = Total - 1
    BY <1>1, <1>7
  <2> QED
    BY <1>3, <1>5, <2>1 DEF Even
<1>8. f \in Bytes /\ Even(f) /\ Len(f) >= Len(c) /\ (k < Total => Len(f) >= EndOf(k))
  BY <1>3, <1>6, <1>7
<1> QED
  BY <1>8 DEF c, d, f

LEMMA StoredFetchAgain ==
  ASSUME TypeInv, StoredInv, NEW n \in Nodes, fetcher[n].pc \in {"check", "fetch"},
         FetchAgain(n), UNCHANGED <<listFile, file, sendQueue, sender, net>>
  PROVE  StoredInv'
<1>1. fetcher[n].job \in PlacedJob /\ fetcher[n].pc # "complete"
  BY DEF StoredInv, FetchesPlaced, FetchSteps
<1>2. fetchQueue \in [Nodes -> Seq(PlacedJob)]
  BY DEF StoredInv, QueuesPlaced
<1>3. Append(fetchQueue[n], fetcher[n].job) \in Seq(PlacedJob)
  BY <1>1, <1>2, AppendProperties
<1>4. QueuesPlaced'
  BY <1>2, <1>3 DEF StoredInv, QueuesPlaced, FetchAgain
<1>5. fetcher'[n].pc = "look" /\ \A m \in Nodes \ {n} : fetcher'[m] = fetcher[m]
  BY FetcherIdle DEF FetchAgain, FetcherTo, TypeInv, TypeOK
<1>6. FetchesPlaced(n)' /\ Stored(n)'
  BY <1>1, <1>5 DEF FetchesPlaced, Stored, StoredInv, FetchSteps
<1> QED
  BY <1>4, <1>5, <1>6, OneStored

LEMMA StoredFetcher ==
  ASSUME CrashInv, StoredInv, NEW n \in Nodes, Saved(n), FetchStep(n), UNCHANGED torn
  PROVE  StoredInv'
<1> USE SizeTypes
<1> DEFINE t == fetcher[n]
<1>0. /\ fetcher \in [Nodes -> FetcherThread]
      /\ t.pc \in FetchSteps => t \in FetcherBusy /\ t.job \in PlacedJob
      /\ FetchesPlaced(n) /\ Stored(n) /\ QueuesPlaced
      /\ TypeInv /\ Counted(n)
      /\ listFile \in [Nodes -> 0 .. Total \cup {None}]
      /\ file \in [Nodes -> Bytes \cup {Missing}]
  BY FetcherBusyWhen DEF CrashInv, TypeInv, TypeOK, StoredInv, FetchesPlaced
<1>1. \A m \in Nodes \ {n} :
        fetcher'[m] = fetcher[m] /\ file'[m] = file[m] /\ listFile'[m] = listFile[m]
  BY <1>0, FetcherOthers
<1>2. ASSUME NEW pc \in {"off", "look", "leave"}, FetcherTo(n, FetcherAt(pc)),
              UNCHANGED <<listFile, file, sender>>, QueuesPlaced'
       PROVE  StoredInv'
  <2>1. fetcher'[n].pc = pc
    BY <1>0, <1>2, FetcherIdle DEF FetcherTo
  <2>2. FetchesPlaced(n)' /\ Stored(n)'
    BY <1>0, <1>2, <2>1 DEF FetchesPlaced, Stored, FetchSteps
  <2> QED
    BY <1>1, <1>2, <2>2, OneStored
<1>3. ASSUME FetchLook(n)
      PROVE  StoredInv'
  <2>1. CASE fetchQueue[n] = <<>>
    <3>1. QueuesPlaced'
      BY <1>0, <1>3, <2>1 DEF FetchLook, QueuesPlaced
    <3> QED
      BY <1>2, <1>3, <2>1, <3>1 DEF FetchLook
  <2>2. CASE fetchQueue[n] # <<>>
    <3>1. Head(fetchQueue[n]) \in PlacedJob /\ Tail(fetchQueue[n]) \in Seq(PlacedJob)
      BY <1>0, <2>2, HeadTailProperties DEF QueuesPlaced
    <3>2. QueuesPlaced'
      BY <1>0, <1>3, <2>2, <3>1 DEF FetchLook, QueuesPlaced
    <3>3. fetcher'[n] = FetcherWith(Head(fetchQueue[n]))
      BY <1>0, <1>3, <2>2 DEF FetchLook, FetcherTo
    <3>4. fetcher'[n].pc = "check" /\ fetcher'[n].job = Head(fetchQueue[n])
      BY <3>3 DEF FetcherWith
    <3>5. UNCHANGED <<listFile, file, sender>>
      BY <1>3 DEF FetchLook
    <3>6. FetchesPlaced(n)' /\ Stored(n)'
      BY <1>0, <3>1, <3>4, <3>5 DEF FetchesPlaced, Stored
    <3> QED
      BY <1>1, <3>2, <3>5, <3>6, OneStored
  <2> QED
    BY <2>1, <2>2
<1>4. ASSUME FetchLeave(n)
      PROVE  StoredInv'
  <2>1. QueuesPlaced'
    BY <1>0, <1>4 DEF FetchLeave, QueuesPlaced, disk
  <2> QED
    BY <1>2, <1>4, <2>1 DEF FetchLeave, disk
<1>5. ASSUME t.pc \in FetchSteps, fetcher'[n].job = t.job,
             fetcher'[n].pc \in FetchSteps \ {"append", "complete"},
             UNCHANGED <<listFile, file, sender>>, QueuesPlaced'
      PROVE  StoredInv'
  <2>1. FetchesPlaced(n)' /\ Stored(n)'
    BY <1>0, <1>5 DEF FetchesPlaced, Stored
  <2> QED
    BY <1>1, <1>5, <2>1, OneStored
<1>6. ASSUME FetchCheck(n)
      PROVE  StoredInv'
  <2>1. CASE FetchAgain(n)
    BY <1>0, <1>6, <2>1, StoredFetchAgain DEF FetchCheck
  <2>2. ASSUME NEW pc \in {"off", "look"}, FetcherTo(n, FetcherAt(pc)),
               UNCHANGED fetchQueue
        PROVE  StoredInv'
    <3>1. QueuesPlaced'
      BY <1>0, <1>6, <2>2 DEF FetchCheck, QueuesPlaced
    <3> QED
      BY <1>2, <1>6, <2>2, <3>1 DEF FetchCheck
  <2>3. CASE /\ FetcherTo(n, [t EXCEPT !.pc = "fetch"])
             /\ UNCHANGED fetchQueue
    <3>1. t.pc = "check" /\ t.pc \in FetchSteps
      BY <1>6 DEF FetchCheck, FetchSteps
    <3>2. fetcher'[n].pc = "fetch" /\ fetcher'[n].job = t.job
      BY <1>0, <2>3, <3>1 DEF FetcherTo, FetcherBusy
    <3>3. QueuesPlaced'
      BY <1>0, <1>6, <2>3 DEF FetchCheck, QueuesPlaced
    <3> QED
      BY <1>6, <1>5, <3>1, <3>2, <3>3 DEF FetchCheck, FetchSteps
  <2> QED
    BY <1>6, <2>1, <2>2, <2>3 DEF FetchCheck
<1>7. ASSUME Fetch(n)
      PROVE  StoredInv'
  <2>1. t.pc = "fetch" /\ t.pc \in FetchSteps
    BY <1>7 DEF Fetch, FetchSteps
  <2>2. /\ fetcher'[n].pc = "append" /\ fetcher'[n].job = t.job
        /\ fetcher'[n].data = t.job.sha1
    BY <1>0, <1>7, <2>1 DEF Fetch, FetcherTo, FetcherBusy
  <2>3. QueuesPlaced'
    BY <1>0, <1>7 DEF Fetch, QueuesPlaced
  <2>4. listFile'[n] = count[n] /\ UNCHANGED <<file, sender>>
    BY <1>0, <1>7 DEF Fetch, SaveList
  <2>5. FetchesPlaced(n)'
    BY <1>0, <2>1, <2>2 DEF FetchesPlaced
  <2>6. Stored(n)'
    <3>1. count[n] \in 1 .. Total - 1 => listFile[n] = count[n]
      <4>1. mode[n] # "down"
        BY <1>0, <2>1 DEF Counted
      <4> QED
        BY <4>1 DEF Saved
    <3> QED
      BY <1>0, <2>2, <2>4, <3>1 DEF Stored
  <2> QED
    BY <1>1, <2>3, <2>4, <2>5, <2>6, OneStored
<1>8. ASSUME FetchFails(n)
      PROVE  StoredInv'
  BY <1>0, <1>8, StoredFetchAgain DEF FetchFails
<1>9. ASSUME AppendChunk(n)
      PROVE  StoredInv'
  <2>1. t.pc = "append" /\ t.pc \in FetchSteps
    BY <1>9 DEF AppendChunk, FetchSteps
  <2>2. fetcher'[n].pc = "complete" /\ fetcher'[n].job = t.job
    BY <1>0, <1>9, <2>1 DEF AppendChunk, FetcherTo, FetcherBusy
  <2> DEFINE f == Content(n) \o t.data
  <2>3. file'[n] = f /\ UNCHANGED <<listFile, sender>>
    BY <1>0, <1>9 DEF AppendChunk
  <2>4. f \in Bytes /\ Even(f) /\ Len(f) >= Len(Content(n))
        /\ (t.job.chunk < Total => Len(f) >= EndOf(t.job.chunk))
    BY <1>0, <2>1, AppendStored
  <2>5. QueuesPlaced'
    BY <1>0, <1>9 DEF AppendChunk, QueuesPlaced
  <2>6. FetchesPlaced(n)'
    BY <1>0, <2>1, <2>2 DEF FetchesPlaced
  <2>7. f # Missing
    BY <2>4, SomethingInBytes
  <2> HIDE DEF f
  <2>8. ASSUME listFile[n] \in 1 .. Total - 1
        PROVE  Len(f) >= EndOf(listFile[n])
    <3>1. file[n] # Missing /\ Len(file[n]) >= EndOf(listFile[n])
      BY <1>0, <2>8 DEF Stored
    <3>2. Len(file[n]) \in Nat /\ Len(f) \in Nat /\ EndOf(listFile[n]) \in Nat
      <4>1. listFile[n] \in 0 .. Total
        BY <2>8
      <4> QED
        BY <1>0, <2>4, <3>1, <4>1, EndOfNat, LenProperties DEF Bytes
    <3>3. Content(n) = file[n]
      BY <3>1 DEF Content
    <3> QED
      BY <2>4, <3>1, <3>2, <3>3
  <2>9. Stored(n)'
    BY <2>2, <2>3, <2>4, <2>7, <2>8 DEF Stored
  <2> QED
    BY <1>1, <2>3, <2>5, <2>6, <2>9, OneStored
<1>10. ASSUME AppendPart(n)
      PROVE  StoredInv'
  <2>1. torn' = torn + 1 /\ torn \in Nat
    BY <1>0, <1>10 DEF AppendPart, TypeInv, TypeOK
  <2> QED
    BY <2>1
<1>11. ASSUME Complete(n)
      PROVE  StoredInv'
  <2>1. t.pc = "complete" /\ t.pc \in FetchSteps
    BY <1>11 DEF Complete, FetchSteps
  <2>2. count[n] \in Nat /\ count[n] + 1 = t.job.chunk /\ t.job.chunk \in 1 .. Total
    <3>1. count[n] \in 0 .. Total \cup {None}
      BY <1>0 DEF TypeInv, TypeOK
    <3> QED
      BY <1>0, <2>1, <3>1 DEF Counted, Listed, PlacedJob, Job
  <2>3. count'[n] = t.job.chunk
    <3>1. count \in [Nodes -> 0 .. Total \cup {None}]
      BY <1>0 DEF TypeInv, TypeOK
    <3>2. count[n] + 1 = t.job.chunk /\ t.job.chunk <= Total
      BY <2>2
    <3> QED
      BY <1>11, <3>1, <3>2 DEF Complete
  <2>4. listFile'[n] = t.job.chunk /\ UNCHANGED <<file, sender>>
    BY <1>0, <1>11, <2>3 DEF Complete, SaveList
  <2>5. \/ fetcher'[n].pc = "off"
        \/ fetcher'[n].pc = "tell" /\ fetcher'[n].job = t.job
    <3>1. CASE mode[n] = "starting"
      BY <1>0, <1>11, <3>1, FetcherIdle DEF Complete, FetcherTo
    <3>2. CASE mode[n] # "starting"
      <4>1. PICK P \in Picks(n) : FetcherTo(n, [t EXCEPT !.pc = "tell", !.tell = P])
        BY <1>11, <3>2 DEF Complete
      <4> QED
        BY <1>0, <2>1, <4>1 DEF FetcherTo, FetcherBusy
    <3> QED
      BY <3>1, <3>2
  <2>6. QueuesPlaced'
    BY <1>0, <1>11 DEF Complete, QueuesPlaced
  <2>7. FetchesPlaced(n)'
    BY <1>0, <2>1, <2>5 DEF FetchesPlaced, FetchSteps
  <2>8. Stored(n)'
    BY <1>0, <2>1, <2>2, <2>4, <2>5 DEF Stored
  <2> QED
    BY <1>1, <2>4, <2>6, <2>7, <2>8, OneStored
<1>12. ASSUME Tell(n)
      PROVE  StoredInv'
  <2>1. t.pc = "tell" /\ t.pc \in FetchSteps
    BY <1>12 DEF Tell, FetchSteps
  <2>2. fetcher'[n].pc \in {"tell", "confirm"} /\ fetcher'[n].job = t.job
    <3>1. ASSUME NEW p, FetcherTo(n, [t EXCEPT !.tell = @ \ {p}])
          PROVE  fetcher'[n].pc = "tell" /\ fetcher'[n].job = t.job
      BY <1>0, <2>1, <3>1 DEF FetcherTo, FetcherBusy
    <3>2. CASE FetcherTo(n, [t EXCEPT !.pc = "confirm"])
      BY <1>0, <2>1, <3>2 DEF FetcherTo, FetcherBusy
    <3> QED
      BY <1>12, <3>1, <3>2 DEF Tell
  <2>3. [t.job EXCEPT !.from = n] \in PlacedJob
    BY <1>0, <2>1 DEF PlacedJob, Placed, Job
  <2>4. \A m \in net' : m.job \in PlacedJob
    BY <1>0, <1>12, <2>3, PostPlaced DEF Tell, QueuesPlaced
  <2>5. QueuesPlaced'
    BY <1>0, <1>12, <2>4 DEF Tell, QueuesPlaced, disk
  <2> QED
    BY <1>12, <1>5, <2>1, <2>2, <2>5 DEF Tell, FetchSteps, disk
<1>13. ASSUME Confirm(n)
       PROVE  StoredInv'
  <2>1. t.pc = "confirm" /\ t.pc \in FetchSteps
    BY <1>13 DEF Confirm, FetchSteps
  <2>2. [t.job EXCEPT !.from = n] \in PlacedJob
    BY <1>0, <2>1 DEF PlacedJob, Placed, Job
  <2>3. \A m \in net' : m.job \in PlacedJob
    BY <1>0, <1>13, <2>2, PostPlaced DEF Confirm, QueuesPlaced
  <2>4. QueuesPlaced'
    BY <1>0, <1>13, <2>3 DEF Confirm, QueuesPlaced, disk
  <2>5. CASE t.job.chunk = Total
    <3>1. fetcher'[n].pc = "verify" /\ fetcher'[n].job = t.job
      BY <1>0, <1>13, <2>1, <2>5 DEF Confirm, FetcherTo, FetcherBusy
    <3> QED
      BY <1>13, <1>5, <2>1, <2>4, <3>1 DEF Confirm, FetchSteps, disk
  <2>6. CASE t.job.chunk # Total
    BY <1>2, <1>13, <2>4, <2>6 DEF Confirm, disk
  <2> QED
    BY <2>5, <2>6
<1>14. ASSUME Verify(n)
       PROVE  StoredInv'
  <2>1. t.pc = "verify" /\ listFile[n] = Total
    BY <1>14 DEF Verify, Saved
  <2>2. fetcher'[n].pc = "look" /\ file'[n] \in {file[n], Missing}
    BY <1>0, <1>14, FetcherIdle DEF Verify, FetcherTo
  <2>3. UNCHANGED <<listFile, sender>> /\ QueuesPlaced'
    BY <1>0, <1>14 DEF Verify, QueuesPlaced
  <2>4. FetchesPlaced(n)'
    BY <2>2 DEF FetchesPlaced, FetchSteps
  <2>5. Stored(n)'
    BY <1>0, <2>1, <2>2, <2>3 DEF Stored
  <2> QED
    BY <1>1, <2>3, <2>4, <2>5, OneStored
<1> QED
  BY <1>3, <1>4, <1>6, <1>7, <1>8, <1>9, <1>10, <1>11, <1>12, <1>13, <1>14 DEF FetchStep

\* The list is saved before and after a chunk is fetched.
LEMMA SavedFetcher ==
  ASSUME CrashInv, NEW n \in Nodes, Saved(n), FetchStep(n)
  PROVE  Saved(n)'
<1> USE SizeTypes
<1> DEFINE t == fetcher[n]
<1>0. /\ fetcher \in [Nodes -> FetcherThread]
      /\ t.pc \in FetchSteps => t \in FetcherBusy /\ t.job.chunk \in 1 .. Total
      /\ Counted(n)
      /\ count \in [Nodes -> 0 .. Total \cup {None}] /\ count[n] \in 0 .. Total \cup {None}
      /\ listFile \in [Nodes -> 0 .. Total \cup {None}]
      /\ listFile[n] \in 0 .. Total \cup {None}
  <2>1. TypeOK /\ Counted(n)
    BY DEF CrashInv, TypeInv
  <2>2. t \in FetcherThread
    BY <2>1 DEF TypeOK
  <2>3. t.pc \in FetchSteps => t \in FetcherBusy /\ t.job \in Job
    BY <2>2, FetcherBusyWhen DEF FetcherBusy
  <2>4. t.job \in Job => t.job.chunk \in 1 .. Total
    BY DEF Job
  <2> QED
    BY <2>1, <2>3, <2>4 DEF TypeOK
<1>1. UNCHANGED mode
  BY DEF FetchStep, FetchLook, FetchLeave, FetchCheck, Fetch, FetchFails, AppendChunk,
         AppendPart, Complete, Tell, Confirm, Verify
<1>2. ASSUME UNCHANGED <<count, listFile>>,
             \/ fetcher'[n].pc \notin {"tell", "confirm", "verify"}
             \/ /\ t.pc \in {"tell", "confirm"} /\ fetcher'[n].pc \in {"tell", "confirm"}
                /\ fetcher'[n].job = t.job
             \/ /\ t.pc \in {"tell", "confirm"} /\ fetcher'[n].pc = "verify"
                /\ t.job.chunk = Total
      PROVE  Saved(n)'
  BY <1>1, <1>2 DEF Saved
<1>3. CASE FetchLook(n)
  <2>1. fetcher'[n].pc \in {"leave", "check"}
    BY <1>0, <1>3, FetcherIdle DEF FetchLook, FetcherTo, FetcherWith
  <2> QED
    BY <1>2, <1>3, <2>1 DEF FetchLook
<1>4. CASE FetchLeave(n)
  <2>1. fetcher'[n].pc = "off"
    BY <1>0, <1>4, FetcherIdle DEF FetchLeave, FetcherTo
  <2> QED
    BY <1>2, <1>4, <2>1 DEF FetchLeave, disk
<1>5. CASE FetchCheck(n)
  <2>1. t.pc = "check" /\ t.pc \in FetchSteps
    BY <1>5 DEF FetchCheck, FetchSteps
  <2>2. fetcher'[n].pc \in {"off", "look", "fetch"}
    <3>1. CASE FetcherTo(n, FetcherAt("off")) \/ FetcherTo(n, FetcherAt("look")) \/ FetchAgain(n)
      BY <1>0, <3>1, FetcherIdle DEF FetchAgain, FetcherTo
    <3>2. CASE FetcherTo(n, [t EXCEPT !.pc = "fetch"])
      BY <1>0, <2>1, <3>2 DEF FetcherTo, FetcherBusy
    <3> QED
      BY <1>5, <3>1, <3>2 DEF FetchCheck
  <2> QED
    BY <1>2, <1>5, <2>2 DEF FetchCheck
<1>6. CASE Fetch(n)
  <2>1. t.pc = "fetch" /\ t.pc \in FetchSteps
    BY <1>6 DEF Fetch, FetchSteps
  <2>2. fetcher'[n].pc = "append"
    BY <1>0, <1>6, <2>1 DEF Fetch, FetcherTo, FetcherBusy
  <2>3. listFile'[n] = count[n] /\ UNCHANGED count /\ mode[n] # "down" /\ count[n] # None
    BY <1>0, <1>6, <2>1 DEF Fetch, SaveList, Counted, Listed
  <2> QED
    BY <1>1, <2>2, <2>3 DEF Saved
<1>7. CASE FetchFails(n)
  <2>1. fetcher'[n].pc = "look"
    BY <1>0, <1>7, FetcherIdle DEF FetchFails, FetchAgain, FetcherTo
  <2> QED
    BY <1>2, <1>7, <2>1 DEF FetchFails
<1>8. CASE AppendChunk(n) \/ AppendPart(n)
  <2>1. t.pc = "append" /\ t.pc \in FetchSteps
    BY <1>8 DEF AppendChunk, AppendPart, FetchSteps
  <2>2. fetcher'[n].pc \in {"append", "complete"}
    <3>1. CASE AppendChunk(n)
      BY <1>0, <2>1, <3>1 DEF AppendChunk, FetcherTo, FetcherBusy
    <3>2. CASE AppendPart(n)
      <4>1. PICK i \in 1 .. Len(t.data) - 1 :
              FetcherTo(n, [t EXCEPT !.data = SubSeq(@, i + 1, Len(@))])
        BY <3>2 DEF AppendPart
      <4> QED
        BY <1>0, <2>1, <4>1 DEF FetcherTo, FetcherBusy
    <3> QED
      BY <1>8, <3>1, <3>2
  <2> QED
    BY <1>2, <1>8, <2>2 DEF AppendChunk, AppendPart
<1>9. CASE Complete(n)
  <2>1. t.pc = "complete" /\ t.pc \in FetchSteps
    BY <1>9 DEF Complete, FetchSteps
  <2>2. count[n] \in Nat /\ count[n] + 1 = t.job.chunk /\ t.job.chunk <= Total
    BY <1>0, <2>1 DEF Counted, Listed
  <2>3. count'[n] = t.job.chunk
    BY <1>0, <1>9, <2>2 DEF Complete
  <2>4. listFile'[n] = t.job.chunk
    BY <1>0, <1>9, <2>3 DEF Complete, SaveList
  <2>5. mode[n] # "down" /\ t.job.chunk # None
    BY <1>0, <2>1, <2>2 DEF Counted
  <2>6. \/ fetcher'[n].pc = "off"
        \/ fetcher'[n].pc = "tell" /\ fetcher'[n].job = t.job
    <3>1. CASE mode[n] = "starting"
      BY <1>0, <1>9, <3>1, FetcherIdle DEF Complete, FetcherTo
    <3>2. CASE mode[n] # "starting"
      <4>1. PICK P \in Picks(n) : FetcherTo(n, [t EXCEPT !.pc = "tell", !.tell = P])
        BY <1>9, <3>2 DEF Complete
      <4> QED
        BY <1>0, <2>1, <4>1 DEF FetcherTo, FetcherBusy
    <3> QED
      BY <3>1, <3>2
  <2> QED
    BY <1>1, <2>3, <2>4, <2>5, <2>6 DEF Saved
<1>10. CASE Tell(n)
  <2>1. t.pc = "tell" /\ t.pc \in FetchSteps
    BY <1>10 DEF Tell, FetchSteps
  <2>2. fetcher'[n].pc \in {"tell", "confirm"} /\ fetcher'[n].job = t.job
    <3>1. ASSUME NEW p, FetcherTo(n, [t EXCEPT !.tell = @ \ {p}])
          PROVE  fetcher'[n].pc = "tell" /\ fetcher'[n].job = t.job
      BY <1>0, <2>1, <3>1 DEF FetcherTo, FetcherBusy
    <3>2. CASE FetcherTo(n, [t EXCEPT !.pc = "confirm"])
      BY <1>0, <2>1, <3>2 DEF FetcherTo, FetcherBusy
    <3> QED
      BY <1>10, <3>1, <3>2 DEF Tell
  <2> QED
    BY <1>2, <1>10, <2>1, <2>2 DEF Tell, disk
<1>11. CASE Confirm(n)
  <2>1. t.pc = "confirm" /\ t.pc \in FetchSteps
    BY <1>11 DEF Confirm, FetchSteps
  <2>2. \/ t.job.chunk = Total /\ fetcher'[n].pc = "verify"
        \/ fetcher'[n].pc = "look"
    BY <1>0, <1>11, <2>1, FetcherIdle DEF Confirm, FetcherTo, FetcherBusy
  <2> QED
    BY <1>2, <1>11, <2>1, <2>2 DEF Confirm, disk
<1>12. CASE Verify(n)
  <2>1. fetcher'[n].pc = "look"
    BY <1>0, <1>12, FetcherIdle DEF Verify, FetcherTo
  <2> QED
    BY <1>2, <1>12, <2>1 DEF Verify
<1> QED
  BY <1>3, <1>4, <1>5, <1>6, <1>7, <1>8, <1>9, <1>10, <1>11, <1>12 DEF FetchStep

LEMMA SavedNext ==
  ASSUME CrashInv, NEW n \in Nodes, Saved(n), [Next]_vars
  PROVE  Saved(n)'
<1> USE SizeTypes
<1>0. TypeInv /\ Counted(n)
  BY DEF CrashInv
<1>1. CASE UNCHANGED vars
  BY <1>1, StoredStays DEF vars, disk
<1>2. ASSUME NEW m \in Nodes, FetchStep(m)
      PROVE  Saved(n)'
  BY <1>0, <1>2, SavedFetcher, FetcherOthers, StoredStays
<1>3. ASSUME NEW m \in Nodes, SendStep(m)
      PROVE  Saved(n)'
  <2>1. UNCHANGED <<mode, count, listFile, file, fetcher>>
    BY <1>3
    DEF SendStep, SendLook, SendLeave, SendRead, SendPost, SendAnswered, SendFails, disk
  <2> QED
    BY <2>1, StoredStays
<1>4. CASE (\E p \in Nodes : TellPeer(p)) \/ (\E m, d \in Nodes : Invite(m, d))
  <2>1. UNCHANGED <<mode, count, listFile, file, fetcher>>
    BY <1>4 DEF TellPeer, Invite, disk
  <2> QED
    BY <2>1, StoredStays
<1>5. ASSUME NEW m \in net, Receive(m)
      PROVE  Saved(n)'
  <2>1. UNCHANGED <<mode, count, listFile>>
    BY <1>5 DEF Receive
  <2>2. \/ fetcher'[n] = fetcher[n]
        \/ fetcher'[n].pc = "look"
    <3>1. CASE Response(m)
      BY <1>0, <3>1, FetcherIdle DEF Response, TypeInv, TypeOK
    <3>2. CASE Webhook(m)
      BY <3>2 DEF Webhook
    <3> QED
      BY <1>5, <3>1, <3>2 DEF Receive
  <2> QED
    BY <2>1, <2>2 DEF Saved
<1>6. ASSUME NEW m \in Nodes, ListFile(m)
      PROVE  Saved(n)'
  <2>1. /\ UNCHANGED <<mode, listFile, file, fetcher>>
        /\ count' = [count EXCEPT ![m] = 0] /\ ~Listed(m) /\ mode[m] # "down"
    BY <1>6 DEF ListFile, disk
  <2>2. CASE n = m
    <3>1. count'[n] = 0 /\ listFile[n] = None
      BY <1>0, <2>1, <2>2 DEF Counted, TypeInv, TypeOK
    <3> QED
      BY <2>1, <2>2, <3>1 DEF Saved
  <2>3. CASE n # m
    BY <1>0, <2>1, <2>3, StoredStays DEF TypeInv, TypeOK
  <2> QED
    BY <2>2, <2>3
<1>7. ASSUME NEW m \in Nodes, Crash(m) \/ Boot(m) \/ Ready(m)
      PROVE  Saved(n)'
  <2>1. CASE n # m
    <3>1. /\ fetcher'[n] = fetcher[n] /\ file'[n] = file[n] /\ listFile'[n] = listFile[n]
          /\ count'[n] = count[n] /\ mode'[n] = mode[n]
      BY <1>0, <1>7, <2>1 DEF Crash, Boot, Ready, FetcherTo, disk, TypeInv, TypeOK
    <3> QED
      BY <3>1, StoredStays
  <2>2. CASE n = m /\ Crash(m)
    <3>1. mode'[n] = "down" /\ fetcher'[n].pc = "off" /\ count'[n] = None
          /\ UNCHANGED listFile
      BY <1>0, <2>2, FetcherIdle DEF Crash, disk, TypeInv, TypeOK
    <3> QED
      BY <3>1 DEF Saved
  <2>3. CASE n = m /\ Boot(m)
    <3>1. /\ mode'[n] = "starting" /\ count'[n] = listFile[n] /\ UNCHANGED listFile
          /\ fetcher'[n].pc \in {"off", "look"}
      BY <1>0, <2>3, FetcherIdle DEF Boot, FetcherTo, Counted, disk, TypeInv, TypeOK
    <3> QED
      BY <3>1 DEF Saved
  <2>4. CASE n = m /\ Ready(m)
    <3>1. /\ mode[n] = "starting" /\ mode'[n] = "up"
          /\ UNCHANGED <<listFile, count, fetcher>>
      BY <1>0, <2>4 DEF Ready, disk, TypeInv, TypeOK
    <3> QED
      BY <3>1 DEF Saved
  <2> QED
    BY <1>7, <2>1, <2>2, <2>3, <2>4
<1> QED
  BY <1>1, <1>2, <1>3, <1>4, <1>5, <1>6, <1>7 DEF Next

\* A node that goes down or comes back loses its threads, not its disk.
LEMMA StoredNode ==
  ASSUME TypeInv, StoredInv, NEW n \in Nodes,
         ListFile(n) \/ Crash(n) \/ Boot(n) \/ Ready(n)
  PROVE  StoredInv'
<1>1. UNCHANGED disk /\ net' \subseteq net
  BY DEF ListFile, Crash, Boot, Ready
<1>2. QueuesPlaced'
  BY <1>1 DEF StoredInv, QueuesPlaced, disk
<1>3. ASSUME NEW m \in Nodes
      PROVE  /\ fetcher'[m] = fetcher[m] \/ fetcher'[m].pc \in {"off", "look"}
             /\ sender'[m] = sender[m] \/ sender'[m].pc \in {"off", "look"}
  BY FetcherIdle, SenderIdle
     DEF ListFile, Crash, Boot, Ready, FetcherTo, SenderTo, TypeInv, TypeOK
<1>4. ASSUME NEW m \in Nodes
      PROVE  FetchesPlaced(m)' /\ Stored(m)' /\ SendsPlaced(m)'
  <2>1. FetchesPlaced(m)' /\ Stored(m)'
    BY <1>1, <1>3 DEF StoredInv, FetchesPlaced, Stored, FetchSteps, disk
  <2>2. SendsPlaced(m)'
    BY <1>3, SendsStay DEF StoredInv
  <2> QED
    BY <2>1, <2>2
<1> QED
  BY <1>2, <1>4 DEF StoredInv

SavedInv == (\A n \in Nodes : Saved(n)) /\ (torn = 0 => StoredInv)

LEMMA StoredNext == CrashInv /\ SavedInv /\ [Next]_vars => SavedInv'
<1> SUFFICES ASSUME CrashInv, SavedInv, [Next]_vars PROVE SavedInv'
  OBVIOUS
<1>1. \A n \in Nodes : Saved(n)'
  BY SavedNext DEF SavedInv
<1>2. ASSUME torn' = 0
      PROVE  StoredInv'
  <2>1. CASE UNCHANGED vars
    <3>1. StoredInv /\ UNCHANGED <<listFile, file, fetcher, sender, fetchQueue, sendQueue, net>>
      BY <1>2, <2>1 DEF vars, disk, bounds, SavedInv
    <3> QED
      BY <3>1 DEF StoredInv, QueuesPlaced, FetchesPlaced, SendsPlaced, Stored
  <2>2. CASE Next
    <3>1. TypeInv /\ torn \in Nat
      BY DEF CrashInv, TypeInv, TypeOK
    <3>2. ASSUME NEW n \in Nodes, FetchStep(n)
          PROVE  StoredInv'
      <4>1. UNCHANGED torn
        BY <1>2, <3>1, <3>2, FetcherFaults
      <4> QED
        BY <1>2, <3>2, <4>1, StoredFetcher DEF SavedInv
    <3>3. ASSUME NEW n \in Nodes, ListFile(n) \/ Crash(n) \/ Boot(n) \/ Ready(n)
          PROVE  StoredInv'
      <4>1. UNCHANGED torn
        BY <3>3 DEF ListFile, Crash, Boot, Ready, bounds
      <4> QED
        BY <1>2, <3>1, <3>3, <4>1, StoredNode DEF SavedInv
    <3>4. ASSUME NEW n \in Nodes, SendStep(n)
          PROVE  StoredInv'
      BY <1>2, <3>1, <3>4, OtherFaults, StoredSender DEF SavedInv
    <3>5. ASSUME \/ \E p \in Nodes : TellPeer(p)
                 \/ \E n, d \in Nodes : Invite(n, d)
                 \/ \E m \in net : Receive(m)
          PROVE  StoredInv'
      <4>1. UNCHANGED torn
        BY <3>5, OtherFaults
      <4> QED
        BY <1>2, <3>1, <3>5, <4>1, StoredMessages DEF SavedInv
    <3> QED
      BY <2>2, <3>2, <3>3, <3>4, <3>5 DEF Next
  <2> QED
    BY <2>1, <2>2
<1> QED
  BY <1>1, <1>2 DEF SavedInv

\* What the saved file list counts is in the file, through crashes and restarts,
\* as long as no half written chunk is read: Fetcher.py saves the list after the
\* bytes are written, so that a crash at any step leaves a chunk too many in the
\* file, which is then appended twice and found by its hash, and never one too
\* few, which would not be fetched again.
THEOREM SavedChunksAreThere == Spec => []SavedAreThere
<1>1. Init => CrashInv /\ SavedInv
  BY CrashInit, StoredInit DEF SavedInv, CrashInv
<1>2. CrashInv /\ SavedInv /\ [Next]_vars => (CrashInv /\ SavedInv)'
  BY CrashNext, StoredNext
<1>3. CrashInv /\ SavedInv => SavedAreThere
  BY DEF SavedInv, StoredInv, Stored, SavedAreThere
<1> QED
  BY <1>1, <1>2, <1>3, PTL DEF Spec
=============================================================================
