------------------------------ MODULE Transfer ------------------------------
(***************************************************************************)
(* The transfer of one file that is not empty: filefetcher/ (Fetcher,      *)
(* Sender, the handlers of /response and /webhook), the notices of upload  *)
(* and Blockchain.add, /download, and the file list.                       *)
(*                                                                         *)
(* A node that has a chunk offers it (/response); the other one queues a   *)
(* job, downloads the bytes, appends them, tells its peers and confirms    *)
(* to the node it has them from (/webhook), which offers it the next one.  *)
(*                                                                         *)
(* A byte is its place in the original file, so that bytes that are lost,  *)
(* repeated or out of place show.  A hash is the content it is of.         *)
(***************************************************************************)
EXTENDS Integers, Sequences, FiniteSets

CONSTANTS
  Nodes,
  Origin,       \* the node the file is uploaded to
  Knows,        \* the node list of every node
  Fanout,       \* how many peers are told about a chunk (4 in the code)
  Size,         \* bytes in the file
  ChunkSize,    \* bytes in a chunk (4 MiB in the code)
  InitListed,   \* nodes that have the add_file block from the beginning
  None,         \* not in the file list, no job
  Missing,      \* no such file
  MaxFaults,    \* bound: failures of calls that are tried again
  MaxLost,      \* bound: failures of calls that are not
  MaxTorn,      \* bound: writes of a chunk that are seen half done
  MaxInvites,   \* bound: nodes invited while the file is there
  MaxCrashes    \* bound: how often every node crashes

ASSUME TransferAssumption ==
  /\ IsFiniteSet(Nodes)
  /\ Origin \in Nodes
  /\ Knows \in [Nodes -> SUBSET Nodes]
  /\ Fanout \in Nat
  /\ Size \in Nat \ {0}
  /\ ChunkSize \in Nat \ {0, 1}
  /\ InitListed \subseteq Nodes
  /\ None \notin Nat
  /\ Missing \notin Seq(1 .. Size)
  /\ MaxFaults \in Nat /\ MaxLost \in Nat /\ MaxTorn \in Nat
  /\ MaxInvites \in Nat
  /\ MaxCrashes \in [Nodes -> Nat]

VARIABLES
  mode,         \* "down", "starting" (PORT and IPADDRESS not set yet), "up"
  count,        \* FileList: chunks downloaded, None if the file is not listed
  listFile,     \* what filelist.bin says of it
  file,         \* the file in the downloads directory
  fetchQueue,   \* the jobs of the Fetcher, on the disk
  sendQueue,    \* the jobs of the Sender, on the disk
  fetcher,      \* the thread of the Fetcher
  sender,       \* the thread of the Sender
  telling,      \* the peers the upload has not told yet
  net,          \* requests posted and not taken up yet
  faults, lost, torn, invites, crashes

disk == <<listFile, file, fetchQueue, sendQueue>>
bounds == <<faults, lost, torn, invites, crashes>>
vars == <<mode, count, disk, fetcher, sender, telling, net, bounds>>

-----------------------------------------------------------------------------
(* The file, its chunks and ranges of bytes *)

Original == [i \in 1 .. Size |-> i]
Bytes == Seq(1 .. Size)

\* total_chunks: a last chunk may be shorter.
Total == Size \div ChunkSize + (IF Size % ChunkSize = 0 THEN 0 ELSE 1)

\* How many bytes the first k chunks have.
EndOf(k) == IF k * ChunkSize < Size THEN k * ChunkSize ELSE Size

\* f.seek(start); f.read(length)
Read(f, start, length) ==
  SubSeq(f, start + 1, IF start + length < Len(f) THEN start + length ELSE Len(f))

\* GET /download with a range: both ends belong to it.
ByteRange(f, start, end) == Read(f, start, end - start + 1)

\* A FileWorker: an offer of a chunk, or the confirmation that it has arrived.
Job == [chunk : 1 .. Total, start : Nat, end : Nat, sha1 : Bytes, from : Nodes]

\* One the Sender takes: there is a chunk after it.
SendJob == {j \in Job : j.chunk < Total}

Request == [kind : {"response", "webhook"}, to : Nodes, job : Job]

Offer(n, k, start, end, data) ==
  [chunk |-> k, start |-> start, end |-> end, sha1 |-> data, from |-> n]

\* What an upload tells its peers of the first chunk.
FirstEnd == IF Size > ChunkSize THEN ChunkSize - 1 ELSE Size

\* What a node that is invited is told of it.
InviteEnd == IF Total = 1 THEN Size - 1 ELSE ChunkSize - 1

-----------------------------------------------------------------------------

\* A thread: "off" if there is none or it has ended, "look" before it asks the
\* queue for a job, "leave" after the queue was empty.
FetchSteps == {"check", "fetch", "append", "complete", "tell", "confirm", "verify"}
FetcherThread ==
  [pc : {"off", "look", "leave"}, job : {None}, data : {<<>>}, tell : {{}}]
    \cup [pc : FetchSteps, job : Job, data : Bytes, tell : SUBSET Nodes]
SenderThread ==
  [pc : {"off", "look", "leave"}, job : {None}, offer : {None}]
    \cup [pc : {"read"}, job : SendJob, offer : {None}]
    \cup [pc : {"post", "wait", "answered"}, job : SendJob, offer : Job]

FetcherAt(pc) == [pc |-> pc, job |-> None, data |-> <<>>, tell |-> {}]
SenderAt(pc) == [pc |-> pc, job |-> None, offer |-> None]

\* A thread that has taken a job.  The Sender drops one without a next chunk
\* (Webhook, where its jobs come from, has refused such a job before).
FetcherWith(j) == [pc |-> "check", job |-> j, data |-> <<>>, tell |-> {}]
SenderWith(j) ==
  IF j.chunk + 1 > Total THEN SenderAt("look")
  ELSE [pc |-> "read", job |-> j, offer |-> None]

TypeOK ==
  /\ mode \in [Nodes -> {"down", "starting", "up"}]
  /\ count \in [Nodes -> 0 .. Total \cup {None}]
  /\ listFile \in [Nodes -> 0 .. Total \cup {None}]
  /\ file \in [Nodes -> Bytes \cup {Missing}]
  /\ fetchQueue \in [Nodes -> Seq(Job)]
  /\ sendQueue \in [Nodes -> Seq(SendJob)]
  /\ fetcher \in [Nodes -> FetcherThread]
  /\ sender \in [Nodes -> SenderThread]
  /\ telling \subseteq Nodes
  /\ net \subseteq Request
  /\ faults \in Nat /\ lost \in Nat /\ torn \in Nat /\ invites \in Nat
  /\ crashes \in [Nodes -> Nat]

\* random_picks
Picks(n) ==
  LET size == Cardinality(Knows[n])
  IN {P \in SUBSET Knows[n] :
        Cardinality(P) = IF size > Fanout THEN Fanout ELSE size}

\* The upload has written and listed the file and added its block.
Init ==
  /\ mode = [n \in Nodes |-> "up"]
  /\ count = [n \in Nodes |-> IF n = Origin THEN Total
                              ELSE IF n \in InitListed THEN 0 ELSE None]
  /\ listFile = [n \in Nodes |-> IF n = Origin THEN Total ELSE None]
  /\ file = [n \in Nodes |-> IF n = Origin THEN Original ELSE Missing]
  /\ fetchQueue = [n \in Nodes |-> <<>>]
  /\ sendQueue = [n \in Nodes |-> <<>>]
  /\ fetcher = [n \in Nodes |-> FetcherAt("off")]
  /\ sender = [n \in Nodes |-> SenderAt("off")]
  /\ telling \in Picks(Origin)
  /\ net = {}
  /\ faults = 0 /\ lost = 0 /\ torn = 0 /\ invites = 0
  /\ crashes = [n \in Nodes |-> 0]

\* The file list.
Listed(n) == count[n] # None
IsDownloaded(n) == count[n] = Total
LastChunk(n) == count[n]
SaveList(n, k) == listFile' = [listFile EXCEPT ![n] = k]

FetcherTo(n, t) == fetcher' = [fetcher EXCEPT ![n] = t]
SenderTo(n, t) == sender' = [sender EXCEPT ![n] = t]

\* A request whose failure is ignored: it may get lost, and does if there is
\* nobody to take it.
Post(kind, to, job) ==
  \/ /\ net' = IF mode[to] = "up"
               THEN net \cup {[kind |-> kind, to |-> to, job |-> job]} ELSE net
     /\ UNCHANGED lost
  \/ /\ mode[to] = "up"
     /\ lost < MaxLost
     /\ lost' = lost + 1
     /\ UNCHANGED net

-----------------------------------------------------------------------------
(* Upload, invitation and the file list *)

\* tell_other_nodes: after the block, the first chunk.  A peer that is gone
\* ends the handler.
TellPeer(p) ==
  /\ p \in telling
  /\ IF mode[p] = "up"
     THEN telling' = telling \ {p}
     ELSE telling' = {}
  /\ Post("response", p, Offer(Origin, 1, 0, FirstEnd,
                               ByteRange(file[Origin], 0, FirstEnd)))
  /\ UNCHANGED <<mode, count, disk, fetcher, sender, faults, torn, invites, crashes>>

\* Blockchain.add of an add_node block: the new node is told about the first
\* chunk of every file this one has.
Invite(n, d) ==
  /\ mode[n] = "up"
  /\ Listed(n)
  /\ file[n] # Missing
  /\ n # d
  /\ invites < MaxInvites
  /\ invites' = invites + 1
  /\ Post("response", d, Offer(n, 1, 0, InviteEnd, Read(file[n], 0, InviteEnd + 1)))
  /\ UNCHANGED <<mode, count, disk, fetcher, sender, telling, faults, torn, crashes>>

\* Mutant: the file is listed anew although it is there.
ListFileAnew(n) ==
  /\ mode[n] # "down"
  /\ count' = [count EXCEPT ![n] = 0]
  /\ UNCHANGED <<mode, disk, fetcher, sender, telling, net, bounds>>

\* Blockchain.add of the add_file block, when it arrives or is loaded after a
\* restart.
ListFile(n) ==
  /\ mode[n] # "down"
  /\ ~Listed(n)
  /\ count' = [count EXCEPT ![n] = 0]
  /\ UNCHANGED <<mode, disk, fetcher, sender, telling, net, bounds>>

-----------------------------------------------------------------------------
(* The handlers: the job is queued, and the thread started if there is none. *)
(* With one request worker nobody else starts it (JobThread).                *)

\* The Sender that waits for the answer to its offer gets it.
Response(m) ==
  LET n == m.to
      s == m.job.from
  IN
  /\ m.kind = "response"
  /\ fetchQueue' = [fetchQueue EXCEPT ![n] = Append(@, m.job)]
  /\ fetcher' = [fetcher EXCEPT ![n] = IF @.pc = "off" THEN FetcherAt("look") ELSE @]
  /\ sender' = [sender EXCEPT ![s] =
       IF @.pc = "wait" /\ @.offer = m.job /\ @.job.from = n
       THEN [@ EXCEPT !.pc = "answered"] ELSE @]
  /\ UNCHANGED sendQueue

\* Mutant: whether there are more chunks is not asked.
WebhookAlways(m) ==
  LET n == m.to IN
  /\ m.kind = "webhook"
  /\ sendQueue' = [sendQueue EXCEPT ![n] = Append(@, m.job)]
  /\ sender' = [sender EXCEPT ![n] = IF @.pc = "off" THEN SenderAt("look") ELSE @]
  /\ UNCHANGED <<fetchQueue, fetcher>>

Webhook(m) ==
  LET n == m.to IN
  /\ m.kind = "webhook"
  /\ IF m.job.chunk + 1 > Total
     THEN UNCHANGED <<sendQueue, sender>>
     ELSE /\ sendQueue' = [sendQueue EXCEPT ![n] = Append(@, m.job)]
          /\ sender' = [sender EXCEPT ![n] =
               IF @.pc = "off" THEN SenderAt("look") ELSE @]
  /\ UNCHANGED <<fetchQueue, fetcher>>

Receive(m) ==
  /\ m \in net
  /\ mode[m.to] = "up"
  /\ net' = net \ {m}
  /\ Response(m) \/ Webhook(m)
  /\ UNCHANGED <<mode, count, listFile, file, telling, bounds>>

-----------------------------------------------------------------------------
(* The thread of the Fetcher *)

FetchLook(n) ==
  /\ fetcher[n].pc = "look"
  /\ IF fetchQueue[n] = <<>>
     THEN /\ FetcherTo(n, FetcherAt("leave"))
          /\ UNCHANGED fetchQueue
     ELSE /\ FetcherTo(n, FetcherWith(Head(fetchQueue[n])))
          /\ fetchQueue' = [fetchQueue EXCEPT ![n] = Tail(@)]
  /\ UNCHANGED <<mode, count, listFile, file, sendQueue, sender, telling, net, bounds>>

FetchLeave(n) ==
  /\ fetcher[n].pc = "leave"
  /\ FetcherTo(n, FetcherAt("off"))
  /\ UNCHANGED <<mode, count, disk, sender, telling, net, bounds>>

\* Mutant: it goes to its front.
FetchAgainFirst(n) ==
  /\ fetchQueue' = [fetchQueue EXCEPT ![n] = <<fetcher[n].job>> \o @]
  /\ FetcherTo(n, FetcherAt("look"))

\* The job goes to the end of the queue.
FetchAgain(n) ==
  /\ fetchQueue' = [fetchQueue EXCEPT ![n] = Append(@, fetcher[n].job)]
  /\ FetcherTo(n, FetcherAt("look"))

\* Mutant: the number of the chunk is not looked at.
FetchCheckAnyChunk(n) ==
  /\ fetcher[n].pc = "check"
  /\ IF count[n] \in {None, Total} THEN FetcherTo(n, FetcherAt("look"))
     ELSE FetcherTo(n, [fetcher[n] EXCEPT !.pc = "fetch"])
  /\ UNCHANGED <<mode, count, disk, sender, telling, net, bounds>>

\* Not listed: the KeyError ends the thread, with the job.  All there: nothing
\* to do.  Not the next chunk: later.
FetchCheck(n) ==
  LET j == fetcher[n].job IN
  /\ fetcher[n].pc = "check"
  /\ \/ /\ ~Listed(n)
        /\ FetcherTo(n, FetcherAt("off"))
        /\ UNCHANGED fetchQueue
     \/ /\ IsDownloaded(n)
        /\ FetcherTo(n, FetcherAt("look"))
        /\ UNCHANGED fetchQueue
     \/ /\ Listed(n) /\ ~IsDownloaded(n)
        /\ LastChunk(n) + 1 # j.chunk
        /\ FetchAgain(n)
     \/ /\ Listed(n) /\ ~IsDownloaded(n)
        /\ LastChunk(n) + 1 = j.chunk
        /\ FetcherTo(n, [fetcher[n] EXCEPT !.pc = "fetch"])
        /\ UNCHANGED fetchQueue
  /\ UNCHANGED <<mode, count, listFile, file, sendQueue, sender, telling, net, bounds>>

\* GET /download of the other node answers with bytes of the right hash.
Downloads(j) ==
  /\ mode[j.from] = "up"
  /\ Listed(j.from)
  /\ file[j.from] # Missing
  /\ ByteRange(file[j.from], j.start, j.end) = j.sha1

\* Mutant: the chunk is counted before it is written.
FetchCounted(n) ==
  LET j == fetcher[n].job IN
  /\ fetcher[n].pc = "fetch"
  /\ Downloads(j)
  /\ FetcherTo(n, [fetcher[n] EXCEPT !.pc = "append", !.data = j.sha1])
  /\ SaveList(n, j.chunk)
  /\ UNCHANGED <<mode, count, file, fetchQueue, sendQueue, sender, telling, net, bounds>>

\* One of three attempts succeeds; the file list is saved.
Fetch(n) ==
  LET j == fetcher[n].job IN
  /\ fetcher[n].pc = "fetch"
  /\ Downloads(j)
  /\ FetcherTo(n, [fetcher[n] EXCEPT !.pc = "append", !.data = j.sha1])
  /\ SaveList(n, count[n])
  /\ UNCHANGED <<mode, count, file, fetchQueue, sendQueue, sender, telling, net, bounds>>

\* None does.
FetchFails(n) ==
  /\ fetcher[n].pc = "fetch"
  /\ \/ ~Downloads(fetcher[n].job) /\ UNCHANGED faults
     \/ faults < MaxFaults /\ faults' = faults + 1
  /\ FetchAgain(n)
  /\ UNCHANGED <<mode, count, listFile, file, sendQueue, sender, telling, net,
                 lost, torn, invites, crashes>>

Content(n) == IF file[n] = Missing THEN <<>> ELSE file[n]

\* open(destination_path, 'ab')
AppendChunk(n) ==
  /\ fetcher[n].pc = "append"
  /\ file' = [file EXCEPT ![n] = Content(n) \o fetcher[n].data]
  /\ FetcherTo(n, [fetcher[n] EXCEPT !.pc = "complete", !.data = <<>>])
  /\ UNCHANGED <<mode, count, listFile, fetchQueue, sendQueue, sender, telling, net, bounds>>

AppendPart(n) ==
  /\ fetcher[n].pc = "append"
  /\ torn < MaxTorn
  /\ torn' = torn + 1
  /\ \E i \in 1 .. Len(fetcher[n].data) - 1 :
       /\ file' = [file EXCEPT ![n] = Content(n) \o SubSeq(fetcher[n].data, 1, i)]
       /\ FetcherTo(n, [fetcher[n] EXCEPT
            !.data = SubSeq(@, i + 1, Len(@))])
  /\ UNCHANGED <<mode, count, listFile, fetchQueue, sendQueue, sender, telling, net,
                 faults, lost, invites, crashes>>

\* The chunk is counted and the list saved.  Then PORT is needed: its KeyError
\* ends the thread.
Complete(n) ==
  LET k == fetcher[n].job.chunk IN
  /\ fetcher[n].pc = "complete"
  /\ count' = [count EXCEPT ![n] = IF k = @ + 1 /\ k <= Total THEN k ELSE @]
  /\ SaveList(n, count'[n])
  /\ IF mode[n] = "starting"
     THEN FetcherTo(n, FetcherAt("off"))
     ELSE \E P \in Picks(n) :
            FetcherTo(n, [fetcher[n] EXCEPT !.pc = "tell", !.tell = P])
  /\ UNCHANGED <<mode, file, fetchQueue, sendQueue, sender, telling, net, bounds>>

\* Peers hear of the chunk, and that it is here.
Tell(n) ==
  LET j == fetcher[n].job IN
  /\ fetcher[n].pc = "tell"
  /\ \/ \E p \in fetcher[n].tell :
          /\ Post("response", p, [j EXCEPT !.from = n])
          /\ FetcherTo(n, [fetcher[n] EXCEPT !.tell = @ \ {p}])
     \/ /\ fetcher[n].tell = {}
        /\ FetcherTo(n, [fetcher[n] EXCEPT !.pc = "confirm"])
        /\ UNCHANGED <<net, lost>>
  /\ UNCHANGED <<mode, count, disk, sender, telling, faults, torn, invites, crashes>>

\* The node the chunk has come from hears of it.
Confirm(n) ==
  LET j == fetcher[n].job IN
  /\ fetcher[n].pc = "confirm"
  /\ Post("webhook", j.from, [j EXCEPT !.from = n])
  /\ FetcherTo(n, IF j.chunk = Total THEN [fetcher[n] EXCEPT !.pc = "verify"]
                  ELSE FetcherAt("look"))
  /\ UNCHANGED <<mode, count, disk, sender, telling, faults, torn, invites, crashes>>

\* Mutant: only the size of the file is compared.
VerifySize(n) ==
  /\ fetcher[n].pc = "verify"
  /\ file' = [file EXCEPT ![n] = IF Len(@) = Size THEN @ ELSE Missing]
  /\ FetcherTo(n, FetcherAt("look"))
  /\ UNCHANGED <<mode, count, listFile, fetchQueue, sendQueue, sender, telling, net, bounds>>

\* After the last chunk the hash of the file is compared, and a wrong file
\* deleted.
Verify(n) ==
  /\ fetcher[n].pc = "verify"
  /\ file' = [file EXCEPT ![n] = IF @ = Original THEN @ ELSE Missing]
  /\ FetcherTo(n, FetcherAt("look"))
  /\ UNCHANGED <<mode, count, listFile, fetchQueue, sendQueue, sender, telling, net, bounds>>

FetchStep(n) ==
  \/ FetchLook(n)
  \/ FetchLeave(n)
  \/ FetchCheck(n)
  \/ Fetch(n)
  \/ FetchFails(n)
  \/ AppendChunk(n)
  \/ AppendPart(n)
  \/ Complete(n)
  \/ Tell(n)
  \/ Confirm(n)
  \/ Verify(n)

-----------------------------------------------------------------------------
(* The thread of the Sender *)

SendLook(n) ==
  /\ sender[n].pc = "look"
  /\ IF sendQueue[n] = <<>>
     THEN /\ SenderTo(n, SenderAt("leave"))
          /\ UNCHANGED sendQueue
     ELSE /\ SenderTo(n, SenderWith(Head(sendQueue[n])))
          /\ sendQueue' = [sendQueue EXCEPT ![n] = Tail(@)]
  /\ UNCHANGED <<mode, count, listFile, file, fetchQueue, fetcher, telling, net, bounds>>

SendLeave(n) ==
  /\ sender[n].pc = "leave"
  /\ SenderTo(n, SenderAt("off"))
  /\ UNCHANGED <<mode, count, disk, fetcher, telling, net, bounds>>

SendAgain(n) ==
  /\ sendQueue' = [sendQueue EXCEPT ![n] = Append(@, sender[n].job)]
  /\ SenderTo(n, SenderAt("look"))

\* Mutant: the start is the end of the chunk before.
NextOfferOverlap(n) ==
  LET j == sender[n].job
      data == Read(file[n], j.end, ChunkSize)
  IN Offer(n, j.chunk + 1, j.end, j.end + Len(data), data)

\* The chunk after the one that has been confirmed, as far as it is there: the
\* place in the file after reading is the end, but for the last chunk one more.
NextOffer(n) ==
  LET j == sender[n].job
      start == j.end + 1
      data == Read(file[n], start, ChunkSize)
      place == start + Len(data)
  IN Offer(n, j.chunk + 1, start,
           IF j.chunk + 1 = Total THEN place ELSE place - 1, data)

\* The file is there, and more than a byte of the chunk (any, if it is the last).
CanOffer(n) == file[n] # Missing /\ NextOffer(n).start < NextOffer(n).end

SendRead(n) ==
  /\ sender[n].pc = "read"
  /\ \/ ~CanOffer(n) /\ SendAgain(n)
     \/ /\ CanOffer(n)
        /\ SenderTo(n, IF mode[n] = "starting" THEN SenderAt("off")
                       ELSE [sender[n] EXCEPT !.pc = "post", !.offer = NextOffer(n)])
        /\ UNCHANGED sendQueue
  /\ UNCHANGED <<mode, count, listFile, file, fetchQueue, fetcher, telling, net, bounds>>

Offered(n) == [kind |-> "response", to |-> sender[n].job.from, job |-> sender[n].offer]

SendPost(n) ==
  /\ sender[n].pc = "post"
  /\ net' = IF mode[sender[n].job.from] = "up" THEN net \cup {Offered(n)} ELSE net
  /\ SenderTo(n, [sender[n] EXCEPT !.pc = "wait"])
  /\ UNCHANGED <<mode, count, disk, fetcher, telling, bounds>>

SendAnswered(n) ==
  /\ sender[n].pc = "answered"
  /\ SenderTo(n, SenderAt("look"))
  /\ UNCHANGED <<mode, count, disk, fetcher, telling, net, bounds>>

\* The other node has gone, or does not answer in time though it may have the
\* job already.
SendFails(n) ==
  /\ \/ /\ sender[n].pc = "wait"
        /\ Offered(n) \notin net
        /\ UNCHANGED faults
     \/ /\ sender[n].pc \in {"wait", "answered"}
        /\ faults < MaxFaults
        /\ faults' = faults + 1
  /\ SendAgain(n)
  /\ UNCHANGED <<mode, count, listFile, file, fetchQueue, fetcher, telling, net,
                 lost, torn, invites, crashes>>

SendStep(n) ==
  \/ SendLook(n)
  \/ SendLeave(n)
  \/ SendRead(n)
  \/ SendPost(n)
  \/ SendAnswered(n)
  \/ SendFails(n)

-----------------------------------------------------------------------------
(* Crashes and restarts *)

\* What is on the disk stays: the queues without the jobs the threads had.
Crash(n) ==
  /\ mode[n] # "down"
  /\ crashes[n] < MaxCrashes[n]
  /\ crashes' = [crashes EXCEPT ![n] = @ + 1]
  /\ mode' = [mode EXCEPT ![n] = "down"]
  /\ count' = [count EXCEPT ![n] = None]
  /\ fetcher' = [fetcher EXCEPT ![n] = FetcherAt("off")]
  /\ sender' = [sender EXCEPT ![n] = SenderAt("off")]
  /\ telling' = IF n = Origin THEN {} ELSE telling
  /\ net' = {m \in net : m.to # n}
  /\ UNCHANGED <<disk, faults, lost, torn, invites>>

\* FilefetcherConfig.ready: the Sender is started only if the Fetcher was.
Boot(n) ==
  /\ mode[n] = "down"
  /\ mode' = [mode EXCEPT ![n] = "starting"]
  /\ count' = [count EXCEPT ![n] = listFile[n]]
  /\ IF fetchQueue[n] = <<>>
     THEN UNCHANGED <<fetcher, sender>>
     ELSE /\ FetcherTo(n, FetcherAt("look"))
          /\ IF sendQueue[n] = <<>> THEN UNCHANGED sender
             ELSE SenderTo(n, SenderAt("look"))
  /\ UNCHANGED <<disk, telling, net, bounds>>

\* BlockchainConfig.ready, the app after it.
Ready(n) ==
  /\ mode[n] = "starting"
  /\ mode' = [mode EXCEPT ![n] = "up"]
  /\ UNCHANGED <<count, disk, fetcher, sender, telling, net, bounds>>

-----------------------------------------------------------------------------

Next ==
  \/ \E p \in Nodes : TellPeer(p)
  \/ \E n, d \in Nodes : Invite(n, d)
  \/ \E m \in net : Receive(m)
  \/ \E n \in Nodes :
       ListFile(n) \/ FetchStep(n) \/ SendStep(n) \/ Crash(n) \/ Boot(n) \/ Ready(n)

Spec == Init /\ [][Next]_vars

\* The upload goes on, requests are taken up, threads run.
FairSpec ==
  /\ Spec
  /\ WF_vars(\E p \in Nodes : TellPeer(p))
  /\ WF_vars(\E m \in net : Receive(m))
  /\ \A n \in Nodes : WF_vars(FetchStep(n)) /\ WF_vars(SendStep(n))
-----------------------------------------------------------------------------
(* Properties *)

\* The chunks in the file of a node: the ones it has counted, and one that is
\* there but not counted yet.
Have(n) ==
  (IF Listed(n) THEN count[n] ELSE 0)
    + (IF fetcher[n].pc = "complete" THEN 1 ELSE 0)

\* As long as nobody crashes and nobody reads half a chunk, the file of a node is the first chunks of the original,
\* whole, in order, none missing and none twice, although offers of the same
\* chunk come from several nodes, in any order, again and again.
FilesAreExact ==
  (torn = 0 /\ \A n \in Nodes : crashes[n] = 0) =>
    \A n \in Nodes :
      file[n] = IF Have(n) = 0 THEN Missing ELSE SubSeq(Original, 1, EndOf(Have(n)))

\* If nobody crashes, files grow chunk by chunk, each the next one of a file that
\* is somewhere else: the transfer implements Spreading.
Spread == INSTANCE Spreading WITH file <- [n \in Nodes |-> Content(n)]
ImplementsSpreading == Spread!Spec

AllComplete == \A n \in Nodes : IsDownloaded(n)

\* A job that waits for a thread which is not there.
Stalled(n) ==
  \/ fetcher[n].pc = "off" /\ fetchQueue[n] # <<>>
  \/ sender[n].pc = "off" /\ sendQueue[n] # <<>>

\* If nobody crashes, no message is lost and every node knows a way to the
\* others, the file comes everywhere, or a job waits for ever in a manager that
\* has no thread: nothing else stops the transfer.
CompletesOrStalls == <>[]AllComplete \/ <>[](\E n \in Nodes : Stalled(n))

\* README.md, step 5 of the transfer: "continuing the cycle until the entire
\* file is transferred".  It is not when a job is queued while the thread that
\* has found the queue empty is still alive, and no other request comes.
FileArrives == <>[]AllComplete

\* A node that has not crashed has the right file or none once the transfer has
\* ended there, whatever bytes the nodes it has them from, which may have
\* appended a chunk twice after a crash, have sent.
CheckedWhenComplete ==
  \A n \in Nodes :
    /\ crashes[n] = 0
    /\ IsDownloaded(n)
    /\ fetcher[n].pc \notin {"tell", "confirm", "verify"}
    => file[n] \in {Original, Missing}

\* The saved list never counts a chunk that is not in the file: a crash leaves
\* a chunk too many, not one too few.
SavedAreThere ==
  torn = 0 => \A n \in Nodes :
    listFile[n] \in 1 .. Total - 1 =>
      file[n] # Missing /\ Len(file[n]) >= EndOf(listFile[n])

\* The node of the upload keeps the file whole and never fetches it, whoever
\* offers it chunks of its own file, and through crashes.
OriginKeeps == file[Origin] = Original

\* What the saved list has counted stays counted, through crashes and restarts
\* and the replay of the chain, which lists the file anew.
CountsGrow ==
  [][\A n \in Nodes : listFile[n] # None =>
       listFile'[n] # None /\ listFile'[n] >= listFile[n]]_vars
=============================================================================
