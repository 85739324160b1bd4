------------------------------ MODULE JobThread ------------------------------
(***************************************************************************)
(* The two job managers of a node, the Fetcher and the Sender of           *)
(* filefetcher/: a queue on the disk, and a thread that is started when a  *)
(* request brings a job and ends when it finds the queue empty.  What a    *)
(* job does is left open here: it is finished, put back, or raises.        *)
(*                                                                         *)
(* The handlers of /response and /webhook are the only callers.  Between   *)
(* any two of their calls, and of the thread's, the others may run.        *)
(***************************************************************************)
EXTENDS Naturals, Sequences

CONSTANTS
  Handlers,   \* the request workers of the node
  Jobs,       \* what a FileWorker says
  Poison,     \* jobs about a file that is not in the file list
  Threads,    \* Thread objects
  NoJob,
  MaxQueue    \* bound: jobs queued before a request brings another

ASSUME JobThreadAssumption ==
  /\ NoJob \notin Jobs
  /\ Poison \subseteq Jobs
  /\ Threads # {}
  /\ MaxQueue \in Nat

Managers == {"fetcher", "sender"}

VARIABLES
  mode,       \* "down", "starting" (filefetcher ready, blockchain not), "up"
  queue,      \* the jobs of a manager, on the disk
  current,    \* __job, the Thread object of a manager
  thread,     \* what every Thread object of a manager is doing
  handler     \* what every request worker is doing

vars == <<mode, queue, current, thread, handler>>

\* A Thread object: not created, created, before queue.empty(), before
\* queue.get(), at work, out of the loop, ended.
AtRest == [pc : {"none", "new", "look", "take", "leave", "ended"}, work : {NoJob}]
AtWork == [pc : {"work"}, work : Jobs]
Thread == AtRest \cup AtWork

\* A request worker: what it does next about which manager; "clash", "spent"
\* and "nothing" are the exceptions ChildProcessError, RuntimeError and
\* IndexError.
Handler == [pc : {"idle", "ask", "alive", "empty", "start", "restart",
                  "clash", "spent", "nothing"},
            of : Managers]

Unused == [pc |-> "none", work |-> NoJob]
Idle == [pc |-> "idle", of |-> "fetcher"]

TypeOK ==
  /\ mode \in {"down", "starting", "up"}
  /\ queue \in [Managers -> Seq(Jobs)]
  /\ current \in [Managers -> Threads]
  /\ thread \in [Managers -> [Threads -> Thread]]
  /\ handler \in [Handlers -> Handler]

Init ==
  /\ mode = "down"
  /\ queue = [o \in Managers |-> <<>>]
  /\ current \in [Managers -> Threads]
  /\ thread = [o \in Managers |-> [t \in Threads |-> Unused]]
  /\ handler = [h \in Handlers |-> Idle]

-----------------------------------------------------------------------------

\* Mutant: a thread that will not look again does not count as alive.
AliveInLoop(o, t) == thread[o][t].pc \in {"look", "take", "work"}

\* Thread.is_alive()
Alive(o, t) == thread[o][t].pc \in {"look", "take", "work", "leave"}

IsRunning(o) == Alive(o, current[o])

ThreadTo(o, t, pc) == thread' = [thread EXCEPT ![o][t].pc = pc]
HandlerTo(h, pc) == handler' = [handler EXCEPT ![h].pc = pc]

-----------------------------------------------------------------------------
(* The process. *)

\* FilefetcherConfig.ready: both managers are made and started, the sender only
\* if the fetcher has had something to do.
Boot ==
  /\ mode = "down"
  /\ mode' = "starting"
  /\ current' \in [Managers -> Threads]
  /\ LET started == {o \in Managers : queue["fetcher"] # <<>> /\ queue[o] # <<>>}
     IN thread' = [o \in Managers |->
                    [thread[o] EXCEPT ![current'[o]].pc =
                       IF o \in started THEN "look" ELSE "new"]]
  /\ UNCHANGED <<queue, handler>>

\* BlockchainConfig.ready, the app after it: PORT and IPADDRESS are set.
Ready ==
  /\ mode = "starting"
  /\ mode' = "up"
  /\ UNCHANGED <<queue, current, thread, handler>>

\* The queues stay, a job that has been taken is gone.
Crash ==
  /\ mode # "down"
  /\ mode' = "down"
  /\ thread' = [o \in Managers |-> [t \in Threads |-> Unused]]
  /\ handler' = [h \in Handlers |-> Idle]
  /\ UNCHANGED <<queue, current>>

-----------------------------------------------------------------------------
(* POST /response brings the fetcher a job, POST /webhook the sender. *)

AddWork(h, o, j) ==
  /\ mode = "up"
  /\ handler[h].pc = "idle"
  /\ Len(queue[o]) < MaxQueue
  /\ queue' = [queue EXCEPT ![o] = Append(@, j)]
  /\ handler' = [handler EXCEPT ![h] = [pc |-> "ask", of |-> o]]
  /\ UNCHANGED <<mode, current, thread>>

\* Mutant: the thread is started without asking whether it is running.
AskNobody(h) ==
  /\ handler[h].pc = "ask"
  /\ HandlerTo(h, "alive")
  /\ UNCHANGED <<mode, queue, current, thread>>

\* if not is_running(): start()
Ask(h) ==
  /\ handler[h].pc = "ask"
  /\ HandlerTo(h, IF IsRunning(handler[h].of) THEN "idle" ELSE "alive")
  /\ UNCHANGED <<mode, queue, current, thread>>

\* start() asks again ...
StartAlive(h) ==
  /\ handler[h].pc = "alive"
  /\ HandlerTo(h, IF IsRunning(handler[h].of) THEN "clash" ELSE "empty")
  /\ UNCHANGED <<mode, queue, current, thread>>

\* ... and looks into the queue, which may have been worked off by now.
StartEmpty(h) ==
  /\ handler[h].pc = "empty"
  /\ HandlerTo(h, IF queue[handler[h].of] = <<>> THEN "nothing" ELSE "start")
  /\ UNCHANGED <<mode, queue, current, thread>>

\* A Thread object that has not been started yet is.
StartNew(h, pc) ==
  LET o == handler[h].of IN
  /\ handler[h].pc = pc
  /\ thread[o][current[o]].pc = "new"
  /\ ThreadTo(o, current[o], "look")
  /\ HandlerTo(h, "idle")
  /\ UNCHANGED <<mode, queue, current>>

\* Mutant: the RuntimeError of a thread that has been started is ignored.
ReplaceNothing(h) ==
  LET o == handler[h].of IN
  /\ handler[h].pc = "start"
  /\ thread[o][current[o]].pc # "new"
  /\ HandlerTo(h, "idle")
  /\ UNCHANGED <<mode, queue, current, thread>>

\* One that has been started cannot be started again and is replaced.  (An
\* object that has ended and is not referred to any more may be reused.)
Replace(h) ==
  LET o == handler[h].of IN
  /\ handler[h].pc = "start"
  /\ thread[o][current[o]].pc # "new"
  /\ \E t \in Threads :
       /\ thread[o][t].pc \in {"none", "ended"}
       /\ current' = [current EXCEPT ![o] = t]
       /\ ThreadTo(o, t, "new")
  /\ HandlerTo(h, "restart")
  /\ UNCHANGED <<mode, queue>>

\* By now another handler may have started the new one as well.
StartSpent(h) ==
  LET o == handler[h].of IN
  /\ handler[h].pc = "restart"
  /\ thread[o][current[o]].pc # "new"
  /\ HandlerTo(h, "spent")
  /\ UNCHANGED <<mode, queue, current, thread>>

\* The request is answered with an error; the job stays in the queue.
Fail(h) ==
  /\ handler[h].pc \in {"clash", "spent", "nothing"}
  /\ HandlerTo(h, "idle")
  /\ UNCHANGED <<mode, queue, current, thread>>

Handle(h) ==
  \/ Ask(h)
  \/ StartAlive(h)
  \/ StartEmpty(h)
  \/ StartNew(h, "start")
  \/ Replace(h)
  \/ StartNew(h, "restart")
  \/ StartSpent(h)
  \/ Fail(h)

-----------------------------------------------------------------------------
(* The thread: __work and get_work. *)

Look(o, t) ==
  /\ thread[o][t].pc = "look"
  /\ ThreadTo(o, t, IF queue[o] = <<>> THEN "leave" ELSE "take")
  /\ UNCHANGED <<mode, queue, current, handler>>

\* queue.get() waits if another thread has been faster.
Take(o, t) ==
  /\ thread[o][t].pc = "take"
  /\ queue[o] # <<>>
  /\ thread' = [thread EXCEPT ![o][t] = [pc |-> "work", work |-> Head(queue[o])]]
  /\ queue' = [queue EXCEPT ![o] = Tail(@)]
  /\ UNCHANGED <<mode, current, handler>>

\* Only the fetcher looks a job's file up in the file list.
Poisoned(o, t) == o = "fetcher" /\ thread[o][t].work \in Poison

\* The job is done, or need not be done.
Finish(o, t) ==
  /\ thread[o][t].pc = "work"
  /\ ~Poisoned(o, t)
  /\ thread' = [thread EXCEPT ![o][t] = [pc |-> "look", work |-> NoJob]]
  /\ UNCHANGED <<mode, queue, current, handler>>

\* Mutant: the job is put back and kept.
PutBackAndKeep(o, t) ==
  /\ thread[o][t].pc = "work"
  /\ ~Poisoned(o, t)
  /\ queue' = [queue EXCEPT ![o] = Append(@, thread[o][t].work)]
  /\ ThreadTo(o, t, "look")
  /\ UNCHANGED <<mode, current, handler>>

\* It cannot be done yet, or has failed, and is put at the end of the queue.
PutBack(o, t) ==
  /\ thread[o][t].pc = "work"
  /\ ~Poisoned(o, t)
  /\ queue' = [queue EXCEPT ![o] = Append(@, thread[o][t].work)]
  /\ thread' = [thread EXCEPT ![o][t] = [pc |-> "look", work |-> NoJob]]
  /\ UNCHANGED <<mode, current, handler>>

\* The file list does not have the file, or Env does not have PORT yet.  Nobody
\* catches the KeyError: the thread ends, with the job.
Raise(o, t) ==
  /\ thread[o][t].pc = "work"
  /\ Poisoned(o, t) \/ mode = "starting"
  /\ thread' = [thread EXCEPT ![o][t] = [pc |-> "ended", work |-> NoJob]]
  /\ UNCHANGED <<mode, queue, current, handler>>

Leave(o, t) ==
  /\ thread[o][t].pc = "leave"
  /\ ThreadTo(o, t, "ended")
  /\ UNCHANGED <<mode, queue, current, handler>>

Work(o, t) ==
  \/ Look(o, t)
  \/ Take(o, t)
  \/ Finish(o, t)
  \/ PutBack(o, t)
  \/ Raise(o, t)
  \/ Leave(o, t)

-----------------------------------------------------------------------------

Next ==
  \/ Boot \/ Ready \/ Crash
  \/ \E h \in Handlers : Handle(h)
  \/ \E h \in Handlers, o \in Managers, j \in Jobs : AddWork(h, o, j)
  \/ \E o \in Managers, t \in Threads : Work(o, t)

Spec == Init /\ [][Next]_vars

\* Threads and handlers that can run do run.
FairSpec ==
  /\ Spec
  /\ \A h \in Handlers : WF_vars(Handle(h))
  /\ \A o \in Managers, t \in Threads : WF_vars(Work(o, t))

-----------------------------------------------------------------------------
(* Properties *)

\* A manager never has two threads at work, whatever is left of earlier ones:
\* the file is appended to by one fetcher only.
OneThread ==
  \A o \in Managers : \A s, t \in Threads :
    (/\ thread[o][s].pc \in {"look", "take", "work", "leave"}
     /\ thread[o][t].pc \in {"look", "take", "work", "leave"}) => s = t

\* start() never meets a thread that is running, or that somebody else has
\* started: a request is not answered with an error for it.
NeverClash == \A h \in Handlers : handler[h].pc \notin {"clash", "spent"}

\* A request that comes when the thread has ended, normally or by an exception,
\* brings a thread to life for the jobs that are waiting.
Revives ==
  \A h \in Handlers, o \in Managers :
    (/\ handler[h] = [pc |-> "ask", of |-> o]
     /\ queue[o] # <<>>
     /\ \A t \in Threads : thread[o][t].pc \in {"none", "new", "ended"}) ~>
      (queue[o] = <<>> \/ IsRunning(o) \/ mode = "down")
=============================================================================
