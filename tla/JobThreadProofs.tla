--------------------------- MODULE JobThreadProofs ---------------------------
(***************************************************************************)
(* With one request worker (gunicorn's default) a job manager never has    *)
(* two threads, and start() never fails because of another thread.         *)
(***************************************************************************)
EXTENDS JobThread, SequenceTheorems, TLAPS

SingleHandler == \A g, h \in Handlers : g = h

Live == {"look", "take", "work", "leave"}

\* Only the thread the manager refers to may run.
OthersRest ==
  \A o \in Managers : \A t \in Threads :
    t # current[o] => thread[o][t].pc \in {"none", "ended"}

\* What a handler has found out about the thread is still true.
HandlerOK(h) ==
  LET o == handler[h].of IN
  /\ handler[h].pc \in {"alive", "empty", "start"} =>
       thread[o][current[o]].pc \notin Live
  /\ handler[h].pc = "restart" => thread[o][current[o]].pc = "new"
  /\ handler[h].pc \notin {"clash", "spent"}

\* A node that is down does nothing.
DownRests ==
  mode = "down" =>
    /\ \A o \in Managers, t \in Threads : thread[o][t].pc = "none"
    /\ \A h \in Handlers : handler[h].pc = "idle"

RestInv == TypeOK /\ DownRests

ThreadInv ==
  /\ RestInv
  /\ OthersRest
  /\ \A h \in Handlers : HandlerOK(h)

-----------------------------------------------------------------------------

LEMMA InitThread == JobThreadAssumption /\ Init => ThreadInv
BY DEF JobThreadAssumption, Init, ThreadInv, RestInv, TypeOK, OthersRest, HandlerOK,
       DownRests, Unused, Idle, Thread, AtRest, Handler, Managers

-----------------------------------------------------------------------------
(* Types, for any number of request workers. *)

\* The process starts, has started, or ends.
LEMMA ProcessTypes ==
  ASSUME RestInv, Boot \/ Ready \/ Crash
  PROVE  RestInv'
<1>1. CASE Boot
  <2> DEFINE pc(o) == IF o \in {q \in Managers : queue["fetcher"] # <<>> /\ queue[q] # <<>>}
                      THEN "look" ELSE "new"
  <2>1. /\ current' \in [Managers -> Threads]
        /\ thread' = [o \in Managers |->
                        [thread[o] EXCEPT ![current'[o]].pc = pc(o)]]
    BY <1>1 DEF Boot
  <2>2. \A o \in Managers, t \in Threads :
          [thread[o][t] EXCEPT !.pc = pc(o)] \in Thread
    <3> SUFFICES ASSUME NEW o \in Managers, NEW t \in Threads
                 PROVE  [thread[o][t] EXCEPT !.pc = pc(o)] \in Thread
      OBVIOUS
    <3>1. thread[o][t] \in Thread /\ thread[o][t].pc = "none"
      BY <1>1 DEF Boot, RestInv, TypeOK, DownRests
    <3>2. thread[o][t] \in AtRest
      BY <3>1 DEF Thread, AtWork
    <3>3. pc(o) \in {"look", "new"}
      OBVIOUS
    <3> QED
      BY <3>2, <3>3 DEF Thread, AtRest
  <2> HIDE DEF pc
  <2>3. \A o \in Managers :
          [thread[o] EXCEPT ![current'[o]].pc = pc(o)] \in [Threads -> Thread]
    BY <2>1, <2>2 DEF RestInv, TypeOK
  <2>4. thread' \in [Managers -> [Threads -> Thread]]
    BY <2>1, <2>3
  <2> QED
    BY <1>1, <2>1, <2>4 DEF Boot, RestInv, TypeOK, DownRests
<1>2. CASE Ready
  BY <1>2 DEF Ready, RestInv, TypeOK, DownRests
<1>3. CASE Crash
  BY <1>3 DEF Crash, RestInv, TypeOK, DownRests, Unused, Idle, Thread, AtRest,
              Handler, Managers
<1> QED
  BY <1>1, <1>2, <1>3

\* A thread at work moves on alone, and takes from or adds to its queue.
LEMMA WorkMoves ==
  ASSUME RestInv, NEW o \in Managers, NEW t \in Threads, Work(o, t)
  PROVE  /\ thread[o][t].pc \in Live /\ mode # "down"
         /\ UNCHANGED <<mode, current, handler>>
         /\ queue' \in [Managers -> Seq(Jobs)]
         /\ \E r \in Thread : thread' = [thread EXCEPT ![o][t] = r]
<1>1. thread[o][t].pc \in Live /\ thread[o][t] \in Thread /\ mode # "down"
  BY DEF Work, Look, Take, Finish, PutBack, Raise, Leave, RestInv, TypeOK,
         DownRests, Live
<1>2. /\ UNCHANGED <<mode, current, handler>>
      /\ queue' \in [Managers -> Seq(Jobs)]
  <2>1. CASE Look(o, t) \/ Finish(o, t) \/ Raise(o, t) \/ Leave(o, t)
    BY <2>1 DEF Look, Finish, Raise, Leave, RestInv, TypeOK
  <2>2. CASE Take(o, t)
    <3>1. Tail(queue[o]) \in Seq(Jobs)
      BY <2>2, HeadTailProperties DEF Take, RestInv, TypeOK
    <3> QED
      BY <2>2, <3>1 DEF Take, RestInv, TypeOK
  <2>3. CASE PutBack(o, t)
    <3>1. thread[o][t].work \in Jobs
      BY <1>1, <2>3 DEF PutBack, Thread, AtRest, AtWork
    <3> QED
      BY <2>3, <3>1 DEF PutBack, RestInv, TypeOK
  <2> QED
    BY <2>1, <2>2, <2>3 DEF Work
<1>3. \E r \in Thread : thread' = [thread EXCEPT ![o][t] = r]
  <2>1. CASE Look(o, t)
    <3> DEFINE r == [thread[o][t] EXCEPT
                       !.pc = IF queue[o] = <<>> THEN "leave" ELSE "take"]
    <3>1. r \in Thread
      BY <1>1, <2>1 DEF Look, Thread, AtRest, AtWork
    <3>2. thread' = [thread EXCEPT ![o][t] = r]
      BY <2>1 DEF Look, ThreadTo, RestInv, TypeOK
    <3> QED
      BY <3>1, <3>2
  <2>2. CASE Take(o, t)
    <3>1. [pc |-> "work", work |-> Head(queue[o])] \in Thread
      BY <2>2 DEF Take, RestInv, TypeOK, Thread, AtWork
    <3> QED
      BY <2>2, <3>1 DEF Take
  <2>3. CASE Finish(o, t) \/ PutBack(o, t)
    <3>1. [pc |-> "look", work |-> NoJob] \in Thread
      BY DEF Thread, AtRest
    <3> QED
      BY <2>3, <3>1 DEF Finish, PutBack
  <2>4. CASE Raise(o, t)
    <3>1. [pc |-> "ended", work |-> NoJob] \in Thread
      BY DEF Thread, AtRest
    <3> QED
      BY <2>4, <3>1 DEF Raise
  <2>5. CASE Leave(o, t)
    <3> DEFINE r == [thread[o][t] EXCEPT !.pc = "ended"]
    <3>1. r \in Thread
      BY <1>1, <2>5 DEF Leave, Thread, AtRest, AtWork
    <3>2. thread' = [thread EXCEPT ![o][t] = r]
      BY <2>5 DEF Leave, ThreadTo, RestInv, TypeOK
    <3> QED
      BY <3>1, <3>2
  <2> QED
    BY <2>1, <2>2, <2>3, <2>4, <2>5 DEF Work
<1> QED
  BY <1>1, <1>2, <1>3

LEMMA WorkTypes ==
  ASSUME RestInv, NEW o \in Managers, NEW t \in Threads, Work(o, t)
  PROVE  RestInv'
<1>1. /\ mode # "down" /\ UNCHANGED <<mode, current, handler>>
      /\ queue' \in [Managers -> Seq(Jobs)]
  BY WorkMoves
<1>2. PICK r \in Thread : thread' = [thread EXCEPT ![o][t] = r]
  BY WorkMoves
<1> QED
  BY <1>1, <1>2 DEF RestInv, TypeOK, DownRests

\* A handler that asks or fails moves on alone.
LEMMA AskMoves ==
  ASSUME RestInv, NEW h \in Handlers,
         Ask(h) \/ StartAlive(h) \/ StartEmpty(h) \/ StartSpent(h) \/ Fail(h)
  PROVE  /\ UNCHANGED <<mode, queue, current, thread>>
         /\ \E p \in {"idle", "alive", "empty", "start", "clash", "spent", "nothing"} :
              handler' = [handler EXCEPT ![h].pc = p]
BY DEF Ask, StartAlive, StartEmpty, StartSpent, Fail, HandlerTo

\* One that starts a thread changes the manager's Thread object.
LEMMA HandleTypes ==
  ASSUME RestInv, NEW h \in Handlers, Handle(h)
  PROVE  RestInv'
<1> DEFINE o == handler[h].of
<1>1. /\ o \in Managers /\ current[o] \in Threads /\ handler[h] \in Handler
      /\ thread[o][current[o]] \in Thread
  BY DEF RestInv, TypeOK, Handler
<1>2. mode # "down"
  BY DEF Handle, Ask, StartAlive, StartEmpty, StartNew, Replace, StartSpent, Fail,
         RestInv, DownRests
<1>3. mode' = mode /\ queue' = queue
  BY DEF Handle, Ask, StartAlive, StartEmpty, StartNew, Replace, StartSpent, Fail
<1>4. CASE Ask(h) \/ StartAlive(h) \/ StartEmpty(h) \/ StartSpent(h) \/ Fail(h)
  <2>1. UNCHANGED <<current, thread>>
    BY <1>4, AskMoves
  <2>2. PICK p \in {"idle", "alive", "empty", "start", "clash", "spent", "nothing"} :
          handler' = [handler EXCEPT ![h].pc = p]
    BY <1>4, AskMoves
  <2> QED
    BY <1>1, <1>2, <1>3, <2>1, <2>2 DEF RestInv, TypeOK, DownRests, Handler
<1>5. CASE StartNew(h, "start") \/ StartNew(h, "restart")
  <2>1. /\ UNCHANGED current
        /\ thread' = [thread EXCEPT ![o][current[o]].pc = "look"]
        /\ handler' = [handler EXCEPT ![h].pc = "idle"]
        /\ thread[o][current[o]].pc = "new"
    BY <1>5 DEF StartNew, ThreadTo, HandlerTo
  <2>2. [thread[o][current[o]] EXCEPT !.pc = "look"] \in Thread
    BY <1>1, <2>1 DEF Thread, AtRest, AtWork
  <2> QED
    BY <1>1, <1>2, <1>3, <2>1, <2>2 DEF RestInv, TypeOK, DownRests, Handler
<1>6. CASE Replace(h)
  <2>1. PICK t \in Threads :
          /\ thread[o][t].pc \in {"none", "ended"}
          /\ current' = [current EXCEPT ![o] = t]
          /\ thread' = [thread EXCEPT ![o][t].pc = "new"]
    BY <1>6 DEF Replace, ThreadTo
  <2>2. handler' = [handler EXCEPT ![h].pc = "restart"]
    BY <1>6 DEF Replace, HandlerTo
  <2>3. thread[o][t] \in Thread
    BY <1>1 DEF RestInv, TypeOK
  <2>4. [thread[o][t] EXCEPT !.pc = "new"] \in Thread
    BY <2>1, <2>3 DEF Thread, AtRest, AtWork
  <2> QED
    BY <1>1, <1>2, <1>3, <2>1, <2>2, <2>4 DEF RestInv, TypeOK, DownRests, Handler
<1> QED
  BY <1>4, <1>5, <1>6 DEF Handle

LEMMA AddWorkTypes ==
  ASSUME RestInv, NEW h \in Handlers, NEW o \in Managers, NEW j \in Jobs,
         AddWork(h, o, j)
  PROVE  RestInv'
BY DEF AddWork, RestInv, TypeOK, DownRests, Handler

LEMMA NextTypes ==
  ASSUME RestInv, [Next]_vars
  PROVE  RestInv'
<1>1. CASE Next
  BY <1>1, ProcessTypes, WorkTypes, HandleTypes, AddWorkTypes DEF Next
<1>2. CASE UNCHANGED vars
  BY <1>2 DEF vars, RestInv, TypeOK, DownRests
<1> QED
  BY <1>1, <1>2

\* The variables of the managers keep their types: a thread at work has a job
\* from the queue, one that is not has none, and a queue has jobs only, however
\* many requests race (Fetcher.py, Sender.py, utils/Queue.py).
THEOREM ManagersTyped == Spec => []TypeOK
<1>1. Init => RestInv
  BY InitThread, JobThreadAssumption DEF ThreadInv
<1>2. RestInv /\ [Next]_vars => RestInv'
  BY NextTypes
<1>3. RestInv => TypeOK
  BY DEF RestInv
<1> QED
  BY <1>1, <1>2, <1>3, PTL DEF Spec

-----------------------------------------------------------------------------
(* One request worker. *)

\* The process starts, has started, or ends.
LEMMA ProcessKeeps ==
  ASSUME ThreadInv, Boot \/ Ready \/ Crash
  PROVE  ThreadInv'
<1>1. RestInv'
  BY ProcessTypes DEF ThreadInv
<1>2. CASE Boot
  <2>1. OthersRest'
    BY <1>2 DEF Boot, ThreadInv, RestInv, TypeOK, OthersRest, DownRests
  <2>2. (\A h \in Handlers : HandlerOK(h))'
    BY <1>2 DEF Boot, ThreadInv, RestInv, DownRests, HandlerOK
  <2> QED
    BY <1>1, <2>1, <2>2 DEF ThreadInv
<1>3. CASE Ready
  BY <1>1, <1>3 DEF Ready, ThreadInv, OthersRest, HandlerOK
<1>4. CASE Crash
  BY <1>1, <1>4 DEF Crash, ThreadInv, RestInv, TypeOK, OthersRest, HandlerOK,
                    Unused, Idle, Handler, Managers
<1> QED
  BY <1>2, <1>3, <1>4

\* A thread does its next step; nobody who relies on its having ended is there.
LEMMA WorkKeeps ==
  ASSUME ThreadInv, NEW o \in Managers, NEW t \in Threads, Work(o, t)
  PROVE  ThreadInv'
<1>1. RestInv /\ RestInv'
  BY WorkTypes DEF ThreadInv
<1>2. /\ thread[o][t].pc \in Live /\ mode # "down"
      /\ UNCHANGED <<mode, current, handler>>
  BY <1>1, WorkMoves
<1>3. PICK r \in Thread : thread' = [thread EXCEPT ![o][t] = r]
  BY <1>1, WorkMoves
<1>4. t = current[o]
  BY <1>2 DEF ThreadInv, OthersRest, Live
<1>5. OthersRest'
  BY <1>2, <1>3, <1>4 DEF ThreadInv, RestInv, TypeOK, OthersRest
<1>6. ASSUME NEW h \in Handlers
      PROVE  HandlerOK(h)'
  <2>1. handler[h].of = o => handler[h].pc \notin {"alive", "empty", "start", "restart"}
    BY <1>2, <1>4 DEF ThreadInv, HandlerOK, Live
  <2>2. handler[h].of # o =>
          (thread[handler[h].of][current[handler[h].of]])' =
            thread[handler[h].of][current[handler[h].of]]
    BY <1>2, <1>3 DEF ThreadInv, RestInv, TypeOK, Handler
  <2> QED
    BY <1>2, <2>1, <2>2 DEF ThreadInv, HandlerOK
<1> QED
  BY <1>1, <1>5, <1>6 DEF ThreadInv

\* The only handler does its next step.
LEMMA HandleKeeps ==
  ASSUME ThreadInv, SingleHandler, NEW h \in Handlers, Handle(h)
  PROVE  ThreadInv'
<1> DEFINE o == handler[h].of
<1>1. /\ o \in Managers /\ current[o] \in Threads /\ handler[h] \in Handler
      /\ thread[o][current[o]] \in Thread
  BY DEF ThreadInv, RestInv, TypeOK, Handler
<1>2. \A g \in Handlers : g = h
  BY DEF SingleHandler
<1>3. RestInv'
  BY HandleTypes DEF ThreadInv
<1>4. CASE Ask(h) \/ StartAlive(h) \/ StartEmpty(h) \/ StartSpent(h) \/ Fail(h)
  <2>1. UNCHANGED <<current, thread>>
    BY <1>4 DEF Ask, StartAlive, StartEmpty, StartSpent, Fail
  <2>2. PICK p \in {"idle", "alive", "empty", "start", "nothing"} :
          /\ handler' = [handler EXCEPT ![h].pc = p]
          /\ p \in {"alive", "empty", "start"} =>
               thread[o][current[o]].pc \notin Live
    <3>1. CASE Ask(h)
      BY <3>1 DEF Ask, HandlerTo, IsRunning, Alive, Live
    <3>2. CASE StartAlive(h)
      <4>1. thread[o][current[o]].pc \notin Live
        BY <3>2 DEF StartAlive, ThreadInv, HandlerOK
      <4> QED
        BY <3>2, <4>1 DEF StartAlive, HandlerTo, IsRunning, Alive, Live
    <3>3. CASE StartEmpty(h)
      <4>1. thread[o][current[o]].pc \notin Live
        BY <3>3 DEF StartEmpty, ThreadInv, HandlerOK
      <4> QED
        BY <3>3, <4>1 DEF StartEmpty, HandlerTo
    <3>4. CASE StartSpent(h)
      BY <3>4 DEF StartSpent, ThreadInv, HandlerOK
    <3>5. CASE Fail(h)
      BY <3>5 DEF Fail, HandlerTo
    <3> QED
      BY <1>4, <3>1, <3>2, <3>3, <3>4, <3>5
  <2>3. HandlerOK(h)'
    BY <1>1, <2>1, <2>2 DEF ThreadInv, RestInv, TypeOK, HandlerOK
  <2> QED
    BY <1>2, <1>3, <2>1, <2>3 DEF ThreadInv, OthersRest
<1>5. CASE StartNew(h, "start") \/ StartNew(h, "restart")
  <2>1. /\ UNCHANGED current
        /\ thread' = [thread EXCEPT ![o][current[o]].pc = "look"]
        /\ handler' = [handler EXCEPT ![h].pc = "idle"]
        /\ thread[o][current[o]].pc = "new"
    BY <1>5 DEF StartNew, ThreadTo, HandlerTo
  <2>2. OthersRest'
    BY <1>1, <2>1 DEF ThreadInv, RestInv, TypeOK, OthersRest
  <2>3. HandlerOK(h)'
    BY <1>1, <2>1 DEF ThreadInv, RestInv, TypeOK, HandlerOK
  <2> QED
    BY <1>2, <1>3, <2>2, <2>3 DEF ThreadInv
<1>6. CASE Replace(h)
  <2>1. PICK t \in Threads :
          /\ thread[o][t].pc \in {"none", "ended"}
          /\ current' = [current EXCEPT ![o] = t]
          /\ thread' = [thread EXCEPT ![o][t].pc = "new"]
    BY <1>6 DEF Replace, ThreadTo
  <2>2. /\ handler' = [handler EXCEPT ![h].pc = "restart"]
        /\ handler[h].pc = "start"
        /\ thread[o][current[o]].pc # "new"
    BY <1>6 DEF Replace, HandlerTo
  <2>3. thread[o][current[o]].pc \in {"none", "ended"}
    BY <1>1, <2>2 DEF ThreadInv, HandlerOK, Live, Thread, AtRest, AtWork
  <2>4. OthersRest'
    BY <1>1, <2>1, <2>3 DEF ThreadInv, RestInv, TypeOK, OthersRest
  <2>5. HandlerOK(h)'
    BY <1>1, <2>1, <2>2 DEF ThreadInv, RestInv, TypeOK, HandlerOK
  <2> QED
    BY <1>2, <1>3, <2>4, <2>5 DEF ThreadInv
<1> QED
  BY <1>4, <1>5, <1>6 DEF Handle

\* A request brings a job.
LEMMA AddWorkKeeps ==
  ASSUME ThreadInv, NEW h \in Handlers, NEW o \in Managers, NEW j \in Jobs,
         AddWork(h, o, j)
  PROVE  ThreadInv'
<1>1. RestInv'
  BY AddWorkTypes DEF ThreadInv
<1>2. ASSUME NEW g \in Handlers
      PROVE  HandlerOK(g)'
  BY DEF AddWork, ThreadInv, RestInv, TypeOK, HandlerOK
<1> QED
  BY <1>1, <1>2 DEF AddWork, ThreadInv, OthersRest

LEMMA NextKeeps ==
  ASSUME ThreadInv, SingleHandler, [Next]_vars
  PROVE  ThreadInv'
<1>1. CASE Next
  BY <1>1, ProcessKeeps, WorkKeeps, HandleKeeps, AddWorkKeeps DEF Next
<1>2. CASE UNCHANGED vars
  BY <1>2 DEF vars, ThreadInv, RestInv, TypeOK, OthersRest, HandlerOK, DownRests
<1> QED
  BY <1>1, <1>2

-----------------------------------------------------------------------------

\* The invariant of the two managers when requests are served one at a time.
THEOREM ThreadsAreRight ==
  ASSUME SingleHandler
  PROVE  Spec => []ThreadInv
<1>1. Init => ThreadInv
  BY InitThread, JobThreadAssumption
<1>2. ThreadInv /\ [Next]_vars => ThreadInv'
  BY NextKeeps
<1> QED
  BY <1>1, <1>2, PTL DEF Spec

\* A manager never has two threads at work: two of them would append the chunks
\* of a file in any order (is_running and start of Fetcher.py and Sender.py).
THEOREM AtMostOneThread ==
  ASSUME SingleHandler
  PROVE  Spec => []OneThread
<1>1. ThreadInv => OneThread
  BY DEF ThreadInv, OthersRest, OneThread
<1> QED
  BY <1>1, ThreadsAreRight, PTL

\* start() raises neither ChildProcessError nor RuntimeError.
THEOREM StartNeverClashes ==
  ASSUME SingleHandler
  PROVE  Spec => []NeverClash
<1>1. ThreadInv => NeverClash
  BY DEF ThreadInv, HandlerOK, NeverClash
<1> QED
  BY <1>1, ThreadsAreRight, PTL
=============================================================================
