--------------------------- MODULE CallbackProofs ---------------------------
(***************************************************************************)
(* The queue of validation's callbacks and the index that subscribes to it *)
(* have in common that several threads share them.                         *)
(*                                                                         *)
(* SerialTaskRunner runs its callbacks like one thread, for any number of  *)
(* service threads, producers and callbacks, whatever wakes the threads up *)
(* and whenever the scheduler is stopped; flush leaves none behind; and    *)
(* until then every pending callback has a thread or a task to see to it.  *)
(*                                                                         *)
(* BaseIndex hands its child from the thread that syncs it to the thread   *)
(* of those callbacks, for every tree of blocks and every order of moves   *)
(* of the tip, of events, of flushes, of crashes and of starts: the child  *)
(* gets its blocks in order, finds what it committed, can go back unless   *)
(* the block it committed was never flushed, and covers the tip once it is *)
(* synced and has drained its events.                                      *)
(***************************************************************************)
EXTENDS TaskRunner, IndexSync, TLAPS

(* Zenon proves what needs no arithmetic; the other steps name SMT.        *)
USE ZenonT(30)

(* Where a thread can stand, and where it executes no callback.            *)
Aside == {"top", "wait", "timed", "ready", "gone", "process", "repeat", "notify",
          "schedule", "maybe", "idle", "stop", "join", "drain", "flushed"}
Places == Aside \cup {"callback", "release"}

Runs(t) == where[t] \in {"callback", "release"}

(* m_are_callbacks_running is a lock: it is set while a thread executes a  *)
(* callback, of which there is one at a time.                              *)
SerialInv ==
    /\ where \in [TaskThread -> Places]
    /\ callback \in [TaskThread -> Seq(Callback)]
    /\ m_callbacks_pending \in Seq(Callback) /\ done \in Seq(Callback)
    /\ \A t \in TaskThread : Runs(t) => m_are_callbacks_running
    /\ \A t, u \in TaskThread : Runs(t) /\ Runs(u) => t = u
    /\ \A t \in TaskThread : where[t] = "callback" =>
           callback[t][1] \in Callback /\ callback[t] = <<callback[t][1]>>

InCallback == {callback[t][1] : t \in {u \in TaskThread : where[u] = "callback"}}

AbstractVars == <<m_callbacks_pending, InCallback, done>>

-----------------------------------------------------------------------------

(* A notification moves sleeping threads to the top of their loop.         *)
LEMMA Notified ==
    ASSUME NEW place \in [TaskThread -> Places], NEW new \in NotifyOneTask(place)
    PROVE  /\ new \in [TaskThread -> Places]
           /\ \A t \in TaskThread :
                 \/ new[t] = place[t]
                 \/ /\ place[t] \in {"wait", "timed", "ready"}
                    /\ new[t] \in {"top", "wait", "timed", "ready"}
<1> DEFINE sleepers == {t \in Service : place[t] \in {"wait", "timed", "ready"}}
<1>1. \A t \in TaskThread : Woken(place[t]) \in Places
  BY DEF Woken, Places, Aside
<1>2. CASE sleepers = {}
  <2>1. new = place
    BY <1>2 DEF NotifyOneTask
  <2> QED
    BY <2>1
<1>3. CASE sleepers # {}
  <2>1. PICK t \in sleepers : new = [place EXCEPT ![t] = Woken(place[t])]
    BY <1>3 DEF NotifyOneTask
  <2>2. t \in TaskThread /\ place[t] \in {"wait", "timed", "ready"}
    BY DEF TaskThread
  <2>3. Woken(place[t]) \in {"top", "ready"}
    BY <2>2 DEF Woken
  <2> QED
    BY <2>1, <2>2, <2>3, <1>1
<1> QED
  BY <1>2, <1>3

(* A step of the scheduler, which leaves the runner and the threads that   *)
(* execute a callback alone, changes nothing that subscribers see.         *)
LEMMA Quiet ==
    ASSUME SerialInv, where' \in [TaskThread -> Places],
           UNCHANGED <<callback, done, m_callbacks_pending,
                       m_are_callbacks_running>>,
           \A t \in TaskThread :
              \/ where'[t] = where[t]
              \/ ~Runs(t) /\ where'[t] \notin {"callback", "release"}
    PROVE  SerialInv' /\ UNCHANGED AbstractVars
<1>1. \A t \in TaskThread : /\ where'[t] = "callback" <=> where[t] = "callback"
                            /\ Runs(t)' <=> Runs(t)
  BY DEF Runs
<1>2. SerialInv'
  BY <1>1 DEF SerialInv
<1>3. InCallback' = InCallback
  BY <1>1 DEF InCallback
<1> QED
  BY <1>2, <1>3 DEF AbstractVars

(* The steps that take no callback and finish none.                        *)
LEMMA QuietSteps ==
    ASSUME SerialInv, NEW t \in TaskThread,
           \/ serviceQueue(t) \/ TimeReached(t) \/ SpuriousTaskWakeup(t)
           \/ Repeat(t) \/ schedule(t) \/ ScheduleNotify(t)
           \/ MaybeScheduleProcessQueue(t)
           \/ ProcessQueue(t) /\ UNCHANGED runnerVars
           \/ stop \/ CloserStep
    PROVE  SerialInv' /\ UNCHANGED AbstractVars
<1>1. where \in [TaskThread -> Places] /\ Closer \in TaskThread
  BY DEF SerialInv, TaskThread
<1>2. \A u \in TaskThread : Home(u) \in {"top", "drain", "idle"}
  BY DEF Home
<1>3. UNCHANGED <<callback, done, m_callbacks_pending, m_are_callbacks_running>>
  BY DEF serviceQueue, TimeReached, SpuriousTaskWakeup, Repeat, schedule,
         ScheduleNotify, MaybeScheduleProcessQueue, stop, CloserStep,
         StopNotify, flush, FlushContinue, runnerVars
<1>4. ASSUME NEW u \in TaskThread, NEW place, where' = [where EXCEPT ![u] = place],
             ~Runs(u), place \in Aside
      PROVE  SerialInv' /\ UNCHANGED AbstractVars
  <2>1. where' \in [TaskThread -> Places]
    BY <1>1, <1>4 DEF Places
  <2>2. \A v \in TaskThread :
            \/ where'[v] = where[v]
            \/ ~Runs(v) /\ where'[v] \notin {"callback", "release"}
    BY <1>1, <1>4 DEF Aside
  <2> QED
    BY <1>3, <2>1, <2>2, Quiet
<1>5. ASSUME NEW u \in TaskThread, NEW place,
             where' \in NotifyOneTask([where EXCEPT ![u] = place]),
             ~Runs(u), place \in Aside
      PROVE  SerialInv' /\ UNCHANGED AbstractVars
  <2>1. [where EXCEPT ![u] = place] \in [TaskThread -> Places]
    BY <1>1, <1>5 DEF Places
  <2>2. /\ where' \in [TaskThread -> Places]
        /\ \A v \in TaskThread :
              \/ where'[v] = [where EXCEPT ![u] = place][v]
              \/ /\ [where EXCEPT ![u] = place][v] \in {"wait", "timed", "ready"}
                 /\ where'[v] \in {"top", "wait", "timed", "ready"}
    BY <1>5, <2>1, Notified
  <2>3. \A v \in TaskThread :
            \/ where'[v] = where[v]
            \/ ~Runs(v) /\ where'[v] \notin {"callback", "release"}
    BY <1>1, <1>5, <2>2 DEF Runs, Aside
  <2> QED
    BY <1>3, <2>2, <2>3, Quiet
<1>6. CASE serviceQueue(t)
  <2>1. ~Runs(t)
    BY <1>6 DEF serviceQueue, Runs
  <2>2. \/ where' \in NotifyOneTask([where EXCEPT ![t] = "gone"])
        \/ where' = [where EXCEPT ![t] = "ready"]
        \/ where' = [where EXCEPT ![t] = "timed"]
        \/ where' = [where EXCEPT ![t] = "wait"]
    BY <1>6 DEF serviceQueue, Goto
  <2> QED
    BY <2>1, <2>2, <1>4, <1>5 DEF Aside
<1>7. CASE TimeReached(t)
  <2>1. ~Runs(t)
    BY <1>7 DEF TimeReached, Runs
  <2>2. \/ where' = [where EXCEPT ![t] = "top"]
        \/ where' = [where EXCEPT ![t] = "process"]
        \/ where' = [where EXCEPT ![t] = "repeat"]
    BY <1>7 DEF TimeReached, Goto
  <2> QED
    BY <2>1, <2>2, <1>4 DEF Aside
<1>8. CASE SpuriousTaskWakeup(t) \/ Repeat(t) \/ schedule(t)
  <2>1. ~Runs(t)
    BY <1>8 DEF SpuriousTaskWakeup, Repeat, schedule, Runs
  <2>2. \/ where' = [where EXCEPT ![t] = "top"]
        \/ where' = [where EXCEPT ![t] = "notify"]
    BY <1>8 DEF SpuriousTaskWakeup, Repeat, schedule, Goto
  <2> QED
    BY <2>1, <2>2, <1>4 DEF Aside
<1>9. CASE ScheduleNotify(t)
  <2>1. ~Runs(t) /\ where' \in NotifyOneTask([where EXCEPT ![t] = Home(t)])
    BY <1>9 DEF ScheduleNotify, Runs
  <2> QED
    BY <2>1, <1>2, <1>5 DEF Aside
<1>10. CASE MaybeScheduleProcessQueue(t) \/ (ProcessQueue(t) /\ UNCHANGED runnerVars)
  <2>1. ~Runs(t)
    BY <1>10 DEF MaybeScheduleProcessQueue, ProcessQueue, Runs
  <2>2. \/ where' = [where EXCEPT ![t] = Home(t)]
        \/ where' = [where EXCEPT ![t] = "schedule"]
    <3>1. ProcessQueue(t) /\ UNCHANGED runnerVars => Goto(t, Home(t))
      BY <1>1, SMT DEF ProcessQueue, runnerVars
    <3> QED
      BY <3>1, <1>10 DEF MaybeScheduleProcessQueue, Goto
  <2> QED
    BY <2>1, <2>2, <1>2, <1>4 DEF Aside
<1>11. CASE stop \/ flush \/ FlushContinue
  <2>1. ~Runs(Closer)
    BY <1>11 DEF stop, flush, FlushContinue, Runs
  <2>2. \/ where' = [where EXCEPT ![Closer] = "stop"]
        \/ where' = [where EXCEPT ![Closer] = "process"]
        \/ where' = [where EXCEPT ![Closer] = "flushed"]
    BY <1>11 DEF stop, flush, FlushContinue, Goto
  <2> QED
    BY <2>1, <2>2, <1>1, <1>4 DEF Aside
<1>12. CASE StopNotify
  <2>1. where' = [u \in TaskThread |-> IF u = Closer THEN "join" ELSE Woken(where[u])]
    BY <1>12 DEF StopNotify
  <2>2. \A u \in TaskThread :
            \/ Woken(where[u]) = where[u]
            \/ ~Runs(u) /\ Woken(where[u]) = "top"
    BY DEF Woken, Runs
  <2>3. ~Runs(Closer)
    BY <1>12 DEF StopNotify, Runs
  <2>4. \A u \in TaskThread :
            \/ where'[u] = where[u]
            \/ ~Runs(u) /\ where'[u] \notin {"callback", "release"}
    BY <2>1, <2>2, <2>3
  <2>5. \A u \in TaskThread : Woken(where[u]) \in Places
    BY <2>2, <1>1 DEF Places, Aside
  <2>6. where' \in [TaskThread -> Places]
    BY <2>1, <2>5 DEF Places, Aside
  <2> QED
    BY <2>4, <2>6, <1>3, Quiet
<1> QED
  BY <1>6, <1>7, <1>8, <1>9, <1>10, <1>11, <1>12 DEF CloserStep

(* insert appends a callback and executes none.                            *)
LEMMA InsertStep ==
    ASSUME SerialInv, NEW t \in Producer, NEW c \in Callback, InsertCallback(t, c)
    PROVE  SerialInv' /\ Abstract!Insert(c)
<1>1. /\ t \in TaskThread /\ where[t] = "idle"
      /\ where' = [where EXCEPT ![t] = "maybe"]
      /\ m_callbacks_pending' = Append(m_callbacks_pending, c)
      /\ UNCHANGED <<m_are_callbacks_running, callback, done>>
  BY DEF InsertCallback, Goto, TaskThread
<1>2. m_callbacks_pending' \in Seq(Callback)
  BY <1>1, SMT DEF SerialInv
<1>3. where' \in [TaskThread -> Places]
  BY <1>1 DEF SerialInv, Places, Aside
<1>4. \A u \in TaskThread : /\ where'[u] = "callback" <=> where[u] = "callback"
                            /\ Runs(u)' <=> Runs(u)
  BY <1>1 DEF SerialInv, Runs
<1>5. SerialInv'
  BY <1>1, <1>2, <1>3, <1>4 DEF SerialInv
<1>6. InCallback' = InCallback
  BY <1>1, <1>4 DEF InCallback
<1> QED
  BY <1>1, <1>5, <1>6 DEF Abstract!Insert, InCallback

(* A thread that finds m_are_callbacks_running unset executes the first    *)
(* callback: no other one does.                                            *)
LEMMA StartStep ==
    ASSUME SerialInv, NEW t \in TaskThread, ProcessQueue(t), ~UNCHANGED runnerVars
    PROVE  SerialInv' /\ Abstract!Start
<1> DEFINE c == Head(m_callbacks_pending)
<1>1. /\ ~m_are_callbacks_running /\ m_callbacks_pending # <<>>
      /\ m_are_callbacks_running' = TRUE
      /\ callback' = [callback EXCEPT ![t] = <<c>>]
      /\ m_callbacks_pending' = Tail(m_callbacks_pending)
      /\ where' = [where EXCEPT ![t] = "callback"]
      /\ UNCHANGED <<inserted, done>>
  BY DEF ProcessQueue, Goto
<1>2. c \in Callback /\ m_callbacks_pending' \in Seq(Callback)
  BY <1>1, SMT DEF SerialInv
<1> HIDE DEF c
<1>3. \A u \in TaskThread : ~Runs(u)
  BY <1>1 DEF SerialInv
<1>4. /\ where' \in [TaskThread -> Places] /\ where'[t] = "callback"
      /\ \A u \in TaskThread \ {t} : where'[u] = where[u]
  BY <1>1 DEF SerialInv, Places
<1>5. <<c>> \in Seq(Callback) /\ <<c>>[1] = c
  BY <1>2, SMT
<1>6. callback' \in [TaskThread -> Seq(Callback)] /\ callback'[t] = <<c>>
  BY <1>1, <1>5 DEF SerialInv
<1>7. \A u \in TaskThread : Runs(u)' <=> u = t
  BY <1>3, <1>4 DEF Runs
<1>8. \A u \in TaskThread : where'[u] = "callback" <=> u = t
  BY <1>3, <1>4 DEF Runs
<1>9. SerialInv'
  BY <1>1, <1>2, <1>4, <1>5, <1>6, <1>7, <1>8 DEF SerialInv
<1>10. InCallback = {}
  BY <1>3 DEF InCallback, Runs
<1>11. InCallback' = {c}
  BY <1>5, <1>6, <1>8 DEF InCallback
<1> QED
  BY <1>1, <1>9, <1>10, <1>11 DEF Abstract!Start, InCallback, c

(* The callback has been executed.                                         *)
LEMMA FinishStep ==
    ASSUME SerialInv, NEW t \in TaskThread, RunCallback(t)
    PROVE  SerialInv' /\ \E c \in Callback : Abstract!Finish(c)
<1>1. /\ where[t] = "callback" /\ where' = [where EXCEPT ![t] = "release"]
      /\ done' = done \o callback[t]
      /\ UNCHANGED <<m_callbacks_pending, m_are_callbacks_running, callback>>
  BY DEF RunCallback, Goto
<1>2. PICK c \in Callback : c = callback[t][1] /\ callback[t] = <<c>>
  BY <1>1 DEF SerialInv
<1>3. done' = Append(done, c) /\ done' \in Seq(Callback)
  BY <1>1, <1>2, SMT DEF SerialInv
<1>4. /\ where' \in [TaskThread -> Places] /\ where'[t] = "release"
      /\ \A u \in TaskThread \ {t} : where'[u] = where[u]
  BY <1>1 DEF SerialInv, Places
<1>5. \A u \in TaskThread : Runs(u) <=> u = t
  BY <1>1 DEF SerialInv, Runs
<1>6. \A u \in TaskThread : (Runs(u)' <=> u = t) /\ where'[u] # "callback"
  BY <1>4, <1>5 DEF Runs
<1>7. SerialInv'
  BY <1>1, <1>3, <1>4, <1>5, <1>6 DEF SerialInv
<1>8. InCallback = {c}
  BY <1>1, <1>2, <1>5 DEF InCallback, Runs
<1>9. InCallback' = {}
  BY <1>6 DEF InCallback
<1>10. Abstract!Finish(c)
  BY <1>1, <1>3, <1>8, <1>9 DEF Abstract!Finish, InCallback
<1> QED
  BY <1>7, <1>10

(* ~RAIICallbacksRunning gives the lock back.                              *)
LEMMA ReleaseStep ==
    ASSUME SerialInv, NEW t \in TaskThread, CallbacksRunning(t)
    PROVE  SerialInv' /\ UNCHANGED AbstractVars
<1>1. /\ where[t] = "release" /\ where' = [where EXCEPT ![t] = "maybe"]
      /\ callback' = [callback EXCEPT ![t] = <<>>]
      /\ UNCHANGED <<m_callbacks_pending, done>>
  BY DEF CallbacksRunning, Goto
<1>2. \A u \in TaskThread : Runs(u) <=> u = t
  BY <1>1 DEF SerialInv, Runs
<1>3. /\ where' \in [TaskThread -> Places] /\ where'[t] = "maybe"
      /\ \A u \in TaskThread \ {t} : where'[u] = where[u]
  BY <1>1 DEF SerialInv, Places, Aside
<1>4. \A u \in TaskThread : ~Runs(u)' /\ where'[u] # "callback" /\ where[u] # "callback"
  BY <1>1, <1>2, <1>3 DEF Runs
<1>5. callback' \in [TaskThread -> Seq(Callback)]
  BY <1>1, SMT DEF SerialInv
<1>6. SerialInv'
  BY <1>1, <1>3, <1>4, <1>5 DEF SerialInv
<1>7. InCallback = {} /\ InCallback' = {}
  BY <1>4 DEF InCallback
<1> QED
  BY <1>1, <1>6, <1>7 DEF AbstractVars

(* Every step keeps the invariant and is a step of the single thread.      *)
LEMMA StepIsAbstract ==
    ASSUME SerialInv, [TaskRunnerNext]_taskRunnerVars
    PROVE  SerialInv' /\ [Abstract!CallbackQueueNext]_(Abstract!callbackQueueVars)
<1>1. UNCHANGED AbstractVars => UNCHANGED Abstract!callbackQueueVars
  BY DEF AbstractVars, InCallback, Abstract!callbackQueueVars
<1>2. ASSUME NEW t \in TaskThread, TaskStep(t)
      PROVE  SerialInv' /\ [Abstract!CallbackQueueNext]_(Abstract!callbackQueueVars)
  <2>1. CASE ProcessQueue(t) /\ ~UNCHANGED runnerVars
    BY <2>1, StartStep DEF Abstract!CallbackQueueNext
  <2>2. CASE RunCallback(t)
    BY <2>2, FinishStep DEF Abstract!CallbackQueueNext
  <2>3. CASE CallbacksRunning(t)
    BY <2>3, <1>1, ReleaseStep
  <2> QED
    BY <1>2, <2>1, <2>2, <2>3, <1>1, QuietSteps DEF TaskStep
<1>3. ASSUME NEW t \in Service, SpuriousTaskWakeup(t)
      PROVE  SerialInv' /\ [Abstract!CallbackQueueNext]_(Abstract!callbackQueueVars)
  BY <1>1, <1>3, QuietSteps DEF TaskThread
<1>4. ASSUME NEW t \in Producer, NEW c \in Callback, InsertCallback(t, c)
      PROVE  SerialInv' /\ [Abstract!CallbackQueueNext]_(Abstract!callbackQueueVars)
  BY <1>4, InsertStep DEF Abstract!CallbackQueueNext
<1>5. CASE stop \/ CloserStep
  BY <1>1, <1>5, QuietSteps DEF TaskThread
<1>6. CASE UNCHANGED taskRunnerVars
  <2>1. UNCHANGED <<where, callback, done, m_callbacks_pending,
                    m_are_callbacks_running>>
    BY <1>6 DEF taskRunnerVars
  <2> QED
    BY <2>1, <1>1, Quiet DEF SerialInv
<1> QED
  BY <1>2, <1>3, <1>4, <1>5, <1>6 DEF TaskRunnerNext

(* In the beginning no thread executes a callback.                         *)
LEMMA SerialInit ==
    ASSUME TaskRunnerInit
    PROVE  SerialInv /\ Abstract!CallbackQueueInit
<1>1. \A t \in TaskThread : where[t] \in {"top", "idle", "drain"}
  BY DEF TaskRunnerInit, Home
<1>2. where \in [TaskThread -> Places]
  BY <1>1 DEF TaskRunnerInit, Places, Aside
<1>3. \A t \in TaskThread : ~Runs(t) /\ where[t] # "callback"
  BY <1>1 DEF Runs
<1>4. <<>> \in Seq(Callback)
  BY SMT
<1>5. callback \in [TaskThread -> Seq(Callback)]
  BY <1>4 DEF TaskRunnerInit
<1>6. SerialInv
  BY <1>2, <1>3, <1>4, <1>5 DEF SerialInv, TaskRunnerInit
<1> QED
  BY <1>3, <1>6 DEF TaskRunnerInit, Abstract!CallbackQueueInit

(* "Callbacks are executed serially" (scheduler.h): SerialTaskRunner       *)
(* implements a single thread that executes them in the order of their     *)
(* insertion.                                                              *)
THEOREM RunnerImplementsOneThread == TaskRunnerSpec => RunsLikeOneThread
<1>1. TaskRunnerInit => SerialInv /\ Abstract!CallbackQueueInit
  BY SerialInit
<1>2. SerialInv /\ [TaskRunnerNext]_taskRunnerVars =>
          SerialInv' /\ [Abstract!CallbackQueueNext]_(Abstract!callbackQueueVars)
  BY StepIsAbstract
<1> QED
  BY <1>1, <1>2, PTL DEF TaskRunnerSpec, RunsLikeOneThread,
                         Abstract!CallbackQueueSpec

-----------------------------------------------------------------------------

(* Where the closer stands from the first call of ProcessQueue in flush.   *)
Flushing == {"process", "callback", "release", "maybe", "schedule", "notify",
             "drain", "flushed"}

(* Once the closer flushes, the service threads have returned, and nothing *)
(* is inserted any more.                                                   *)
FlushInv ==
    /\ where \in [TaskThread -> Places]
    /\ where[Closer] \in {"idle", "stop", "join"} \cup Flushing
    /\ where[Closer] \in Flushing => \A t \in Service : where[t] = "gone"
    /\ where[Closer] = "flushed" => m_callbacks_pending = <<>>

(* A thread moves on, as do sleepers it notifies, and nothing is inserted. *)
LEMMA FlushMove ==
    ASSUME FlushInv, NEW t \in TaskThread, NEW place \in Places, where[t] # "gone",
           where[t] # "flushed",
           \/ where' = [where EXCEPT ![t] = place]
           \/ where' \in NotifyOneTask([where EXCEPT ![t] = place]),
           t = Closer => place \in Flushing /\ where[t] \in Flushing,
           place = "flushed" => m_callbacks_pending = <<>>,
           m_callbacks_pending = <<>> => m_callbacks_pending' = <<>>
    PROVE  FlushInv'
<1> DEFINE new == [where EXCEPT ![t] = place]
<1>1. /\ new \in [TaskThread -> Places] /\ new[t] = place
      /\ \A u \in TaskThread \ {t} : new[u] = where[u]
  BY DEF FlushInv
<1>2. where' = new \/ where' \in NotifyOneTask(new)
  OBVIOUS
<1>3. Service \subseteq TaskThread /\ Closer \in TaskThread /\ Closer \notin Service
  BY TaskRunnerAssumption DEF TaskThread
<1> HIDE DEF new
<1>4. /\ where' \in [TaskThread -> Places]
      /\ \A u \in TaskThread :
            \/ where'[u] = new[u]
            \/ new[u] \in {"wait", "timed", "ready"}
  BY <1>1, <1>2, Notified
<1>5. where'[Closer] = new[Closer]
  <2>1. new[Closer] \notin {"wait", "timed", "ready"}
    BY <1>1, <1>3 DEF FlushInv, Flushing
  <2> QED
    BY <2>1, <1>3, <1>4
<1>6. new[Closer] \in Flushing => where[Closer] \in Flushing
  BY <1>1, <1>3
<1>7. ASSUME new[Closer] \in Flushing, NEW u \in Service
      PROVE  where'[u] = "gone"
  <2>1. where[u] = "gone"
    BY <1>6, <1>7 DEF FlushInv
  <2>2. new[u] = "gone"
    BY <2>1, <1>1, <1>3
  <2> QED
    BY <2>2, <1>3, <1>4
<1>8. where'[Closer] \in {"idle", "stop", "join"} \cup Flushing
  BY <1>1, <1>3, <1>5 DEF FlushInv
<1>9. where'[Closer] = "flushed" => m_callbacks_pending' = <<>>
  BY <1>1, <1>3, <1>5 DEF FlushInv
<1> QED
  BY <1>4, <1>5, <1>7, <1>8, <1>9 DEF FlushInv

(* Every step of the scheduler and the task runner keeps FlushInv.         *)
LEMMA FlushStep ==
    ASSUME FlushInv, [TaskRunnerNext]_taskRunnerVars
    PROVE  FlushInv'
<1>1. /\ Service \subseteq TaskThread /\ Producer \subseteq TaskThread
      /\ Closer \in TaskThread /\ Closer \notin Service \cup Producer
  BY TaskRunnerAssumption DEF TaskThread
<1>2. \A t \in TaskThread : /\ Home(t) \in {"top", "drain", "idle"}
                            /\ t = Closer => Home(t) = "drain"
  BY <1>1 DEF Home
<1>3. ASSUME NEW t \in TaskThread, TaskStep(t)
      PROVE  FlushInv'
  <2>1. CASE serviceQueue(t) \/ TimeReached(t) \/ Repeat(t)
    <3>1. t # Closer /\ where[t] \in {"top", "timed", "ready", "repeat"}
      BY <2>1 DEF serviceQueue, TimeReached, Repeat, FlushInv, Flushing
    <3>2. PICK place \in {"gone", "ready", "timed", "wait", "top", "process",
                          "repeat", "notify"} :
              \/ where' = [where EXCEPT ![t] = place]
              \/ where' \in NotifyOneTask([where EXCEPT ![t] = place])
      BY <2>1 DEF serviceQueue, TimeReached, Repeat, Goto
    <3>3. UNCHANGED m_callbacks_pending
      BY <2>1 DEF serviceQueue, TimeReached, Repeat, runnerVars
    <3>4. place \in Places /\ place # "flushed"
      BY DEF Places, Aside
    <3> QED
      BY <3>1, <3>2, <3>3, <3>4, FlushMove
  <2>2. CASE schedule(t) \/ ScheduleNotify(t) \/ MaybeScheduleProcessQueue(t)
    <3>1. where[t] \in {"schedule", "notify", "maybe"}
      BY <2>2 DEF schedule, ScheduleNotify, MaybeScheduleProcessQueue
    <3>2. PICK place \in {"notify", "schedule", Home(t)} :
              \/ where' = [where EXCEPT ![t] = place]
              \/ where' \in NotifyOneTask([where EXCEPT ![t] = place])
      BY <2>2 DEF schedule, ScheduleNotify, MaybeScheduleProcessQueue, Goto
    <3>3. UNCHANGED m_callbacks_pending
      BY <2>2 DEF schedule, ScheduleNotify, MaybeScheduleProcessQueue, runnerVars
    <3>4. place \in {"notify", "schedule", "top", "drain", "idle"}
      BY <1>2
    <3>5. t = Closer => place \in Flushing /\ where[t] \in Flushing
      BY <1>2, <3>1 DEF Flushing
    <3>6. place \in Places /\ place # "flushed"
      BY <3>4 DEF Places, Aside
    <3> QED
      BY <3>1, <3>2, <3>3, <3>5, <3>6, FlushMove
  <2>3. CASE ProcessQueue(t) \/ RunCallback(t) \/ CallbacksRunning(t)
    <3>1. where[t] \in {"process", "callback", "release"}
      BY <2>3 DEF ProcessQueue, RunCallback, CallbacksRunning
    <3>2. PICK place \in {"callback", "release", "maybe", Home(t)} :
              where' = [where EXCEPT ![t] = place]
      BY <2>3 DEF ProcessQueue, RunCallback, CallbacksRunning, Goto
    <3>3. m_callbacks_pending = <<>> => m_callbacks_pending' = <<>>
      BY <2>3 DEF ProcessQueue, RunCallback, CallbacksRunning, runnerVars
    <3>4. place \in {"callback", "release", "maybe", "top", "drain", "idle"}
      BY <1>2
    <3>5. t = Closer => place \in Flushing /\ where[t] \in Flushing
      BY <1>2, <3>1 DEF Flushing
    <3>6. place \in Places /\ place # "flushed"
      BY <3>4 DEF Places, Aside
    <3> QED
      BY <3>1, <3>2, <3>3, <3>5, <3>6, FlushMove
  <2> QED
    BY <1>3, <2>1, <2>2, <2>3 DEF TaskStep
<1>4. ASSUME NEW t \in Service, SpuriousTaskWakeup(t)
      PROVE  FlushInv'
  <2>1. /\ t \in TaskThread /\ t # Closer /\ where[t] \in {"wait", "timed"}
        /\ where' = [where EXCEPT ![t] = "top"] /\ UNCHANGED m_callbacks_pending
    BY <1>1, <1>4 DEF SpuriousTaskWakeup, Goto, runnerVars
  <2>2. "top" \in Places
    BY DEF Places, Aside
  <2> QED
    BY <2>1, <2>2, FlushMove
<1>5. ASSUME NEW t \in Producer, NEW c \in Callback, InsertCallback(t, c)
      PROVE  FlushInv'
  <2>1. /\ t \in TaskThread /\ t # Closer
        /\ where[Closer] \in {"idle", "stop", "join"}
        /\ where' = [where EXCEPT ![t] = "maybe"]
    BY <1>1, <1>5 DEF InsertCallback, Goto
  <2>2. where' \in [TaskThread -> Places] /\ where'[Closer] = where[Closer]
    BY <2>1, <1>1 DEF FlushInv, Places, Aside
  <2> QED
    BY <2>1, <2>2 DEF FlushInv, Flushing
<1>6. CASE stop
  <2>1. where' = [where EXCEPT ![Closer] = "stop"]
    BY <1>6 DEF stop, Goto
  <2>2. where' \in [TaskThread -> Places] /\ where'[Closer] = "stop"
    BY <2>1, <1>1 DEF FlushInv, Places, Aside
  <2> QED
    BY <2>2 DEF FlushInv, Flushing
<1>7. CASE StopNotify
  <2>1. where' = [t \in TaskThread |->
                      IF t = Closer THEN "join" ELSE Woken(where[t])]
    BY <1>7 DEF StopNotify
  <2>2. \A t \in TaskThread : Woken(where[t]) \in Places
    BY DEF Woken, FlushInv, Places, Aside
  <2>3. where' \in [TaskThread -> Places] /\ where'[Closer] = "join"
    BY <2>1, <2>2, <1>1 DEF Places, Aside
  <2> QED
    BY <2>3 DEF FlushInv, Flushing
<1>8. CASE flush
  <2>1. /\ where' = [where EXCEPT ![Closer] = "process"]
        /\ \A t \in Service : where[t] = "gone"
    BY <1>8 DEF flush, Goto
  <2>2. where' \in [TaskThread -> Places] /\ where'[Closer] = "process"
    BY <2>1, <1>1 DEF FlushInv, Places, Aside
  <2>3. \A t \in Service : where'[t] = "gone"
    BY <2>1, <1>1 DEF FlushInv
  <2> QED
    BY <2>2, <2>3 DEF FlushInv, Flushing
<1>9. CASE FlushContinue
  <2>1. /\ where[Closer] = "drain" /\ UNCHANGED m_callbacks_pending
        /\ \/ where' = [where EXCEPT ![Closer] = "process"]
           \/ /\ where' = [where EXCEPT ![Closer] = "flushed"]
              /\ m_callbacks_pending = <<>>
    BY <1>9 DEF FlushContinue, Goto, runnerVars
  <2>2. /\ "process" \in Places /\ "flushed" \in Places
        /\ {"process", "flushed", "drain"} \subseteq Flushing
    BY DEF Places, Aside, Flushing
  <2>3. CASE where' = [where EXCEPT ![Closer] = "process"]
    BY <2>1, <2>2, <2>3, <1>1, FlushMove
  <2>4. CASE where' = [where EXCEPT ![Closer] = "flushed"] /\ m_callbacks_pending = <<>>
    BY <2>1, <2>2, <2>4, <1>1, FlushMove
  <2> QED
    BY <2>1, <2>3, <2>4
<1>10. CASE UNCHANGED taskRunnerVars
  BY <1>10 DEF taskRunnerVars, FlushInv
<1> QED
  BY <1>3, <1>4, <1>5, <1>6, <1>7, <1>8, <1>9, <1>10 DEF TaskRunnerNext, CloserStep

(* flush executes what is left when no service thread runs any more        *)
(* (assert(!m_scheduler.AreThreadsServicingQueue()), scheduler.cpp), and   *)
(* returns with nothing pending.                                           *)
THEOREM FlushLeavesNothing == TaskRunnerSpec => []FlushDrains
<1>1. TaskRunnerInit => FlushInv
  <2> SUFFICES ASSUME TaskRunnerInit PROVE FlushInv
    OBVIOUS
  <2>1. \A t \in TaskThread : where[t] \in {"top", "idle", "drain"}
    BY DEF TaskRunnerInit, Home
  <2>2. where \in [TaskThread -> Places]
    BY <2>1 DEF TaskRunnerInit, Places, Aside
  <2>3. where[Closer] = "idle"
    BY DEF TaskRunnerInit, TaskThread
  <2> QED
    BY <2>2, <2>3 DEF FlushInv, Flushing
<1>2. FlushInv /\ [TaskRunnerNext]_taskRunnerVars => FlushInv'
  BY FlushStep
<1>3. FlushInv => FlushDrains
  BY DEF FlushInv, FlushDrains, Flushing
<1> QED
  BY <1>1, <1>2, <1>3, PTL DEF TaskRunnerSpec

-----------------------------------------------------------------------------

(* Where a thread is about to look at the pending callbacks again, and     *)
(* where a service thread does not look at taskQueue.                      *)
Caring == {"maybe", "schedule", "process", "callback", "release"}
Asleep == {"wait", "timed", "gone"}

(* No callback is forgotten: one that is pending has a task due that will  *)
(* process it, or a thread that has yet to look whether one is needed,     *)
(* although MaybeScheduleProcessQueue and ProcessQueue return when they    *)
(* find callbacks running.  And no task that is due is slept over: a       *)
(* service thread is awake, or a schedule that has left its critical       *)
(* section still owes the notification.                                    *)
NoneForgotten ==
    /\ m_callbacks_pending # <<>> =>
           due > 0 \/ \E t \in TaskThread : where[t] \in Caring
    /\ due > 0 /\ ~stopRequested /\ Service # {} =>
           \/ \E t \in Service : where[t] \notin Asleep
           \/ \E t \in TaskThread : where[t] = "notify"

(* m_are_callbacks_running is only set while some thread will reset it,    *)
(* and the service threads return only when they are asked to.             *)
CareInv ==
    /\ due \in Nat
    /\ m_are_callbacks_running => \E t \in TaskThread : Runs(t)
    /\ \A t \in TaskThread : where[t] = "gone" => stopRequested
    /\ NoneForgotten

(* A thread moves on, as does a sleeper it notifies.                       *)
LEMMA CareMove ==
    ASSUME where \in [TaskThread -> Places], CareInv,
           NEW t \in TaskThread, NEW place \in Places, NEW told \in BOOLEAN,
           IF told THEN where' \in NotifyOneTask([where EXCEPT ![t] = place])
                   ELSE where' = [where EXCEPT ![t] = place],
           UNCHANGED stopRequested, due' \in Nat, place = "gone" => stopRequested,
           \/ place \in Caring \/ due' > 0 \/ m_callbacks_pending' = <<>>
           \/ \E u \in TaskThread \ {t} : Runs(u)
           \/ /\ where[t] \notin Caring
              /\ m_callbacks_pending' # <<>> => m_callbacks_pending # <<>>
              /\ due > 0 => due' > 0,
           \/ place = "notify"
           \/ /\ due' > 0 => due > 0
              /\ where[t] # "notify" \/ told
              /\ t \in Service /\ due' > 0 /\ ~stopRequested => place \notin Asleep,
           m_are_callbacks_running' =>
               \/ place \in {"callback", "release"}
               \/ m_are_callbacks_running /\ ~Runs(t)
    PROVE  CareInv'
<1> DEFINE new == [where EXCEPT ![t] = place]
           Sleeper(u) == new[u] \in {"wait", "timed", "ready"}
<1>1. /\ new \in [TaskThread -> Places] /\ new[t] = place
      /\ \A u \in TaskThread \ {t} : new[u] = where[u]
  OBVIOUS
<1>2. Service \subseteq TaskThread
  BY DEF TaskThread
<1>3. \A u \in TaskThread : where'[u] = new[u] \/ (Sleeper(u) /\ where'[u] \in {"top", "ready"})
  <2>1. CASE ~told
    BY <2>1
  <2>2. CASE told
    <3>1. CASE {u \in Service : Sleeper(u)} = {}
      <4>1. where' = new
        BY <2>2, <3>1 DEF NotifyOneTask
      <4> QED BY <4>1
    <3>2. CASE {u \in Service : Sleeper(u)} # {}
      <4>1. PICK s \in {u \in Service : Sleeper(u)} : where' = [new EXCEPT ![s] = Woken(new[s])]
        BY <2>2, <3>2 DEF NotifyOneTask
      <4>2. Woken(new[s]) \in {"top", "ready"}
        BY <4>1 DEF Woken
      <4> QED BY <1>1, <1>2, <4>1, <4>2
    <3> QED BY <3>1, <3>2
  <2> QED BY <2>1, <2>2
<1>4. \A u \in TaskThread : /\ new[u] \in Caring \cup {"notify", "gone"} => where'[u] = new[u]
                            /\ where'[u] \in Caring \cup {"notify", "gone"} => where'[u] = new[u]
                            /\ new[u] \notin Asleep => where'[u] \notin Asleep
  BY <1>3 DEF Caring, Asleep
<1> HIDE DEF new
<1>5. m_are_callbacks_running' => \E u \in TaskThread : Runs(u)'
  <2> SUFFICES ASSUME m_are_callbacks_running' PROVE \E u \in TaskThread : Runs(u)'
    OBVIOUS
  <2>1. CASE place \in {"callback", "release"}
    BY <1>1, <1>4, <2>1 DEF Runs, Caring
  <2>2. CASE m_are_callbacks_running /\ ~Runs(t)
    <3>1. PICK u \in TaskThread : Runs(u)
      BY <2>2 DEF CareInv
    <3> QED BY <1>1, <1>4, <2>2, <3>1 DEF Runs, Caring
  <2> QED BY <2>1, <2>2
<1>6. \A u \in TaskThread : where'[u] = "gone" => stopRequested'
  <2> SUFFICES ASSUME NEW u \in TaskThread, where'[u] = "gone" PROVE stopRequested
    OBVIOUS
  <2>1. new[u] = "gone"
    BY <1>4
  <2> QED BY <1>1, <2>1 DEF CareInv
<1>7. ASSUME m_callbacks_pending' # <<>>
      PROVE  due' > 0 \/ \E u \in TaskThread : where'[u] \in Caring
  <2>1. CASE place \in Caring
    BY <1>1, <1>4, <2>1
  <2>2. CASE \E u \in TaskThread \ {t} : Runs(u)
    <3>1. PICK u \in TaskThread \ {t} : Runs(u)
      BY <2>2
    <3> QED BY <1>1, <1>4, <3>1 DEF Runs, Caring
  <2>3. CASE /\ where[t] \notin Caring
             /\ m_callbacks_pending' # <<>> => m_callbacks_pending # <<>>
             /\ due > 0 => due' > 0
    <3>1. due > 0 \/ \E u \in TaskThread : where[u] \in Caring
      BY <1>7, <2>3 DEF CareInv, NoneForgotten
    <3>2. CASE due > 0
      BY <2>3, <3>2
    <3>3. ASSUME NEW u \in TaskThread, where[u] \in Caring PROVE where'[u] \in Caring
      BY <1>1, <1>4, <2>3, <3>3
    <3> QED BY <3>1, <3>2, <3>3
  <2> QED BY <1>7, <2>1, <2>2, <2>3
<1>8. ASSUME due' > 0, ~stopRequested', Service # {}
      PROVE  \/ \E u \in Service : where'[u] \notin Asleep
             \/ \E u \in TaskThread : where'[u] = "notify"
  <2>1. CASE place = "notify"
    BY <1>1, <1>4, <2>1
  <2>2. CASE /\ due' > 0 => due > 0
             /\ where[t] # "notify" \/ told
             /\ t \in Service /\ due' > 0 /\ ~stopRequested => place \notin Asleep
    <3>1. \/ \E u \in Service : where[u] \notin Asleep
          \/ \E u \in TaskThread : where[u] = "notify"
      BY <1>8, <2>2 DEF CareInv, NoneForgotten
    <3>2. ASSUME NEW u \in Service, where[u] \notin Asleep PROVE where'[u] \notin Asleep
      <4>1. new[u] \notin Asleep
        BY <1>1, <1>2, <1>8, <2>2, <3>2
      <4> QED BY <1>2, <1>4, <4>1
    <3>3. ASSUME NEW u \in TaskThread \ {t}, where[u] = "notify" PROVE where'[u] = "notify"
      BY <1>1, <1>4, <3>3
    <3>4. ASSUME where[t] = "notify" PROVE \E u \in Service : where'[u] \notin Asleep
      <4>1. where' \in NotifyOneTask(new)
        BY <2>2, <3>4 DEF new
      <4>2. CASE {u \in Service : Sleeper(u)} = {}
        <5>1. PICK s \in Service : TRUE
          BY <1>8
        <5>2. new[s] \notin {"wait", "timed", "ready"} /\ s \in TaskThread
          BY <1>2, <4>2
        <5>3. new[s] # "gone"
          <6>1. CASE s = t
            BY <1>1, <1>8, <6>1
          <6>2. CASE s # t
            BY <1>1, <1>8, <5>2, <6>2 DEF CareInv
          <6> QED BY <6>1, <6>2
        <5>4. new[s] \notin Asleep
          BY <5>2, <5>3 DEF Asleep
        <5> QED BY <1>4, <5>2, <5>4
      <4>3. CASE {u \in Service : Sleeper(u)} # {}
        <5>1. PICK s \in {u \in Service : Sleeper(u)} : where' = [new EXCEPT ![s] = Woken(new[s])]
          BY <4>1, <4>3 DEF NotifyOneTask
        <5>2. Woken(new[s]) \in {"top", "ready"}
          BY <5>1 DEF Woken
        <5>3. where'[s] \notin Asleep
          BY <1>1, <1>2, <5>1, <5>2 DEF Asleep
        <5> QED BY <5>1, <5>3
      <4> QED BY <4>2, <4>3
    <3> QED BY <3>1, <3>2, <3>3, <3>4
  <2> QED BY <2>1, <2>2
<1> QED BY <1>5, <1>6, <1>7, <1>8 DEF CareInv, NoneForgotten

(* Every step keeps it.                                                    *)
LEMMA NextCare ==
    ASSUME SerialInv, CareInv, [TaskRunnerNext]_taskRunnerVars
    PROVE  CareInv'
<1>1. /\ where \in [TaskThread -> Places] /\ Closer \in TaskThread
      /\ Service \subseteq TaskThread /\ Producer \subseteq TaskThread
      /\ Closer \notin Service /\ Service \cap Producer = {}
  BY TaskRunnerAssumption DEF SerialInv, TaskThread
<1>2. due \in Nat
  BY DEF CareInv
<1>3. TRUE \in BOOLEAN /\ FALSE \in BOOLEAN
  OBVIOUS
<1>4. ASSUME NEW t \in TaskThread
      PROVE  /\ Home(t) \in {"top", "drain", "idle"} /\ Home(t) \in Places
             /\ Home(t) \notin Asleep /\ Home(t) # "gone"
  BY DEF Home, Places, Aside, Asleep
<1>5. /\ {"top", "ready", "timed", "wait", "gone", "process", "repeat", "notify", "maybe",
           "schedule", "callback", "release", "stop", "flushed"} \subseteq Places
      /\ \A x \in {"top", "ready", "process", "repeat", "notify", "maybe", "schedule",
                   "callback", "release"} : x \notin Asleep
  BY DEF Places, Aside, Asleep
<1>6. \A t \in TaskThread : where[t] \notin Caring => ~Runs(t)
  BY DEF Caring, Runs
<1>7. m_are_callbacks_running => \E u \in TaskThread : Runs(u)
  BY DEF CareInv
<1>8. ASSUME NEW t \in TaskThread, serviceQueue(t) PROVE CareInv'
  <2>1. /\ where[t] = "top"
        /\ UNCHANGED <<due, stopRequested, m_callbacks_pending, m_are_callbacks_running>>
    BY <1>8 DEF serviceQueue, schedulerVars, runnerVars
  <2>2. where[t] \notin Caring /\ where[t] # "notify"
    BY <2>1 DEF Caring
  <2>3. CASE stopRequested
    <3>1. where' \in NotifyOneTask([where EXCEPT ![t] = "gone"])
      BY <1>8, <2>3 DEF serviceQueue
    <3> QED BY <1>1, <1>2, <1>3, <1>5, <1>6, <2>1, <2>2, <2>3, <3>1, CareMove
  <2>4. CASE ~stopRequested
    <3>1. PICK place \in {"ready", "timed", "wait"} :
              where' = [where EXCEPT ![t] = place] /\ (due > 0 => place = "ready")
      BY <1>8, <2>4 DEF serviceQueue, Goto
    <3>2. place \in Places /\ place # "gone" /\ (due' > 0 => place \notin Asleep)
      BY <1>5, <2>1, <3>1
    <3> QED BY <1>1, <1>2, <1>3, <1>6, <2>1, <2>2, <3>1, <3>2, CareMove
  <2> QED BY <2>3, <2>4
<1>9. ASSUME NEW t \in TaskThread, TimeReached(t) PROVE CareInv'
  <2>1. /\ where[t] \in {"timed", "ready"}
        /\ UNCHANGED <<stopRequested, m_callbacks_pending, m_are_callbacks_running>>
    BY <1>9 DEF TimeReached, runnerVars
  <2>2. where[t] \notin Caring /\ where[t] # "notify"
    BY <2>1 DEF Caring
  <2>3. CASE due' = due
    <3>1. PICK place \in {"top", "process", "repeat"} : where' = [where EXCEPT ![t] = place]
      BY <1>9 DEF TimeReached, Goto
    <3>2. place \in Places /\ place # "gone" /\ place \notin Asleep
      BY <1>5, <3>1
    <3> QED BY <1>1, <1>2, <1>3, <1>6, <2>1, <2>2, <2>3, <3>1, <3>2, CareMove
  <2>4. CASE due' # due
    <3>1. due > 0 /\ due' = due - 1 /\ where' = [where EXCEPT ![t] = "process"]
      BY <1>9, <2>4 DEF TimeReached, Goto
    <3>2. due' \in Nat /\ (due' > 0 => due > 0)
      BY <1>2, <3>1, SMT
    <3>3. "process" \in Caring
      BY DEF Caring
    <3> QED BY <1>1, <1>3, <1>5, <1>6, <2>1, <2>2, <3>1, <3>2, <3>3, CareMove
  <2> QED BY <2>3, <2>4
<1>10. ASSUME NEW t \in TaskThread, SpuriousTaskWakeup(t) \/ Repeat(t) PROVE CareInv'
  <2>1. /\ where[t] \in {"wait", "timed", "repeat"}
        /\ UNCHANGED <<due, stopRequested, m_callbacks_pending, m_are_callbacks_running>>
        /\ \E place \in {"top", "notify"} : where' = [where EXCEPT ![t] = place]
    BY <1>10 DEF SpuriousTaskWakeup, Repeat, Goto, schedulerVars, runnerVars
  <2>2. where[t] \notin Caring /\ where[t] # "notify"
    BY <2>1 DEF Caring
  <2>3. PICK place \in {"top", "notify"} : where' = [where EXCEPT ![t] = place]
    BY <2>1
  <2>4. place \in Places /\ place # "gone" /\ place \notin Asleep
    BY <1>5, <2>3
  <2> QED BY <1>1, <1>2, <1>3, <1>6, <2>1, <2>2, <2>3, <2>4, CareMove
<1>11. ASSUME NEW t \in TaskThread, schedule(t) PROVE CareInv'
  <2>1. /\ where[t] = "schedule" /\ due' = due + 1 /\ where' = [where EXCEPT ![t] = "notify"]
        /\ UNCHANGED <<stopRequested, m_callbacks_pending, m_are_callbacks_running>>
    BY <1>11 DEF schedule, Goto, runnerVars
  <2>2. due' \in Nat /\ due' > 0
    BY <1>2, <2>1, SMT
  <2>3. ~Runs(t)
    BY <2>1 DEF Runs
  <2> QED BY <1>1, <1>3, <1>5, <2>1, <2>2, <2>3, CareMove
<1>12. ASSUME NEW t \in TaskThread, ScheduleNotify(t) PROVE CareInv'
  <2>1. /\ where[t] = "notify" /\ where' \in NotifyOneTask([where EXCEPT ![t] = Home(t)])
        /\ UNCHANGED <<due, stopRequested, m_callbacks_pending, m_are_callbacks_running>>
    BY <1>12 DEF ScheduleNotify, schedulerVars, runnerVars
  <2>2. where[t] \notin Caring
    BY <2>1 DEF Caring
  <2> QED BY <1>1, <1>2, <1>3, <1>4, <1>6, <2>1, <2>2, CareMove
<1>13. ASSUME NEW t \in TaskThread, MaybeScheduleProcessQueue(t) PROVE CareInv'
  <2>1. /\ where[t] = "maybe"
        /\ UNCHANGED <<due, stopRequested, m_callbacks_pending, m_are_callbacks_running>>
    BY <1>13 DEF MaybeScheduleProcessQueue, schedulerVars, runnerVars
  <2>2. ~Runs(t)
    BY <2>1 DEF Runs
  <2>3. CASE m_are_callbacks_running \/ m_callbacks_pending = <<>>
    <3>1. where' = [where EXCEPT ![t] = Home(t)]
      BY <1>13, <2>3 DEF MaybeScheduleProcessQueue, Goto
    <3>2. m_callbacks_pending' = <<>> \/ \E u \in TaskThread \ {t} : Runs(u)
      BY <1>7, <2>1, <2>2, <2>3
    <3> QED BY <1>1, <1>2, <1>3, <1>4, <2>1, <2>2, <3>1, <3>2, CareMove
  <2>4. CASE ~(m_are_callbacks_running \/ m_callbacks_pending = <<>>)
    <3>1. where' = [where EXCEPT ![t] = "schedule"] /\ "schedule" \in Caring
      BY <1>13, <2>4 DEF MaybeScheduleProcessQueue, Goto, Caring
    <3> QED BY <1>1, <1>2, <1>3, <1>5, <2>1, <2>2, <3>1, CareMove
  <2> QED BY <2>3, <2>4
<1>14. ASSUME NEW t \in TaskThread, ProcessQueue(t) PROVE CareInv'
  <2>1. where[t] = "process" /\ UNCHANGED <<due, stopRequested>>
    BY <1>14 DEF ProcessQueue, schedulerVars
  <2>2. ~Runs(t)
    BY <2>1 DEF Runs
  <2>3. CASE m_are_callbacks_running \/ m_callbacks_pending = <<>>
    <3>1. /\ where' = [where EXCEPT ![t] = Home(t)]
          /\ UNCHANGED <<m_callbacks_pending, m_are_callbacks_running>>
      BY <1>14, <2>3 DEF ProcessQueue, Goto, runnerVars
    <3>2. m_callbacks_pending' = <<>> \/ \E u \in TaskThread \ {t} : Runs(u)
      BY <1>7, <2>1, <2>2, <2>3, <3>1
    <3> QED BY <1>1, <1>2, <1>3, <1>4, <2>1, <2>2, <3>1, <3>2, CareMove
  <2>4. CASE ~(m_are_callbacks_running \/ m_callbacks_pending = <<>>)
    <3>1. where' = [where EXCEPT ![t] = "callback"] /\ "callback" \in Caring
      BY <1>14, <2>4 DEF ProcessQueue, Goto, Caring
    <3> QED BY <1>1, <1>2, <1>3, <1>5, <2>1, <3>1, CareMove
  <2> QED BY <2>3, <2>4
<1>15. ASSUME NEW t \in TaskThread, RunCallback(t) PROVE CareInv'
  <2>1. /\ where[t] = "callback" /\ where' = [where EXCEPT ![t] = "release"]
        /\ UNCHANGED <<due, stopRequested>>
    BY <1>15 DEF RunCallback, schedulerVars, Goto
  <2>2. "release" \in Caring
    BY DEF Caring
  <2> QED BY <1>1, <1>2, <1>3, <1>5, <2>1, <2>2, CareMove
<1>16. ASSUME NEW t \in TaskThread, CallbacksRunning(t) PROVE CareInv'
  <2>1. /\ where[t] = "release" /\ where' = [where EXCEPT ![t] = "maybe"]
        /\ UNCHANGED <<due, stopRequested>> /\ ~m_are_callbacks_running'
    BY <1>16 DEF CallbacksRunning, schedulerVars, Goto
  <2>2. "maybe" \in Caring
    BY DEF Caring
  <2> QED BY <1>1, <1>2, <1>3, <1>5, <2>1, <2>2, CareMove
<1>17. ASSUME NEW t \in Producer, NEW c \in Callback, InsertCallback(t, c) PROVE CareInv'
  <2>1. /\ where[t] = "idle" /\ where' = [where EXCEPT ![t] = "maybe"]
        /\ UNCHANGED <<due, stopRequested, m_are_callbacks_running>> /\ t \in TaskThread
    BY <1>1, <1>17 DEF InsertCallback, schedulerVars, Goto
  <2>2. "maybe" \in Caring /\ ~Runs(t)
    BY <2>1 DEF Caring, Runs
  <2> QED BY <1>1, <1>2, <1>3, <1>5, <2>1, <2>2, CareMove
<1>18. CASE flush \/ FlushContinue
  <2>1. /\ where[Closer] \in {"join", "drain"}
        /\ UNCHANGED <<due, stopRequested, m_callbacks_pending, m_are_callbacks_running>>
        /\ \E place \in {"process", "flushed"} : where' = [where EXCEPT ![Closer] = place]
    BY <1>18 DEF flush, FlushContinue, Goto, schedulerVars, runnerVars
  <2>2. where[Closer] \notin Caring /\ where[Closer] # "notify"
    BY <2>1 DEF Caring
  <2>3. PICK place \in {"process", "flushed"} : where' = [where EXCEPT ![Closer] = place]
    BY <2>1
  <2>4. place \in Places /\ place # "gone"
    BY <1>5, <2>3
  <2> QED BY <1>1, <1>2, <1>3, <1>6, <2>1, <2>2, <2>3, <2>4, CareMove
<1>19. stop \/ StopNotify => (stopRequested => stopRequested')
  BY DEF stop, StopNotify, schedulerVars
<1>20. CASE stop \/ StopNotify
  <2>1. /\ UNCHANGED <<due, m_callbacks_pending, m_are_callbacks_running>>
        /\ where[Closer] \in {"idle", "stop"}
    BY <1>20 DEF stop, StopNotify, schedulerVars, runnerVars
  <2>2. \A u \in TaskThread : /\ where[u] \in Caring \cup {"notify"} => where'[u] = where[u]
                              /\ where'[u] = "gone" => where[u] = "gone"
                              /\ u \in Service /\ where[u] \notin Asleep => where'[u] \notin Asleep
    <3>1. CASE stop
      <4>1. where' = [where EXCEPT ![Closer] = "stop"]
        BY <3>1 DEF stop, Goto
      <4>2. where'[Closer] = "stop" /\ \A u \in TaskThread \ {Closer} : where'[u] = where[u]
        BY <1>1, <4>1
      <4>3. where[Closer] \notin Caring \cup {"notify"} /\ "stop" # "gone"
        BY <2>1 DEF Caring
      <4> QED BY <1>1, <4>2, <4>3
    <3>2. CASE StopNotify
      <4>1. \A u \in TaskThread : where'[u] = IF u = Closer THEN "join" ELSE Woken(where[u])
        BY <3>2 DEF StopNotify
      <4>2. \A u \in TaskThread : \/ Woken(where[u]) = where[u]
                                  \/ where[u] \in {"wait", "timed"} /\ Woken(where[u]) = "top"
        BY DEF Woken
      <4>3. where[Closer] \notin Caring \cup {"notify"} /\ where'[Closer] # "gone"
        BY <1>1, <2>1, <4>1 DEF Caring
      <4>4. \A u \in TaskThread \ {Closer} :
               where'[u] = where[u] \/ (where[u] \in {"wait", "timed"} /\ where'[u] = "top")
        BY <4>1, <4>2
      <4>5. \A u \in TaskThread \ {Closer} :
               /\ where[u] \in Caring \cup {"notify"} => where'[u] = where[u]
               /\ where'[u] = "gone" => where[u] = "gone"
               /\ where[u] \notin Asleep => where'[u] \notin Asleep
        BY <4>4 DEF Caring, Asleep
      <4> QED BY <1>1, <4>3, <4>5
    <3> QED BY <1>20, <3>1, <3>2
  <2>3. \A u \in TaskThread : Runs(u) => Runs(u)'
    BY <2>2 DEF Runs, Caring
  <2>4. \A u \in TaskThread : where'[u] = "gone" => stopRequested'
    BY <1>19, <1>20, <2>2 DEF CareInv
  <2>5. m_callbacks_pending' # <<>> => due' > 0 \/ \E u \in TaskThread : where'[u] \in Caring
    BY <2>1, <2>2 DEF CareInv, NoneForgotten
  <2>6. due' > 0 /\ ~stopRequested' /\ Service # {} =>
           \/ \E u \in Service : where'[u] \notin Asleep
           \/ \E u \in TaskThread : where'[u] = "notify"
    BY <1>1, <1>19, <1>20, <2>1, <2>2 DEF CareInv, NoneForgotten
  <2> QED BY <1>2, <1>7, <2>1, <2>3, <2>4, <2>5, <2>6 DEF CareInv, NoneForgotten
<1>21. CASE UNCHANGED taskRunnerVars
  BY <1>21 DEF taskRunnerVars, CareInv, NoneForgotten, Runs
<1>22. ASSUME NEW t \in TaskThread, TaskStep(t) PROVE CareInv'
  BY <1>8, <1>9, <1>10, <1>11, <1>12, <1>13, <1>14, <1>15, <1>16, <1>22 DEF TaskStep
<1>23. ASSUME NEW t \in Service, SpuriousTaskWakeup(t) PROVE CareInv'
  BY <1>1, <1>10, <1>23
<1> QED BY <1>17, <1>18, <1>20, <1>21, <1>22, <1>23 DEF TaskRunnerNext, CloserStep

(* For any number of threads and callbacks, whatever stops in between: a   *)
(* callback that is pending, or a task that is due, has somebody to see to *)
(* it.                                                                     *)
THEOREM NoCallbackForgotten == TaskRunnerSpec => []NoneForgotten
<1>1. TaskRunnerInit => CareInv
  <2> SUFFICES ASSUME TaskRunnerInit PROVE CareInv
    OBVIOUS
  <2>1. \A t \in TaskThread : where[t] # "gone"
    BY DEF TaskRunnerInit, Home
  <2>2. 0 \in Nat /\ ~(0 > 0)
    BY SMT
  <2> QED BY <2>1, <2>2 DEF TaskRunnerInit, CareInv, NoneForgotten
<1>2. SerialInv /\ CareInv /\ [TaskRunnerNext]_taskRunnerVars => CareInv'
  BY NextCare
<1>3. CareInv => NoneForgotten
  BY DEF CareInv
<1>4. TaskRunnerInit => SerialInv
  BY SerialInit
<1>5. SerialInv /\ [TaskRunnerNext]_taskRunnerVars => SerialInv'
  BY StepIsAbstract
<1> QED BY <1>1, <1>2, <1>3, <1>4, <1>5, PTL DEF TaskRunnerSpec

-----------------------------------------------------------------------------
(* The block tree.                                                         *)

(* GetAncestor goes down in height and is transitive.                      *)
LEMMA AncestorFacts ==
    ASSUME NEW b \in Block, NEW a \in Ancestors[b]
    PROVE  /\ a \in Block /\ Ancestors[a] \subseteq Ancestors[b]
           /\ nHeight[a] \in Nat /\ nHeight[b] \in Nat
           /\ nHeight[a] <= nHeight[b]
           /\ a # b => nHeight[a] < nHeight[b]
           /\ b \in Ancestors[b] /\ Genesis \in Ancestors[b]
BY AncestorAssumption, NumberAssumption, SMT

(* What AddToBlockIndex derives from the parent.                           *)
LEMMA ParentFacts ==
    ASSUME NEW b \in Block, b # Genesis
    PROVE  /\ pprev[b] \in Block /\ pprev[b] # NoBlock
           /\ Ancestors[b] = Ancestors[pprev[b]] \cup {b}
           /\ pprev[b] \in Ancestors[b] /\ b \notin Ancestors[pprev[b]]
           /\ nHeight[b] = nHeight[pprev[b]] + 1
BY ParentAssumption, AncestorAssumption, GenesisAssumption, SMT

(* A chain has one block of each height.                                   *)
LEMMA OneAtHeight ==
    ASSUME NEW b \in Block, NEW x \in Ancestors[b], NEW y \in Ancestors[b],
           nHeight[x] = nHeight[y]
    PROVE  x = y
<1>1. {x, y} \in SUBSET Ancestors[b] /\ {x, y} # {}
  OBVIOUS
<1>2. PICK h \in {x, y} : {x, y} \subseteq Ancestors[h]
  BY <1>1, LineAssumption
<1>3. x \in Block /\ y \in Block
  BY AncestorFacts
<1> QED BY <1>2, <1>3, AncestorFacts, SMT

(* A chain has a block of every height up to that of its last.             *)
LEMMA SomeAtHeight ==
    ASSUME NEW b \in Block, NEW n \in Nat, n <= nHeight[b]
    PROVE  \E c \in Ancestors[b] : nHeight[c] = n
<1> DEFINE S == {x \in Ancestors[b] : n <= nHeight[x]}
<1>1. S \in SUBSET Ancestors[b] /\ b \in S
  BY AncestorAssumption
<1>2. PICK l \in S : \A x \in S : l \in Ancestors[x]
  <2> HIDE DEF S
  <2> QED BY <1>1, LineAssumption, SMTT(30)
<1>3. l \in Block /\ nHeight[l] \in Nat /\ n <= nHeight[l] /\ l \in Ancestors[b]
  BY <1>2, AncestorFacts
<1>4. CASE l = Genesis
  BY <1>3, <1>4, ParentAssumption, SMT
<1>5. CASE l # Genesis
  <2>1. /\ pprev[l] \in Ancestors[b] /\ nHeight[l] = nHeight[pprev[l]] + 1
        /\ l \notin Ancestors[pprev[l]] /\ nHeight[pprev[l]] \in Nat
    BY <1>3, <1>5, ParentFacts, AncestorFacts
  <2>2. pprev[l] \notin S
    BY <1>2, <2>1
  <2> QED BY <1>3, <2>1, <2>2, SMT
<1> QED BY <1>4, <1>5

(* CChain::Next: an ancestor of b that is not b has a child below b.       *)
LEMMA ChildTowards ==
    ASSUME NEW b \in Block, NEW h \in Ancestors[b], h # b
    PROVE  \E c \in Ancestors[b] : c # Genesis /\ pprev[c] = h
<1>1. /\ nHeight[h] \in Nat /\ nHeight[b] \in Nat /\ nHeight[h] < nHeight[b]
      /\ h \in Block
  BY AncestorFacts
<1>2. PICK c \in Ancestors[b] : nHeight[c] = nHeight[h] + 1
  BY <1>1, SomeAtHeight, SMT
<1>3. c \in Block /\ c # Genesis
  BY <1>1, <1>2, AncestorFacts, ParentAssumption, SMT
<1>4. /\ pprev[c] \in Ancestors[b] /\ nHeight[pprev[c]] = nHeight[h]
  <2>1. nHeight[pprev[c]] \in Nat
    BY <1>3, ParentFacts, NumberAssumption
  <2> QED BY <1>1, <1>2, <1>3, <2>1, ParentFacts, AncestorFacts, SMT
<1>5. pprev[c] = h
  BY <1>4, OneAtHeight
<1> QED BY <1>3, <1>5

(* FindFork: the last block that two chains share.                         *)
LEMMA ForkFacts ==
    ASSUME NEW a \in Block, NEW b \in Block
    PROVE  LET fork == Highest(Ancestors[a] \cap Ancestors[b])
           IN  /\ fork \in Ancestors[a] /\ fork \in Ancestors[b]
               /\ fork = b => b \in Ancestors[a]
<1> DEFINE S == Ancestors[a] \cap Ancestors[b]
<1>1. S \in SUBSET Ancestors[a] /\ Genesis \in S
  BY AncestorAssumption
<1>2. \E h \in S : S \subseteq Ancestors[h]
  <2> HIDE DEF S
  <2> QED BY <1>1, LineAssumption, SMT
<1>3. Highest(S) \in S
  <2> HIDE DEF S
  <2> QED BY <1>2 DEF Highest
<1> QED BY <1>3

(* NextSyncBlock answers nullptr only for a block that covers the tip, and *)
(* otherwise a block of the active chain whose parent the given one has.   *)
LEMMA NextSyncFacts ==
    ASSUME tip \in Block, NEW b \in Block \cup {NoBlock}
    PROVE  /\ NextSyncBlock(b) = NoBlock => b \in Block /\ tip \in Ancestors[b]
           /\ NextSyncBlock(b) # NoBlock =>
                /\ NextSyncBlock(b) \in Block /\ NextSyncBlock(b) \in Ancestors[tip]
                /\ \/ b = pprev[NextSyncBlock(b)]
                   \/ b \in Block /\ pprev[NextSyncBlock(b)] \in Ancestors[b]
<1>1. CASE b = NoBlock
  BY <1>1, GenesisAssumption, ParentAssumption, AncestorAssumption DEF NextSyncBlock
<1>2. CASE b # NoBlock
  <2> DEFINE fork == Highest(Ancestors[b] \cap Ancestors[tip])
  <2>1. b \in Block
    BY <1>2
  <2>2. fork \in Ancestors[b] /\ fork \in Ancestors[tip]
        /\ (fork = tip => tip \in Ancestors[b])
    BY <2>1, ForkFacts
  <2>3. NextSyncBlock(b) = IF fork = tip THEN NoBlock
                           ELSE CHOOSE c \in Ancestors[tip] : pprev[c] = fork
    BY <1>2 DEF NextSyncBlock, NextInChain
  <2> HIDE DEF fork
  <2>4. CASE fork = tip
    BY <2>1, <2>2, <2>3, <2>4
  <2>5. CASE fork # tip
    <3>1. \E c \in Ancestors[tip] : pprev[c] = fork
      BY <2>2, <2>5, ChildTowards
    <3>2. NextSyncBlock(b) \in Ancestors[tip] /\ pprev[NextSyncBlock(b)] = fork
      BY <2>3, <2>5, <3>1
    <3>3. NextSyncBlock(b) \in Block
      BY <3>2, AncestorFacts
    <3> QED BY <2>1, <2>2, <3>2, <3>3, GenesisAssumption
  <2> QED BY <2>4, <2>5
<1> QED BY <1>1, <1>2

-----------------------------------------------------------------------------
(* The backlog of events.                                                  *)

Event == [type : {"connected", "flushed"}, block : Block]

IsConnected(ev, i) == i \in 1..Len(ev) /\ ev[i].type = "connected"

(* An index at b covers t, or will follow an event behind position n.      *)
LeadsTo(ev, n, b, t) ==
    \/ t \in Ancestors[b]
    \/ \E j \in 1..Len(ev) : /\ n < j /\ IsConnected(ev, j)
                             /\ pprev[ev[j].block] \in Ancestors[b]

(* So does an index that has followed any of the events.                   *)
LeadsOn(ev, t) ==
    \A i \in 1..Len(ev) : IsConnected(ev, i) => LeadsTo(ev, i, ev[i].block, t)

(* The locator of a flush changes nothing for the blocks.                  *)
LEMMA QueueFlushed ==
    ASSUME NEW ev \in Seq(Event), NEW b \in Block, NEW t, LeadsOn(ev, t)
    PROVE  LET new == ev \o <<Flushed(b)>>
           IN  /\ new \in Seq(Event) /\ LeadsOn(new, t)
               /\ \A a : LeadsTo(ev, 0, a, t) => LeadsTo(new, 0, a, t)
<1> DEFINE new == ev \o <<Flushed(b)>>
<1>1. Flushed(b) \in Event /\ Flushed(b).type = "flushed"
  BY DEF Flushed, Event
<1>2. /\ new \in Seq(Event) /\ Len(new) = Len(ev) + 1 /\ Len(ev) \in Nat
      /\ new[Len(ev) + 1] = Flushed(b)
      /\ \A i \in 1..Len(ev) : new[i] = ev[i]
  BY <1>1, SMT
<1> HIDE DEF new
<1>3. \A i \in 1..Len(new) : IsConnected(new, i) => i \in 1..Len(ev) /\ IsConnected(ev, i)
  BY <1>1, <1>2, SMT DEF IsConnected
<1>4. \A i \in 1..Len(ev) : IsConnected(ev, i) => i \in 1..Len(new) /\ IsConnected(new, i)
  BY <1>2, SMT DEF IsConnected
<1>5. ASSUME NEW n, NEW a, LeadsTo(ev, n, a, t) PROVE LeadsTo(new, n, a, t)
  BY <1>2, <1>4, <1>5 DEF LeadsTo
<1>6. LeadsOn(new, t)
  BY <1>2, <1>3, <1>5 DEF LeadsOn
<1> QED BY <1>2, <1>5, <1>6 DEF new

(* The events of a change of the tip: the path from the fork up.           *)
LEMMA ConnectedFacts ==
    ASSUME NEW b \in Block, NEW fork \in Ancestors[b], fork # b
    PROVE  LET ev == ConnectedEvents(b, fork)
           IN  /\ ev \in Seq(Event) /\ Len(ev) >= 1 /\ Len(ev) \in Nat
               /\ \A i \in 1..Len(ev) : IsConnected(ev, i)
               /\ pprev[ev[1].block] = fork /\ ev[Len(ev)].block = b
               /\ \A i, j \in 1..Len(ev) :
                      j = i + 1 => pprev[ev[j].block] = ev[i].block
               /\ \A i \in 1..Len(ev) : ev[i].block \in Ancestors[b]
<1> DEFINE n     == nHeight[b] - nHeight[fork]
           At(i) == CHOOSE c \in Ancestors[b] : nHeight[c] = nHeight[fork] + i
           ev    == ConnectedEvents(b, fork)
<1>1. /\ fork \in Block /\ nHeight[fork] \in Nat /\ nHeight[b] \in Nat
      /\ nHeight[fork] < nHeight[b] /\ b \in Ancestors[b]
  BY AncestorFacts
<1>2. n \in Nat /\ n >= 1
  BY <1>1, SMT
<1>3. ASSUME NEW i \in 1..n
      PROVE  /\ At(i) \in Ancestors[b] /\ nHeight[At(i)] = nHeight[fork] + i
             /\ At(i) \in Block /\ At(i) # Genesis
  <2>1. nHeight[fork] + i \in Nat /\ nHeight[fork] + i <= nHeight[b]
    BY <1>1, SMT
  <2>2. \E c \in Ancestors[b] : nHeight[c] = nHeight[fork] + i
    BY <2>1, SomeAtHeight
  <2>3. At(i) \in Ancestors[b] /\ nHeight[At(i)] = nHeight[fork] + i
    BY <2>2
  <2> HIDE DEF At
  <2>4. At(i) \in Block /\ At(i) # Genesis
    BY <1>1, <2>3, AncestorFacts, ParentAssumption, SMT
  <2> QED BY <2>3, <2>4
<1>4. ev = [i \in 1..n |-> Connected(At(i))]
  BY DEF ConnectedEvents
<1> HIDE DEF At, ev, n
<1>5. \A i \in 1..n : Connected(At(i)) \in Event
  BY <1>3 DEF Connected, Event
<1>6. ev \in Seq(Event) /\ Len(ev) = n
  BY <1>2, <1>4, <1>5, SMT
<1>7. \A i \in 1..n : ev[i].type = "connected" /\ ev[i].block = At(i)
  BY <1>4 DEF Connected
<1>8. \A i \in 1..Len(ev) : IsConnected(ev, i)
  BY <1>6, <1>7 DEF IsConnected
<1>9. ASSUME NEW x \in Ancestors[b], NEW i \in 1..n, nHeight[x] + 1 = nHeight[fork] + i
      PROVE  pprev[At(i)] = x
  <2>1. /\ pprev[At(i)] \in Ancestors[b] /\ nHeight[pprev[At(i)]] = nHeight[x]
    <3>1. /\ pprev[At(i)] \in Block /\ pprev[At(i)] \in Ancestors[At(i)]
          /\ nHeight[At(i)] = nHeight[pprev[At(i)]] + 1
      BY <1>3, ParentFacts
    <3>2. pprev[At(i)] \in Ancestors[b]
      BY <1>3, <3>1, AncestorFacts
    <3>3. nHeight[pprev[At(i)]] \in Nat /\ nHeight[x] \in Nat
      BY <3>1, AncestorFacts, NumberAssumption
    <3> QED BY <1>1, <1>3, <1>9, <3>1, <3>2, <3>3, SMT
  <2> QED BY <2>1, OneAtHeight
<1>10. pprev[ev[1].block] = fork
  BY <1>1, <1>2, <1>7, <1>9, SMT
<1>11. ev[Len(ev)].block = b
  <2>1. n \in 1..n /\ nHeight[fork] + n = nHeight[b]
    BY <1>1, <1>2, SMT DEF n
  <2>2. At(n) = b
    BY <1>1, <1>3, <2>1, OneAtHeight
  <2> QED BY <1>6, <1>7, <2>1, <2>2
<1>12. ASSUME NEW i \in 1..Len(ev), NEW j \in 1..Len(ev), j = i + 1
       PROVE  pprev[ev[j].block] = ev[i].block
  <2>1. i \in 1..n /\ j \in 1..n /\ j = i + 1
    BY <1>6, <1>12
  <2>2. At(i) \in Ancestors[b] /\ nHeight[At(i)] + 1 = nHeight[fork] + j
    BY <1>1, <1>3, <2>1, SMTT(30)
  <2>3. pprev[At(j)] = At(i)
    BY <1>9, <2>1, <2>2
  <2> QED BY <1>7, <2>1, <2>3
<1>13. \A i \in 1..Len(ev) : ev[i].block \in Ancestors[b]
  BY <1>3, <1>6, <1>7
<1> QED BY <1>2, <1>6, <1>8, <1>10, <1>11, <1>12, <1>13 DEF ev

(* A change of the tip from t to b queues the path from their fork.        *)
LEMMA QueueConnected ==
    ASSUME NEW ev \in Seq(Event), NEW t \in Block, NEW b \in Block,
           NEW fork \in Ancestors[b], fork # b, fork \in Ancestors[t], LeadsOn(ev, t)
    PROVE  LET new == ev \o ConnectedEvents(b, fork)
           IN  /\ new \in Seq(Event) /\ LeadsOn(new, b)
               /\ \A a \in Block : LeadsTo(ev, 0, a, t) => LeadsTo(new, 0, a, b)
<1> DEFINE path == ConnectedEvents(b, fork)
           new  == ev \o path
           n    == Len(ev)
<1>1. /\ path \in Seq(Event) /\ Len(path) >= 1 /\ Len(path) \in Nat
      /\ \A i \in 1..Len(path) : IsConnected(path, i)
      /\ pprev[path[1].block] = fork /\ path[Len(path)].block = b
      /\ \A i, j \in 1..Len(path) : j = i + 1 => pprev[path[j].block] = path[i].block
  BY ConnectedFacts, SMTT(30)
<1> HIDE DEF path
<1>2. /\ new \in Seq(Event) /\ Len(new) = n + Len(path) /\ n \in Nat
      /\ \A i \in 1..n : new[i] = ev[i]
      /\ \A i \in 1..Len(path) : new[n + i] = path[i]
  BY <1>1, SMT
<1> HIDE DEF new, n
<1>3. \A i \in 1..n : /\ i \in 1..Len(new)
                      /\ IsConnected(new, i) <=> IsConnected(ev, i)
  BY <1>1, <1>2, SMT DEF IsConnected, n
<1>4. \A i \in 1..Len(path) : n + i \in 1..Len(new) /\ IsConnected(new, n + i)
  BY <1>1, <1>2, SMTT(30) DEF IsConnected
<1>5. ASSUME NEW a \in Block, NEW k \in Nat, k <= n, LeadsTo(ev, k, a, t)
      PROVE  LeadsTo(new, k, a, b)
  <2>1. CASE t \in Ancestors[a]
    <3>1. fork \in Ancestors[a]
      BY <2>1, AncestorFacts
    <3>2. n + 1 \in 1..Len(new) /\ IsConnected(new, n + 1) /\ new[n + 1] = path[1]
      BY <1>1, <1>2, <1>4, SMTT(30)
    <3>3. k < n + 1
      BY <1>2, <1>5, SMT
    <3> QED BY <1>1, <3>1, <3>2, <3>3 DEF LeadsTo
  <2>2. CASE t \notin Ancestors[a]
    <3>1. PICK j \in 1..n : /\ k < j /\ IsConnected(ev, j)
                             /\ pprev[ev[j].block] \in Ancestors[a]
      BY <1>5, <2>2 DEF LeadsTo, n
    <3> QED BY <1>2, <1>3, <3>1 DEF LeadsTo
  <2> QED BY <2>1, <2>2
<1>6. ASSUME NEW i \in 1..Len(new), IsConnected(new, i)
      PROVE  LeadsTo(new, i, new[i].block, b)
  <2>1. CASE i <= n
    <3>1. i \in 1..n /\ IsConnected(ev, i) /\ new[i] = ev[i]
      BY <1>2, <1>3, <1>6, <2>1, SMT
    <3>2. ev[i].block \in Block
      <4>1. ev[i] \in Event
        BY <3>1, SMT DEF n
      <4> QED BY <4>1 DEF Event
    <3>3. LeadsTo(ev, i, ev[i].block, t)
      BY <3>1 DEF LeadsOn, n
    <3> QED BY <1>2, <1>5, <3>1, <3>2, <3>3, SMTT(30)
  <2>2. CASE i > n
    <3> DEFINE m == i - n
    <3>1. m \in 1..Len(path) /\ i = n + m /\ new[i] = path[m]
      BY <1>1, <1>2, <2>2, SMTT(30)
    <3> HIDE DEF m
    <3>2. CASE m = Len(path)
      BY <1>1, <3>1, <3>2, AncestorFacts, AncestorAssumption DEF LeadsTo
    <3>3. CASE m # Len(path)
      <4>1. m + 1 \in 1..Len(path) /\ n + (m + 1) \in 1..Len(new)
            /\ IsConnected(new, n + (m + 1)) /\ new[n + (m + 1)] = path[m + 1]
        BY <1>1, <1>2, <1>4, <3>1, <3>3, SMTT(30)
      <4>2. pprev[path[m + 1].block] = path[m].block
        BY <1>1, <3>1, <4>1
      <4>3. path[m].block \in Ancestors[path[m].block]
        <5>1. path[m] \in Event
          BY <1>1, <3>1, SMT
        <5> QED BY <5>1, AncestorAssumption DEF Event
      <4>4. i < n + (m + 1)
        BY <1>2, <3>1, SMT
      <4> QED BY <3>1, <4>1, <4>2, <4>3, <4>4 DEF LeadsTo
    <3> QED BY <3>2, <3>3
  <2> QED BY <1>2, <2>1, <2>2, SMT
<1>7. \A a \in Block : LeadsTo(ev, 0, a, t) => LeadsTo(new, 0, a, b)
  BY <1>2, <1>5, SMT
<1> QED BY <1>2, <1>6, <1>7 DEF LeadsOn, new, path

(* The callback thread takes the first event.                              *)
LEMMA TakeEvent ==
    ASSUME NEW ev \in Seq(Event), ev # <<>>, NEW t, LeadsOn(ev, t)
    PROVE  /\ Head(ev) \in Event /\ Tail(ev) \in Seq(Event) /\ LeadsOn(Tail(ev), t)
           /\ Head(ev).type = "connected" => LeadsTo(Tail(ev), 0, Head(ev).block, t)
           /\ \A a : /\ LeadsTo(ev, 0, a, t)
                     /\ Head(ev).type = "connected" =>
                            pprev[Head(ev).block] \notin Ancestors[a]
                     => LeadsTo(Tail(ev), 0, a, t)
<1> DEFINE new == Tail(ev)
<1>1. /\ Head(ev) \in Event /\ new \in Seq(Event) /\ Len(ev) \in Nat \ {0}
      /\ Len(new) = Len(ev) - 1 /\ Head(ev) = ev[1]
      /\ \A i \in 1..Len(new) : new[i] = ev[i + 1]
  BY SMT
<1> HIDE DEF new
<1>2. \A i \in 1..Len(new) : /\ i + 1 \in 1..Len(ev)
                             /\ IsConnected(new, i) <=> IsConnected(ev, i + 1)
  BY <1>1, SMT DEF IsConnected
<1>3. ASSUME NEW a, NEW n \in Nat, LeadsTo(ev, n + 1, a, t) PROVE LeadsTo(new, n, a, t)
  <2> SUFFICES ASSUME NEW j \in 1..Len(ev), n + 1 < j, IsConnected(ev, j),
                      pprev[ev[j].block] \in Ancestors[a]
               PROVE  LeadsTo(new, n, a, t)
    BY <1>3 DEF LeadsTo
  <2>1. j - 1 \in 1..Len(new) /\ n < j - 1 /\ (j - 1) + 1 = j
    BY <1>1, SMT
  <2>2. IsConnected(new, j - 1) /\ new[j - 1] = ev[j]
    BY <1>1, <1>2, <2>1
  <2> QED BY <2>1, <2>2 DEF LeadsTo
<1>4. LeadsOn(new, t)
  <2> SUFFICES ASSUME NEW i \in 1..Len(new), IsConnected(new, i)
               PROVE  LeadsTo(new, i, new[i].block, t)
    BY DEF LeadsOn
  <2>1. LeadsTo(ev, i + 1, ev[i + 1].block, t)
    BY <1>1, <1>2 DEF LeadsOn
  <2> QED BY <1>1, <1>3, <2>1, SMT
<1>5. Head(ev).type = "connected" => LeadsTo(new, 0, Head(ev).block, t)
  <2> SUFFICES ASSUME Head(ev).type = "connected"
               PROVE  LeadsTo(new, 0, Head(ev).block, t)
    OBVIOUS
  <2>1. 1 \in 1..Len(ev) /\ IsConnected(ev, 1)
    BY <1>1, SMT DEF IsConnected
  <2>2. LeadsTo(ev, 0 + 1, ev[1].block, t)
    BY <2>1, SMT DEF LeadsOn
  <2> QED BY <1>1, <1>3, <2>2
<1>6. ASSUME NEW a, LeadsTo(ev, 0, a, t),
             Head(ev).type = "connected" => pprev[Head(ev).block] \notin Ancestors[a]
      PROVE  LeadsTo(new, 0, a, t)
  <2>1. LeadsTo(ev, 0 + 1, a, t)
    <3> SUFFICES ASSUME NEW j \in 1..Len(ev), 0 < j, IsConnected(ev, j),
                        pprev[ev[j].block] \in Ancestors[a]
                 PROVE  LeadsTo(ev, 0 + 1, a, t)
      BY <1>6 DEF LeadsTo
    <3>1. j # 1
      BY <1>1, <1>6 DEF IsConnected
    <3> QED BY <3>1, SMT DEF LeadsTo
  <2> QED BY <1>3, <2>1
<1> QED BY <1>1, <1>4, <1>5, <1>6 DEF new

(* The blocks of the connected events are in S.                            *)
AllIn(ev, S) == \A i \in 1..Len(ev) : IsConnected(ev, i) => ev[i].block \in S

(* Queueing an event of a flush adds none.                                 *)
LEMMA FlushedIn ==
    ASSUME NEW ev \in Seq(Event), NEW x \in Block, NEW S, AllIn(ev, S)
    PROVE  AllIn(ev \o <<Flushed(x)>>, S)
<1> DEFINE new == ev \o <<Flushed(x)>>
<1>1. /\ Len(new) = Len(ev) + 1 /\ Len(ev) \in Nat
      /\ \A i \in 1..Len(ev) : new[i] = ev[i]
      /\ new[Len(ev) + 1] = Flushed(x)
  BY SMT DEF Flushed, Event
<1> HIDE DEF new
<1>2. SUFFICES ASSUME NEW i \in 1..Len(new), IsConnected(new, i)
               PROVE  new[i].block \in S
  BY DEF AllIn, new
<1>3. i \in 1..Len(ev) \/ i = Len(ev) + 1
  BY <1>1, SMT
<1>4. i # Len(ev) + 1
  BY <1>1, <1>2, SMT DEF IsConnected, Flushed
<1> QED BY <1>1, <1>2, <1>3, <1>4 DEF AllIn, IsConnected

(* Queueing the path up to b adds ancestors of b.                          *)
LEMMA ConnectedIn ==
    ASSUME NEW ev \in Seq(Event), NEW S, AllIn(ev, S), NEW b \in Block,
           NEW fork \in Ancestors[b], fork # b
    PROVE  AllIn(ev \o ConnectedEvents(b, fork), S \cup Ancestors[b])
<1> DEFINE path == ConnectedEvents(b, fork)
           new  == ev \o path
<1>1. /\ path \in Seq(Event) /\ Len(path) \in Nat
      /\ \A i \in 1..Len(path) : path[i].block \in Ancestors[b]
  BY ConnectedFacts
<1> HIDE DEF path
<1>2. /\ Len(new) = Len(ev) + Len(path) /\ Len(ev) \in Nat
      /\ \A i \in 1..Len(ev) : new[i] = ev[i]
      /\ \A i \in 1..Len(path) : new[Len(ev) + i] = path[i]
  BY <1>1, SMT
<1> HIDE DEF new
<1>3. SUFFICES ASSUME NEW i \in 1..Len(new), IsConnected(new, i)
               PROVE  new[i].block \in S \cup Ancestors[b]
  BY DEF AllIn, new, path
<1>4. CASE i \in 1..Len(ev)
  BY <1>2, <1>3, <1>4 DEF AllIn, IsConnected
<1>5. CASE i \notin 1..Len(ev)
  <2>1. i - Len(ev) \in 1..Len(path) /\ Len(ev) + (i - Len(ev)) = i
    BY <1>1, <1>2, <1>5, SMT
  <2> QED BY <1>1, <1>2, <2>1
<1> QED BY <1>4, <1>5

(* Taking the first event out leaves the others.                           *)
LEMMA TakeIn ==
    ASSUME NEW ev \in Seq(Event), ev # <<>>, NEW S, AllIn(ev, S)
    PROVE  /\ AllIn(Tail(ev), S)
           /\ Head(ev).type = "connected" => Head(ev).block \in S
<1> DEFINE new == Tail(ev)
<1>1. /\ Len(ev) \in Nat \ {0} /\ Len(new) = Len(ev) - 1 /\ Head(ev) = ev[1]
      /\ \A i \in 1..Len(new) : new[i] = ev[i + 1] /\ i + 1 \in 1..Len(ev)
      /\ 1 \in 1..Len(ev)
  BY SMT
<1> HIDE DEF new
<1>2. AllIn(new, S)
  BY <1>1 DEF AllIn, IsConnected
<1>3. Head(ev).type = "connected" => Head(ev).block \in S
  BY <1>1 DEF AllIn, IsConnected
<1> QED BY <1>2, <1>3 DEF new

-----------------------------------------------------------------------------
(* The inductive invariant.                                                *)

MaybeBlock == Block \cup {NoBlock}

IndexTypes ==
    /\ tip \in Block /\ diskTip \in Block /\ events \in Seq(Event)
    /\ m_best_block_index \in MaybeBlock /\ m_current_block_hash \in MaybeBlock
    /\ byHeight \in [{nHeight[b] : b \in Block} -> MaybeBlock]
    /\ dbBest \in MaybeBlock /\ pindex \in MaybeBlock
    /\ appending \in [IndexThread -> MaybeBlock]
    /\ iter_tip \in [IndexThread -> MaybeBlock]

(* Sync works on the child until it sets m_synced, and the callback thread *)
(* from then on.                                                           *)
HandedOver ==
    /\ status = "down" => appending = Idlers
    /\ m_synced => syncAt = "over" /\ m_best_block_index \in Block
    /\ appending["callback"] # NoBlock => m_synced
    /\ appending["sync"] # NoBlock => syncAt = "loop"
    /\ syncAt = "recheck" => m_best_block_index = pindex

(* The child is where the thread that works on it takes it to be: at its   *)
(* best block, or on the way from there down to the block it appends to.   *)
InStep ==
    Running =>
      /\ syncAt # "over" /\ appending["sync"] = NoBlock =>
            m_current_block_hash = pindex
      /\ m_synced /\ appending["callback"] = NoBlock =>
            m_current_block_hash = m_best_block_index
      /\ \A t \in IndexThread : appending[t] # NoBlock =>
            /\ iter_tip[t] = m_current_block_hash
            /\ \/ iter_tip[t] = pprev[appending[t]]
               \/ /\ iter_tip[t] \in Block
                  /\ pprev[appending[t]] \in Ancestors[iter_tip[t]]

Chain(b) == IF b = NoBlock THEN {} ELSE Ancestors[b]

(* The database can go back along the chain of the committed block and     *)
(* along that of the current one; what the former has and the latter has   *)
(* not is in the hash index, where no later block overwrites it.           *)
Readable ==
    /\ dbMuhash = dbBest
    /\ \A a \in Chain(dbBest) : LookUpOne(a)
    /\ Running => /\ \A a \in Chain(m_current_block_hash) : LookUpOne(a)
                  /\ \A a \in Chain(dbBest) \ Chain(m_current_block_hash) :
                         a \in byHash

(* The block a synced index is at, or is about to reach.                   *)
Ahead == IF appending["callback"] = NoBlock THEN m_best_block_index
         ELSE appending["callback"]

(* The events lead a synced index to the tip, and so does each of them.    *)
Backlog ==
    /\ LeadsOn(events, tip)
    /\ Running /\ m_synced => LeadsTo(events, 0, Ahead, tip)

Closed(S) == S \subseteq Block /\ \A b \in S : Ancestors[b] \subseteq S

(* Validation can read the blocks of its chain back, and of the flushed    *)
(* chain what it has flushed of them.                                      *)
Files ==
    /\ Closed(haveUndo) /\ haveUndo \subseteq m_block_index /\ tip \in haveUndo
    /\ Closed(diskUndo) /\ diskUndo \subseteq diskIndex /\ diskTip \in diskUndo

(* The child is at a block that can be read, or still at the committed one *)
(* it has started from; what it is given next can be read.                 *)
OnDisk ==
    /\ Files
    /\ Running /\ dbBest # NoBlock => dbBest \in m_block_index
    /\ m_current_block_hash \in haveUndo \cup {NoBlock, dbBest}
    /\ \A t \in IndexThread : appending[t] \in haveUndo \cup {NoBlock}
    /\ AllIn(events, haveUndo)

IndexInv ==
    /\ IndexTypes /\ HandedOver /\ InStep /\ Readable /\ Backlog /\ OnDisk
    /\ IndexFailsOnlyAhead

(* A chain more leaves a set of whole chains one.                          *)
LEMMA ClosedFacts ==
    ASSUME NEW S, Closed(S), NEW b \in Block
    PROVE  Closed(S \cup Ancestors[b])
BY AncestorAssumption DEF Closed

(* The step down from a block in such a set stays in it.                   *)
LEMMA ClosedParent ==
    ASSUME NEW S, Closed(S), NEW b \in S, b # Genesis
    PROVE  b \in Block /\ pprev[b] \in S
BY ParentFacts DEF Closed

(* A step of the index leaves the files as they are.                       *)
LEMMA OnDiskKept ==
    ASSUME OnDisk, UNCHANGED validationVars, Running' => Running,
           \/ m_current_block_hash' \in haveUndo
           \/ m_current_block_hash' \in {NoBlock, dbBest'},
           dbBest' \in haveUndo \cup {NoBlock, dbBest},
           \A t \in IndexThread : appending'[t] \in haveUndo \cup {NoBlock},
           AllIn(events', haveUndo)
    PROVE  OnDisk'
<1>1. /\ UNCHANGED <<tip, m_block_index, haveUndo, diskTip, diskIndex, diskUndo>>
      /\ Files /\ haveUndo \subseteq m_block_index
  BY DEF validationVars, OnDisk, Files
<1>2. Files'
  BY <1>1 DEF Files, Closed
<1>3. Running' /\ dbBest' # NoBlock => dbBest' \in m_block_index
  <2>1. Running /\ dbBest # NoBlock => dbBest \in m_block_index
    BY DEF OnDisk
  <2> QED BY <1>1, <2>1, SMT
<1> QED BY <1>1, <1>2, <1>3 DEF OnDisk

(* What validation writes is known to its index, with all that is below.   *)
LEMMA FlushFacts ==
    ASSUME IndexInv, NEW b \in Block, NEW known,
           haveUndo \cup Ancestors[b] \subseteq known,
           NEW f \in {NoBlock} \cup Path(b, tip) \cup Path(tip, b),
           FlushInside(f, tip, b, known)
    PROVE  /\ Closed(diskUndo') /\ diskUndo' \subseteq diskIndex'
           /\ diskTip' \in diskUndo'
<1>1. /\ Files /\ Closed(haveUndo) /\ tip \in haveUndo /\ tip \in Block
      /\ Ancestors[tip] \subseteq haveUndo
  BY DEF IndexInv, OnDisk, Files, IndexTypes, Closed
<1>2. CASE f = NoBlock
  <2>1. UNCHANGED <<diskTip, diskIndex, diskUndo>>
    BY <1>2 DEF FlushInside
  <2> QED BY <1>1, <2>1 DEF Files
<1>3. CASE f # NoBlock
  <2>1. /\ diskIndex' = known /\ diskUndo' = haveUndo \cup Ancestors[diskTip']
        /\ diskTip' = IF f \in Path(b, tip) THEN f ELSE pprev[f]
    BY <1>3 DEF FlushInside
  <2>2. /\ f \in Block \ {Genesis} /\ f \in Ancestors[b] \cup Ancestors[tip]
        /\ f \in Path(b, tip) \/ f \in Ancestors[tip]
    BY <1>1, <1>3, AncestorAssumption DEF Path
  <2>3. CASE f \in Path(b, tip)
    <3>1. diskTip' \in Block /\ diskTip' \in Ancestors[b]
      BY <2>1, <2>2, <2>3 DEF Path
    <3>2. Ancestors[diskTip'] \subseteq Ancestors[b] /\ diskTip' \in Ancestors[diskTip']
      BY <3>1, AncestorAssumption, SMT
    <3>3. Closed(diskUndo')
      BY <1>1, <2>1, <3>1, ClosedFacts
    <3> QED BY <2>1, <3>2, <3>3
  <2>4. CASE f \notin Path(b, tip)
    <3>1. f \in haveUndo
      BY <1>1, <2>2, <2>4
    <3>2. diskTip' \in Block /\ diskTip' \in haveUndo
      BY <1>1, <2>1, <2>2, <2>4, <3>1, ClosedParent, ParentFacts
    <3>3. Ancestors[diskTip'] \subseteq haveUndo /\ diskTip' \in Ancestors[diskTip']
      BY <1>1, <3>2, AncestorAssumption DEF Closed
    <3> QED BY <1>1, <2>1, <3>2, <3>3, ClosedFacts
  <2> QED BY <2>3, <2>4
<1> QED BY <1>2, <1>3

(* What validation stores stays stored.                                    *)
LEMMA ValidationStores ==
    ASSUME IndexInv, Closed(haveUndo'), haveUndo \subseteq haveUndo',
           haveUndo' \subseteq m_block_index', m_block_index \subseteq m_block_index',
           tip' \in haveUndo', Closed(diskUndo'), diskUndo' \subseteq diskIndex',
           diskTip' \in diskUndo', AllIn(events', haveUndo'),
           UNCHANGED <<m_current_block_hash, dbVars, threadVars, status>>
    PROVE  OnDisk'
<1>1. Files'
  BY DEF Files
<1>2. /\ UNCHANGED <<m_current_block_hash, dbBest, appending, status>>
      /\ Running' <=> Running
  BY DEF dbVars, threadVars, Running
<1>3. /\ Running' /\ dbBest' # NoBlock => dbBest' \in m_block_index'
      /\ m_current_block_hash' \in haveUndo' \cup {NoBlock, dbBest'}
      /\ \A t \in IndexThread : appending'[t] \in haveUndo' \cup {NoBlock}
  BY <1>2 DEF IndexInv, OnDisk
<1> QED BY <1>1, <1>3 DEF OnDisk

(* CustomRemove: the child can always go back from where it is.            *)
LEMMA RewindAccepted ==
    ASSUME IndexInv, Running, NEW t \in IndexThread, appending[t] # NoBlock,
           iter_tip[t] # pprev[appending[t]]
    PROVE  LET b == iter_tip[t]
           IN  /\ CustomRemoveAccepts(b) /\ b \in Block \ {Genesis}
               /\ m_current_block_hash = b
               /\ pprev[appending[t]] \in Ancestors[pprev[b]]
<1> DEFINE b == iter_tip[t]
<1>1. /\ m_current_block_hash = b /\ b \in Block
      /\ pprev[appending[t]] \in Ancestors[b]
  BY DEF IndexInv, InStep
<1>2. b # Genesis
  BY <1>1, AncestorAssumption
<1>3. /\ pprev[b] \in Block /\ pprev[b] \in Ancestors[b] /\ b \in Ancestors[b]
      /\ Ancestors[b] = Ancestors[pprev[b]] \cup {b}
      /\ nHeight[b] = nHeight[pprev[b]] + 1 /\ nHeight[pprev[b]] \in Nat
  BY <1>1, <1>2, ParentFacts, AncestorAssumption, NumberAssumption, SMT
<1>4. LookUpOne(b) /\ LookUpOne(pprev[b])
  <2>1. Chain(m_current_block_hash) = Ancestors[b]
    BY <1>1, GenesisAssumption DEF Chain
  <2> QED BY <1>3, <2>1 DEF IndexInv, Readable
<1>5. nHeight[b] - 1 = nHeight[pprev[b]]
  BY <1>3, SMT
<1>6. CustomRemoveAccepts(b)
  BY <1>1, <1>4, <1>5
     DEF CustomRemoveAccepts, RevertBlockAccepts, LookUpOne, CopyHeightIndexToHashIndex
<1>7. pprev[appending[t]] \in Ancestors[pprev[b]]
  BY <1>1, <1>3
<1> QED BY <1>1, <1>2, <1>6, <1>7

(* CustomAppend: the child is at the parent of the block that comes next.  *)
LEMMA AppendAccepted ==
    ASSUME IndexInv, Running, NEW t \in IndexThread, appending[t] # NoBlock,
           iter_tip[t] = pprev[appending[t]]
    PROVE  /\ CustomAppendAccepts(appending[t]) /\ appending[t] \in Block
           /\ m_current_block_hash = pprev[appending[t]]
BY DEF IndexInv, InStep, IndexTypes, MaybeBlock, CustomAppendAccepts

(* At most one of the threads works on the child.                          *)
LEMMA OneAppends ==
    ASSUME IndexInv, NEW t \in IndexThread, appending[t] # NoBlock
    PROVE  /\ \A u \in IndexThread : u # t => appending[u] = NoBlock
           /\ t = "sync" => syncAt = "loop" /\ ~m_synced
           /\ t = "callback" => syncAt = "over" /\ m_synced
BY DEF IndexInv, HandedOver, IndexThread

(* CustomRemove keeps what can be looked up, in the other index.           *)
LEMMA RewindReadable ==
    ASSUME IndexInv, Running, NEW b \in Block \ {Genesis}, m_current_block_hash = b,
           CustomRemove(b), UNCHANGED <<dbBest, dbMuhash, status>>
    PROVE  Readable'
<1>1. /\ Chain(b) = Ancestors[b] /\ Chain(pprev[b]) = Ancestors[pprev[b]]
      /\ Ancestors[b] = Ancestors[pprev[b]] \cup {b} /\ b \in Ancestors[b]
  BY ParentFacts, AncestorAssumption, GenesisAssumption DEF Chain
<1>2. /\ m_current_block_hash' = pprev[b] /\ byHeight' = byHeight
      /\ byHash \subseteq byHash' /\ byHeight[nHeight[b]] \in byHash'
  BY DEF CustomRemove, CopyHeightIndexToHashIndex
<1>3. \A a : LookUpOne(a) => LookUpOne(a)'
  BY <1>2 DEF LookUpOne
<1>4. LookUpOne(b)
  BY <1>1 DEF IndexInv, Readable
<1>5. b \in byHash'
  BY <1>2, <1>4 DEF LookUpOne
<1>6. /\ dbMuhash' = dbBest' /\ Chain(dbBest)' = Chain(dbBest) /\ Running'
      /\ Chain(m_current_block_hash)' = Ancestors[pprev[b]]
  BY <1>1, <1>2 DEF IndexInv, Readable, Running, Chain
<1>7. \A a \in Chain(dbBest) : LookUpOne(a)'
  BY <1>3 DEF IndexInv, Readable
<1>8. \A a \in Ancestors[pprev[b]] : LookUpOne(a)'
  BY <1>1, <1>3 DEF IndexInv, Readable
<1>9. \A a \in Chain(dbBest) \ Ancestors[pprev[b]] : a \in byHash'
  BY <1>1, <1>2, <1>5, SMT DEF IndexInv, Readable
<1> QED BY <1>6, <1>7, <1>8, <1>9 DEF Readable

(* CustomAppend overwrites an entry only of a block that is in the hash    *)
(* index or that no chain of the index has.                                *)
LEMMA AppendReadable ==
    ASSUME IndexInv, Running, NEW b \in Block, m_current_block_hash = pprev[b],
           CustomAppend(b), status' = status,
           \/ UNCHANGED <<dbBest, dbMuhash>>
           \/ dbBest' = b /\ dbMuhash' = b
    PROVE  Readable'
<1>1. /\ m_current_block_hash' = b /\ byHash' = byHash
      /\ byHeight' = [byHeight EXCEPT ![nHeight[b]] = b]
  BY DEF CustomAppend
<1>2. b \in Ancestors[b] /\ Chain(b) = Ancestors[b] /\ b # NoBlock
  BY AncestorAssumption, GenesisAssumption DEF Chain
<1>3. /\ Ancestors[b] = Chain(pprev[b]) \cup {b}
      /\ \A a \in Chain(pprev[b]) : a \in Block /\ nHeight[a] # nHeight[b]
  <2>1. CASE b = Genesis
    BY <2>1, ParentAssumption, AncestorAssumption DEF Chain
  <2>2. CASE b # Genesis
    <3>1. /\ pprev[b] \in Block /\ Chain(pprev[b]) = Ancestors[pprev[b]]
          /\ Ancestors[b] = Ancestors[pprev[b]] \cup {b} /\ b \notin Ancestors[pprev[b]]
      BY <2>2, ParentFacts DEF Chain
    <3>2. ASSUME NEW a \in Ancestors[pprev[b]]
          PROVE  a \in Block /\ nHeight[a] # nHeight[b]
      <4>1. a \in Ancestors[b] /\ a # b
        BY <3>1
      <4> QED BY <4>1, AncestorFacts, SMT
    <3> QED BY <3>1, <3>2
  <2> QED BY <2>1, <2>2
<1>4. ASSUME NEW a \in Block, nHeight[a] # nHeight[b], LookUpOne(a)
      PROVE  LookUpOne(a)'
  <2>1. byHeight'[nHeight[a]] = byHeight[nHeight[a]]
    BY <1>1, <1>4 DEF IndexInv, IndexTypes
  <2> QED BY <1>1, <1>4, <2>1 DEF LookUpOne
<1>5. byHeight'[nHeight[b]] = b
  BY <1>1 DEF IndexInv, IndexTypes
<1>6. \A a \in Ancestors[b] : LookUpOne(a)'
  <2>1. LookUpOne(b)'
    BY <1>2, <1>5 DEF LookUpOne
  <2> QED BY <1>3, <1>4, <2>1 DEF IndexInv, Readable
<1>7. \A a \in Chain(dbBest) \ Ancestors[b] : a \in byHash
  BY <1>3 DEF IndexInv, Readable
<1>8. ASSUME NEW a \in Chain(dbBest) PROVE LookUpOne(a)'
  <2>1. a \in Block /\ LookUpOne(a)
    <3>1. a \in Block
      BY <1>8, AncestorFacts DEF IndexInv, IndexTypes, MaybeBlock, Chain
    <3> QED BY <1>8, <3>1 DEF IndexInv, Readable
  <2>2. CASE nHeight[a] # nHeight[b]
    BY <1>4, <2>1, <2>2
  <2>3. CASE a \in Ancestors[b]
    BY <1>6, <2>3
  <2>4. CASE nHeight[a] = nHeight[b] /\ a \notin Ancestors[b]
    BY <1>1, <1>2, <1>5, <1>7, <2>4 DEF LookUpOne
  <2> QED BY <2>2, <2>3, <2>4
<1>9. /\ dbMuhash' = dbBest' /\ Running'
      /\ Chain(m_current_block_hash)' = Ancestors[b]
  BY <1>1, <1>2 DEF IndexInv, Readable, Running, Chain
<1>10. CASE UNCHANGED <<dbBest, dbMuhash>>
  <2>1. Chain(dbBest)' = Chain(dbBest)
    BY <1>10 DEF Chain
  <2> QED BY <1>1, <1>6, <1>7, <1>8, <1>9, <2>1 DEF Readable
<1>11. CASE dbBest' = b /\ dbMuhash' = b
  <2>1. Chain(dbBest)' = Ancestors[b]
    BY <1>2, <1>11 DEF Chain
  <2> QED BY <1>6, <1>9, <2>1 DEF Readable
<1> QED BY <1>10, <1>11

(* Commit: the state that is written is the one of the written block.      *)
LEMMA CommitReadable ==
    ASSUME IndexInv, NEW b \in MaybeBlock, Running, m_current_block_hash = b,
           Commit(b), UNCHANGED <<m_current_block_hash, byHeight, byHash>>,
           status' = status
    PROVE  Readable' /\ dbBest' \in MaybeBlock
<1>1. /\ \A a : LookUpOne(a)' <=> LookUpOne(a)
      /\ Chain(m_current_block_hash)' = Chain(b)
  BY DEF LookUpOne, Chain
<1>2. Running' /\ \A a \in Chain(b) : LookUpOne(a)
  BY DEF IndexInv, Readable, Running
<1>3. CASE b = NoBlock
  <2>1. dbBest' = dbBest /\ dbMuhash' = dbMuhash /\ Chain(dbBest)' = Chain(dbBest)
    BY <1>3 DEF Commit, Chain
  <2> QED BY <1>1, <1>2, <2>1 DEF IndexInv, Readable, IndexTypes
<1>4. CASE b # NoBlock
  <2>1. dbBest' = b /\ dbMuhash' = b /\ Chain(dbBest)' = Chain(b)
    BY <1>4 DEF Commit, Chain
  <2> QED BY <1>1, <1>2, <2>1, SMT DEF Readable
<1> QED BY <1>3, <1>4

(* Commit: what is written can be read, or was written before.             *)
LEMMA CommitOnDisk ==
    ASSUME IndexInv, NEW b \in MaybeBlock, m_current_block_hash = b, Commit(b),
           UNCHANGED <<validationVars, m_current_block_hash, appending, status>>,
           AllIn(events', haveUndo)
    PROVE  OnDisk'
<1>1. OnDisk /\ b \in haveUndo \cup {NoBlock, dbBest}
  BY DEF IndexInv, OnDisk
<1>2. IF b = NoBlock THEN dbBest' = dbBest ELSE dbBest' = b
  BY DEF Commit
<1>3. \A t \in IndexThread : appending'[t] \in haveUndo \cup {NoBlock}
  BY <1>1 DEF OnDisk
<1>4. /\ dbBest' \in haveUndo \cup {NoBlock, dbBest}
      /\ m_current_block_hash' \in haveUndo
         \/ m_current_block_hash' \in {NoBlock, dbBest'}
  BY <1>1, <1>2
<1> QED BY <1>1, <1>3, <1>4, OnDiskKept DEF Running

-----------------------------------------------------------------------------
(* The steps.                                                              *)

(* What does not touch the index and its threads leaves them as they are.  *)
LEMMA ValidationKeeps ==
    ASSUME IndexInv, tip' \in Block, diskTip' \in Block, events' \in Seq(Event),
           LeadsOn(events', tip'),
           Running /\ m_synced => LeadsTo(events', 0, Ahead, tip'), OnDisk',
           Running \/ UNCHANGED <<m_block_index, haveUndo>>,
           UNCHANGED <<m_best_block_index, m_synced, m_current_block_hash, dbVars,
                       threadVars, status>>
    PROVE  IndexInv'
<1>1. IndexTypes'
  BY DEF IndexInv, IndexTypes, dbVars, threadVars
<1>2. HandedOver'
  BY DEF IndexInv, HandedOver, threadVars
<1>3. InStep'
  BY DEF IndexInv, InStep, Running, threadVars
<1>4. Readable'
  BY DEF IndexInv, Readable, Running, Chain, LookUpOne, dbVars
<1>5. Backlog'
  BY DEF Backlog, Running, Ahead, threadVars
<1>6. IndexFailsOnlyAhead'
  <2>1. CASE Running
    BY <2>1 DEF Running, IndexFailsOnlyAhead
  <2>2. CASE UNCHANGED <<m_block_index, haveUndo>>
    BY <2>2 DEF IndexInv, IndexFailsOnlyAhead, CustomRemoveAccepts, RevertBlockAccepts,
                CopyHeightIndexToHashIndex, dbVars, threadVars
  <2> QED BY <2>1, <2>2
<1> QED BY <1>1, <1>2, <1>3, <1>4, <1>5, <1>6 DEF IndexInv

(* The block of the locator that a flush inside a change of the tip gives. *)
LEMMA LocatorFacts ==
    ASSUME NEW t \in Block, NEW b \in Block, NEW known,
           NEW f \in {NoBlock} \cup Path(b, t) \cup Path(t, b),
           diskTip \in Block, FlushInside(f, t, b, known)
    PROVE  /\ diskTip' \in Block
           /\ \/ LocatorInside(f, t, b) = <<>>
              \/ \E x \in Block : LocatorInside(f, t, b) = <<Flushed(x)>>
<1>1. CASE f = NoBlock
  BY <1>1 DEF FlushInside, LocatorInside
<1>2. CASE f # NoBlock
  <2>1. f \in Block /\ f # Genesis
    BY <1>2, AncestorAssumption DEF Path
  <2>2. pprev[f] \in Block
    BY <2>1, ParentFacts
  <2> QED BY <1>2, <2>1, <2>2 DEF FlushInside, LocatorInside
<1> QED BY <1>1, <1>2

(* ActivateBestChain queues the blocks of the new chain behind the rest.   *)
LEMMA IndexActivate ==
    ASSUME IndexInv, NEW b \in Block, NEW f \in Block \cup {NoBlock},
           ActivateBestChain(b, f)
    PROVE  IndexInv'
<1> DEFINE fork == Highest(Ancestors[tip] \cap Ancestors[b])
           more == LocatorInside(f, tip, b)
           path == ConnectedEvents(b, fork)
<1>1. tip \in Block /\ diskTip \in Block /\ events \in Seq(Event) /\ LeadsOn(events, tip)
  BY DEF IndexInv, IndexTypes, Backlog
<1>2. fork \in Ancestors[tip] /\ fork \in Ancestors[b] /\ (fork = b => b \in Ancestors[tip])
  BY <1>1, ForkFacts
<1>3. fork # b
  <2>1. nChainWork[b] > nChainWork[tip] /\ nChainWork[b] \in Nat /\ nChainWork[tip] \in Nat
    BY <1>1, NumberAssumption DEF ActivateBestChain
  <2>2. b \notin Ancestors[tip]
    BY <1>1, <2>1, AncestorAssumption, SMT
  <2> QED BY <1>2, <2>2
<1>4. /\ tip' = b /\ events' = events \o (more \o path)
      /\ FlushInside(f, tip, b, m_block_index')
      /\ f \in {NoBlock} \cup Path(b, tip) \cup Path(tip, b)
      /\ UNCHANGED <<m_best_block_index, m_synced, m_current_block_hash, dbVars,
                     threadVars, status>>
  BY DEF ActivateBestChain
<1>5. /\ diskTip' \in Block
      /\ more = <<>> \/ \E x \in Block : more = <<Flushed(x)>>
  BY <1>1, <1>4, LocatorFacts, SMT
<1>6. path \in Seq(Event)
  BY <1>2, <1>3, ConnectedFacts
<1> HIDE DEF fork, more, path
<1>7. PICK ev \in Seq(Event) :
        /\ events' = ev \o path /\ LeadsOn(ev, tip) /\ AllIn(ev, haveUndo)
        /\ \A a : LeadsTo(events, 0, a, tip) => LeadsTo(ev, 0, a, tip)
  <2>1. CASE more = <<>>
    <3>1. events' = events \o path
      BY <1>1, <1>4, <1>6, <2>1, SMTT(30)
    <3> QED BY <1>1, <3>1 DEF IndexInv, OnDisk
  <2>2. ASSUME NEW x \in Block, more = <<Flushed(x)>>
        PROVE  \E ev \in Seq(Event) :
                  /\ events' = ev \o path /\ LeadsOn(ev, tip) /\ AllIn(ev, haveUndo)
                  /\ \A a : LeadsTo(events, 0, a, tip) => LeadsTo(ev, 0, a, tip)
    <3> DEFINE ev == events \o <<Flushed(x)>>
    <3>1. /\ ev \in Seq(Event) /\ LeadsOn(ev, tip)
          /\ \A a : LeadsTo(events, 0, a, tip) => LeadsTo(ev, 0, a, tip)
      BY <1>1, QueueFlushed
    <3>2. <<Flushed(x)>> \in Seq(Event)
      BY SMT DEF Flushed, Event
    <3>3. events' = ev \o path
      BY <1>1, <1>4, <1>6, <2>2, <3>2, SMTT(30)
    <3>4. AllIn(ev, haveUndo)
      BY <1>1, FlushedIn DEF IndexInv, OnDisk
    <3> QED BY <3>1, <3>3, <3>4
  <2> QED BY <1>5, <2>1, <2>2
<1>8. /\ ev \o path \in Seq(Event) /\ LeadsOn(ev \o path, b)
      /\ \A a \in Block : LeadsTo(ev, 0, a, tip) => LeadsTo(ev \o path, 0, a, b)
  BY <1>1, <1>2, <1>3, <1>7, QueueConnected DEF path
<1>9. Running /\ m_synced => Ahead \in Block /\ LeadsTo(events, 0, Ahead, tip)
  BY DEF IndexInv, Backlog, HandedOver, Ahead, IndexTypes, MaybeBlock, IndexThread
<1>10. AllIn(ev \o path, haveUndo \cup Ancestors[b])
  BY <1>2, <1>3, <1>7, ConnectedIn DEF path
<1>11. OnDisk'
  <2>1. /\ Closed(haveUndo) /\ haveUndo \subseteq m_block_index
        /\ haveUndo' = haveUndo \cup Ancestors[b]
        /\ m_block_index' = m_block_index \cup Ancestors[b]
        /\ b \in Ancestors[b]
    BY AncestorAssumption DEF IndexInv, OnDisk, Files, ActivateBestChain
  <2>2. Closed(haveUndo')
    BY <2>1, ClosedFacts
  <2>3. /\ Closed(diskUndo') /\ diskUndo' \subseteq diskIndex' /\ diskTip' \in diskUndo'
    BY <1>4, <2>1, FlushFacts
  <2>4. AllIn(events', haveUndo')
    BY <1>7, <1>10, <2>1
  <2>5. tip' \in haveUndo' /\ haveUndo' \subseteq m_block_index'
    BY <1>4, <2>1
  <2> QED BY <1>4, <2>1, <2>2, <2>3, <2>4, <2>5, ValidationStores
<1>12. Running
  BY DEF ActivateBestChain
<1>13. Running /\ m_synced => LeadsTo(events', 0, Ahead, tip')
  BY <1>4, <1>7, <1>8, <1>9
<1>14. tip' \in Block /\ events' \in Seq(Event) /\ LeadsOn(events', tip')
  BY <1>4, <1>7, <1>8
<1> QED BY <1>4, <1>5, <1>11, <1>12, <1>13, <1>14, ValidationKeeps

(* InvalidateBlock takes the tip back, which the index still covers.       *)
LEMMA IndexInvalidate ==
    ASSUME IndexInv, NEW f, InvalidateTip(f)
    PROVE  IndexInv'
<1> DEFINE more == LocatorInside(f, tip, pprev[tip])
<1>1. /\ tip \in Block /\ diskTip \in Block /\ events \in Seq(Event)
      /\ LeadsOn(events, tip) /\ tip # Genesis
  BY DEF IndexInv, IndexTypes, Backlog, InvalidateTip
<1>2. pprev[tip] \in Block /\ pprev[tip] \in Ancestors[tip] /\ tip \notin Ancestors[pprev[tip]]
  BY <1>1, ParentFacts
<1>3. /\ tip' = pprev[tip] /\ events' = events \o more
      /\ FlushInside(f, tip, pprev[tip], m_block_index)
      /\ f \in {NoBlock} \cup Path(pprev[tip], tip) \cup Path(tip, pprev[tip])
      /\ UNCHANGED <<m_best_block_index, m_synced, m_current_block_hash, dbVars,
                     threadVars, status>>
  <2>1. tip \in Path(tip, pprev[tip])
    BY <1>1, <1>2, AncestorAssumption DEF Path
  <2> QED BY <2>1 DEF InvalidateTip
<1>4. /\ diskTip' \in Block
      /\ more = <<>> \/ \E x \in Block : more = <<Flushed(x)>>
  BY <1>1, <1>2, <1>3, LocatorFacts
<1> HIDE DEF more
<1>5. /\ events' \in Seq(Event) /\ LeadsOn(events', tip)
      /\ \A a : LeadsTo(events, 0, a, tip) => LeadsTo(events', 0, a, tip)
  <2>1. CASE more = <<>>
    BY <1>1, <1>3, <2>1, SMTT(30)
  <2>2. CASE \E x \in Block : more = <<Flushed(x)>>
    BY <1>1, <1>3, <2>2, QueueFlushed
  <2> QED BY <1>4, <2>1, <2>2
<1>6. ASSUME NEW n, NEW a \in Block, LeadsTo(events', n, a, tip)
      PROVE  LeadsTo(events', n, a, tip')
  <2>1. tip \in Ancestors[a] => tip' \in Ancestors[a]
    BY <1>2, <1>3, AncestorFacts
  <2> QED BY <1>6, <2>1 DEF LeadsTo
<1>7. LeadsOn(events', tip')
  <2> SUFFICES ASSUME NEW i \in 1..Len(events'), IsConnected(events', i)
               PROVE  LeadsTo(events', i, events'[i].block, tip')
    BY DEF LeadsOn
  <2>1. LeadsTo(events', i, events'[i].block, tip)
    BY <1>5 DEF LeadsOn
  <2>2. events'[i].block \in Block
    <3>1. events'[i] \in Event
      BY <1>5, SMT
    <3> QED BY <3>1 DEF Event
  <2> QED BY <1>6, <2>1, <2>2
<1>8. Running /\ m_synced => Ahead \in Block /\ LeadsTo(events, 0, Ahead, tip)
  BY DEF IndexInv, Backlog, HandedOver, Ahead, IndexTypes, MaybeBlock, IndexThread
<1>9. Running /\ m_synced => LeadsTo(events', 0, Ahead, tip')
  BY <1>5, <1>6, <1>8
<1>10. tip' \in Block
  BY <1>2, <1>3
<1>11. OnDisk'
  <2>1. /\ Closed(haveUndo) /\ haveUndo \subseteq m_block_index /\ tip \in haveUndo
        /\ UNCHANGED <<haveUndo, m_block_index>>
    BY DEF IndexInv, OnDisk, Files, InvalidateTip
  <2>2. tip' \in haveUndo /\ Ancestors[pprev[tip]] \subseteq haveUndo
    BY <1>1, <1>3, <2>1, ClosedParent DEF Closed
  <2>3. /\ Closed(diskUndo') /\ diskUndo' \subseteq diskIndex' /\ diskTip' \in diskUndo'
    BY <1>2, <1>3, <2>1, <2>2, FlushFacts
  <2>4. AllIn(events', haveUndo)
    <3>1. AllIn(events, haveUndo)
      BY DEF IndexInv, OnDisk
    <3>2. CASE more = <<>>
      BY <1>1, <1>3, <3>1, <3>2, SMTT(30)
    <3>3. CASE \E x \in Block : more = <<Flushed(x)>>
      BY <1>1, <1>3, <3>1, <3>3, FlushedIn
    <3> QED BY <1>4, <3>2, <3>3
  <2> QED BY <1>3, <2>1, <2>2, <2>3, <2>4, ValidationStores DEF Closed
<1>12. Running
  BY DEF InvalidateTip
<1> QED BY <1>3, <1>4, <1>5, <1>7, <1>9, <1>10, <1>11, <1>12, ValidationKeeps

(* FlushStateToDisk queues its locator.                                    *)
LEMMA IndexFlush ==
    ASSUME IndexInv, FlushStateToDisk
    PROVE  IndexInv'
<1>1. tip \in Block /\ events \in Seq(Event) /\ LeadsOn(events, tip)
  BY DEF IndexInv, IndexTypes, Backlog
<1>2. /\ tip' = tip /\ diskTip' = tip /\ events' = Append(events, Flushed(tip))
      /\ UNCHANGED <<m_best_block_index, m_synced, m_current_block_hash, dbVars,
                     threadVars, status>>
  BY DEF FlushStateToDisk
<1>3. events' = events \o <<Flushed(tip)>>
  BY <1>1, <1>2, SMT
<1>4. /\ events' \in Seq(Event) /\ LeadsOn(events', tip)
      /\ \A a : LeadsTo(events, 0, a, tip) => LeadsTo(events', 0, a, tip)
  BY <1>1, <1>3, QueueFlushed
<1>5. Running /\ m_synced => LeadsTo(events', 0, Ahead, tip')
  BY <1>2, <1>4 DEF IndexInv, Backlog
<1>6. OnDisk'
  <2>1. /\ Closed(haveUndo) /\ haveUndo \subseteq m_block_index /\ tip \in haveUndo
        /\ AllIn(events, haveUndo) /\ UNCHANGED <<haveUndo, m_block_index>>
        /\ diskIndex' = m_block_index /\ diskUndo' = haveUndo
    BY DEF IndexInv, OnDisk, Files, FlushStateToDisk
  <2>2. AllIn(events', haveUndo)
    BY <1>1, <1>3, <2>1, FlushedIn
  <2> QED BY <1>2, <2>1, <2>2, ValidationStores DEF Closed
<1> QED BY <1>1, <1>2, <1>4, <1>5, <1>6, ValidationKeeps DEF FlushStateToDisk

(* A header more changes nothing for the index.                            *)
LEMMA IndexHeader ==
    ASSUME IndexInv, NEW b \in Block, AcceptBlockHeader(b)
    PROVE  IndexInv'
<1>1. /\ Running /\ m_block_index \subseteq m_block_index'
      /\ UNCHANGED <<tip, haveUndo, diskTip, diskIndex, diskUndo, events>>
      /\ UNCHANGED <<m_best_block_index, m_synced, m_current_block_hash, dbVars,
                     threadVars, status>>
  BY DEF AcceptBlockHeader
<1>2. /\ Closed(haveUndo) /\ haveUndo \subseteq m_block_index /\ tip \in haveUndo
      /\ Closed(diskUndo) /\ diskUndo \subseteq diskIndex /\ diskTip \in diskUndo
      /\ AllIn(events, haveUndo)
  BY DEF IndexInv, OnDisk, Files
<1>3. OnDisk'
  BY <1>1, <1>2, ValidationStores DEF Closed, AllIn, IsConnected
<1>4. /\ tip \in Block /\ diskTip \in Block /\ events \in Seq(Event)
      /\ LeadsOn(events, tip) /\ (Running /\ m_synced => LeadsTo(events, 0, Ahead, tip))
  BY DEF IndexInv, IndexTypes, Backlog
<1> QED BY <1>1, <1>3, <1>4, ValidationKeeps

(* Init finds the state of the committed block, whatever was written since *)
(* the commit.                                                             *)
LEMMA IndexBaseInit ==
    ASSUME IndexInv, BaseIndexInit
    PROVE  IndexInv'
<1>1. /\ m_best_block_index' = dbBest /\ m_current_block_hash' = dbBest
      /\ pindex' = dbBest /\ m_synced' = (dbBest = tip)
      /\ syncAt' = IF dbBest = tip THEN "over" ELSE "loop"
      /\ UNCHANGED <<tip, diskTip, events, byHeight, byHash, dbBest, dbMuhash, appending,
                     iter_tip>>
      /\ appending = Idlers /\ tip \in Block
  BY DEF BaseIndexInit, IndexInv, HandedOver, IndexTypes, validationVars, dbVars
<1>2. status' \in {"up", "notfound"}
  <2>1. dbBest # NoBlock => LookUpOne(dbBest) /\ dbMuhash = dbBest
    BY AncestorAssumption DEF IndexInv, Readable, Chain, IndexTypes, MaybeBlock
  <2> QED BY <2>1 DEF BaseIndexInit, Fail
<1>3. appending["sync"] = NoBlock /\ appending["callback"] = NoBlock
  BY <1>1 DEF Idlers, IndexThread
<1>4. IndexTypes'
  BY <1>1 DEF IndexInv, IndexTypes
<1>5. HandedOver'
  BY <1>1, <1>2, <1>3 DEF HandedOver
<1>6. InStep'
  BY <1>1, <1>3 DEF InStep, IndexThread
<1>7. Readable'
  BY <1>1 DEF IndexInv, Readable, Chain, LookUpOne
<1>8. Backlog'
  <2>1. m_synced' => LeadsTo(events', 0, Ahead', tip')
    BY <1>1, <1>3, AncestorAssumption DEF LeadsTo, Ahead
  <2> QED BY <1>1, <2>1 DEF IndexInv, Backlog
<1>9. IndexFailsOnlyAhead'
  BY <1>2 DEF IndexFailsOnlyAhead
<1>10. OnDisk'
  <2>1. Files' /\ UNCHANGED <<haveUndo, m_block_index>>
    BY DEF BaseIndexInit, validationVars, IndexInv, OnDisk, Files, Closed
  <2>2. Running' /\ dbBest # NoBlock => dbBest \in m_block_index
    BY DEF BaseIndexInit, Fail, Running
  <2>3. AllIn(events, haveUndo)
    BY DEF IndexInv, OnDisk
  <2> QED BY <1>1, <2>1, <2>2, <2>3 DEF OnDisk, Idlers, AllIn, IsConnected
<1> QED BY <1>4, <1>5, <1>6, <1>7, <1>8, <1>9, <1>10 DEF IndexInv

(* Sync begins to append the next block of the active chain.               *)
LEMMA SyncWork ==
    ASSUME IndexInv, Running, syncAt \in {"loop", "recheck"}, appending["sync"] = NoBlock,
           NextSyncBlock(pindex) # NoBlock, Work("sync", pindex, NextSyncBlock(pindex)),
           syncAt' = "loop",
           UNCHANGED <<validationVars, events, m_best_block_index, m_synced,
                       m_current_block_hash, dbVars, pindex, status>>
    PROVE  IndexInv'
<1> DEFINE next == NextSyncBlock(pindex)
<1>1. /\ tip \in Block /\ pindex \in MaybeBlock /\ ~m_synced
      /\ appending["callback"] = NoBlock /\ m_current_block_hash = pindex
  BY DEF IndexInv, IndexTypes, HandedOver, InStep
<1>2. /\ next \in Block /\ next \in Ancestors[tip]
      /\ \/ pindex = pprev[next]
         \/ pindex \in Block /\ pprev[next] \in Ancestors[pindex]
  BY <1>1, NextSyncFacts DEF MaybeBlock
<1> HIDE DEF next
<1>3. /\ appending' = [appending EXCEPT !["sync"] = next]
      /\ iter_tip' = [iter_tip EXCEPT !["sync"] = pindex]
  BY DEF Work, next
<1>4. /\ appending' \in [IndexThread -> MaybeBlock]
      /\ iter_tip' \in [IndexThread -> MaybeBlock]
      /\ appending'["sync"] = next /\ iter_tip'["sync"] = pindex
      /\ appending'["callback"] = NoBlock
  BY <1>1, <1>2, <1>3 DEF IndexInv, IndexTypes, IndexThread, MaybeBlock
<1>5. IndexTypes'
  BY <1>4 DEF IndexInv, IndexTypes, validationVars, dbVars
<1>6. HandedOver'
  BY <1>1, <1>4 DEF HandedOver, Running
<1>7. InStep'
  BY <1>1, <1>2, <1>4, GenesisAssumption DEF InStep, IndexThread
<1>8. Readable'
  BY DEF IndexInv, Readable, Running, Chain, LookUpOne, dbVars
<1>9. Backlog'
  BY <1>1 DEF IndexInv, Backlog, validationVars
<1>10. IndexFailsOnlyAhead'
  BY DEF Running, IndexFailsOnlyAhead
<1>11. OnDisk'
  <2>1. OnDisk /\ next \in haveUndo
    BY <1>2 DEF IndexInv, OnDisk, Files, Closed
  <2>2. \A t \in IndexThread : appending'[t] \in haveUndo \cup {NoBlock}
    BY <1>4, <2>1 DEF IndexThread
  <2> QED BY <2>1, <2>2, OnDiskKept DEF OnDisk, dbVars, Running, AllIn, IsConnected
<1> QED BY <1>5, <1>6, <1>7, <1>8, <1>9, <1>10, <1>11 DEF IndexInv

(* Sync commits what it has indexed and ends, or looks again.              *)
LEMMA SyncCommits ==
    ASSUME IndexInv, Running, syncAt \in {"loop", "commit"}, appending["sync"] = NoBlock,
           m_best_block_index' = pindex, Commit(pindex), syncAt' \in {"over", "recheck"},
           UNCHANGED <<validationVars, events, m_synced, m_current_block_hash, byHeight,
                       byHash, pindex, appending, iter_tip, status>>
    PROVE  IndexInv'
<1>1. /\ pindex \in MaybeBlock /\ ~m_synced /\ m_current_block_hash = pindex
      /\ appending["callback"] = NoBlock
  BY DEF IndexInv, IndexTypes, HandedOver, InStep
<1>2. Readable' /\ dbBest' \in MaybeBlock
  BY <1>1, CommitReadable
<1>3. IndexTypes'
  BY <1>1, <1>2 DEF IndexInv, IndexTypes, validationVars
<1>4. HandedOver'
  BY <1>1 DEF IndexInv, HandedOver, Running
<1>5. InStep'
  BY <1>1 DEF InStep, IndexThread
<1>6. Backlog'
  BY <1>1 DEF IndexInv, Backlog, validationVars
<1>7. IndexFailsOnlyAhead'
  BY DEF Running, IndexFailsOnlyAhead
<1>8. AllIn(events', haveUndo)
  BY DEF IndexInv, OnDisk
<1>9. OnDisk'
  BY <1>1, <1>8, CommitOnDisk
<1> QED BY <1>2, <1>3, <1>4, <1>5, <1>6, <1>7, <1>9 DEF IndexInv

(* An iteration of Sync picks the next block, a rewind or the end.         *)
LEMMA IndexSyncLoop ==
    ASSUME IndexInv, SyncLoop
    PROVE  IndexInv'
<1>1. /\ Running /\ syncAt = "loop" /\ appending["sync"] = NoBlock
      /\ UNCHANGED <<validationVars, events, m_synced, m_interrupt, byHeight, byHash,
                     pindex, status, restarts>>
  BY DEF SyncLoop
<1>2. CASE m_interrupt
  BY <1>1, <1>2, SyncCommits DEF SyncLoop
<1>3. CASE ~m_interrupt /\ NextSyncBlock(pindex) = NoBlock
  <2>1. /\ syncAt' = "commit"
        /\ UNCHANGED <<m_best_block_index, m_current_block_hash, dbBest, dbMuhash,
                       appending, iter_tip>>
    BY <1>3 DEF SyncLoop
  <2>2. IndexTypes'
    BY <1>1, <2>1 DEF IndexInv, IndexTypes, validationVars
  <2>3. HandedOver'
    BY <1>1, <2>1 DEF IndexInv, HandedOver, Running
  <2>4. InStep'
    BY <1>1, <2>1 DEF IndexInv, InStep, Running
  <2>5. Readable'
    BY <1>1, <2>1 DEF IndexInv, Readable, Running, Chain, LookUpOne
  <2>6. Backlog'
    BY <1>1, <2>1 DEF IndexInv, Backlog, Running, Ahead, validationVars
  <2>7. IndexFailsOnlyAhead'
    BY <1>1 DEF Running, IndexFailsOnlyAhead
  <2>8. OnDisk'
    BY <1>1, <2>1, OnDiskKept DEF IndexInv, OnDisk, Running
  <2> QED BY <2>2, <2>3, <2>4, <2>5, <2>6, <2>7, <2>8 DEF IndexInv
<1>4. CASE ~m_interrupt /\ NextSyncBlock(pindex) # NoBlock
  <2>1. /\ Work("sync", pindex, NextSyncBlock(pindex))
        /\ UNCHANGED <<m_best_block_index, m_current_block_hash, dbVars, syncAt>>
    BY <1>1, <1>4 DEF SyncLoop, dbVars
  <2> QED BY <1>1, <1>4, <2>1, SyncWork
<1> QED BY <1>2, <1>3, <1>4

(* Sync commits the state of its best block when it is at the tip.         *)
LEMMA IndexSyncCommit ==
    ASSUME IndexInv, SyncCommit
    PROVE  IndexInv'
<1>1. appending["sync"] = NoBlock
  BY DEF SyncCommit, IndexInv, HandedOver
<1> QED BY <1>1, SyncCommits DEF SyncCommit

(* Sync looks at the tip once more under cs_main, and hands over.          *)
LEMMA IndexSyncRecheck ==
    ASSUME IndexInv, SyncRecheck
    PROVE  IndexInv'
<1>1. /\ Running /\ syncAt = "recheck"
      /\ UNCHANGED <<validationVars, events, m_best_block_index, m_interrupt,
                     m_current_block_hash, dbVars, pindex, status, restarts>>
  BY DEF SyncRecheck
<1>2. /\ appending["sync"] = NoBlock /\ appending["callback"] = NoBlock /\ ~m_synced
      /\ m_best_block_index = pindex /\ m_current_block_hash = pindex
      /\ tip \in Block /\ pindex \in MaybeBlock
  BY <1>1 DEF IndexInv, HandedOver, InStep, IndexTypes
<1>3. CASE NextSyncBlock(pindex) = NoBlock
  <2>1. m_synced' = TRUE /\ syncAt' = "over" /\ UNCHANGED <<appending, iter_tip>>
    BY <1>3 DEF SyncRecheck
  <2>2. pindex \in Block /\ tip \in Ancestors[pindex]
    BY <1>2, <1>3, NextSyncFacts DEF MaybeBlock
  <2>3. IndexTypes'
    BY <1>1, <2>1 DEF IndexInv, IndexTypes, validationVars, dbVars
  <2>4. HandedOver'
    BY <1>1, <1>2, <2>1, <2>2 DEF HandedOver, Running
  <2>5. InStep'
    BY <1>1, <1>2, <2>1 DEF InStep, IndexThread
  <2>6. Readable'
    BY <1>1 DEF IndexInv, Readable, Running, Chain, LookUpOne, dbVars
  <2>7. Backlog'
    BY <1>1, <1>2, <2>1, <2>2 DEF IndexInv, Backlog, Ahead, LeadsTo, validationVars
  <2>8. IndexFailsOnlyAhead'
    BY <1>1 DEF Running, IndexFailsOnlyAhead
  <2>9. OnDisk'
    BY <1>1, <2>1, OnDiskKept DEF IndexInv, OnDisk, Running, dbVars
  <2> QED BY <2>3, <2>4, <2>5, <2>6, <2>7, <2>8, <2>9 DEF IndexInv
<1>4. CASE NextSyncBlock(pindex) # NoBlock
  <2>1. /\ Work("sync", pindex, NextSyncBlock(pindex)) /\ syncAt' = "loop"
        /\ m_synced' = m_synced
    BY <1>4 DEF SyncRecheck
  <2> QED BY <1>1, <1>2, <1>4, <2>1, SyncWork
<1> QED BY <1>3, <1>4

(* FatalErrorf: nothing moves any more.                                    *)
LEMMA IndexFatal ==
    ASSUME IndexInv, Running, FatalError, NEW t \in IndexThread, appending[t] # NoBlock,
           iter_tip[t] = dbBest, dbBest # pprev[appending[t]],
           dbBest \in m_block_index \ haveUndo, CustomRemoveAccepts(dbBest)
    PROVE  IndexInv'
<1>1. /\ status' = "failed"
      /\ UNCHANGED <<validationVars, events, m_best_block_index, m_synced,
                     m_current_block_hash, dbVars, threadVars>>
  BY DEF FatalError, Fail
<1>2. /\ UNCHANGED <<tip, m_block_index, haveUndo, diskTip, diskIndex, diskUndo>>
      /\ UNCHANGED <<byHeight, byHash, dbBest, dbMuhash>>
      /\ UNCHANGED <<syncAt, pindex, appending, iter_tip>>
  BY <1>1 DEF validationVars, dbVars, threadVars
<1>3. ~Running'
  BY <1>1 DEF Running
<1>4. IndexTypes'
  BY <1>1, <1>2 DEF IndexInv, IndexTypes
<1>5. HandedOver'
  BY <1>1, <1>2 DEF IndexInv, HandedOver
<1>6. InStep' /\ Backlog'
  BY <1>1, <1>2, <1>3 DEF IndexInv, InStep, Backlog
<1>7. Readable'
  BY <1>2, <1>3 DEF IndexInv, Readable, Chain, LookUpOne
<1>8. OnDisk'
  BY <1>1, <1>3, OnDiskKept DEF IndexInv, OnDisk, dbVars, threadVars
<1>9. CustomRemoveAccepts(dbBest)'
  BY <1>1, <1>2 DEF CustomRemoveAccepts, RevertBlockAccepts, CopyHeightIndexToHashIndex
<1>10. IndexFailsOnlyAhead'
  BY <1>2, <1>9 DEF IndexFailsOnlyAhead
<1> QED BY <1>4, <1>5, <1>6, <1>7, <1>8, <1>10 DEF IndexInv

(* Rewind takes the index one block down, towards the fork.                *)
LEMMA IndexRewound ==
    ASSUME IndexInv, NEW t \in IndexThread, Rewind(t), iter_tip[t] \in haveUndo
    PROVE  IndexInv'
<1> DEFINE b == iter_tip[t]
<1>1. Running /\ appending[t] # NoBlock /\ b # pprev[appending[t]]
  BY DEF Rewind
<1>2. /\ CustomRemoveAccepts(b) /\ b \in Block \ {Genesis} /\ m_current_block_hash = b
      /\ pprev[appending[t]] \in Ancestors[pprev[b]]
  BY <1>1, RewindAccepted
<1>3. /\ CustomRemove(b) /\ iter_tip' = [iter_tip EXCEPT ![t] = pprev[b]]
      /\ m_best_block_index' = IF pprev[b] = pprev[appending[t]]
                               THEN pprev[b] ELSE m_best_block_index
      /\ UNCHANGED <<validationVars, events, m_synced, m_interrupt, dbBest, dbMuhash,
                     syncAt, pindex, appending, status, restarts>>
  BY <1>2 DEF Rewind
<1>4. pprev[b] \in Block
  BY <1>2, ParentFacts
<1>5. /\ \A u \in IndexThread : u # t => appending[u] = NoBlock
      /\ t = "sync" => syncAt = "loop" /\ ~m_synced
      /\ t = "callback" => syncAt = "over" /\ m_synced
  BY <1>1, OneAppends
<1>6. m_current_block_hash' = pprev[b] /\ byHeight' = byHeight
  BY <1>3 DEF CustomRemove
<1>7. iter_tip' \in [IndexThread -> MaybeBlock] /\ iter_tip'[t] = pprev[b]
  BY <1>3, <1>4 DEF IndexInv, IndexTypes, MaybeBlock
<1> HIDE DEF b
<1>8. IndexTypes'
  BY <1>3, <1>4, <1>6, <1>7 DEF IndexInv, IndexTypes, MaybeBlock, validationVars
<1>9. HandedOver'
  BY <1>1, <1>3, <1>4, <1>5 DEF IndexInv, HandedOver, Running, IndexThread
<1>10. InStep'
  BY <1>2, <1>3, <1>4, <1>5, <1>6, <1>7, <1>1 DEF InStep, IndexThread
<1>11. Readable'
  BY <1>1, <1>2, <1>3, RewindReadable
<1>12. Backlog'
  BY <1>1, <1>3, <1>5 DEF IndexInv, Backlog, Running, Ahead, IndexThread, validationVars
<1>13. IndexFailsOnlyAhead'
  BY <1>1, <1>3 DEF Running, IndexFailsOnlyAhead
<1>14. OnDisk'
  <2>1. OnDisk /\ pprev[b] \in haveUndo
    BY <1>2, ClosedParent DEF IndexInv, OnDisk, Files, b
  <2>2. /\ \A u \in IndexThread : appending'[u] \in haveUndo \cup {NoBlock}
        /\ AllIn(events', haveUndo)
    BY <1>3, <2>1 DEF OnDisk
  <2> QED BY <1>3, <1>6, <2>1, <2>2, OnDiskKept DEF Running
<1> QED BY <1>8, <1>9, <1>10, <1>11, <1>12, <1>13, <1>14 DEF IndexInv

(* A block that cannot be read is the committed one, from which the child  *)
(* has not moved since it was started.                                     *)
LEMMA IndexRewind ==
    ASSUME IndexInv, NEW t \in IndexThread, Rewind(t)
    PROVE  IndexInv'
<1> DEFINE b == iter_tip[t]
<1>1. CASE b \in haveUndo
  BY <1>1, IndexRewound
<1>2. CASE b \notin haveUndo
  <2>1. Running /\ appending[t] # NoBlock /\ b # pprev[appending[t]]
    BY DEF Rewind
  <2>2. CustomRemoveAccepts(b) /\ b \in Block /\ m_current_block_hash = b
    BY <2>1, RewindAccepted
  <2>3. b = dbBest /\ dbBest \in m_block_index
    BY <1>2, <2>1, <2>2, GenesisAssumption DEF IndexInv, OnDisk
  <2>4. FatalError
    BY <1>2 DEF Rewind
  <2> QED BY <1>2, <2>1, <2>2, <2>3, <2>4, IndexFatal
<1> QED BY <1>1, <1>2

(* ProcessBlock appends the block to the index of the thread it is in.     *)
LEMMA IndexProcess ==
    ASSUME IndexInv, NEW t \in IndexThread, ProcessBlock(t)
    PROVE  IndexInv'
<1> DEFINE b == appending[t]
<1>0. b \in haveUndo
  BY DEF ProcessBlock, IndexInv, OnDisk
<1>1. Running /\ appending[t] # NoBlock /\ iter_tip[t] = pprev[b]
  BY DEF ProcessBlock
<1>2. CustomAppendAccepts(b) /\ b \in Block /\ m_current_block_hash = pprev[b]
  BY <1>1, AppendAccepted
<1>3. /\ CustomAppend(b)
      /\ appending' = [appending EXCEPT ![t] = NoBlock]
      /\ iter_tip' = [iter_tip EXCEPT ![t] = NoBlock]
      /\ pindex' = IF t = "sync" THEN b ELSE pindex
      /\ \/ t = "sync" /\ UNCHANGED <<m_best_block_index, dbBest, dbMuhash>>
         \/ t = "sync" /\ m_best_block_index' = b /\ Commit(b)
         \/ /\ t = "callback" /\ m_best_block_index' = b
            /\ UNCHANGED <<dbBest, dbMuhash>>
      /\ UNCHANGED <<validationVars, events, m_synced, m_interrupt, syncAt, status,
                     restarts>>
  BY <1>0, <1>2 DEF ProcessBlock
<1>4. /\ \A u \in IndexThread : u # t => appending[u] = NoBlock
      /\ t = "sync" => syncAt = "loop" /\ ~m_synced
      /\ t = "callback" => syncAt = "over" /\ m_synced
  BY <1>1, OneAppends
<1>5. m_current_block_hash' = b /\ byHeight' = [byHeight EXCEPT ![nHeight[b]] = b]
  BY <1>3 DEF CustomAppend
<1>6. \/ UNCHANGED <<dbBest, dbMuhash>>
      \/ dbBest' = b /\ dbMuhash' = b
  BY <1>2, <1>3, <1>5, GenesisAssumption DEF Commit
<1>7. /\ appending' \in [IndexThread -> MaybeBlock] /\ iter_tip' \in [IndexThread -> MaybeBlock]
      /\ \A u \in IndexThread : appending'[u] = NoBlock
  BY <1>3, <1>4 DEF IndexInv, IndexTypes, MaybeBlock
<1>8. byHeight' \in [{nHeight[c] : c \in Block} -> MaybeBlock]
  BY <1>2, <1>5 DEF IndexInv, IndexTypes, MaybeBlock
<1>9. t = "callback" => b = Ahead
  BY <1>1 DEF Ahead
<1> HIDE DEF b
<1>10. IndexTypes'
  BY <1>2, <1>3, <1>5, <1>6, <1>7, <1>8 DEF IndexInv, IndexTypes, MaybeBlock, validationVars
<1>11. HandedOver'
  BY <1>1, <1>2, <1>3, <1>4, <1>7 DEF IndexInv, HandedOver, Running, IndexThread
<1>12. InStep'
  BY <1>3, <1>4, <1>5, <1>7 DEF InStep, IndexThread
<1>13. Readable'
  BY <1>1, <1>2, <1>3, <1>6, AppendReadable
<1>14. Backlog'
  BY <1>1, <1>3, <1>4, <1>7, <1>9 DEF IndexInv, Backlog, Running, Ahead, IndexThread, validationVars
<1>15. IndexFailsOnlyAhead'
  BY <1>1, <1>3 DEF Running, IndexFailsOnlyAhead
<1>16. OnDisk'
  <2>1. OnDisk /\ AllIn(events', haveUndo)
    BY <1>3 DEF IndexInv, OnDisk
  <2>2. dbBest' \in haveUndo \cup {NoBlock, dbBest}
    BY <1>0, <1>6
  <2> QED BY <1>0, <1>3, <1>5, <1>7, <2>1, <2>2, OnDiskKept DEF Running
<1> QED BY <1>10, <1>11, <1>12, <1>13, <1>14, <1>15, <1>16 DEF IndexInv

(* BlockConnected drops the event, or sets out for its block.              *)
LEMMA IndexBlockConnected ==
    ASSUME IndexInv, BlockConnected
    PROVE  IndexInv'
<1> DEFINE b == Head(events).block
<1>1. /\ Running /\ appending["callback"] = NoBlock /\ events # <<>>
      /\ Head(events).type = "connected" /\ events' = Tail(events)
      /\ UNCHANGED <<validationVars, m_best_block_index, m_synced, m_interrupt,
                     m_current_block_hash, dbVars, syncAt, pindex, status, restarts>>
  BY DEF BlockConnected
<1>2. /\ events \in Seq(Event) /\ LeadsOn(events, tip) /\ tip' = tip
      /\ m_synced => LeadsTo(events, 0, m_best_block_index, tip)
  BY <1>1 DEF IndexInv, IndexTypes, Backlog, Ahead, validationVars
<1>3. /\ Head(events) \in Event /\ events' \in Seq(Event) /\ LeadsOn(events', tip)
      /\ LeadsTo(events', 0, b, tip)
      /\ \A a : LeadsTo(events, 0, a, tip) /\ pprev[b] \notin Ancestors[a] =>
               LeadsTo(events', 0, a, tip)
  BY <1>1, <1>2, TakeEvent
<1>4. b \in Block
  BY <1>3 DEF Event
<1> HIDE DEF b
<1>5. Readable'
  BY <1>1 DEF IndexInv, Readable, Running, Chain, LookUpOne, dbVars
<1>6. IndexFailsOnlyAhead'
  BY <1>1 DEF Running, IndexFailsOnlyAhead
<1>7. OnDisk /\ AllIn(events', haveUndo) /\ b \in haveUndo
  BY <1>1, <1>2, TakeIn DEF IndexInv, OnDisk, b
<1>8. ASSUME \A t \in IndexThread : appending'[t] \in haveUndo \cup {NoBlock}
      PROVE  OnDisk'
  BY <1>1, <1>7, <1>8, OnDiskKept DEF OnDisk, Running, dbVars
<1>9. CASE Ignores(b)
  <2>1. UNCHANGED <<appending, iter_tip>>
    BY <1>9 DEF BlockConnected, b
  <2>2. IndexTypes'
    BY <1>1, <1>3, <2>1 DEF IndexInv, IndexTypes, validationVars, dbVars
  <2>3. HandedOver'
    BY <1>1, <2>1 DEF IndexInv, HandedOver
  <2>4. InStep'
    BY <1>1, <2>1 DEF IndexInv, InStep, Running
  <2>5. Backlog'
    BY <1>1, <1>2, <1>3, <1>9, <2>1 DEF Backlog, Ignores, Running, Ahead
  <2>6. OnDisk'
    BY <1>7, <1>8, <2>1 DEF OnDisk
  <2> QED BY <1>5, <1>6, <2>2, <2>3, <2>4, <2>5, <2>6 DEF IndexInv
<1>10. CASE ~Ignores(b)
  <2>1. /\ appending' = [appending EXCEPT !["callback"] = b]
        /\ iter_tip' = [iter_tip EXCEPT !["callback"] = m_best_block_index]
        /\ m_synced /\ pprev[b] \in Ancestors[m_best_block_index]
    BY <1>10 DEF BlockConnected, b, Work, Ignores
  <2>2. /\ m_best_block_index \in Block /\ syncAt = "over" /\ appending["sync"] = NoBlock
        /\ m_current_block_hash = m_best_block_index
    BY <1>1, <2>1 DEF IndexInv, HandedOver, InStep
  <2>3. /\ appending' \in [IndexThread -> MaybeBlock]
        /\ iter_tip' \in [IndexThread -> MaybeBlock]
        /\ appending'["sync"] = NoBlock /\ appending'["callback"] = b
        /\ iter_tip'["callback"] = m_best_block_index
    BY <1>4, <2>1, <2>2 DEF IndexInv, IndexTypes, IndexThread, MaybeBlock
  <2>4. IndexTypes'
    BY <1>1, <1>3, <2>3 DEF IndexInv, IndexTypes, validationVars, dbVars
  <2>5. HandedOver'
    BY <1>1, <2>1, <2>2, <2>3 DEF HandedOver, Running
  <2>6. InStep'
    BY <1>1, <1>4, <2>1, <2>2, <2>3, GenesisAssumption DEF InStep, IndexThread
  <2>7. Backlog'
    BY <1>2, <1>3, <1>4, <2>3, GenesisAssumption DEF Backlog, Ahead
  <2>8. OnDisk'
    BY <1>7, <1>8, <2>3 DEF IndexThread
  <2> QED BY <1>5, <1>6, <2>4, <2>5, <2>6, <2>7, <2>8 DEF IndexInv
<1> QED BY <1>9, <1>10

(* ChainStateFlushed commits the block the child is at, or nothing.        *)
LEMMA IndexChainStateFlushed ==
    ASSUME IndexInv, ChainStateFlushed
    PROVE  IndexInv'
<1>1. /\ Running /\ appending["callback"] = NoBlock /\ events # <<>>
      /\ Head(events).type = "flushed" /\ events' = Tail(events)
      /\ UNCHANGED <<validationVars, m_best_block_index, m_synced, m_interrupt,
                     m_current_block_hash, byHeight, byHash, threadVars, status, restarts>>
  BY DEF ChainStateFlushed
<1>2. /\ events \in Seq(Event) /\ LeadsOn(events, tip) /\ tip' = tip
      /\ m_synced => LeadsTo(events, 0, m_best_block_index, tip)
  BY <1>1 DEF IndexInv, IndexTypes, Backlog, Ahead, validationVars
<1>3. /\ events' \in Seq(Event) /\ LeadsOn(events', tip)
      /\ \A a : LeadsTo(events, 0, a, tip) => LeadsTo(events', 0, a, tip)
  BY <1>1, <1>2, TakeEvent
<1>4. Readable' /\ dbBest' \in MaybeBlock
  <2>1. CASE m_synced /\ Head(events).block \in Ancestors[m_best_block_index]
    <3>1. m_best_block_index \in MaybeBlock /\ m_current_block_hash = m_best_block_index
      BY <1>1, <2>1 DEF IndexInv, IndexTypes, InStep
    <3>2. Commit(m_best_block_index)
      BY <2>1 DEF ChainStateFlushed
    <3> QED BY <1>1, <3>1, <3>2, CommitReadable
  <2>2. CASE ~(m_synced /\ Head(events).block \in Ancestors[m_best_block_index])
    <3>1. UNCHANGED <<dbBest, dbMuhash>>
      BY <2>2 DEF ChainStateFlushed
    <3> QED
      BY <1>1, <3>1 DEF IndexInv, Readable, Running, Chain, LookUpOne, IndexTypes
  <2> QED BY <2>1, <2>2
<1>5. IndexTypes'
  BY <1>1, <1>3, <1>4 DEF IndexInv, IndexTypes, validationVars, threadVars
<1>6. HandedOver'
  BY <1>1 DEF IndexInv, HandedOver, threadVars
<1>7. InStep'
  BY <1>1 DEF IndexInv, InStep, Running, threadVars
<1>8. Backlog'
  BY <1>1, <1>2, <1>3 DEF Backlog, Running, Ahead, threadVars
<1>9. IndexFailsOnlyAhead'
  BY <1>1 DEF Running, IndexFailsOnlyAhead
<1>10. OnDisk'
  <2>0. OnDisk /\ AllIn(events', haveUndo)
    BY <1>1, <1>2, TakeIn DEF IndexInv, OnDisk
  <2>1. CASE m_synced /\ Head(events).block \in Ancestors[m_best_block_index]
    <3>1. m_best_block_index \in MaybeBlock /\ m_current_block_hash = m_best_block_index
      BY <1>1, <2>1 DEF IndexInv, IndexTypes, InStep
    <3>2. Commit(m_best_block_index)
      BY <2>1 DEF ChainStateFlushed
    <3> QED BY <1>1, <2>0, <3>1, <3>2, CommitOnDisk DEF threadVars
  <2>2. CASE ~(m_synced /\ Head(events).block \in Ancestors[m_best_block_index])
    <3>1. UNCHANGED <<dbBest, dbMuhash>>
      BY <2>2 DEF ChainStateFlushed
    <3> QED BY <1>1, <2>0, <3>1, OnDiskKept DEF OnDisk, Running, threadVars
  <2> QED BY <2>1, <2>2
<1> QED BY <1>4, <1>5, <1>6, <1>7, <1>8, <1>9, <1>10 DEF IndexInv

(* The process ends, in order or not.                                      *)
LEMMA IndexGoDown ==
    ASSUME IndexInv, GoDown, tip' \in Block, diskTip' \in Block, Files',
           \/ UNCHANGED <<dbBest, dbMuhash>>
           \/ /\ m_synced /\ Running /\ appending["callback"] = NoBlock
              /\ dbBest' = m_best_block_index /\ dbMuhash' = m_current_block_hash
    PROVE  IndexInv'
<1>1. /\ status' = "down" /\ events' = <<>> /\ m_synced' = FALSE
      /\ m_best_block_index' = NoBlock /\ m_current_block_hash' = NoBlock
      /\ syncAt' = "over" /\ pindex' = NoBlock
      /\ appending' = Idlers /\ iter_tip' = Idlers
      /\ UNCHANGED <<byHeight, byHash>>
  BY DEF GoDown
<1>2. \A a : LookUpOne(a)' <=> LookUpOne(a)
  BY <1>1 DEF LookUpOne
<1>3. ~Running'
  BY <1>1 DEF Running
<1>4. Readable' /\ dbBest' \in MaybeBlock
  <2>1. CASE UNCHANGED <<dbBest, dbMuhash>>
    BY <1>2, <1>3, <2>1 DEF IndexInv, Readable, Chain, IndexTypes
  <2>2. CASE /\ m_synced /\ Running /\ appending["callback"] = NoBlock
             /\ dbBest' = m_best_block_index /\ dbMuhash' = m_current_block_hash
    <3>1. m_current_block_hash = m_best_block_index /\ m_best_block_index \in MaybeBlock
      BY <2>2 DEF IndexInv, InStep, IndexTypes
    <3>2. \A a \in Chain(m_current_block_hash) : LookUpOne(a)
      BY <2>2 DEF IndexInv, Readable
    <3> QED BY <1>2, <1>3, <2>2, <3>1, <3>2 DEF Readable, Chain
  <2> QED BY <2>1, <2>2
<1>5. /\ Idlers \in [IndexThread -> MaybeBlock]
      /\ Idlers["sync"] = NoBlock /\ Idlers["callback"] = NoBlock
  BY DEF Idlers, MaybeBlock, IndexThread
<1>6. IndexTypes'
  BY <1>1, <1>4, <1>5, SMTT(30) DEF IndexInv, IndexTypes, MaybeBlock
<1>7. HandedOver'
  BY <1>1, <1>5 DEF HandedOver
<1>8. InStep'
  BY <1>3 DEF InStep
<1>9. Backlog'
  BY <1>1, <1>3, SMTT(30) DEF Backlog, LeadsOn
<1>10. IndexFailsOnlyAhead'
  BY <1>1 DEF IndexFailsOnlyAhead
<1>11. AllIn(events', haveUndo')
  BY <1>1, SMT DEF AllIn
<1>12. OnDisk'
  BY <1>1, <1>3, <1>11 DEF OnDisk, Idlers
<1> QED BY <1>4, <1>6, <1>7, <1>8, <1>9, <1>10, <1>12 DEF IndexInv

(* Where nothing is written, nothing changes of what can be read.          *)
LEMMA NothingStored ==
    ASSUME IndexInv, UNCHANGED <<validationVars, events, m_current_block_hash, dbVars,
                                 threadVars, status>>
    PROVE  OnDisk'
BY OnDiskKept DEF IndexInv, OnDisk, Running, dbVars, threadVars

(* Each step of validation, of the two threads, of a shutdown, a crash and *)
(* a start keeps the invariant.                                            *)
LEMMA NextIndexInv == IndexInv /\ [IndexNext]_indexVars => IndexInv'
<1> SUFFICES ASSUME IndexInv, [IndexNext]_indexVars PROVE IndexInv'
  OBVIOUS
<1>0. tip \in Block /\ diskTip \in Block /\ events \in Seq(Event)
      /\ LeadsOn(events, tip) /\ (Running /\ m_synced => LeadsTo(events, 0, Ahead, tip))
  BY DEF IndexInv, IndexTypes, Backlog
<1>1. ASSUME NEW b \in Block, NEW f \in Block \cup {NoBlock}, ActivateBestChain(b, f)
      PROVE  IndexInv'
  BY <1>1, IndexActivate
<1>2. ASSUME NEW f \in {NoBlock, tip}, InvalidateTip(f) PROVE IndexInv'
  BY <1>2, IndexInvalidate
<1>3. CASE FlushStateToDisk
  BY <1>3, IndexFlush
<1>4. CASE BaseIndexInit
  BY <1>4, IndexBaseInit
<1>5. CASE SyncStep
  BY <1>5, IndexSyncLoop, IndexSyncCommit, IndexSyncRecheck, IndexRewind, IndexProcess
     DEF SyncStep, IndexThread
<1>6. CASE CallbackStep
  BY <1>6, IndexBlockConnected, IndexChainStateFlushed, IndexRewind, IndexProcess
     DEF CallbackStep, IndexThread
<1>7. CASE Interrupt
  <2>1. /\ UNCHANGED <<tip, diskTip, events>>
        /\ UNCHANGED <<m_best_block_index, m_synced, m_current_block_hash, dbVars,
                       threadVars, status>>
    BY <1>7 DEF Interrupt, validationVars
  <2>2. UNCHANGED validationVars
    BY <1>7 DEF Interrupt
  <2> QED BY <1>0, <2>1, <2>2, NothingStored, ValidationKeeps DEF validationVars
<1>8. CASE Stop
  <2>1. Files'
    BY <1>8 DEF Stop, IndexInv, OnDisk, Files, Closed
  <2> QED BY <1>0, <1>8, <2>1, IndexGoDown DEF Stop
<1>9. CASE Crash
  <2>1. Files'
    BY <1>9 DEF Crash, IndexInv, OnDisk, Files, Closed
  <2> QED BY <1>0, <1>9, <2>1, IndexGoDown DEF Crash
<1>10. CASE UNCHANGED indexVars
  <2>1. /\ UNCHANGED <<tip, diskTip, events>>
        /\ UNCHANGED <<m_best_block_index, m_synced, m_current_block_hash, dbVars,
                       threadVars, status>>
    BY <1>10 DEF indexVars, validationVars
  <2>2. UNCHANGED validationVars
    BY <1>10 DEF indexVars
  <2> QED BY <1>0, <2>1, <2>2, NothingStored, ValidationKeeps DEF validationVars
<1>11. ASSUME NEW b \in Block, AcceptBlockHeader(b) PROVE IndexInv'
  BY <1>11, IndexHeader
<1> QED BY <1>1, <1>2, <1>3, <1>4, <1>5, <1>6, <1>7, <1>8, <1>9, <1>10, <1>11
    DEF IndexNext

(* An index that has just been enabled is empty and consistent.            *)
LEMMA InitIndexInv == IndexInit => IndexInv
<1> SUFFICES ASSUME IndexInit PROVE IndexInv
  OBVIOUS
<1>1. /\ Idlers \in [IndexThread -> MaybeBlock]
      /\ Idlers["sync"] = NoBlock /\ Idlers["callback"] = NoBlock
  BY DEF Idlers, MaybeBlock, IndexThread
<1>2. IndexTypes
  BY <1>1, GenesisAssumption, SMT DEF IndexInit, IndexTypes, MaybeBlock
<1>3. HandedOver
  BY <1>1 DEF IndexInit, HandedOver
<1>4. ~Running
  BY DEF IndexInit, Running
<1>5. InStep
  BY <1>4 DEF InStep
<1>6. Readable
  BY <1>4 DEF IndexInit, Readable, Chain
<1>7. Backlog
  BY <1>4, SMT DEF IndexInit, Backlog, LeadsOn
<1>8. IndexFailsOnlyAhead
  BY DEF IndexInit, IndexFailsOnlyAhead
<1>9. Files
  BY AncestorAssumption, GenesisAssumption DEF IndexInit, Files, Closed
<1>10. AllIn(events, haveUndo)
  BY SMT DEF IndexInit, AllIn
<1>11. OnDisk
  BY <1>4, <1>9, <1>10 DEF IndexInit, OnDisk, Idlers
<1> QED BY <1>2, <1>3, <1>5, <1>6, <1>7, <1>8, <1>11 DEF IndexInv

(* For every tree of blocks, every order of moves of the tip, steps of the *)
(* threads, flushes, crashes and starts: CustomAppend gets the blocks in   *)
(* order and can read them, CustomInit reads the state of the block that   *)
(* was committed if validation still knows it, and Rewind fails only at    *)
(* that block, when validation has its header and lacks its undo data;     *)
(* CustomRemove would find what it goes back to even then.                 *)
THEOREM IndexFailsOnlyUnflushed == IndexSpec => []IndexFailsOnlyAhead
<1>1. IndexInv => IndexFailsOnlyAhead
  BY DEF IndexInv
<1> QED BY <1>1, InitIndexInv, NextIndexInv, PTL DEF IndexSpec

(* m_synced hands the child from Sync to the callback thread: they never   *)
(* both work on it.                                                        *)
THEOREM ChildHasOneThread == IndexSpec => []OneThreadInChild
<1>1. IndexInv => OneThreadInChild
  BY DEF IndexInv, HandedOver, OneThreadInChild
<1> QED BY <1>1, InitIndexInv, NextIndexInv, PTL DEF IndexSpec

(* What BlockUntilSyncedToCurrentChain relies on: a synced index that has  *)
(* drained its events covers the tip, whatever branches the events it took *)
(* over from the time of the sync led it to.                               *)
THEOREM SyncedIndexCoversTip == IndexSpec => []SyncedCoversTip
<1>1. IndexInv => SyncedCoversTip
  <2> SUFFICES ASSUME IndexInv, Running, m_synced, events = <<>>, appending = Idlers
               PROVE  tip \in Ancestors[m_best_block_index]
    BY DEF SyncedCoversTip
  <2>1. Ahead = m_best_block_index
    BY DEF Ahead, Idlers, IndexThread
  <2> QED BY <2>1, SMT DEF IndexInv, Backlog, LeadsTo
<1> QED BY <1>1, InitIndexInv, NextIndexInv, PTL DEF IndexSpec

=============================================================================
