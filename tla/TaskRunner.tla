----------------------------- MODULE TaskRunner -----------------------------
(***************************************************************************)
(* SerialTaskRunner on top of CScheduler (scheduler.cpp): the queue that   *)
(* delivers validation events to the wallet, the indexes and the peer      *)
(* manager.  A step is a critical section of newTaskMutex or of            *)
(* m_callbacks_mutex, a notification sent outside them, or a callback.     *)
(*                                                                         *)
(* taskQueue is ordered by time.  The tasks due at once are all the same,  *)
(* a call of ProcessQueue, so their number is kept (due); one task that    *)
(* scheduleEvery repeats stands for those with a later time (later).       *)
(***************************************************************************)
EXTENDS Integers, Sequences, FiniteSets

CONSTANTS
    Service,     \* the threads that run serviceQueue
    Producer,    \* the threads that insert callbacks
    Closer,      \* the thread that stops the scheduler and flushes
    Callback     \* bound: the callbacks, each inserted once

TaskThread == Service \cup Producer \cup {Closer}

ASSUME TaskRunnerAssumption ==
    /\ Service \cap Producer = {}
    /\ Closer \notin Service \cup Producer

VARIABLES
    due, later, stopRequested,                        \* CScheduler
    m_callbacks_pending, m_are_callbacks_running,     \* SerialTaskRunner
    where,       \* where[t]: where thread t stands
    callback,    \* callback[t]: the callback thread t took last
    inserted, done   \* history: what was inserted, what was executed

taskRunnerVars == <<due, later, stopRequested, m_callbacks_pending,
                    m_are_callbacks_running, where, callback, inserted, done>>

schedulerVars == <<due, later, stopRequested>>
runnerVars == <<m_callbacks_pending, m_are_callbacks_running, callback,
                inserted, done>>

(* Where a thread stands when it is in none of the functions below.        *)
Home(t) == IF t \in Service THEN "top" ELSE IF t = Closer THEN "drain" ELSE "idle"

TaskRunnerInit ==
    /\ due = 0 /\ later = TRUE /\ stopRequested = FALSE
    /\ m_callbacks_pending = <<>> /\ m_are_callbacks_running = FALSE
    /\ where = [t \in TaskThread |-> IF t = Closer THEN "idle" ELSE Home(t)]
    /\ callback = [t \in TaskThread |-> <<>>]
    /\ inserted = {} /\ done = <<>>

Goto(t, place) == where' = [where EXCEPT ![t] = place]

-----------------------------------------------------------------------------
(* CScheduler                                                              *)

(* A thread waits for a task ("wait"), for the time of the first one to    *)
(* come ("timed"), or in a wait_until whose time is over ("ready"): that   *)
(* one times out whatever else wakes it.                                   *)
Woken(place) == IF place \in {"wait", "timed"} THEN "top" ELSE place

(* notify_one on newTaskScheduled, given where the threads stand.  A       *)
(* thread about to time out can be the one it reaches.                     *)
NotifyOneTask(place) ==
    LET sleepers == {t \in Service : place[t] \in {"wait", "timed", "ready"}}
    IN  IF sleepers = {} THEN {place}
        ELSE {[place EXCEPT ![t] = Woken(place[t])] : t \in sleepers}

(* serviceQueue, holding newTaskMutex, from the top of its loop or from a  *)
(* wait that was notified: return, wait for a task, or wait for the time   *)
(* of the first task.                                                      *)
serviceQueue(t) ==
    /\ where[t] = "top"
    /\ IF stopRequested
       THEN where' \in NotifyOneTask([where EXCEPT ![t] = "gone"])
       ELSE Goto(t, IF due > 0 THEN "ready" ELSE IF later THEN "timed" ELSE "wait")
    /\ UNCHANGED <<schedulerVars, runnerVars>>

(* wait_until times out: run the first task, if there is one left.  It may *)
(* be another one than the thread was waiting for.                         *)
TimeReached(t) ==
    /\ where[t] \in {"timed", "ready"}
    /\ \/ /\ stopRequested \/ (due = 0 /\ ~later)
          /\ Goto(t, "top")
          /\ UNCHANGED <<due, later>>
       \/ /\ ~stopRequested /\ due > 0
          /\ due' = due - 1
          /\ Goto(t, "process")
          /\ UNCHANGED later
       \/ /\ ~stopRequested /\ due = 0 /\ later
          /\ later' = FALSE
          /\ Goto(t, "repeat")
          /\ UNCHANGED due
    /\ UNCHANGED <<stopRequested, runnerVars>>

(* A wake-up without a notification.                                       *)
SpuriousTaskWakeup(t) ==
    /\ where[t] \in {"wait", "timed"}
    /\ Goto(t, "top")
    /\ UNCHANGED <<schedulerVars, runnerVars>>

(* Repeat: schedule the periodic task again, after it has run.             *)
Repeat(t) ==
    /\ where[t] = "repeat"
    /\ later' = TRUE
    /\ Goto(t, "notify")
    /\ UNCHANGED <<due, stopRequested, runnerVars>>

(* schedule(ProcessQueue, now), up to the end of its critical section.     *)
schedule(t) ==
    /\ where[t] = "schedule"
    /\ due' = due + 1
    /\ Goto(t, "notify")
    /\ UNCHANGED <<later, stopRequested, runnerVars>>

(* The notification at the end of schedule.                                *)
ScheduleNotify(t) ==
    /\ where[t] = "notify"
    /\ where' \in NotifyOneTask([where EXCEPT ![t] = Home(t)])
    /\ UNCHANGED <<schedulerVars, runnerVars>>

-----------------------------------------------------------------------------
(* SerialTaskRunner                                                        *)

(* insert(c), its own critical section.                                    *)
InsertCallback(t, c) ==
    /\ t \in Producer /\ where[t] = "idle" /\ where[Closer] \in {"idle", "stop", "join"}
    /\ c \notin inserted
    /\ m_callbacks_pending' = Append(m_callbacks_pending, c)
    /\ inserted' = inserted \cup {c}
    /\ Goto(t, "maybe")
    /\ UNCHANGED <<schedulerVars, m_are_callbacks_running, callback, done>>

MaybeScheduleProcessQueue(t) ==
    /\ where[t] = "maybe"
    /\ Goto(t, IF m_are_callbacks_running \/ m_callbacks_pending = <<>>
               THEN Home(t) ELSE "schedule")
    /\ UNCHANGED <<schedulerVars, runnerVars>>

(* Deviation: the callback is taken although one is running.               *)
ProcessQueue_Deviation(t) ==
    /\ where[t] = "process"
    /\ IF m_callbacks_pending = <<>>
       THEN /\ Goto(t, Home(t))
            /\ UNCHANGED runnerVars
       ELSE /\ m_are_callbacks_running' = TRUE
            /\ callback' = [callback EXCEPT ![t] = <<Head(m_callbacks_pending)>>]
            /\ m_callbacks_pending' = Tail(m_callbacks_pending)
            /\ Goto(t, "callback")
            /\ UNCHANGED <<inserted, done>>
    /\ UNCHANGED schedulerVars

(* ProcessQueue, up to the call of the callback.                           *)
ProcessQueue(t) ==
    /\ where[t] = "process"
    /\ IF m_are_callbacks_running \/ m_callbacks_pending = <<>>
       THEN /\ Goto(t, Home(t))
            /\ UNCHANGED runnerVars
       ELSE /\ m_are_callbacks_running' = TRUE
            /\ callback' = [callback EXCEPT ![t] = <<Head(m_callbacks_pending)>>]
            /\ m_callbacks_pending' = Tail(m_callbacks_pending)
            /\ Goto(t, "callback")
            /\ UNCHANGED <<inserted, done>>
    /\ UNCHANGED schedulerVars

RunCallback(t) ==
    /\ where[t] = "callback"
    /\ done' = done \o callback[t]
    /\ Goto(t, "release")
    /\ UNCHANGED <<schedulerVars, m_callbacks_pending, m_are_callbacks_running,
                   callback, inserted>>

(* Deviation: the queue is not looked at again once the callback is done.  *)
CallbacksRunning_Deviation(t) ==
    /\ where[t] = "release"
    /\ m_are_callbacks_running' = FALSE
    /\ callback' = [callback EXCEPT ![t] = <<>>]
    /\ Goto(t, Home(t))
    /\ UNCHANGED <<schedulerVars, m_callbacks_pending, inserted, done>>

(* ~RAIICallbacksRunning, before it calls MaybeScheduleProcessQueue.       *)
CallbacksRunning(t) ==
    /\ where[t] = "release"
    /\ m_are_callbacks_running' = FALSE
    /\ callback' = [callback EXCEPT ![t] = <<>>]
    /\ Goto(t, "maybe")
    /\ UNCHANGED <<schedulerVars, m_callbacks_pending, inserted, done>>

(* CScheduler::stop: request it, notify every thread, join them.           *)
stop ==
    /\ where[Closer] = "idle"
    /\ stopRequested' = TRUE
    /\ Goto(Closer, "stop")
    /\ UNCHANGED <<due, later, runnerVars>>

StopNotify ==
    /\ where[Closer] = "stop"
    /\ where' = [t \in TaskThread |->
                     IF t = Closer THEN "join" ELSE Woken(where[t])]
    /\ UNCHANGED <<schedulerVars, runnerVars>>

(* The threads are joined, and flush begins once "there are no more        *)
(* peers/RPC left to give us new data" (Shutdown, init.cpp).               *)
flush ==
    /\ where[Closer] = "join"
    /\ \A t \in Service : where[t] = "gone"
    /\ \A t \in Producer : where[t] = "idle"
    /\ Goto(Closer, "process")
    /\ UNCHANGED <<schedulerVars, runnerVars>>

(* The loop condition of flush.                                            *)
FlushContinue ==
    /\ where[Closer] = "drain"
    /\ Goto(Closer, IF m_callbacks_pending # <<>> THEN "process" ELSE "flushed")
    /\ UNCHANGED <<schedulerVars, runnerVars>>

-----------------------------------------------------------------------------

TaskStep(t) ==
    \/ serviceQueue(t) \/ TimeReached(t) \/ Repeat(t)
    \/ schedule(t) \/ ScheduleNotify(t)
    \/ MaybeScheduleProcessQueue(t) \/ ProcessQueue(t)
    \/ RunCallback(t) \/ CallbacksRunning(t)

CloserStep == StopNotify \/ flush \/ FlushContinue

TaskRunnerNext ==
    \/ \E t \in TaskThread : TaskStep(t)
    \/ \E t \in Service : SpuriousTaskWakeup(t)
    \/ \E t \in Producer, c \in Callback : InsertCallback(t, c)
    \/ stop \/ CloserStep

(* Every thread runs, and a wait_until whose time is over returns.         *)
TaskRunnerFairness ==
    /\ \A t \in TaskThread : WF_taskRunnerVars(TaskStep(t))
    /\ WF_taskRunnerVars(CloserStep)

TaskRunnerSpec == TaskRunnerInit /\ [][TaskRunnerNext]_taskRunnerVars
FairTaskRunnerSpec == TaskRunnerSpec /\ TaskRunnerFairness

-----------------------------------------------------------------------------

Abstract == INSTANCE CallbackQueue WITH
    pending <- m_callbacks_pending,
    running <- {callback[t][1] : t \in {u \in TaskThread : where[u] = "callback"}}

(* "Callbacks are executed serially": whichever service thread or flush    *)
(* runs them, and whatever stops in between, the callbacks are executed    *)
(* one at a time in the order of their insertion, none of them twice.      *)
RunsLikeOneThread == Abstract!CallbackQueueSpec

(* No callback is forgotten: neither by a MaybeScheduleProcessQueue that   *)
(* returned because another thread was running callbacks, nor by a service *)
(* thread that stopped with the queue not empty.  One inserted before      *)
(* flush is executed, and stays so.                                        *)
EveryCallbackRuns ==
    \A c \in Callback :
        <>[](c \in inserted => \E i \in DOMAIN done : done[i] = c)

(* flush leaves nothing behind, and runs when no thread services the       *)
(* queue.                                                                  *)
FlushDrains ==
    /\ where[Closer] = "flushed" => m_callbacks_pending = <<>>
    /\ where[Closer] \in {"process", "callback", "release", "drain"} =>
           \A t \in Service : where[t] = "gone"

=============================================================================
