----------------------------- MODULE CheckQueue -----------------------------
(***************************************************************************)
(* CCheckQueue: the pool of threads that verifies the scripts of a block   *)
(* (checkqueue.h).  ConnectBlock, the master, takes the control mutex,     *)
(* adds batches of checks and joins the workers until all are done.        *)
(*                                                                         *)
(* A step is one critical section of m_mutex, or what a thread does        *)
(* between two of them.  The order of the checks does not matter to the    *)
(* code ("it is used as a LIFO"), so queue and vChecks are sets.  vChecks  *)
(* is emptied where its size is subtracted from nTodo, not where the batch *)
(* has been run: nothing reads it in between, and nNow is its size.        *)
(***************************************************************************)
EXTENDS Integers, FiniteSets

CONSTANTS
    Worker,       \* the threads the constructor starts
    Master,       \* the thread that holds m_control_mutex, when one does
    Check,        \* the checks of the largest block
    TxChecks,     \* the sets of checks its transactions consist of
    NoResult,     \* std::nullopt; the error of a check is the check itself
    nBatchSize,   \* the largest batch
    MaxBlocks     \* bound: blocks verified before the queue is destroyed

ASSUME CheckQueueAssumption ==
    /\ IsFiniteSet(Worker) /\ Master \notin Worker
    /\ IsFiniteSet(Check) /\ NoResult \notin Check
    /\ TxChecks \subseteq SUBSET Check
    /\ nBatchSize \in Nat \ {0}

Thread == Worker \cup {Master}

VARIABLES
    queue,           \* the checks nobody has taken
    nIdle, nTotal, nTodo, m_result, m_request_stop,
    vChecks,         \* vChecks[t]: the batch of thread t
    local_result,    \* local_result[t]
    do_work,         \* do_work[t]
    at,              \* at[t]: where thread t stands, see Place
    notify,          \* the notification Add owes after its critical section
    block,           \* the checks added since the control mutex was taken
    failing,         \* those of them that fail
    blocks,          \* how many blocks have been verified
    verdict          \* what the last Complete returned

checkQueueVars == <<queue, nIdle, nTotal, nTodo, m_result, m_request_stop,
                    vChecks, local_result, do_work, at, notify, block,
                    failing, blocks, verdict>>

(* "top": before the critical section of Loop; "wait": in cond.wait;       *)
(* "woken": notified, before it has the mutex again; "work": running its   *)
(* batch; "left": returned because of m_request_stop.  Only the master is  *)
(* "away" (no control), has "control", is "stopping" or "joining".         *)
Place == {"top", "wait", "woken", "work", "left",
          "away", "control", "stopping", "joining"}

(* The constructor starts the workers in Loop.                             *)
CheckQueueInit ==
    /\ queue = {} /\ nIdle = 0 /\ nTotal = 0 /\ nTodo = 0
    /\ m_result = NoResult /\ m_request_stop = FALSE
    /\ vChecks = [t \in Thread |-> {}]
    /\ local_result = [t \in Thread |-> NoResult]
    /\ do_work = [t \in Thread |-> FALSE]
    /\ at = [t \in Thread |-> IF t = Master THEN "away" ELSE "top"]
    /\ notify = "none"
    /\ block = {} /\ failing = {} /\ blocks = 0 /\ verdict = NoResult

-----------------------------------------------------------------------------

(* notify_one and notify_all on a condition variable: what at may become,  *)
(* of which the threads S wait there.                                      *)
NotifyOne(S, place) ==
    IF S = {} THEN {place} ELSE {[place EXCEPT ![t] = "woken"] : t \in S}
NotifyAll(S, place) ==
    [t \in Thread |-> IF t \in S THEN "woken" ELSE place[t]]
Waiting(S, place) == {t \in S : place[t] = "wait"}

(* nNow = max(1, min(nBatchSize, queue.size() / (nTotal + nIdle + 1)))     *)
BatchSize(total, idle) ==
    LET share == Cardinality(queue) \div (total + idle + 1)
        most  == IF share < nBatchSize THEN share ELSE nBatchSize
    IN  IF most > 1 THEN most ELSE 1

(* Deviation: the master returns when there is nothing left to take.       *)
MasterDone_Deviation(t) == t = Master

(* The master returns once every check is accounted for.                   *)
MasterDone(t) == t = Master /\ nTodo' = 0

(* Deviation: the status is not reset.                                     *)
ResetResult_Deviation(result) == result

(* "reset the status for new work later"                                   *)
ResetResult(result) == NoResult

(* The rest of the critical section of Loop, once the clean-up or the wait *)
(* is over: return, wait, or take a batch.                                 *)
Continue(t, result, total, idle, place) ==
    \/ /\ m_request_stop
       /\ at' = [place EXCEPT ![t] = "left"]
       /\ nTotal' = total /\ nIdle' = idle /\ m_result' = result
       /\ UNCHANGED <<queue, do_work, blocks, verdict>>
    \/ /\ ~m_request_stop /\ queue = {} /\ MasterDone(t)
       /\ at' = [place EXCEPT ![t] = "away"]
       /\ nTotal' = total - 1 /\ nIdle' = idle /\ m_result' = ResetResult(result)
       /\ verdict' = result /\ blocks' = blocks + 1
       /\ UNCHANGED <<queue, do_work>>
    \/ /\ ~m_request_stop /\ queue = {} /\ ~MasterDone(t)
       /\ at' = [place EXCEPT ![t] = "wait"]
       /\ nTotal' = total /\ nIdle' = idle + 1 /\ m_result' = result
       /\ UNCHANGED <<queue, do_work, blocks, verdict>>
    \/ /\ ~m_request_stop /\ queue # {}
       /\ at' = [place EXCEPT ![t] = "work"]
       /\ nTotal' = total /\ nIdle' = idle /\ m_result' = result
       /\ do_work' = [do_work EXCEPT ![t] = (result = NoResult)]
       /\ queue' = queue \ vChecks'[t]
       /\ UNCHANGED <<blocks, verdict>>

(* The batch taken, if there is one to take.                               *)
TakeBatch(t, total, idle, held) ==
    IF m_request_stop \/ queue = {} THEN vChecks' = held
    ELSE \E S \in SUBSET queue :
             /\ Cardinality(S) = BatchSize(total, idle)
             /\ vChecks' = [held EXCEPT ![t] = S]

(* Deviation: the wrong thread notifies.                                   *)
NotifyMaster_Deviation(t, nNow) ==
    IF nNow > 0 /\ nTodo' = 0 /\ t = Master
    THEN NotifyOne(Waiting({Master}, at), at) ELSE {at}

(* A worker whose batch was the last one notifies the master.              *)
NotifyMaster(t, nNow) ==
    IF nNow > 0 /\ nTodo' = 0 /\ t # Master
    THEN NotifyOne(Waiting({Master}, at), at) ELSE {at}

(* Loop, from the top of the do loop: the clean-up of the previous batch,  *)
(* or nTotal++ in the first iteration.                                     *)
LoopTop(t) ==
    LET nNow   == Cardinality(vChecks[t])
        report == nNow > 0 /\ local_result[t] # NoResult /\ m_result = NoResult
        result == IF report THEN local_result[t] ELSE m_result
        total  == IF nNow > 0 THEN nTotal ELSE nTotal + 1
        held   == [vChecks EXCEPT ![t] = {}]
    IN  /\ at[t] = "top"
        /\ nTodo' = nTodo - nNow
        /\ local_result' = IF report THEN [local_result EXCEPT ![t] = NoResult]
                                     ELSE local_result
        /\ TakeBatch(t, total, nIdle, held)
        /\ \E place \in NotifyMaster(t, nNow) :
               Continue(t, result, total, nIdle, place)
        /\ UNCHANGED <<m_request_stop, notify, block, failing>>

(* cond.wait returns: nIdle--, and the loop condition once more.           *)
LoopResume(t) ==
    /\ at[t] = "woken"
    /\ UNCHANGED nTodo
    /\ TakeBatch(t, nTotal, nIdle - 1, vChecks)
    /\ Continue(t, m_result, nTotal, nIdle - 1, at)
    /\ UNCHANGED <<m_request_stop, local_result, notify, block, failing>>

(* A condition variable may wake a thread that nobody notified.            *)
SpuriousWakeup(t) ==
    /\ at[t] = "wait"
    /\ at' = [at EXCEPT ![t] = "woken"]
    /\ UNCHANGED <<queue, nIdle, nTotal, nTodo, m_result, m_request_stop,
                   vChecks, local_result, do_work, notify, block, failing,
                   blocks, verdict>>

(* Execute the batch, outside m_mutex: the checks up to the first that     *)
(* fails.  local_result is only written when there is work to do; do_work, *)
(* assigned again before the next batch, is cleared to save states.        *)
ExecuteWork(t) ==
    LET bad == vChecks[t] \cap failing
    IN  /\ at[t] = "work"
        /\ \E r \in IF ~do_work[t] THEN {local_result[t]}
                    ELSE IF bad = {} THEN {NoResult} ELSE bad :
               local_result' = [local_result EXCEPT ![t] = r]
        /\ at' = [at EXCEPT ![t] = "top"]
        /\ do_work' = [do_work EXCEPT ![t] = FALSE]
        /\ UNCHANGED <<queue, nIdle, nTotal, nTodo, m_result, m_request_stop,
                       vChecks, notify, block, failing, blocks,
                       verdict>>

-----------------------------------------------------------------------------

(* CCheckQueueControl takes m_control_mutex for one block.                 *)
TakeControl ==
    /\ at[Master] = "away" /\ blocks < MaxBlocks
    /\ at' = [at EXCEPT ![Master] = "control"]
    /\ block' = {} /\ failing' = {} /\ verdict' = NoResult
    /\ UNCHANGED <<queue, nIdle, nTotal, nTodo, m_result, m_request_stop,
                   vChecks, local_result, do_work, notify, blocks>>

(* Add(vChecks), up to the end of its critical section, for the checks S   *)
(* of a transaction, of which F are going to fail.                         *)
Add(S, F) ==
    /\ at[Master] = "control" /\ notify = "none"
    /\ S # {} /\ S \cap block = {}
    /\ queue' = queue \cup S
    /\ nTodo' = nTodo + Cardinality(S)
    /\ notify' = IF Cardinality(S) = 1 THEN "one" ELSE "all"
    /\ block' = block \cup S
    /\ failing' = failing \cup F
    /\ UNCHANGED <<nIdle, nTotal, m_result, m_request_stop, vChecks,
                   local_result, do_work, at, blocks, verdict>>

(* The notification at the end of Add.                                     *)
AddNotify ==
    /\ notify # "none"
    /\ notify' = "none"
    /\ at' \in IF notify = "one" THEN NotifyOne(Waiting(Worker, at), at)
               ELSE {NotifyAll(Waiting(Worker, at), at)}
    /\ UNCHANGED <<queue, nIdle, nTotal, nTodo, m_result, m_request_stop,
                   vChecks, local_result, do_work, block, failing, blocks,
                   verdict>>

(* Complete, which the destructor of the control calls if nobody has: the  *)
(* master enters Loop with fresh locals.                                   *)
Complete ==
    /\ at[Master] = "control" /\ notify = "none"
    /\ at' = [at EXCEPT ![Master] = "top"]
    /\ local_result' = [local_result EXCEPT ![Master] = NoResult]
    /\ UNCHANGED <<queue, nIdle, nTotal, nTodo, m_result, m_request_stop,
                   vChecks, do_work, notify, block, failing, blocks, verdict>>

(* ~CCheckQueue: request the stop, notify the workers, join them.          *)
RequestStop ==
    /\ at[Master] = "away" /\ blocks = MaxBlocks
    /\ m_request_stop' = TRUE
    /\ at' = [at EXCEPT ![Master] = "stopping"]
    /\ UNCHANGED <<queue, nIdle, nTotal, nTodo, m_result, vChecks,
                   local_result, do_work, notify, block, failing, blocks,
                   verdict>>

NotifyStop ==
    /\ at[Master] = "stopping"
    /\ at' = [NotifyAll(Waiting(Worker, at), at) EXCEPT ![Master] = "joining"]
    /\ UNCHANGED <<queue, nIdle, nTotal, nTodo, m_result, m_request_stop,
                   vChecks, local_result, do_work, notify, block, failing,
                   blocks, verdict>>

JoinWorkers ==
    /\ at[Master] = "joining"
    /\ \A t \in Worker : at[t] = "left"
    /\ at' = [at EXCEPT ![Master] = "left"]
    /\ UNCHANGED <<queue, nIdle, nTotal, nTodo, m_result, m_request_stop,
                   vChecks, local_result, do_work, notify, block, failing,
                   blocks, verdict>>

ThreadStep(t) == LoopTop(t) \/ LoopResume(t) \/ ExecuteWork(t)

MasterStep == AddNotify \/ Complete \/ NotifyStop \/ JoinWorkers

CheckQueueNext ==
    \/ \E t \in Thread : ThreadStep(t) \/ SpuriousWakeup(t)
    \/ \E S \in TxChecks : \E F \in SUBSET S : Add(S, F)
    \/ TakeControl \/ RequestStop \/ MasterStep

(* The threads run; a control that was taken is completed, at the latest   *)
(* by its destructor.                                                      *)
CheckQueueFairness ==
    /\ \A t \in Thread : WF_checkQueueVars(ThreadStep(t))
    /\ WF_checkQueueVars(MasterStep)

CheckQueueSpec == CheckQueueInit /\ [][CheckQueueNext]_checkQueueVars
FairCheckQueueSpec == CheckQueueSpec /\ CheckQueueFairness

-----------------------------------------------------------------------------

(* The checks that are not accounted for yet.                              *)
Outstanding == queue \cup UNION {vChecks[t] : t \in Thread}

(* When Complete has returned, no thread holds or will take a check of the *)
(* block: the checks refer to transaction data that ConnectBlock frees as  *)
(* soon as its control goes out of scope.                                  *)
NoCheckOutlivesBlock ==
    at[Master] \in {"away", "stopping", "joining", "left"} =>
        /\ Outstanding = {}
        /\ nTodo = 0

(* "If at least one evaluation wasn't successful, return its error": the   *)
(* verdict is an error of a check of this very block, whatever local       *)
(* results the workers kept from earlier ones, and is only missing when    *)
(* every check of the block succeeds.                                      *)
VerdictSound ==
    at[Master] = "away" /\ blocks > 0 =>
        IF failing = {} THEN verdict = NoResult ELSE verdict \in failing

(* No wake-up is lost: a master that entered Complete returns, although    *)
(* Add notifies after it has released m_mutex, and the destructor's join   *)
(* of the workers ends.  The master is never inside one of them for ever.  *)
MasterReturns == []<>(at[Master] \in {"away", "control", "left"})

=============================================================================
