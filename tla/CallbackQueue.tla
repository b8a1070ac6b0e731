---------------------------- MODULE CallbackQueue ----------------------------
(***************************************************************************)
(* What the validation interface promises its subscribers (scheduler.h,    *)
(* SerialTaskRunner): "callbacks can behave as if they are executed in     *)
(* order by a single thread."                                              *)
(***************************************************************************)
EXTENDS Sequences

CONSTANT Callback

VARIABLES
    pending,   \* the callbacks waiting, in the order of their insertion
    running,   \* the callback that is executing, as a set
    done       \* the callbacks that have executed, in order

callbackQueueVars == <<pending, running, done>>

CallbackQueueInit == pending = <<>> /\ running = {} /\ done = <<>>

Insert(c) ==
    /\ pending' = Append(pending, c)
    /\ UNCHANGED <<running, done>>

Start ==
    /\ running = {} /\ pending # <<>>
    /\ running' = {Head(pending)}
    /\ pending' = Tail(pending)
    /\ UNCHANGED done

Finish(c) ==
    /\ running = {c}
    /\ running' = {}
    /\ done' = Append(done, c)
    /\ UNCHANGED pending

CallbackQueueNext ==
    \/ Start
    \/ \E c \in Callback : Insert(c) \/ Finish(c)

CallbackQueueSpec ==
    CallbackQueueInit /\ [][CallbackQueueNext]_callbackQueueVars

==============================================================================
