---------------------------- MODULE ExecutorProofs ----------------------------
(***************************************************************************)
(* Tickle implements the safety part of Executor: its initial states are   *)
(* Executor's, and each of its steps is a step of Executor or leaves the   *)
(* abstract state alone.                                                   *)
(***************************************************************************)
EXTENDS TickleProofs

(* A step that leaves every task's state alone is invisible in Executor.   *)
LEMMA SameTasksStutter == UNCHANGED task => UNCHANGED Abstract!vars
  BY DEF Abstract!vars

(* Executor's initial state.                                               *)
LEMMA InitImplements == Init => Abstract!Init
  BY DEF Init, Abstract!Init

(* Every step of Tickle implements a step of Executor: only spawns, wakes, *)
(* the start of a poll and its end are visible; the channel, TICKLED, the  *)
(* descriptor and the batches are not.                                     *)
LEMMA StepImplements ==
  ASSUME TypeOK, NoReentrantPoll, RunnableConservation, [Next]_vars
  PROVE  [Abstract!Next]_(Abstract!vars)
<1> USE ConstantsHold DEF TypeOK, ConstantsOK, NoReentrantPoll
<1>1. ASSUME NEW p \in Procs, NEW t \in Tasks, Spawn(p, t) PROVE Abstract!Next
  <2>1. Abstract!Spawn(t)
    BY <1>1 DEF Spawn, Abstract!Spawn
  <2>2. QED
    BY <2>1 DEF Abstract!Next
<1>2. ASSUME NEW p \in Procs, NEW t \in Tasks, WakeIdle(p, t) PROVE Abstract!Next
  <2>1. Abstract!Wake(t)
    BY <1>2 DEF WakeIdle, Abstract!Wake
  <2>2. QED
    BY <2>1 DEF Abstract!Next
<1>3. ASSUME NEW p \in Procs, NEW t \in Tasks, WakeRunning(p, t) PROVE Abstract!Next
  <2>1. Abstract!Wake(t)
    BY <1>3 DEF WakeRunning, Abstract!Wake
  <2>2. QED
    BY <2>1 DEF Abstract!Next
<1>4. CASE RecvRun
  <2>1. PICK h \in Tasks : h = Head(queue) /\ task[h] = "sched"
    <3>1. Len(queue) \in Nat \ {0} /\ Head(queue) = queue[1] /\ Head(queue) \in Tasks
      BY <1>4 DEF RecvRun
    <3>2. QED
      BY <3>1 DEF RunnableConservation, ScheduledHasRunnable
  <2>2. \A t \in Tasks : task[t] \notin {"run", "rerun"}
    BY <1>4 DEF RecvRun
  <2>3. task' = [task EXCEPT ![h] = "run"]
    BY <1>4, <2>1 DEF RecvRun
  <2>4. Abstract!StartPoll(h)
    BY <2>1, <2>2, <2>3 DEF Abstract!StartPoll
  <2>5. QED
    BY <2>1, <2>4 DEF Abstract!Next
<1>5. CASE PollReady
  <2>1. PICK t \in Tasks : t = cur
    BY <1>5 DEF PollReady
  <2>2. task[t] \in {"run", "rerun"} /\ task' = [task EXCEPT ![t] = "none"]
    BY <1>5, <2>1 DEF PollReady
  <2>3. Abstract!ReturnReady(t)
    BY <2>2 DEF Abstract!ReturnReady
  <2>4. QED
    BY <2>1, <2>3 DEF Abstract!Next
<1>6. CASE PollPending
  <2>1. PICK t \in Tasks : t = cur
    BY <1>6 DEF PollPending
  <2>2. \/ task[t] = "run" /\ task' = [task EXCEPT ![t] = "idle"]
        \/ task[t] = "rerun" /\ task' = [task EXCEPT ![t] = "sched"]
    BY <1>6, <2>1 DEF PollPending
  <2>3. Abstract!ReturnPending(t)
    BY <2>2 DEF Abstract!ReturnPending
  <2>4. QED
    BY <2>1, <2>3 DEF Abstract!Next
<1>7. CASE UNCHANGED task
  BY <1>7, SameTasksStutter
<1>8. \/ \E p \in Procs, t \in Tasks : Spawn(p, t) \/ WakeIdle(p, t) \/ WakeRunning(p, t)
      \/ RecvRun \/ PollReady \/ PollPending
      \/ UNCHANGED task
  <2>1. ASSUME NEW p \in Procs, schedule(p) PROVE UNCHANGED task
    BY <2>1 DEF schedule, Send, Cas, Signal
  <2>2. ASSUME NEW v \in BatchSizes, set_batch_size(v) PROVE UNCHANGED task
    BY <2>2 DEF set_batch_size
  <2>3. CASE Deliver \/ FlushStore \/ UNCHANGED vars
    BY <2>3 DEF Deliver, FlushStore, vars
  <2>4. CASE async_handler
    BY <2>4 DEF async_handler, on_tickled, EventfdDrain, PipeRead, PipeEmpty,
                Clear, Check, RecvEmpty, Count, Retickle
  <2>5. QED
    BY <2>1, <2>2, <2>3, <2>4 DEF Next, Poll
<1>9. QED
  BY <1>1, <1>2, <1>3, <1>4, <1>5, <1>6, <1>7, <1>8

(* Tickle implements Executor, its fairness aside: whatever the threads    *)
(* and the handler do, users see tasks that are spawned, woken, and polled *)
(* one at a time, and never a poll without a wake (README.md "Key          *)
(* invariant").                                                            *)
THEOREM TickleImplementsExecutor ==
  Spec => Abstract!Init /\ [][Abstract!Next]_(Abstract!vars)
<1>1. Init => Abstract!Init
  BY InitImplements
<1>2. TypeOK /\ NoReentrantPoll /\ RunnableConservation /\ [Next]_vars
        => [Abstract!Next]_(Abstract!vars)
  BY StepImplements
<1>3. QED
  BY <1>1, <1>2, TypeCorrect, PollsNotReentrant, RunnablesConserved, PTL DEF Spec
=============================================================================
