-------------------------------- MODULE Tickle --------------------------------
(***************************************************************************)
(* The executor of ngx-tickle: spawn and schedule (any thread),            *)
(* async_handler (the nginx main thread), the run queue between them, and  *)
(* the coalesced wakeup (TICKLED plus an eventfd or a self-pipe).          *)
(*                                                                         *)
(* Each atomic operation and each system call of src/src/spawn.rs and      *)
(* src/src/notify is a step of its own; a thread may be preempted between  *)
(* any two of them.  The store TICKLED=false of async_handler is Relaxed:  *)
(* with StoreBuffering the main thread's store buffer (x86-64, the         *)
(* platform flake.nix builds for) may delay it past the load that follows. *)
(***************************************************************************)
EXTENDS Naturals, Sequences, FiniteSets

CONSTANTS
  Threads,         \* threads other than the main one that hold wakers
  Main,            \* the nginx main thread
  Tasks,           \* slots for tasks; a completed task frees its slot
  BatchSizes,      \* the values given to set_batch_size
  Backend,         \* "eventfd" or "selfpipe"
  Capacity,        \* eventfd counter maximum / bytes the pipe holds
  ReadBuf,         \* bytes one read of the self-pipe returns at most
  StoreBuffering,  \* may the main thread's plain store be delayed?
  None             \* no task

ASSUME MainAssumption == Main \notin Threads
ASSUME ThreadsAssumption == IsFiniteSet(Threads)
ASSUME NoneAssumption == None \notin Tasks
ASSUME BatchAssumption == BatchSizes \subseteq Nat
ASSUME BackendAssumption == Backend \in {"eventfd", "selfpipe"}
ASSUME CapacityAssumption == Capacity \in Nat \ {0} /\ ReadBuf \in Nat \ {0}
ASSUME BufferingAssumption == StoreBuffering \in BOOLEAN

Procs == Threads \cup {Main}

VARIABLES
  task,        \* the async-task state of every slot
  pc, hand,    \* where each thread is in schedule(), and the runnable it holds
  queue,       \* the channel: SCHEDULER.tx / SCHEDULER.rx
  TICKLED,     \* the static of that name, as the other threads see it
  buffered,    \* TICKLED=false sits in the main thread's store buffer
  fd,          \* eventfd counter, or bytes in the self-pipe
  BATCH_SIZE,  \* the static of that name
  hpc,         \* where the main thread is in async_handler
  cnt, limit,  \* its local variables
  cur          \* the runnable it is running

handlerVars == <<hpc, cnt, limit, cur>>
vars == <<task, pc, hand, queue, TICKLED, buffered, fd, BATCH_SIZE, handlerVars>>

TaskStates == {"none", "idle", "sched", "run", "rerun"}
Pcs == {"idle", "send", "cas", "signal"}
Hpcs == {"loop", "drain", "clear", "check", "recv", "run", "count", "retickle"}

(* Types, which local variables are in use at which place (a further       *)
(* runnable is taken only below the batch limit), and where a delayed      *)
(* store can still be pending.                                             *)
TypeOK ==
  /\ task \in [Tasks -> TaskStates]
  /\ pc \in [Procs -> Pcs]
  /\ hand \in [Procs -> Tasks \cup {None}]
  /\ queue \in Seq(Tasks)
  /\ TICKLED \in BOOLEAN
  /\ buffered \in BOOLEAN
  /\ fd \in 0 .. Capacity
  /\ BATCH_SIZE \in BatchSizes
  /\ hpc \in Hpcs
  /\ cnt \in Nat
  /\ limit \in Nat
  /\ cur \in Tasks \cup {None}
  /\ \A p \in Procs : pc[p] = "send" => hand[p] \in Tasks
  /\ hpc = "run" => cur \in Tasks
  /\ hpc \in {"recv", "run", "count"} => cnt = 0 \/ cnt < limit
  /\ buffered => hpc \in {"check", "recv", "loop"} /\ StoreBuffering

Init ==
  /\ task = [t \in Tasks |-> "none"]
  /\ pc = [p \in Procs |-> "idle"]
  /\ hand = [p \in Procs |-> None]
  /\ queue = <<>>
  /\ TICKLED = FALSE
  /\ buffered = FALSE
  /\ fd = 0
  /\ BATCH_SIZE \in BatchSizes
  /\ hpc = "loop"
  /\ cnt = 0
  /\ limit = 0
  /\ cur = None

-----------------------------------------------------------------------------
(* A thread can call into the executor between two of its own calls; the   *)
(* main thread does so from an nginx handler or from inside a poll.  A     *)
(* locked instruction (the compare-exchange of a task's state, the         *)
(* channel's send, TICKLED's compare-exchange) waits for the thread's      *)
(* store buffer to empty.                                                  *)
Synced(p) == p = Main => ~buffered

CanCall(p) ==
  /\ pc[p] = "idle"
  /\ p = Main => hpc \in {"loop", "run"}
  /\ Synced(p)

(* Begin schedule(runnable of t).                                          *)
EnterSchedule(p, t) ==
  /\ pc' = [pc EXCEPT ![p] = "send"]
  /\ hand' = [hand EXCEPT ![p] = t]

(* spawn: a fresh task is SCHEDULED from the start, runnable.schedule().   *)
Spawn(p, t) ==
  /\ CanCall(p)
  /\ task[t] = "none"
  /\ task' = [task EXCEPT ![t] = "sched"]
  /\ EnterSchedule(p, t)
  /\ UNCHANGED <<queue, TICKLED, buffered, fd, BATCH_SIZE, handlerVars>>

(* Waker::wake of an idle task: async-task sets SCHEDULED and calls        *)
(* schedule() on the waking thread.                                        *)
WakeIdle(p, t) ==
  /\ CanCall(p)
  /\ task[t] = "idle"
  /\ task' = [task EXCEPT ![t] = "sched"]
  /\ EnterSchedule(p, t)
  /\ UNCHANGED <<queue, TICKLED, buffered, fd, BATCH_SIZE, handlerVars>>

(* Waker::wake of the task that is being polled: only SCHEDULED is set;    *)
(* Runnable::run reschedules when the poll returns Pending.  A wake of a   *)
(* task that is already SCHEDULED changes nothing.                         *)
WakeRunning(p, t) ==
  /\ CanCall(p)
  /\ task[t] = "run"
  /\ task' = [task EXCEPT ![t] = "rerun"]
  /\ UNCHANGED <<pc, hand, queue, TICKLED, buffered, fd, BATCH_SIZE, handlerVars>>

(* Broken variants of Send, for the mutation runs: a wake on the main      *)
(* thread polls inline (as up to version 0.2.1); a set TICKLED skips the   *)
(* channel as well.                                                        *)
SendInline(p) ==
  /\ pc[p] = "send"
  /\ Synced(p)
  /\ IF p = Main
     THEN /\ task' = [task EXCEPT ![hand[p]] = "run"]
          /\ pc' = [pc EXCEPT ![p] = "idle"]
          /\ UNCHANGED queue
     ELSE /\ queue' = Append(queue, hand[p])
          /\ pc' = [pc EXCEPT ![p] = "cas"]
          /\ UNCHANGED task
  /\ hand' = [hand EXCEPT ![p] = None]
  /\ UNCHANGED <<TICKLED, buffered, fd, BATCH_SIZE, handlerVars>>

SendUnlessTickled(p) ==
  /\ pc[p] = "send"
  /\ Synced(p)
  /\ queue' = IF TICKLED THEN queue ELSE Append(queue, hand[p])
  /\ pc' = [pc EXCEPT ![p] = "cas"]
  /\ hand' = [hand EXCEPT ![p] = None]
  /\ UNCHANGED <<task, TICKLED, buffered, fd, BATCH_SIZE, handlerVars>>

(* schedule(), its first half: scheduler().tx.send(runnable).              *)
Send(p) ==
  /\ pc[p] = "send"
  /\ Synced(p)
  /\ queue' = Append(queue, hand[p])
  /\ pc' = [pc EXCEPT ![p] = "cas"]
  /\ hand' = [hand EXCEPT ![p] = None]
  /\ UNCHANGED <<task, TICKLED, buffered, fd, BATCH_SIZE, handlerVars>>

(* Broken: every schedule() tickles, nothing is coalesced.                 *)
CasAlwaysSignals(p) ==
  /\ pc[p] = "cas"
  /\ Synced(p)
  /\ TICKLED' = TRUE
  /\ pc' = [pc EXCEPT ![p] = "signal"]
  /\ UNCHANGED <<task, hand, queue, buffered, fd, BATCH_SIZE, handlerVars>>

(* TICKLED.compare_exchange(false, true): the winner tickles, the others   *)
(* return.                                                                 *)
Cas(p) ==
  /\ pc[p] = "cas"
  /\ Synced(p)
  /\ TICKLED' = TRUE
  /\ pc' = [pc EXCEPT ![p] = IF TICKLED THEN "idle" ELSE "signal"]
  /\ UNCHANGED <<task, hand, queue, buffered, fd, BATCH_SIZE, handlerVars>>

(* backend::signal: EINTR retries (no state change), a full counter or     *)
(* pipe (EAGAIN) returns as if it had written.                             *)
Written == fd < Capacity /\ fd' = fd + 1
AlreadyFull == fd = Capacity /\ UNCHANGED fd

tickle == Written \/ AlreadyFull

Signal(p) ==
  /\ pc[p] = "signal"
  /\ tickle
  /\ pc' = [pc EXCEPT ![p] = "idle"]
  /\ UNCHANGED <<task, hand, queue, TICKLED, buffered, BATCH_SIZE, handlerVars>>

schedule(p) == Send(p) \/ Cas(p) \/ Signal(p)

set_batch_size(v) ==
  /\ BATCH_SIZE' = v
  /\ UNCHANGED <<task, pc, hand, queue, TICKLED, buffered, fd, handlerVars>>

-----------------------------------------------------------------------------
(* nginx: epoll reports the readable descriptor (level-triggered) and      *)
(* calls async_handler.  The main thread is not inside another call, and   *)
(* the kernel's locks have emptied its store buffer.                       *)
Deliver ==
  /\ hpc = "loop"
  /\ pc[Main] = "idle"
  /\ ~buffered
  /\ fd > 0
  /\ hpc' = "drain"
  /\ UNCHANGED <<task, pc, hand, queue, TICKLED, buffered, fd, BATCH_SIZE,
                 cnt, limit, cur>>

(* Broken: TICKLED is not cleared after the drain.                         *)
EventfdDrainOnly ==
  /\ Backend = "eventfd"
  /\ hpc = "drain"
  /\ fd' = 0
  /\ hpc' = "check"
  /\ UNCHANGED <<task, pc, hand, queue, TICKLED, buffered, BATCH_SIZE,
                 cnt, limit, cur>>

(* eventfd::drain: one read resets the counter (EAGAIN: already zero).     *)
EventfdDrain ==
  /\ Backend = "eventfd"
  /\ hpc = "drain"
  /\ fd' = 0
  /\ hpc' = "clear"
  /\ UNCHANGED <<task, pc, hand, queue, TICKLED, buffered, BATCH_SIZE,
                 cnt, limit, cur>>

(* selfpipe::drain: reads of at most ReadBuf bytes until EAGAIN; other     *)
(* threads may write between two reads.                                    *)
PipeRead ==
  /\ Backend = "selfpipe"
  /\ hpc = "drain"
  /\ fd > 0
  /\ fd' = IF fd > ReadBuf THEN fd - ReadBuf ELSE 0
  /\ UNCHANGED <<task, pc, hand, queue, TICKLED, buffered, BATCH_SIZE, handlerVars>>

PipeEmpty ==
  /\ Backend = "selfpipe"
  /\ hpc = "drain"
  /\ fd = 0
  /\ hpc' = "clear"
  /\ UNCHANGED <<task, pc, hand, queue, TICKLED, buffered, fd, BATCH_SIZE,
                 cnt, limit, cur>>

(* Broken: TICKLED is cleared before the descriptor is drained             *)
(* (the order spawn.rs:42 warns of).                                       *)
ClearBeforeDrain ==
  /\ \/ hpc = "drain" /\ TICKLED /\ TICKLED' = FALSE /\ UNCHANGED hpc
     \/ hpc = "clear" /\ hpc' = "check" /\ UNCHANGED TICKLED
  /\ UNCHANGED <<task, pc, hand, queue, buffered, fd, BATCH_SIZE, cnt, limit, cur>>

(* TICKLED.store(false, Relaxed): at once, or into the store buffer.       *)
Clear ==
  /\ hpc = "clear"
  /\ \/ TICKLED' = FALSE /\ UNCHANGED buffered
     \/ StoreBuffering /\ buffered' = TRUE /\ UNCHANGED TICKLED
  /\ hpc' = "check"
  /\ UNCHANGED <<task, pc, hand, queue, fd, BATCH_SIZE, cnt, limit, cur>>

FlushStore ==
  /\ buffered
  /\ TICKLED' = FALSE
  /\ buffered' = FALSE
  /\ UNCHANGED <<task, pc, hand, queue, fd, BATCH_SIZE, handlerVars>>

(* async_handler returns to the event loop; its locals are gone.           *)
Return ==
  /\ hpc' = "loop"
  /\ cnt' = 0
  /\ limit' = 0

(* Broken: a batch size of zero ends the handler before its first item.    *)
CheckLimitFirst ==
  /\ hpc = "check"
  /\ \/ (queue = <<>> \/ BATCH_SIZE = 0) /\ Return
     \/ queue # <<>> /\ BATCH_SIZE > 0
        /\ hpc' = "recv" /\ limit' = BATCH_SIZE /\ cnt' = 0
  /\ UNCHANGED <<task, pc, hand, queue, TICKLED, buffered, fd, BATCH_SIZE, cur>>

(* let limit = BATCH_SIZE.load(); if rx.is_empty() { return }: two plain   *)
(* loads, which do not wait for the store buffer.                          *)
Check ==
  /\ hpc = "check"
  /\ \/ queue = <<>> /\ Return
     \/ queue # <<>> /\ hpc' = "recv" /\ limit' = BATCH_SIZE /\ cnt' = 0
  /\ UNCHANGED <<task, pc, hand, queue, TICKLED, buffered, fd, BATCH_SIZE, cur>>

(* rx.try_recv(): its verdict "empty" comes after a full fence.            *)
RecvEmpty ==
  /\ hpc = "recv"
  /\ ~buffered
  /\ queue = <<>>
  /\ Return
  /\ UNCHANGED <<task, pc, hand, queue, TICKLED, buffered, fd, BATCH_SIZE, cur>>

(* Broken: the newest runnable is taken first.                             *)
RecvNewest ==
  /\ hpc = "recv"
  /\ ~buffered
  /\ queue # <<>>
  /\ queue' = SubSeq(queue, 1, Len(queue) - 1)
  /\ cur' = queue[Len(queue)]
  /\ task' = [task EXCEPT ![queue[Len(queue)]] = "run"]
  /\ hpc' = "run"
  /\ UNCHANGED <<pc, hand, TICKLED, buffered, fd, BATCH_SIZE, cnt, limit>>

(* ... otherwise r.run(): SCHEDULED becomes RUNNING and the poll starts.   *)
RecvRun ==
  /\ hpc = "recv"
  /\ ~buffered
  /\ queue # <<>>
  /\ queue' = Tail(queue)
  /\ cur' = Head(queue)
  /\ task' = [task EXCEPT ![Head(queue)] = "run"]
  /\ hpc' = "run"
  /\ UNCHANGED <<pc, hand, TICKLED, buffered, fd, BATCH_SIZE, cnt, limit>>

(* The poll returns Ready: the slot is free, a wake that came in meanwhile *)
(* is forgotten.                                                           *)
PollReady ==
  /\ hpc = "run"
  /\ pc[Main] = "idle"
  /\ task' = [task EXCEPT ![cur] = "none"]
  /\ cur' = None
  /\ hpc' = "count"
  /\ UNCHANGED <<pc, hand, queue, TICKLED, buffered, fd, BATCH_SIZE, cnt, limit>>

(* The poll returns Pending: a wake that came in meanwhile makes run()     *)
(* call schedule() before it returns.                                      *)
PollPending ==
  /\ hpc = "run"
  /\ pc[Main] = "idle"
  /\ \/ /\ task[cur] = "run"
        /\ task' = [task EXCEPT ![cur] = "idle"]
        /\ UNCHANGED <<pc, hand>>
     \/ /\ task[cur] = "rerun"
        /\ task' = [task EXCEPT ![cur] = "sched"]
        /\ EnterSchedule(Main, cur)
  /\ cur' = None
  /\ hpc' = "count"
  /\ UNCHANGED <<queue, TICKLED, buffered, fd, BATCH_SIZE, cnt, limit>>

(* Broken: the batch limit is ignored.                                     *)
CountNoLimit ==
  /\ hpc = "count"
  /\ pc[Main] = "idle"
  /\ cnt' = 0
  /\ hpc' = "recv"
  /\ UNCHANGED <<task, pc, hand, queue, TICKLED, buffered, fd, BATCH_SIZE,
                 limit, cur>>

(* Broken: off by one, the batch is one longer than its limit.             *)
CountPastLimit ==
  /\ hpc = "count"
  /\ pc[Main] = "idle"
  /\ cnt' = cnt + 1
  /\ hpc' = IF cnt + 1 > limit THEN "retickle" ELSE "recv"
  /\ UNCHANGED <<task, pc, hand, queue, TICKLED, buffered, fd, BATCH_SIZE,
                 limit, cur>>

(* cnt += 1; if cnt >= limit ...                                           *)
Count ==
  /\ hpc = "count"
  /\ pc[Main] = "idle"
  /\ cnt' = cnt + 1
  /\ hpc' = IF cnt + 1 >= limit THEN "retickle" ELSE "recv"
  /\ UNCHANGED <<task, pc, hand, queue, TICKLED, buffered, fd, BATCH_SIZE,
                 limit, cur>>

(* Broken: the handler returns at the batch limit without a signal.        *)
ReturnAtLimit ==
  /\ hpc = "retickle"
  /\ Return
  /\ UNCHANGED <<task, pc, hand, queue, TICKLED, buffered, fd, BATCH_SIZE, cur>>

(* ... tickle(); return, past TICKLED.                                     *)
Retickle ==
  /\ hpc = "retickle"
  /\ tickle
  /\ Return
  /\ UNCHANGED <<task, pc, hand, queue, TICKLED, buffered, BATCH_SIZE, cur>>

on_tickled == EventfdDrain \/ PipeRead \/ PipeEmpty

Poll == PollReady \/ PollPending

async_handler ==
  on_tickled \/ Clear \/ Check \/ RecvEmpty \/ RecvRun \/ Count \/ Retickle

Next ==
  \/ \E p \in Procs :
       \/ \E t \in Tasks : Spawn(p, t) \/ WakeIdle(p, t) \/ WakeRunning(p, t)
       \/ schedule(p)
  \/ \E v \in BatchSizes : set_batch_size(v)
  \/ Deliver
  \/ async_handler
  \/ Poll
  \/ FlushStore

Spec == Init /\ [][Next]_vars

(* Threads inside schedule() and the handler keep executing, the nginx     *)
(* event loop keeps polling the descriptor, polls return, and a store      *)
(* buffer drains.  Nothing obliges anybody to spawn or to wake.            *)
Fairness ==
  /\ \A p \in Procs : WF_vars(schedule(p))
  /\ WF_vars(Deliver)
  /\ WF_vars(async_handler)
  /\ WF_vars(Poll)
  /\ WF_vars(FlushStore)

FairSpec == Spec /\ Fairness
-----------------------------------------------------------------------------
(* TICKLED never sticks: while it is set, a signal is in the descriptor,   *)
(* or some thread is about to write one, or async_handler is on its way to *)
(* clear it.  Otherwise every later schedule() would skip its signal and   *)
(* the executor would be dead for good.  This also says that a wakeup lost *)
(* to a delayed store is repaired by the next schedule().                  *)
NoStuckTickle ==
  TICKLED /\ ~buffered =>
    \/ fd > 0
    \/ hpc \in {"drain", "clear"}
    \/ \E p \in Procs : pc[p] = "signal"

(* No lost wakeup (spawn.rs:101-103): while runnables are queued, nginx    *)
(* has an event that will drain them, or async_handler is draining, or a   *)
(* thread has yet to decide whether to signal.                             *)
NoLostWakeup ==
  queue # <<>> =>
    \/ fd > 0
    \/ hpc # "loop"
    \/ \E p \in Procs : pc[p] \in {"cas", "signal"}

(* A wake never polls inline (spawn.rs:87-91): a future is being polled    *)
(* exactly while async_handler runs it, on the main thread, and so only    *)
(* one at a time.                                                          *)
NoReentrantPoll ==
  \A t \in Tasks : task[t] \in {"run", "rerun"} <=> hpc = "run" /\ cur = t

(* A task has a runnable, in the hand of a thread on its way into the      *)
(* channel or in the channel, exactly while it is scheduled, and never     *)
(* two: two would poll it twice, none would forget it.                     *)
Holds(p, t) == pc[p] = "send" /\ hand[p] = t

ScheduledHasRunnable ==
  \A t \in Tasks :
    task[t] = "sched" <=> \/ \E p \in Procs : Holds(p, t)
                          \/ \E i \in 1 .. Len(queue) : queue[i] = t

NoTwoRunnables ==
  /\ \A i, j \in 1 .. Len(queue) : queue[i] = queue[j] => i = j
  /\ \A t \in Tasks, p, q \in Procs : Holds(p, t) /\ Holds(q, t) => p = q
  /\ \A p \in Procs, i \in 1 .. Len(queue) : ~Holds(p, queue[i])

RunnableConservation == ScheduledHasRunnable /\ NoTwoRunnables

(* Coalescing keeps the descriptor far from its limit whatever the number  *)
(* of wakes: since the last drain every thread may have written the signal *)
(* it was late with, the flag was won at most once before it was cleared   *)
(* and once after, and the batch limit wrote one signal more.  A full      *)
(* descriptor (EAGAIN in signal()) is thus out of reach.                   *)
SignalsBounded ==
  fd + Cardinality({p \in Procs : pc[p] = "signal"})
    <= Cardinality(Threads) + 3

(* Every task that was spawned or woken is polled: none is forgotten, and  *)
(* none is overtaken for ever by others.                                   *)
WokenIsPolled ==
  \A t \in Tasks : task[t] = "sched" ~> task[t] = "run"

(* Even when stores are delayed and a wakeup is lost, it is not lost for   *)
(* good: as long as schedule() keeps being called, for whatever tasks,     *)
(* every task that was woken is polled.                                    *)
LostWakeupRepaired ==
  []<>(\E p \in Procs : pc[p] = "cas") => WokenIsPolled

(* nginx's own events are not starved: async_handler always returns to the *)
(* event loop, whatever the tasks do (lib.rs:71-76).                       *)
NginxNotStarved == []<>(hpc = "loop")

(* Tickle implements Executor.                                             *)
Abstract ==
  INSTANCE Executor WITH
    live <- {t \in Tasks : task[t] # "none"},
    pending <- {t \in Tasks : task[t] \in {"sched", "rerun"}},
    polling <- {t \in Tasks : task[t] \in {"run", "rerun"}}

ImplementsExecutor == Abstract!Spec
=============================================================================
