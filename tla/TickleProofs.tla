----------------------------- MODULE TickleProofs -----------------------------
(***************************************************************************)
(* Proofs about the executor for any number of threads and tasks, any      *)
(* batch sizes, either backend and any capacity of the descriptor.         *)
(***************************************************************************)
EXTENDS Tickle, FiniteSetTheorems, TLAPS

(* The assumptions on the constants, together.                             *)
ConstantsOK ==
  /\ Main \notin Threads /\ None \notin Tasks /\ BatchSizes \subseteq Nat
  /\ Backend \in {"eventfd", "selfpipe"}
  /\ Capacity \in Nat \ {0} /\ ReadBuf \in Nat \ {0}
  /\ StoreBuffering \in BOOLEAN

(* They hold, as Tickle assumes each of them.                              *)
LEMMA ConstantsHold == ConstantsOK
  BY MainAssumption, NoneAssumption, BatchAssumption, BackendAssumption,
     CapacityAssumption, BufferingAssumption DEF ConstantsOK

(* Type correctness: every variable keeps its type, a thread that sends    *)
(* holds a runnable, async_handler takes a further runnable only below its *)
(* batch limit, and a delayed store is pending only where the main    *)
(* thread has executed no locked instruction since async_handler:43.       *)
THEOREM TypeCorrect == Spec => []TypeOK
<1>1. Init => TypeOK
  <2> SUFFICES ASSUME Init PROVE TypeOK
    OBVIOUS
  <2>1. buffered => hpc \in {"check", "recv", "loop"} /\ StoreBuffering
    BY Zenon DEF Init
  <2>2. fd \in 0 .. Capacity
    BY ConstantsHold DEF Init, ConstantsOK
  <2>3. queue \in Seq(Tasks)
    BY DEF Init
  <2>4. TICKLED \in BOOLEAN /\ buffered \in BOOLEAN
    BY Zenon DEF Init
  <2>5. /\ task \in [Tasks -> TaskStates]
        /\ pc \in [Procs -> Pcs]
        /\ hand \in [Procs -> Tasks \cup {None}]
        /\ \A p \in Procs : pc[p] = "send" => hand[p] \in Tasks
    BY DEF Init, TaskStates, Pcs
  <2>6. /\ BATCH_SIZE \in BatchSizes /\ hpc \in Hpcs /\ cnt \in Nat
        /\ limit \in Nat /\ cur \in Tasks \cup {None}
        /\ hpc = "run" => cur \in Tasks
        /\ hpc \in {"recv", "run", "count"} => cnt = 0 \/ cnt < limit
    BY DEF Init, Hpcs
  <2>7. QED
    BY <2>1, <2>2, <2>3, <2>4, <2>5, <2>6 DEF TypeOK
<1>2. TypeOK /\ [Next]_vars => TypeOK'
  <2> SUFFICES ASSUME TypeOK, [Next]_vars PROVE TypeOK'
    OBVIOUS
  <2> USE ConstantsHold DEF TypeOK, ConstantsOK, TaskStates, Pcs, Hpcs, handlerVars
  <2>0. Main \in Procs
    BY DEF Procs
  <2>1. ASSUME NEW p \in Procs, NEW t \in Tasks, Spawn(p, t) PROVE TypeOK'
    BY <2>1 DEF Spawn, EnterSchedule
  <2>2. ASSUME NEW p \in Procs, NEW t \in Tasks, WakeIdle(p, t) PROVE TypeOK'
    BY <2>2 DEF WakeIdle, EnterSchedule
  <2>3. ASSUME NEW p \in Procs, NEW t \in Tasks, WakeRunning(p, t) PROVE TypeOK'
    BY <2>3 DEF WakeRunning
  <2>4. ASSUME NEW p \in Procs, Send(p) PROVE TypeOK'
    BY <2>4 DEF Send
  <2>5. ASSUME NEW p \in Procs, Cas(p) PROVE TypeOK'
    BY <2>5 DEF Cas
  <2>6. ASSUME NEW p \in Procs, Signal(p) PROVE TypeOK'
    BY <2>6 DEF Signal, tickle, Written, AlreadyFull
  <2>7. ASSUME NEW v \in BatchSizes, set_batch_size(v) PROVE TypeOK'
    BY <2>7 DEF set_batch_size
  <2>8. CASE Deliver
    BY <2>8 DEF Deliver
  <2>9. CASE EventfdDrain
    BY <2>9 DEF EventfdDrain
  <2>10. CASE PipeRead
    BY <2>10 DEF PipeRead
  <2>11. CASE PipeEmpty
    BY <2>11 DEF PipeEmpty
  <2>12. CASE Clear
    <3>1. buffered' => hpc' \in {"check", "recv", "loop"} /\ StoreBuffering
      BY <2>12, Zenon DEF Clear
    <3>2. buffered' \in BOOLEAN /\ TICKLED' \in BOOLEAN
      BY <2>12, Zenon DEF Clear
    <3>3. QED
      BY <2>12, <3>1, <3>2 DEF Clear
  <2>13. CASE Check
    BY <2>13 DEF Check, Return
  <2>14. CASE RecvEmpty
    BY <2>14 DEF RecvEmpty, Return
  <2>15. CASE RecvRun
    BY <2>15 DEF RecvRun
  <2>16. CASE PollReady
    BY <2>16 DEF PollReady
  <2>17. CASE PollPending
    BY <2>17, <2>0 DEF PollPending, EnterSchedule
  <2>18. CASE Count
    BY <2>18 DEF Count
  <2>19. CASE Retickle
    BY <2>19 DEF Retickle, Return, tickle, Written, AlreadyFull
  <2>20. CASE FlushStore
    BY <2>20 DEF FlushStore
  <2>21. CASE UNCHANGED vars
    BY <2>21 DEF vars
  <2>22. QED
    BY <2>1, <2>2, <2>3, <2>4, <2>5, <2>6, <2>7, <2>8, <2>9, <2>10, <2>11,
       <2>12, <2>13, <2>14, <2>15, <2>16, <2>17, <2>18, <2>19, <2>20, <2>21
       DEF Next, schedule, async_handler, on_tickled, Poll
<1>3. QED
  BY <1>1, <1>2, PTL DEF Spec

-----------------------------------------------------------------------------
(* TICKLED never sticks, whether or not the store that clears it can be    *)
(* delayed: a set flag always has a signal behind it, so the next          *)
(* schedule() after a loss signals again (spawn.rs:104-109).               *)
THEOREM TickleNeverSticks == Spec => []NoStuckTickle
<1>1. Init => NoStuckTickle
  BY DEF Init, NoStuckTickle
<1>2. TypeOK /\ NoStuckTickle /\ [Next]_vars => NoStuckTickle'
  <2> SUFFICES ASSUME TypeOK, NoStuckTickle, [Next]_vars PROVE NoStuckTickle'
    OBVIOUS
  <2> USE ConstantsHold DEF TypeOK, ConstantsOK, NoStuckTickle, handlerVars
  <2>1. ASSUME NEW p \in Procs, NEW t \in Tasks, Spawn(p, t) PROVE NoStuckTickle'
    BY <2>1 DEF Spawn, CanCall, EnterSchedule
  <2>2. ASSUME NEW p \in Procs, NEW t \in Tasks, WakeIdle(p, t) PROVE NoStuckTickle'
    BY <2>2 DEF WakeIdle, CanCall, EnterSchedule
  <2>3. ASSUME NEW p \in Procs, NEW t \in Tasks, WakeRunning(p, t) PROVE NoStuckTickle'
    BY <2>3 DEF WakeRunning
  <2>4. ASSUME NEW p \in Procs, Send(p) PROVE NoStuckTickle'
    BY <2>4 DEF Send
  <2>5. ASSUME NEW p \in Procs, Cas(p) PROVE NoStuckTickle'
    BY <2>5 DEF Cas
  <2>6. ASSUME NEW p \in Procs, Signal(p) PROVE NoStuckTickle'
    BY <2>6 DEF Signal, tickle, Written, AlreadyFull
  <2>7. ASSUME NEW v \in BatchSizes, set_batch_size(v) PROVE NoStuckTickle'
    BY <2>7 DEF set_batch_size
  <2>8. CASE Deliver
    BY <2>8 DEF Deliver
  <2>9. CASE EventfdDrain
    BY <2>9 DEF EventfdDrain
  <2>10. CASE PipeRead
    BY <2>10 DEF PipeRead
  <2>11. CASE PipeEmpty
    BY <2>11 DEF PipeEmpty
  <2>12. CASE Clear
    BY <2>12 DEF Clear
  <2>13. CASE Check
    BY <2>13 DEF Check, Return
  <2>14. CASE RecvEmpty
    BY <2>14 DEF RecvEmpty, Return
  <2>15. CASE RecvRun
    BY <2>15 DEF RecvRun
  <2>16. CASE PollReady
    BY <2>16 DEF PollReady
  <2>17. CASE PollPending
    BY <2>17 DEF PollPending, EnterSchedule
  <2>18. CASE Count
    BY <2>18 DEF Count
  <2>19. CASE Retickle
    BY <2>19 DEF Retickle, Return, tickle, Written, AlreadyFull
  <2>20. CASE FlushStore
    BY <2>20 DEF FlushStore
  <2>21. CASE UNCHANGED vars
    BY <2>21 DEF vars
  <2>22. QED
    BY <2>1, <2>2, <2>3, <2>4, <2>5, <2>6, <2>7, <2>8, <2>9, <2>10, <2>11,
       <2>12, <2>13, <2>14, <2>15, <2>16, <2>17, <2>18, <2>19, <2>20, <2>21
       DEF Next, schedule, async_handler, on_tickled, Poll
<1>3. QED
  BY <1>1, <1>2, TypeCorrect, PTL DEF Spec

(* Without delayed stores the main thread's store buffer is always empty.  *)
LEMMA StoresAreImmediate == ASSUME ~StoreBuffering PROVE TypeOK => ~buffered
  BY DEF TypeOK

(* No wakeup is lost when TICKLED=false is visible before the queue is     *)
(* checked: coalescing never leaves a runnable behind, with any number of  *)
(* threads in schedule() against the draining handler.                     *)
THEOREM WakeupsNotLost == ASSUME ~StoreBuffering PROVE Spec => []NoLostWakeup
<1>1. Init => NoLostWakeup
  BY DEF Init, NoLostWakeup
<1>2. TypeOK /\ NoStuckTickle /\ NoLostWakeup /\ [Next]_vars => NoLostWakeup'
  <2> SUFFICES ASSUME TypeOK, NoStuckTickle, NoLostWakeup, [Next]_vars
               PROVE NoLostWakeup'
    OBVIOUS
  <2> USE ConstantsHold DEF TypeOK, ConstantsOK, NoLostWakeup, handlerVars
  <2>1. ASSUME NEW p \in Procs, NEW t \in Tasks, Spawn(p, t) PROVE NoLostWakeup'
    BY <2>1 DEF Spawn, CanCall, EnterSchedule
  <2>2. ASSUME NEW p \in Procs, NEW t \in Tasks, WakeIdle(p, t) PROVE NoLostWakeup'
    BY <2>2 DEF WakeIdle, CanCall, EnterSchedule
  <2>3. ASSUME NEW p \in Procs, NEW t \in Tasks, WakeRunning(p, t) PROVE NoLostWakeup'
    BY <2>3 DEF WakeRunning
  <2>4. ASSUME NEW p \in Procs, Send(p) PROVE NoLostWakeup'
    BY <2>4 DEF Send
  <2>5. ASSUME NEW p \in Procs, Cas(p) PROVE NoLostWakeup'
    BY <2>5, StoresAreImmediate DEF Cas, NoStuckTickle
  <2>6. ASSUME NEW p \in Procs, Signal(p) PROVE NoLostWakeup'
    BY <2>6 DEF Signal, tickle, Written, AlreadyFull
  <2>7. ASSUME NEW v \in BatchSizes, set_batch_size(v) PROVE NoLostWakeup'
    BY <2>7 DEF set_batch_size
  <2>8. CASE Deliver
    BY <2>8 DEF Deliver
  <2>9. CASE EventfdDrain
    BY <2>9 DEF EventfdDrain
  <2>10. CASE PipeRead
    BY <2>10 DEF PipeRead
  <2>11. CASE PipeEmpty
    BY <2>11 DEF PipeEmpty
  <2>12. CASE Clear
    BY <2>12 DEF Clear
  <2>13. CASE Check
    BY <2>13 DEF Check, Return
  <2>14. CASE RecvEmpty
    BY <2>14 DEF RecvEmpty, Return
  <2>15. CASE RecvRun
    BY <2>15 DEF RecvRun
  <2>16. CASE PollReady
    BY <2>16 DEF PollReady
  <2>17. CASE PollPending
    BY <2>17 DEF PollPending, EnterSchedule
  <2>18. CASE Count
    BY <2>18 DEF Count
  <2>19. CASE Retickle
    BY <2>19 DEF Retickle, Return, tickle, Written, AlreadyFull
  <2>20. CASE FlushStore
    BY <2>20 DEF FlushStore
  <2>21. CASE UNCHANGED vars
    BY <2>21 DEF vars
  <2>22. QED
    BY <2>1, <2>2, <2>3, <2>4, <2>5, <2>6, <2>7, <2>8, <2>9, <2>10, <2>11,
       <2>12, <2>13, <2>14, <2>15, <2>16, <2>17, <2>18, <2>19, <2>20, <2>21
       DEF Next, schedule, async_handler, on_tickled, Poll
<1>3. QED
  BY <1>1, <1>2, TypeCorrect, TickleNeverSticks, PTL DEF Spec

(* Polls are never inline and never overlap: a future runs only in         *)
(* async_handler's call of Runnable::run on the main thread, whoever wakes *)
(* it and from wherever (spawn.rs:87-91).                                  *)
THEOREM PollsNotReentrant == Spec => []NoReentrantPoll
<1>1. Init => NoReentrantPoll
  BY DEF Init, NoReentrantPoll
<1>2. TypeOK /\ NoReentrantPoll /\ [Next]_vars => NoReentrantPoll'
  <2> SUFFICES ASSUME TypeOK, NoReentrantPoll, [Next]_vars PROVE NoReentrantPoll'
    OBVIOUS
  <2> USE ConstantsHold DEF TypeOK, ConstantsOK, NoReentrantPoll, handlerVars
  <2>1. ASSUME NEW p \in Procs, NEW t \in Tasks, Spawn(p, t) PROVE NoReentrantPoll'
    BY <2>1 DEF Spawn, CanCall, EnterSchedule
  <2>2. ASSUME NEW p \in Procs, NEW t \in Tasks, WakeIdle(p, t) PROVE NoReentrantPoll'
    BY <2>2 DEF WakeIdle, CanCall, EnterSchedule
  <2>3. ASSUME NEW p \in Procs, NEW t \in Tasks, WakeRunning(p, t) PROVE NoReentrantPoll'
    BY <2>3 DEF WakeRunning
  <2>4. ASSUME NEW p \in Procs, Send(p) PROVE NoReentrantPoll'
    BY <2>4 DEF Send
  <2>5. ASSUME NEW p \in Procs, Cas(p) PROVE NoReentrantPoll'
    BY <2>5 DEF Cas
  <2>6. ASSUME NEW p \in Procs, Signal(p) PROVE NoReentrantPoll'
    BY <2>6 DEF Signal, tickle, Written, AlreadyFull
  <2>7. ASSUME NEW v \in BatchSizes, set_batch_size(v) PROVE NoReentrantPoll'
    BY <2>7 DEF set_batch_size
  <2>8. CASE Deliver
    BY <2>8 DEF Deliver
  <2>9. CASE EventfdDrain
    BY <2>9 DEF EventfdDrain
  <2>10. CASE PipeRead
    BY <2>10 DEF PipeRead
  <2>11. CASE PipeEmpty
    BY <2>11 DEF PipeEmpty
  <2>12. CASE Clear
    BY <2>12 DEF Clear
  <2>13. CASE Check
    BY <2>13 DEF Check, Return
  <2>14. CASE RecvEmpty
    BY <2>14 DEF RecvEmpty, Return
  <2>15. CASE RecvRun
    BY <2>15 DEF RecvRun
  <2>16. CASE PollReady
    BY <2>16 DEF PollReady
  <2>17. CASE PollPending
    BY <2>17 DEF PollPending, EnterSchedule
  <2>18. CASE Count
    BY <2>18 DEF Count
  <2>19. CASE Retickle
    BY <2>19 DEF Retickle, Return, tickle, Written, AlreadyFull
  <2>20. CASE FlushStore
    BY <2>20 DEF FlushStore
  <2>21. CASE UNCHANGED vars
    BY <2>21 DEF vars
  <2>22. QED
    BY <2>1, <2>2, <2>3, <2>4, <2>5, <2>6, <2>7, <2>8, <2>9, <2>10, <2>11,
       <2>12, <2>13, <2>14, <2>15, <2>16, <2>17, <2>18, <2>19, <2>20, <2>21
       DEF Next, schedule, async_handler, on_tickled, Poll
<1>3. QED
  BY <1>1, <1>2, TypeCorrect, PTL DEF Spec

(* A task never has two runnables, and a scheduled one is never without:   *)
(* no interleaving of wakes on any threads with the poll and its           *)
(* completion polls a future twice for one wake or drops the wake.         *)
THEOREM RunnablesConserved == Spec => []RunnableConservation
<1>1. Init => RunnableConservation
  BY DEF Init, RunnableConservation, ScheduledHasRunnable, NoTwoRunnables, Holds
<1>2. TypeOK /\ NoReentrantPoll /\ RunnableConservation /\ [Next]_vars
        => RunnableConservation'
  <2> SUFFICES ASSUME TypeOK, NoReentrantPoll, RunnableConservation, [Next]_vars
               PROVE RunnableConservation'
    OBVIOUS
  <2> USE ConstantsHold DEF TypeOK, ConstantsOK, RunnableConservation,
            ScheduledHasRunnable, NoTwoRunnables, NoReentrantPoll, Holds, handlerVars
  <2>1. ASSUME NEW p \in Procs, NEW t \in Tasks, Spawn(p, t)
        PROVE RunnableConservation'
    BY <2>1 DEF Spawn, CanCall, EnterSchedule
  <2>2. ASSUME NEW p \in Procs, NEW t \in Tasks, WakeIdle(p, t)
        PROVE RunnableConservation'
    BY <2>2 DEF WakeIdle, CanCall, EnterSchedule
  <2>3. ASSUME NEW p \in Procs, NEW t \in Tasks, WakeRunning(p, t)
        PROVE RunnableConservation'
    BY <2>3 DEF WakeRunning
  <2>4. ASSUME NEW p \in Procs, Send(p)
        PROVE RunnableConservation'
    BY <2>4 DEF Send
  <2>5. ASSUME NEW p \in Procs, Cas(p)
        PROVE RunnableConservation'
    BY <2>5 DEF Cas
  <2>6. ASSUME NEW p \in Procs, Signal(p)
        PROVE RunnableConservation'
    BY <2>6 DEF Signal, tickle, Written, AlreadyFull
  <2>7. ASSUME NEW v \in BatchSizes, set_batch_size(v)
        PROVE RunnableConservation'
    BY <2>7 DEF set_batch_size
  <2>8. CASE Deliver
    BY <2>8 DEF Deliver
  <2>9. CASE EventfdDrain
    BY <2>9 DEF EventfdDrain
  <2>10. CASE PipeRead
    BY <2>10 DEF PipeRead
  <2>11. CASE PipeEmpty
    BY <2>11 DEF PipeEmpty
  <2>12. CASE Clear
    BY <2>12 DEF Clear
  <2>13. CASE Check
    BY <2>13 DEF Check, Return
  <2>14. CASE RecvEmpty
    BY <2>14 DEF RecvEmpty, Return
  <2>15. CASE RecvRun
    <3> DEFINE h == Head(queue)
    <3>1. Len(queue) \in Nat \ {0} /\ h = queue[1] /\ h \in Tasks
      BY <2>15 DEF RecvRun
    <3>2. /\ queue' = Tail(queue)
          /\ task' = [task EXCEPT ![h] = "run"]
          /\ UNCHANGED <<pc, hand>>
      BY <2>15 DEF RecvRun
    <3>3. /\ Len(queue') = Len(queue) - 1
          /\ \A i \in 1 .. Len(queue') :
               i + 1 \in 1 .. Len(queue) /\ queue'[i] = queue[i + 1]
      BY <3>1, <3>2
    <3>4. \A i \in 1 .. Len(queue') : queue'[i] # h
      BY <3>1, <3>3
    <3>5. \A p \in Procs : ~Holds(p, h)
      BY <3>1
    <3> HIDE DEF h
    <3>6. NoTwoRunnables'
      BY <3>1, <3>2, <3>3
    <3>7. ASSUME NEW t \in Tasks
          PROVE  task'[t] = "sched" <=> \/ \E p \in Procs : Holds(p, t)'
                                        \/ \E i \in 1 .. Len(queue') : queue'[i] = t
      <4>1. CASE t = h
        BY <4>1, <3>2, <3>4, <3>5
      <4>2. CASE t # h
        <5>1. (\E i \in 1 .. Len(queue') : queue'[i] = t)
                <=> \E i \in 1 .. Len(queue) : queue[i] = t
          <6>1. ASSUME NEW i \in 1 .. Len(queue), queue[i] = t
                PROVE  i - 1 \in 1 .. Len(queue') /\ queue'[i - 1] = t
            BY <6>1, <4>2, <3>1, <3>3
          <6>2. QED
            BY <6>1, <3>3
        <5>2. QED
          BY <4>2, <5>1, <3>2
      <4>3. QED
        BY <4>1, <4>2
    <3>8. QED
      BY <3>6, <3>7
  <2>16. CASE PollReady
    BY <2>16 DEF PollReady
  <2>17. CASE PollPending
    <3>1. cur \in Tasks /\ pc[Main] = "idle" /\ UNCHANGED queue
      BY <2>17 DEF PollPending
    <3>2. /\ \A p \in Procs : ~Holds(p, cur)
          /\ \A i \in 1 .. Len(queue) : queue[i] # cur
      BY <2>17, <3>1 DEF PollPending
    <3>3. CASE task[cur] = "run"
      BY <2>17, <3>1, <3>2, <3>3 DEF PollPending
    <3>4. CASE task[cur] = "rerun"
      <4>1. /\ task' = [task EXCEPT ![cur] = "sched"]
            /\ pc' = [pc EXCEPT ![Main] = "send"]
            /\ hand' = [hand EXCEPT ![Main] = cur]
        BY <2>17, <3>4 DEF PollPending, EnterSchedule
      <4>2. Main \in Procs
        BY DEF Procs
      <4>3. \A p \in Procs, t \in Tasks :
              Holds(p, t)' <=> Holds(p, t) \/ (p = Main /\ t = cur)
        BY <3>1, <4>1, <4>2
      <4>4. \A i \in 1 .. Len(queue) : queue[i] \in Tasks
        OBVIOUS
      <4> HIDE DEF Holds
      <4>5. NoTwoRunnables'
        BY <3>1, <3>2, <4>3, <4>4
      <4>6. ScheduledHasRunnable'
        BY <3>1, <3>2, <4>1, <4>2, <4>3
      <4>7. QED
        BY <4>5, <4>6
    <3>5. QED
      BY <2>17, <3>3, <3>4 DEF PollPending
  <2>18. CASE Count
    BY <2>18 DEF Count
  <2>19. CASE Retickle
    BY <2>19 DEF Retickle, Return, tickle, Written, AlreadyFull
  <2>20. CASE FlushStore
    BY <2>20 DEF FlushStore
  <2>21. CASE UNCHANGED vars
    BY <2>21 DEF vars
  <2>22. QED
    BY <2>1, <2>2, <2>3, <2>4, <2>5, <2>6, <2>7, <2>8, <2>9, <2>10, <2>11,
       <2>12, <2>13, <2>14, <2>15, <2>16, <2>17, <2>18, <2>19, <2>20, <2>21
       DEF Next, schedule, async_handler, on_tickled, Poll
<1>3. QED
  BY <1>1, <1>2, TypeCorrect, PollsNotReentrant, PTL DEF Spec

-----------------------------------------------------------------------------
(* How many signals there can be: after a drain, when the main thread is   *)
(* not in schedule(), one for each other thread that was late with its     *)
(* own, then one for each time TICKLED is won or the batch limit is hit.   *)
Signallers == {p \in Procs : pc[p] = "signal"}

Budget ==
  Cardinality(Threads) + (IF TICKLED THEN 1 ELSE 0)
    + (IF buffered \/ hpc = "clear" THEN 0
       ELSE IF hpc \in {"loop", "drain"} THEN 2 ELSE 1)

SignalsInv ==
  /\ hpc \in {"drain", "clear"} => pc[Main] = "idle"
  /\ fd + Cardinality(Signallers) <= Budget

(* Threads about to signal are finitely many, and no more than there are   *)
(* threads besides the main one.                                           *)
LEMMA SignallersFinite ==
  /\ Cardinality(Threads) \in Nat
  /\ IsFiniteSet(Signallers) /\ Cardinality(Signallers) \in Nat
  /\ pc[Main] # "signal" => Cardinality(Signallers) <= Cardinality(Threads)
<1>1. IsFiniteSet(Threads) /\ Cardinality(Threads) \in Nat
  BY ThreadsAssumption, FS_CardinalityType
<1>2. IsFiniteSet(Procs)
  BY <1>1, FS_AddElement DEF Procs
<1>3. IsFiniteSet(Signallers)
  <2>1. Signallers \in SUBSET Procs
    BY DEF Signallers
  <2>2. QED
    BY <1>2, <2>1, FS_Subset
<1>4. ASSUME pc[Main] # "signal" PROVE Cardinality(Signallers) <= Cardinality(Threads)
  <2>1. Signallers \in SUBSET Threads
    BY <1>4 DEF Signallers, Procs
  <2>2. QED
    BY <1>1, <2>1, FS_Subset
<1>5. QED
  BY <1>1, <1>3, <1>4, FS_CardinalityType

(* Steps that neither start nor end a signal, and those that do.           *)
LEMMA SameSignallers ==
  ASSUME \A p \in Procs : pc'[p] = "signal" <=> pc[p] = "signal"
  PROVE  Cardinality(Signallers') = Cardinality(Signallers)
<1>1. Signallers' = Signallers
  BY DEF Signallers
<1>2. QED
  BY <1>1

(* A thread wins TICKLED and is about to signal.                           *)
LEMMA SignallerEnters ==
  ASSUME NEW p \in Procs, pc[p] # "signal", pc'[p] = "signal",
         \A q \in Procs \ {p} : pc'[q] = pc[q]
  PROVE  Cardinality(Signallers') = Cardinality(Signallers) + 1
<1>1. Signallers' = Signallers \cup {p} /\ p \notin Signallers
  BY DEF Signallers
<1>2. QED
  BY <1>1, SignallersFinite, FS_AddElement

(* A thread has written its signal, or found the descriptor full.          *)
LEMMA SignallerLeaves ==
  ASSUME NEW p \in Procs, pc[p] = "signal", pc'[p] # "signal",
         \A q \in Procs \ {p} : pc'[q] = pc[q]
  PROVE  Cardinality(Signallers') = Cardinality(Signallers) - 1
<1>1. Signallers' = Signallers \ {p} /\ p \in Signallers
  BY DEF Signallers
<1>2. QED
  BY <1>1, SignallersFinite, FS_RemoveElement

(* Coalescing bounds the signals in the descriptor by the number of        *)
(* threads, whatever the number of wakes, with and without delayed stores. *)
LEMMA SignalsInvariant == Spec => []SignalsInv
<1>1. Init => SignalsInv
  <2> SUFFICES ASSUME Init PROVE SignalsInv
    OBVIOUS
  <2>1. Main \in Procs
    BY DEF Procs
  <2>2. pc[Main] = "idle" /\ hpc = "loop" /\ fd = 0 /\ buffered = FALSE
    BY <2>1 DEF Init
  <2>3. QED
    BY <2>2, SignallersFinite DEF SignalsInv, Budget
<1>2. TypeOK /\ SignalsInv /\ [Next]_vars => SignalsInv'
  <2> SUFFICES ASSUME TypeOK, SignalsInv, [Next]_vars PROVE SignalsInv'
    OBVIOUS
  <2> DEFINE N == Cardinality(Signallers)
             T == Cardinality(Threads)
  <2>a. /\ Main \in Procs /\ N \in Nat /\ T \in Nat
        /\ pc[Main] # "signal" => N <= T
        /\ fd \in Nat /\ Capacity \in Nat /\ ReadBuf \in Nat /\ pc \in [Procs -> Pcs]
        /\ buffered \in BOOLEAN /\ TICKLED \in BOOLEAN
        /\ buffered => hpc \in {"check", "recv", "loop"}
    BY ConstantsHold, SignallersFinite DEF Procs, TypeOK, ConstantsOK
  <2>b. ASSUME \A p \in Procs : pc'[p] = "signal" <=> pc[p] = "signal"
        PROVE  N' = N
    BY <2>b, SameSignallers
  <2> HIDE DEF N, T
  <2>c. SignalsInv <=> /\ hpc \in {"drain", "clear"} => pc[Main] = "idle"
                       /\ fd + N <= Budget
    BY DEF SignalsInv, N
  <2>d. SignalsInv' <=> /\ hpc' \in {"drain", "clear"} => pc'[Main] = "idle"
                        /\ fd' + N' <= Budget'
    BY DEF SignalsInv, N
  <2>e. /\ Budget = T + (IF TICKLED THEN 1 ELSE 0)
                      + (IF buffered \/ hpc = "clear" THEN 0
                         ELSE IF hpc \in {"loop", "drain"} THEN 2 ELSE 1)
        /\ Budget' = T + (IF TICKLED' THEN 1 ELSE 0)
                       + (IF buffered' \/ hpc' = "clear" THEN 0
                          ELSE IF hpc' \in {"loop", "drain"} THEN 2 ELSE 1)
    BY DEF Budget, T
  <2>1. ASSUME NEW p \in Procs, NEW t \in Tasks,
               Spawn(p, t) \/ WakeIdle(p, t) \/ WakeRunning(p, t)
        PROVE  SignalsInv'
    <3>1. /\ UNCHANGED <<TICKLED, buffered, fd, hpc>>
          /\ \A q \in Procs : pc'[q] = "signal" <=> pc[q] = "signal"
          /\ p = Main => hpc \in {"loop", "run"}
          /\ \A q \in Procs \ {p} : pc'[q] = pc[q]
      BY <2>1, <2>a DEF Spawn, WakeIdle, WakeRunning, CanCall, EnterSchedule, handlerVars
    <3>2. QED
      BY <3>1, <2>a, <2>b, <2>c, <2>d, <2>e
  <2>2. ASSUME NEW p \in Procs, Send(p)
        PROVE  SignalsInv'
    <3>1. /\ UNCHANGED <<TICKLED, buffered, fd, hpc>> /\ pc[p] = "send"
          /\ \A q \in Procs : pc'[q] = "signal" <=> pc[q] = "signal"
          /\ \A q \in Procs \ {p} : pc'[q] = pc[q]
      BY <2>2, <2>a DEF Send, handlerVars
    <3>2. QED
      BY <3>1, <2>a, <2>b, <2>c, <2>d, <2>e
  <2>3. ASSUME NEW p \in Procs, Cas(p)
        PROVE  SignalsInv'
    <3>1. /\ UNCHANGED <<buffered, fd, hpc>> /\ pc[p] = "cas" /\ TICKLED' = TRUE
          /\ pc'[p] = IF TICKLED THEN "idle" ELSE "signal"
          /\ \A q \in Procs \ {p} : pc'[q] = pc[q]
      BY <2>3, <2>a DEF Cas, handlerVars
    <3>2. CASE TICKLED
      BY <3>1, <3>2, <2>a, <2>b, <2>c, <2>d, <2>e
    <3>3. CASE ~TICKLED
      <4>1. N' = N + 1
        BY <3>1, <3>3, SignallerEnters DEF N
      <4>2. QED
        BY <3>1, <3>3, <4>1, <2>a, <2>c, <2>d, <2>e
    <3>4. QED
      BY <3>2, <3>3, <2>a
  <2>4. ASSUME NEW p \in Procs, Signal(p)
        PROVE  SignalsInv'
    <3>1. /\ UNCHANGED <<TICKLED, buffered, hpc>> /\ fd' \in {fd, fd + 1}
          /\ pc[p] = "signal" /\ pc'[p] = "idle"
          /\ \A q \in Procs \ {p} : pc'[q] = pc[q]
      BY <2>4, <2>a DEF Signal, tickle, Written, AlreadyFull, handlerVars
    <3>2. N' = N - 1
      BY <3>1, SignallerLeaves DEF N
    <3>3. Budget' = Budget /\ Budget \in Nat
      BY <3>1, <2>a, <2>e
    <3>4. fd' + N' <= Budget'
      <4>1. fd + N <= Budget /\ fd \in Nat /\ N \in Nat
        BY <2>a, <2>c
      <4>2. fd' = fd \/ fd' = fd + 1
        BY <3>1
      <4>3. QED
        BY <3>2, <3>3, <4>1, <4>2
    <3>5. hpc' \in {"drain", "clear"} => pc'[Main] = "idle"
      BY <3>1, <2>a, <2>c
    <3>6. QED
      BY <3>4, <3>5, <2>d
  <2>5. CASE UNCHANGED <<pc, TICKLED, buffered, fd, hpc>>
    BY <2>5, <2>a, <2>b, <2>c, <2>d, <2>e
  <2>6. CASE Deliver
    BY <2>6, <2>a, <2>b, <2>c, <2>d, <2>e DEF Deliver
  <2>7. CASE EventfdDrain \/ PipeEmpty
    <3>1. /\ fd' = 0 /\ hpc = "drain" /\ hpc' = "clear"
          /\ UNCHANGED <<pc, TICKLED, buffered>>
      BY <2>7 DEF EventfdDrain, PipeEmpty
    <3>2. QED
      BY <3>1, <2>a, <2>b, <2>c, <2>d, <2>e
  <2>8. CASE PipeRead
    <3>1. fd' <= fd /\ fd' \in Nat /\ UNCHANGED <<pc, TICKLED, buffered, hpc>>
      BY <2>8, <2>a DEF PipeRead, handlerVars
    <3>2. N' = N /\ Budget' = Budget /\ Budget \in Nat
      BY <3>1, <2>a, <2>b, <2>e
    <3>3. fd' + N' <= Budget'
      <4>1. fd + N <= Budget /\ fd \in Nat /\ N \in Nat
        BY <2>a, <2>c
      <4>2. fd' <= fd /\ fd' \in Nat
        BY <3>1
      <4>3. fd' + N <= Budget
        <5>1. \A a, b, c, d \in Nat : a <= b /\ b + c <= d => a + c <= d
          OBVIOUS
        <5>2. Budget \in Nat
          BY <3>2
        <5>3. QED
          BY <4>1, <4>2, <5>1, <5>2
      <4>4. QED
        BY <3>2, <4>3
    <3>4. QED
      BY <3>1, <3>3, <2>c, <2>d
  <2>9. CASE Clear
    <3>1. /\ hpc = "clear" /\ hpc' = "check" /\ UNCHANGED <<pc, fd>> /\ ~buffered
          /\ \/ ~TICKLED' /\ ~buffered'
             \/ UNCHANGED TICKLED /\ buffered'
      BY <2>9, <2>a, Zenon DEF Clear
    <3>2. QED
      BY <3>1, <2>a, <2>b, <2>c, <2>d, <2>e
  <2>10. CASE FlushStore
    <3>1. buffered /\ ~TICKLED' /\ ~buffered' /\ UNCHANGED <<pc, fd, hpc>>
      BY <2>10, Zenon DEF FlushStore, handlerVars
    <3>2. QED
      BY <3>1, <2>a, <2>b, <2>c, <2>d, <2>e
  <2>11. CASE Check \/ RecvEmpty
    <3>1. /\ hpc \in {"check", "recv"} /\ hpc' \in {"loop", "recv"}
          /\ UNCHANGED <<pc, TICKLED, buffered, fd>>
      BY <2>11 DEF Check, RecvEmpty, Return
    <3>2. QED
      BY <3>1, <2>a, <2>b, <2>c, <2>d, <2>e
  <2>12. CASE RecvRun
    <3>1. hpc = "recv" /\ hpc' = "run" /\ UNCHANGED <<pc, TICKLED, buffered, fd>>
      BY <2>12 DEF RecvRun
    <3>2. QED
      BY <3>1, <2>a, <2>b, <2>c, <2>d, <2>e
  <2>13. CASE Poll
    <3>1. /\ hpc = "run" /\ hpc' = "count" /\ UNCHANGED <<TICKLED, buffered, fd>>
          /\ \A q \in Procs : pc'[q] = "signal" <=> pc[q] = "signal"
      BY <2>13, <2>a DEF Poll, PollReady, PollPending, EnterSchedule
    <3>2. QED
      BY <3>1, <2>a, <2>b, <2>c, <2>d, <2>e
  <2>14. CASE Count
    <3>1. /\ hpc = "count" /\ hpc' \in {"retickle", "recv"}
          /\ UNCHANGED <<pc, TICKLED, buffered, fd>>
      BY <2>14 DEF Count
    <3>2. QED
      BY <3>1, <2>a, <2>b, <2>c, <2>d, <2>e
  <2>15. CASE Retickle
    <3>1. /\ hpc = "retickle" /\ hpc' = "loop" /\ fd' \in {fd, fd + 1}
          /\ UNCHANGED <<pc, TICKLED, buffered>>
      BY <2>15 DEF Retickle, Return, tickle, Written, AlreadyFull
    <3>2. N' = N /\ Budget' = Budget + 1 /\ Budget \in Nat
      BY <3>1, <2>a, <2>b, <2>e
    <3>3. fd' + N' <= Budget'
      <4>1. fd + N <= Budget /\ fd \in Nat /\ N \in Nat
        BY <2>a, <2>c
      <4>2. fd' = fd \/ fd' = fd + 1
        BY <3>1
      <4>3. QED
        BY <3>2, <4>1, <4>2
    <3>4. QED
      BY <3>1, <3>3, <2>d
  <2>16. ASSUME NEW v \in BatchSizes, set_batch_size(v)
         PROVE  SignalsInv'
    BY <2>5, <2>16 DEF set_batch_size, handlerVars
  <2>17. CASE UNCHANGED vars
    BY <2>5, <2>17 DEF vars, handlerVars
  <2>18. QED
    BY <2>1, <2>2, <2>3, <2>4, <2>6, <2>7, <2>8, <2>9, <2>10, <2>11, <2>12,
       <2>13, <2>14, <2>15, <2>16, <2>17
       DEF Next, schedule, async_handler, on_tickled
<1>3. QED
  BY <1>1, <1>2, TypeCorrect, PTL DEF Spec

(* The descriptor never holds more unread signals than there are threads,  *)
(* plus three: coalescing on TICKLED (spawn.rs:104-108) keeps a burst of   *)
(* wakes from filling it.                                                  *)
THEOREM SignalsAreBounded == Spec => []SignalsBounded
<1>1. TypeOK /\ SignalsInv => SignalsBounded
  <2> SUFFICES ASSUME TypeOK, SignalsInv PROVE SignalsBounded
    OBVIOUS
  <2>1. Budget <= Cardinality(Threads) + 3
    BY SignallersFinite DEF Budget
  <2>2. QED
    BY <2>1, SignallersFinite, ConstantsHold
       DEF SignalsInv, SignalsBounded, Signallers, Budget, TypeOK, ConstantsOK
<1>2. QED
  BY <1>1, SignalsInvariant, TypeCorrect, PTL

(* A descriptor that holds a signal more than that is never found full: no *)
(* signal is ever dropped with EAGAIN, neither a thread's nor the one that *)
(* async_handler writes at the batch limit.                                *)
THEOREM SignalsNeverDropped ==
  ASSUME Capacity >= Cardinality(Threads) + 3
  PROVE  Spec => [](hpc = "retickle" \/ (\E p \in Procs : pc[p] = "signal")
                      => fd < Capacity)
<1>1. ASSUME TypeOK, SignalsInv, hpc = "retickle" \/ \E p \in Procs : pc[p] = "signal"
      PROVE  fd < Capacity
  <2>1. /\ fd \in Nat /\ Capacity \in Nat
        /\ fd + Cardinality(Signallers) <= Budget
    BY <1>1, ConstantsHold DEF TypeOK, ConstantsOK, SignalsInv
  <2>2. CASE hpc = "retickle"
    BY <2>1, <2>2, SignallersFinite DEF Budget
  <2>3. CASE \E p \in Procs : pc[p] = "signal"
    <3>1. Signallers # {}
      BY <2>3 DEF Signallers
    <3>2. Cardinality(Signallers) # 0
      BY <3>1, SignallersFinite, FS_EmptySet
    <3>3. Budget <= Cardinality(Threads) + 3 /\ Budget \in Nat
      BY SignallersFinite DEF Budget
    <3>4. QED
      BY <2>1, <3>2, <3>3, SignallersFinite
  <2>4. QED
    BY <1>1, <2>2, <2>3
<1>2. QED
  BY <1>1, SignalsInvariant, TypeCorrect, PTL
=============================================================================
