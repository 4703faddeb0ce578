------------------------------- MODULE Request -------------------------------
(***************************************************************************)
(* Request-bound tasks and request finalization: RequestSpawn::spawn and   *)
(* RequestTask (src/src/spawn.rs:190-260) anchor a task in the request     *)
(* pool, finalize_request and fini (src/src/finalize.rs) end the request   *)
(* from an nginx posted event.  nginx may also tear a request down by      *)
(* itself, between any two calls of the main thread.                       *)
(*                                                                         *)
(* The run queue is module Tickle's, with schedule() as one step; batches  *)
(* are of one runnable (set_batch_size(1), the finest interleaving).  Each *)
(* request has a main task, spawned by the handler, and the main task may  *)
(* spawn one subtask.                                                      *)
(***************************************************************************)
EXTENDS Naturals, Sequences

CONSTANTS
  Requests,
  None,     \* no task, no request
  Dangling  \* what reading a freed request yields

Kinds == {"main", "sub"}
Tasks == Requests \X Kinds
main(r) == <<r, "main">>
sub(r) == <<r, "sub">>
tasksOf(r) == {main(r), sub(r)}

ASSUME DistinctAssumption ==
  /\ None \notin Requests \cup Tasks
  /\ Dangling \notin Requests \cup {None}

VARIABLES
  pool,      \* the request and its pool
  slot,      \* RequestTask.task in the pool: Some(task), taken by cancel(), or
             \* no RequestTask
  state,     \* async-task state
  closed,    \* async-task's CLOSED flag
  future,    \* is the task's future still there?
  awaited,   \* requests whose main task is the awaiter of its subtask
  queue,     \* the channel of runnables
  cur,       \* the task being polled
  finalized, \* requests for which finalize_request was called
  posted,    \* requests with a Finalization in ngx_posted_events
  terminal,  \* requests with a terminate handler in their posted_requests
  closing,   \* finalized requests whose response nginx still has to send
  fpc, freq, fconn  \* fini: its place, the request it finalizes and its local c

taskVars == <<slot, state, closed, future, awaited>>
finiVars == <<fpc, freq, fconn>>
vars == <<pool, taskVars, queue, cur, finalized, posted, terminal,
          closing, finiVars>>

TypeOK ==
  /\ pool \in [Requests -> {"new", "alive", "freed"}]
  /\ slot \in [Tasks -> {"none", "some", "taken"}]
  /\ state \in [Tasks -> {"none", "idle", "sched", "run", "rerun"}]
  /\ closed \in [Tasks -> BOOLEAN]
  /\ future \in [Tasks -> {"none", "alive", "dropped"}]
  /\ awaited \subseteq Requests
  /\ queue \in Seq(Tasks)
  /\ cur \in Tasks \cup {None}
  /\ finalized \subseteq Requests
  /\ posted \subseteq finalized
  /\ terminal \subseteq Requests
  /\ closing \subseteq Requests
  /\ fpc \in {"none", "finalize", "run_posted"}
  /\ freq \in Requests \cup {None}
  /\ fconn \in Requests \cup {None, Dangling}
  /\ fpc # "none" => freq \in Requests

Init ==
  /\ pool = [r \in Requests |-> "new"]
  /\ slot = [t \in Tasks |-> "none"]
  /\ state = [t \in Tasks |-> "none"]
  /\ closed = [t \in Tasks |-> FALSE]
  /\ future = [t \in Tasks |-> "none"]
  /\ awaited = {}
  /\ queue = <<>>
  /\ cur = None
  /\ finalized = {}
  /\ posted = {}
  /\ terminal = {}
  /\ closing = {}
  /\ fpc = "none"
  /\ freq = None
  /\ fconn = None

-----------------------------------------------------------------------------
(* The main thread is in the nginx event loop.                             *)
InLoop == cur = None /\ fpc = "none"

(* RequestSpawn::spawn: the RequestTask goes into the pool and the task is *)
(* scheduled; if the pool refuses, task and runnable are dropped, and the  *)
(* future with them.                                                       *)
Spawn(t) ==
  /\ future[t] = "none"
  /\ \/ /\ slot' = [slot EXCEPT ![t] = "some"]
        /\ state' = [state EXCEPT ![t] = "sched"]
        /\ future' = [future EXCEPT ![t] = "alive"]
        /\ queue' = Append(queue, t)
        /\ UNCHANGED closed
     \/ /\ closed' = [closed EXCEPT ![t] = TRUE]
        /\ future' = [future EXCEPT ![t] = "dropped"]
        /\ UNCHANGED <<slot, state, queue>>
  /\ UNCHANGED awaited

(* A request arrives and its handler spawns the main task.                 *)
Handler(r) ==
  /\ InLoop
  /\ pool[r] = "new"
  /\ pool' = [pool EXCEPT ![r] = "alive"]
  /\ Spawn(main(r))
  /\ UNCHANGED <<cur, finalized, posted, terminal, closing, finiVars>>

(* A waker of the task is used, on any thread: nothing happens once the    *)
(* task is closed or completed.                                            *)
Wake(t) ==
  /\ future[t] = "alive" /\ ~closed[t]
  /\ \/ /\ state[t] = "idle"
        /\ state' = [state EXCEPT ![t] = "sched"]
        /\ queue' = Append(queue, t)
     \/ /\ state[t] = "run"
        /\ state' = [state EXCEPT ![t] = "rerun"]
        /\ UNCHANGED queue
  /\ UNCHANGED <<pool, slot, closed, future, awaited, cur, finalized,
                 posted, terminal, closing, finiVars>>

(* Task t ends in this step, q being the queue without it.  Its future is  *)
(* dropped, and the main task, if it awaits t, is woken.                   *)
Finish(t, q) ==
  LET r == t[1]
      wakes == t = sub(r) /\ r \in awaited
      schedules == wakes /\ state[main(r)] = "idle" /\ ~closed[main(r)]
  IN  /\ future' = [future EXCEPT ![t] = "dropped"]
      /\ state' = [state EXCEPT ![t] = "none",
                     ![main(r)] = IF t = main(r) THEN "none"
                                  ELSE IF schedules THEN "sched" ELSE @]
      /\ queue' = IF schedules THEN Append(q, main(r)) ELSE q
      /\ awaited' = IF wakes THEN awaited \ {r} ELSE awaited
      /\ UNCHANGED <<slot, closed>>

(* async_handler takes the next runnable.  Of a closed task only the       *)
(* future is dropped, any other is polled.                                 *)
RunClosed ==
  /\ InLoop
  /\ queue # <<>>
  /\ closed[Head(queue)]
  /\ Finish(Head(queue), Tail(queue))
  /\ UNCHANGED <<pool, cur, finalized, posted, terminal, closing, finiVars>>

RunTask ==
  /\ InLoop
  /\ queue # <<>>
  /\ ~closed[Head(queue)]
  /\ queue' = Tail(queue)
  /\ cur' = Head(queue)
  /\ state' = [state EXCEPT ![Head(queue)] = "run"]
  /\ UNCHANGED <<pool, slot, closed, future, awaited, finalized,
                 posted, terminal, closing, finiVars>>

Run == RunClosed \/ RunTask

-----------------------------------------------------------------------------
(* What a task may do while it is polled.                                  *)

(* The main task spawns a subtask.                                         *)
SpawnSub(r) ==
  /\ cur = main(r)
  /\ Spawn(sub(r))
  /\ UNCHANGED <<pool, cur, finalized, posted, terminal, closing, finiVars>>

(* Task::set_canceled: a pending future is closed; if no runnable of it    *)
(* exists, it is scheduled once more, for its future to be dropped later.  *)
Cancellable(t) == future[t] = "alive"

(* Broken: cancel() forgets the Task it took instead of cancelling it.     *)
CancelForgets(r) ==
  /\ cur = main(r)
  /\ slot[sub(r)] = "some"
  /\ slot' = [slot EXCEPT ![sub(r)] = "taken"]
  /\ UNCHANGED <<pool, state, closed, future, awaited, queue, cur,
                 finalized, posted, terminal, closing, finiVars>>

(* RequestTask::cancel: take() the Task, cancel it ...                     *)
Cancel(r) ==
  LET t == sub(r) IN
  /\ cur = main(r)
  /\ slot[t] = "some"
  /\ slot' = [slot EXCEPT ![t] = "taken"]
  /\ closed' = [closed EXCEPT ![t] = @ \/ Cancellable(t)]
  /\ state' = [state EXCEPT ![t] = IF @ = "idle" THEN "sched" ELSE @]
  /\ queue' = IF state[t] = "idle" THEN Append(queue, t) ELSE queue
  /\ UNCHANGED <<pool, future, awaited, cur, finalized, posted,
                 terminal, closing, finiVars>>

(* The poll returns Pending; a wake that came in meanwhile reschedules.    *)
ReturnPending(t) ==
  /\ cur = t
  /\ cur' = None
  /\ state' = [state EXCEPT ![t] = IF @ = "rerun" THEN "sched" ELSE "idle"]
  /\ queue' = IF state[t] = "rerun" THEN Append(queue, t) ELSE queue
  /\ UNCHANGED <<pool, slot, closed, future, finalized, posted,
                 terminal, closing, finiVars>>

(* ... and await it, or RequestTask's poll: the main task becomes the      *)
(* subtask's awaiter and its poll returns Pending.                         *)
Await(r) ==
  /\ slot[sub(r)] # "none"
  /\ future[sub(r)] = "alive"
  /\ awaited' = awaited \cup {r}
  /\ ReturnPending(main(r))

PollPending(t) == ReturnPending(t) /\ UNCHANGED awaited

PollReady(t) ==
  /\ cur = t
  /\ cur' = None
  /\ Finish(t, queue)
  /\ UNCHANGED <<pool, finalized, posted, terminal, closing, finiVars>>

(* Broken: the request is finalized inside the poll.                       *)
finalize_inline(t) ==
  LET r == t[1] IN
  /\ cur = t
  /\ r \notin finalized
  /\ finalized' = finalized \cup {r}
  /\ pool' = [pool EXCEPT ![r] = "freed"]
  /\ UNCHANGED <<taskVars, queue, cur, posted, terminal, closing, finiVars>>

(* finalize_request: a Finalization in the pool, its event posted.  A      *)
(* request is finalized once.                                              *)
finalize_request(t) ==
  LET r == t[1] IN
  /\ cur = t
  /\ r \notin finalized
  /\ finalized' = finalized \cup {r}
  /\ posted' = posted \cup {r}
  /\ UNCHANGED <<pool, taskVars, queue, cur, terminal, closing, finiVars>>

-----------------------------------------------------------------------------
(* ngx_destroy_pool: the cleanups run, then the memory goes.  Dropping a   *)
(* RequestTask that still has its Task cancels it; dropping a Finalization *)
(* takes its event out of ngx_posted_events.  Cleanups run newest first:   *)
(* the subtask's before that of the main task, which spawned it.           *)
Anchored(r) == {t \in tasksOf(r) : slot[t] = "some" /\ Cancellable(t)}

(* Broken: the cleanup of a RequestTask forgets its Task; the cleanup of a *)
(* Finalization leaves its event posted.                                   *)
DestroyPoolLeaksTasks(r) ==
  /\ pool' = [pool EXCEPT ![r] = "freed"]
  /\ posted' = posted \ {r}
  /\ terminal' = terminal \ {r}
  /\ closing' = closing \ {r}
  /\ UNCHANGED <<taskVars, queue, finalized>>

DestroyPoolKeepsEvent(r) ==
  /\ pool' = [pool EXCEPT ![r] = "freed"]
  /\ closed' = [t \in Tasks |-> closed[t] \/ t \in Anchored(r)]
  /\ terminal' = terminal \ {r}
  /\ closing' = closing \ {r}
  /\ UNCHANGED <<slot, state, future, awaited, queue, posted, finalized>>

DestroyPool(r) ==
  LET idle(t) == t \in Anchored(r) /\ state[t] = "idle"
      rescheduled(t) == IF idle(t) THEN <<t>> ELSE <<>> IN
  /\ pool' = [pool EXCEPT ![r] = "freed"]
  /\ closed' = [t \in Tasks |-> closed[t] \/ t \in Anchored(r)]
  /\ state' = [t \in Tasks |-> IF idle(t) THEN "sched" ELSE state[t]]
  /\ queue' = queue \o rescheduled(sub(r)) \o rescheduled(main(r))
  /\ posted' = posted \ {r}
  /\ terminal' = terminal \ {r}
  /\ closing' = closing \ {r}
  /\ UNCHANGED <<slot, future, awaited, finalized>>

(* nginx ends a request on its own account (the client is gone, a timer,   *)
(* worker shutdown).                                                       *)
Teardown(r) ==
  /\ InLoop
  /\ pool[r] = "alive"
  /\ DestroyPool(r)
  /\ UNCHANGED <<cur, finiVars>>

(* The response of a finalized request has been sent.                      *)
ResponseSent(r) ==
  /\ InLoop
  /\ r \in closing
  /\ DestroyPool(r)
  /\ UNCHANGED <<cur, finiVars>>

(* Reading the connection of a request.                                    *)
Connection(r) == IF pool[r] = "alive" THEN r ELSE Dangling

(* Broken: the event's data was never set to its Finalization.             *)
FiniWithoutData(r) ==
  /\ InLoop
  /\ r \in posted
  /\ posted' = posted \ {r}
  /\ fpc' = "finalize"
  /\ freq' = None
  /\ UNCHANGED <<pool, taskVars, queue, cur, finalized, terminal,
                 closing, fconn>>

(* fini: takes the request from its Finalization and reads, before         *)
(* finalizing it, its connection.                                          *)
fini(r) ==
  /\ InLoop
  /\ r \in posted
  /\ posted' = posted \ {r}
  /\ fpc' = "finalize"
  /\ freq' = r
  /\ fconn' = Connection(r)
  /\ UNCHANGED <<pool, taskVars, queue, cur, finalized, terminal, closing>>

(* Broken: the connection is read after the request was finalized          *)
(* (CHANGELOG 0.2.4).                                                      *)
FiniReadsConnectionLate ==
  /\ fpc = "finalize"
  /\ DestroyPool(freq)
  /\ fpc' = "run_posted"
  /\ fconn' = IF pool'[freq] = "alive" THEN freq ELSE Dangling
  /\ UNCHANGED <<cur, freq>>

(* ngx_http_finalize_request frees the request at once, or posts the       *)
(* terminate handler that will, or leaves it until the response is out.    *)
FiniFinalize ==
  /\ fpc = "finalize"
  /\ \/ DestroyPool(freq)
     \/ /\ terminal' = terminal \cup {freq}
        /\ UNCHANGED <<pool, taskVars, queue, finalized, posted, closing>>
     \/ /\ closing' = closing \cup {freq}
        /\ UNCHANGED <<pool, taskVars, queue, finalized, posted, terminal>>
  /\ fpc' = "run_posted"
  /\ UNCHANGED <<cur, freq, fconn>>

(* Broken: posted requests are not run (CHANGELOG 0.2.1).                  *)
FiniReturns ==
  /\ fpc = "run_posted"
  /\ fpc' = "none"
  /\ freq' = None
  /\ fconn' = None
  /\ UNCHANGED <<pool, taskVars, queue, cur, finalized, posted,
                 terminal, closing>>

(* ngx_http_run_posted_requests(c): runs the terminate handler if there is *)
(* one.                                                                    *)
FiniRunPosted ==
  /\ fpc = "run_posted"
  /\ fpc' = "none"
  /\ freq' = None
  /\ fconn' = None
  /\ \/ fconn \in terminal /\ DestroyPool(fconn)
     \/ /\ fconn \notin terminal
        /\ UNCHANGED <<pool, taskVars, queue, finalized, posted,
                       terminal, closing>>
  /\ UNCHANGED cur

Poll ==
  \E r \in Requests :
    \/ SpawnSub(r) \/ Cancel(r) \/ Await(r)
    \/ \E t \in tasksOf(r) : PollPending(t) \/ PollReady(t) \/ finalize_request(t)

Next ==
  \/ \E r \in Requests : Handler(r) \/ Teardown(r) \/ ResponseSent(r) \/ fini(r)
  \/ \E t \in Tasks : Wake(t)
  \/ Run
  \/ Poll
  \/ FiniFinalize
  \/ FiniRunPosted

Spec == Init /\ [][Next]_vars

(* The event loop runs its posted events and drains the run queue, polls   *)
(* return, and responses get sent.  No task has to be woken and no request *)
(* has to be torn down.                                                    *)
PollReturns == \E t \in Tasks : PollPending(t) \/ PollReady(t)

Fairness ==
  /\ WF_vars(Run)
  /\ WF_vars(PollReturns)
  /\ \A r \in Requests : SF_vars(fini(r)) /\ SF_vars(ResponseSent(r))
  /\ WF_vars(FiniFinalize)
  /\ WF_vars(FiniRunPosted)

FairSpec == Spec /\ Fairness

-----------------------------------------------------------------------------
(* A future is polled only while its request is alive: finalizing from     *)
(* inside a task, a teardown by nginx and the cancellation of a subtask    *)
(* all leave no task that could touch a freed request (finalize.rs:27-31). *)
PollsOnLiveRequest == cur # None => pool[cur[1]] = "alive"

(* The tasks of a freed request have ended, or are closed and have a       *)
(* runnable in the channel: none is polled again, and async_handler will   *)
(* drop the futures that are left, once each.                              *)
TornDownTasksClosed ==
  \A r \in Requests : pool[r] = "freed" =>
    \A t \in tasksOf(r) : future[t] = "alive" =>
      closed[t] /\ \E i \in DOMAIN queue : queue[i] = t

(* fini never works on a freed request: a Finalization that is still       *)
(* posted lies in a live pool, the request it finalizes is alive, and the  *)
(* connection it drains afterwards was read in time (finalize.rs:17-23,    *)
(* 62-65).  Nor is a pool ever destroyed twice: what waits for a terminate *)
(* handler or for its response is alive.                                   *)
FiniUsesLiveMemory ==
  /\ \A r \in posted \cup terminal \cup closing : pool[r] = "alive"
  /\ fpc = "finalize" => pool[freq] = "alive"
  /\ fconn # Dangling

(* No finalized request is stranded: until it is freed its Finalization is *)
(* posted, or fini works on it, or nginx still has a response to send; a   *)
(* terminate handler in posted_requests always has fini behind it, which   *)
(* will run it (finalize.rs:69-74).                                        *)
FinalizationInFlight ==
  \A r \in finalized :
    \/ r \in posted \/ r \in closing \/ pool[r] = "freed"
    \/ fpc = "finalize" /\ freq = r
    \/ fpc = "run_posted" /\ fconn = r /\ r \in terminal

(* A request that was finalized from a task is eventually destroyed,       *)
(* whichever way nginx ends it.                                            *)
FinalizedIsFreed ==
  \A r \in Requests : r \in posted ~> pool[r] = "freed"

(* Teardown leaks no future: each one is dropped, if later than the        *)
(* request.                                                                *)
FuturesDropped ==
  \A r \in Requests : pool[r] = "freed" ~> \A t \in tasksOf(r) : future[t] # "alive"

(* cancel().await returns: a main task that awaits the subtask it          *)
(* cancelled is woken.                                                     *)
CancelReturns ==
  \A r \in Requests : r \in awaited /\ slot[sub(r)] = "taken" ~> r \notin awaited

(* What the documentation of spawn says (spawn.rs:140-141): the future is  *)
(* dropped when the request is torn down.                                  *)
FutureDroppedAtTeardown ==
  \A r \in Requests : pool[r] = "freed" =>
    \A t \in tasksOf(r) : future[t] # "alive"
=============================================================================
