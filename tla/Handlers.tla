------------------------------- MODULE Handlers -------------------------------
(***************************************************************************)
(* The example modules' request handlers, as programs over what the other  *)
(* modules establish: examples/{yielding,compat,sidecar,benchmark}.rs.     *)
(* Each nginx handler spawns a request-bound main task that awaits a few   *)
(* things one after the other and then calls finalize_request.             *)
(*                                                                         *)
(* Tasks are Executor's: woken tasks are owed a poll, polls never overlap. *)
(* A request ends, by finalization or by nginx, as in Request.  What a     *)
(* main task awaits comes from its subtask, from tasks it spawned, from    *)
(* nginx events (PeerConn, the resolver), or from threads of a tokio       *)
(* runtime that do not touch the request.  The tokio tasks on those        *)
(* threads are none of this executor's and are seen by their results only. *)
(***************************************************************************)
EXTENDS Naturals, Sequences

CONSTANTS
  Requests,
  None,
  Kinds,     \* the handlers in use
  Children   \* tasks yielding_handler spawns (100 in the code)

Handlers ==
  {"yielding", "compat", "sidecar", "resolve", "hyper_nginx", "hyper_tokio", "reqwest"}

ASSUME KindsAssumption == Kinds \subseteq Handlers
ASSUME ChildrenAssumption == Children \in Nat

main(r) == <<r, 0>>
children(r) == {<<r, i>> : i \in 1..Children}
sub(r) == <<r, Children + 1>>
driver(r) == <<r, Children + 2>>  \* hyper_client's task for the connection
tasksOf(r) == {main(r), sub(r), driver(r)} \cup children(r)
Tasks == UNION {tasksOf(r) : r \in Requests}

ASSUME NoneAssumption == None \notin Kinds \cup Tasks

(* What the handlers await, in order; after it they finalize the request.  *)
yielding_handler == <<"children">>
compat_handler == <<"fetch", "sub", "side">>
sidecar_handler == <<"expect", "join_all">>
resolve == <<"lookup">>
hyper_client(io) == <<IF io = "nginx" THEN "nginx_io" ELSE "connect", "reply">>
reqwest == <<"fetch">>

Program(k) ==
  CASE k = "yielding" -> yielding_handler
    [] k = "compat" -> compat_handler
    [] k = "sidecar" -> sidecar_handler
    [] k = "resolve" -> resolve
    [] k = "hyper_nginx" -> hyper_client("nginx")
    [] k = "hyper_tokio" -> hyper_client("tokio")
    [] k = "reqwest" -> reqwest

VARIABLES
  pool,    \* the request and its pool
  kind,    \* the handler of a request
  step,    \* which await of its program the main task is at, 0 before them
  out,     \* results from outside that this await still lacks
  failed,  \* requests whose main task got an error
  yielded, \* children that yielded once, subtasks whose sleep is over,
           \* drivers whose connection has something for them
  live, pending, doomed, \* tasks: not completed, owed a poll, cancelled
  cur,     \* the task being polled
  final    \* requests that nginx was told to end, by finalize_request or by
           \* the handler's return code

requestVars == <<pool, kind, final>>
programVars == <<step, out, failed, yielded>>
taskVars == <<live, pending, doomed, cur>>
vars == <<requestVars, programVars, taskVars>>

TypeOK ==
  /\ pool \in [Requests -> {"new", "alive", "freed"}]
  /\ kind \in [Requests -> Kinds \cup {None}]
  /\ step \in [Requests -> 0..3]
  /\ out \in [Requests -> 0..3]
  /\ failed \subseteq Requests
  /\ final \subseteq {r \in Requests : pool[r] = "alive"}
  /\ yielded \subseteq Tasks
  /\ live \subseteq Tasks
  /\ pending \subseteq live /\ doomed \subseteq live
  /\ cur \in live \cup {None}

Init ==
  /\ pool = [r \in Requests |-> "new"]
  /\ kind = [r \in Requests |-> None]
  /\ step = [r \in Requests |-> 0]
  /\ out = [r \in Requests |-> 0]
  /\ failed = {} /\ final = {} /\ yielded = {}
  /\ live = {} /\ pending = {} /\ doomed = {} /\ cur = None

-----------------------------------------------------------------------------
(* Tasks, as in Executor and Request.                                      *)
InLoop == cur = None

Spawn(t) ==
  /\ live' = live \cup {t}
  /\ pending' = pending \cup {t}

Wake(t) == pending' = IF t \in live THEN pending \cup {t} ELSE pending

(* Cancelling tasks schedules them once more, to drop their futures.       *)
Cancel(ts) ==
  /\ doomed' = doomed \cup (ts \cap live)
  /\ pending' = pending \cup (ts \cap live)

ReturnPending == cur' = None

(* Who notices that a task is gone: the main task, which awaits the others *)
(* or their results; the driver, when the main task's sender is dropped.   *)
watcher(t) == IF t = main(t[1]) THEN driver(t[1]) ELSE main(t[1])

(* Task t ends and wakes its watcher.                                      *)
Complete(t) ==
  /\ cur' = None
  /\ live' = live \ {t}
  /\ doomed' = doomed \ {t}
  /\ pending' = (pending \cup ({watcher(t)} \cap live)) \ {t}

Run(t) ==
  /\ InLoop /\ t \in pending \ doomed
  /\ cur' = t
  /\ pending' = pending \ {t}
  /\ UNCHANGED <<live, doomed, requestVars, programVars>>

(* Broken: the tasks a future had spawned are left to themselves.          *)
DropFutureDetaches(t) ==
  /\ InLoop /\ t \in pending \cap doomed
  /\ live' = live \ {t} /\ pending' = pending \ {t} /\ doomed' = doomed \ {t}
  /\ UNCHANGED <<cur, requestVars, programVars>>

(* The future of a cancelled task is dropped; with a main task's future go *)
(* the Tasks in its join_all, which cancels the children, and its sender,  *)
(* which wakes the driver: detached, that one is not cancelled.            *)
DropFuture(t) ==
  LET orphans == IF t = main(t[1]) THEN children(t[1]) \cap live ELSE {}
      left == IF t = main(t[1]) THEN {driver(t[1])} \cap live ELSE {}
  IN
  /\ InLoop /\ t \in pending \cap doomed
  /\ live' = live \ {t}
  /\ doomed' = (doomed \ {t}) \cup orphans
  /\ pending' = (pending \ {t}) \cup orphans \cup left
  /\ UNCHANGED <<cur, requestVars, programVars>>

-----------------------------------------------------------------------------
(* nginx.                                                                  *)

(* The handler of an enabled location spawns the main task; if it cannot,  *)
(* it returns an error to nginx, which ends the request.                   *)
handler(r) ==
  /\ InLoop /\ pool[r] = "new"
  /\ pool' = [pool EXCEPT ![r] = "alive"]
  /\ \E k \in Kinds : kind' = [kind EXCEPT ![r] = k]
  /\ \/ Spawn(main(r)) /\ UNCHANGED final
     \/ final' = final \cup {r} /\ UNCHANGED <<live, pending>>
  /\ UNCHANGED <<doomed, cur, programVars>>

(* Broken: the tasks are spawned with spawn().detach(), the pool knows     *)
(* nothing of them.                                                        *)
DestroyPoolDetached(r) ==
  /\ pool' = [pool EXCEPT ![r] = "freed"]
  /\ final' = final \ {r}
  /\ UNCHANGED <<kind, taskVars, programVars>>

(* The pool's cleanups cancel the main task and the subtask; hyper_client's*)
(* driver is in no pool.                                                   *)
DestroyPool(r) ==
  /\ pool' = [pool EXCEPT ![r] = "freed"]
  /\ final' = final \ {r}
  /\ Cancel({main(r), sub(r)})
  /\ UNCHANGED <<kind, live, cur, programVars>>

(* nginx ends a request it was told to end, or any other.                  *)
EndRequest(r) == InLoop /\ r \in final /\ DestroyPool(r)
Teardown(r) == InLoop /\ pool[r] = "alive" /\ DestroyPool(r)

-----------------------------------------------------------------------------
(* The main task, while it is polled.                                      *)
Op(r) == Program(kind[r])[step[r]]

Arrivals(op) ==
  CASE op = "join_all" -> 3 [] op \in {"sub", "children"} -> 0 [] OTHER -> 1

(* The main task's reply comes through its driver.                         *)
AwaitsReply(r) == out[r] > 0 /\ Op(r) = "reply"

(* A result arrives, from another thread or from an nginx event: also from *)
(* a tokio task that outlives the request.  A network operation can fail,  *)
(* and so can a join of a tokio task, but where the code expects it not to.*)
Arrive(r) ==
  /\ out[r] > 0 /\ ~AwaitsReply(r)
  /\ out' = [out EXCEPT ![r] = @ - 1]
  /\ failed' \in {failed} \cup
       (IF Op(r) \in {"fetch", "connect", "lookup", "nginx_io", "side", "join_all"}
        THEN {failed \cup {r}} ELSE {})
  /\ Wake(main(r))
  /\ UNCHANGED <<step, yielded, requestVars, live, doomed, cur>>

(* The await is over: all results are here, all tasks it awaits ended.     *)
Arrived(r) == out[r] = 0 /\ (children(r) \cup {sub(r)}) \cap live = {}

(* Broken: the main task goes on while a result is still missing.          *)
NextAwaitEarly(r) ==
  /\ cur = main(r) /\ r \notin failed
  /\ step[r] < Len(Program(kind[r]))
  /\ step' = [step EXCEPT ![r] = @ + 1]
  /\ out' = [out EXCEPT ![r] = @ + Arrivals(Program(kind[r])[step[r] + 1])]
  /\ UNCHANGED <<failed, yielded, requestVars, taskVars>>

(* On to the next await; its subtask, its children or its driver, which is *)
(* detached at once, are spawned.                                          *)
NextAwait(r) ==
  LET s == step[r] + 1
      p == Program(kind[r])
  IN  /\ cur = main(r) /\ Arrived(r) /\ r \notin failed
      /\ s <= Len(p)
      /\ step' = [step EXCEPT ![r] = s]
      /\ out' = [out EXCEPT ![r] = Arrivals(p[s])]
      /\ LET new == CASE p[s] = "children" -> children(r)
                      [] p[s] = "sub" -> {sub(r)}
                      [] p[s] = "reply" -> {driver(r)}
                      [] OTHER -> {}
         IN  live' = live \cup new /\ pending' = pending \cup new
      /\ UNCHANGED <<failed, yielded, requestVars, doomed, cur>>

Await(r) ==
  /\ cur = main(r) /\ ~Arrived(r)
  /\ ReturnPending
  /\ UNCHANGED <<requestVars, programVars, live, pending, doomed>>

(* finalize_request, last thing in every handler.                          *)
Finalize(r) ==
  /\ cur = main(r) /\ Arrived(r) /\ r \notin failed
  /\ step[r] = Len(Program(kind[r]))
  /\ final' = final \cup {r}
  /\ Complete(main(r))
  /\ UNCHANGED <<pool, kind, programVars>>

(* Broken: the benchmark's wrapper passes an error on with `?'.            *)
ErrorEscapes(r) ==
  /\ cur = main(r) /\ Arrived(r) /\ r \in failed
  /\ Complete(main(r))
  /\ UNCHANGED <<requestVars, programVars>>

(* The benchmark's handlers are wrapped: an error becomes a 500, which     *)
(* finalizes the request.  In compat and sidecar `?' leaves the main task  *)
(* with an error that nobody looks at.                                     *)
HandlesErrors(k) == k \in {"resolve", "hyper_nginx", "hyper_tokio", "reqwest"}

Error(r) ==
  /\ cur = main(r) /\ Arrived(r) /\ r \in failed
  /\ final' = IF HandlesErrors(kind[r]) THEN final \cup {r} ELSE final
  /\ Complete(main(r))
  /\ UNCHANGED <<pool, kind, programVars>>

-----------------------------------------------------------------------------
(* The other tasks.                                                        *)

(* Broken: yield_now forgets to wake itself.                               *)
YieldForever(t) ==
  /\ cur = t /\ t \in children(t[1])
  /\ \/ /\ t \notin yielded
        /\ yielded' = yielded \cup {t}
        /\ ReturnPending
        /\ UNCHANGED <<live, pending, doomed>>
     \/ t \in yielded /\ Complete(t) /\ UNCHANGED yielded
  /\ UNCHANGED <<requestVars, step, out, failed>>

(* yield_now: the first poll wakes its own task, the second is ready.      *)
yield_now(t) ==
  /\ cur = t /\ t \in children(t[1])
  /\ \/ /\ t \notin yielded
        /\ yielded' = yielded \cup {t}
        /\ Wake(t) /\ ReturnPending
        /\ UNCHANGED <<live, doomed>>
     \/ t \in yielded /\ Complete(t) /\ UNCHANGED yielded
  /\ UNCHANGED <<requestVars, step, out, failed>>

(* compat's subtask sleeps in tokio, then writes a header.                 *)
SleepOver(r) ==
  /\ sub(r) \in live \ yielded
  /\ yielded' = yielded \cup {sub(r)}
  /\ Wake(sub(r))
  /\ UNCHANGED <<requestVars, step, out, failed, live, doomed, cur>>

Subtask(r) ==
  /\ cur = sub(r)
  /\ \/ sub(r) \notin yielded /\ ReturnPending /\ UNCHANGED <<live, pending, doomed>>
     \/ sub(r) \in yielded /\ Complete(sub(r))
  /\ UNCHANGED <<requestVars, programVars>>

(* The connection has something for the driver: the reply, its end, an     *)
(* error, or PeerConn's timeout.                                           *)
DriverEvent(r) ==
  /\ driver(r) \in live \ yielded
  /\ yielded' = yielded \cup {driver(r)}
  /\ Wake(driver(r))
  /\ UNCHANGED <<requestVars, step, out, failed, live, doomed, cur>>

(* A poll without anything to read; the driver may end once nobody is left *)
(* to send a request.                                                      *)
DriverIdle(r) ==
  /\ cur = driver(r) /\ driver(r) \notin yielded
  /\ \/ ReturnPending /\ UNCHANGED <<live, pending, doomed>>
     \/ main(r) \notin live /\ Complete(driver(r))
  /\ UNCHANGED <<requestVars, programVars>>

(* The driver hands the main task the reply, which may be no valid one, or *)
(* the error that ends the connection, and goes on or ends.  When the main *)
(* task has its reply, or is gone, the driver ends at the latest with the  *)
(* next event.                                                             *)
DriverReads(r) ==
  /\ cur = driver(r) /\ driver(r) \in yielded
  /\ yielded' = yielded \ {driver(r)}
  /\ out' = [out EXCEPT ![r] = 0]
  /\ failed' \in {failed} \cup (IF out[r] > 0 THEN {failed \cup {r}} ELSE {})
  /\ \/ Complete(driver(r))
     \/ out[r] > 0 /\ ReturnPending /\ Wake(main(r)) /\ UNCHANGED <<live, doomed>>
  /\ UNCHANGED <<requestVars, step>>

Poll ==
  \/ \E r \in Requests :
       \/ NextAwait(r) \/ Await(r) \/ Finalize(r) \/ Error(r) \/ Subtask(r)
       \/ DriverIdle(r) \/ DriverReads(r)
  \/ \E t \in Tasks : yield_now(t)

Next ==
  \/ \E r \in Requests :
       \/ handler(r) \/ EndRequest(r) \/ Teardown(r)
       \/ Arrive(r) \/ SleepOver(r) \/ DriverEvent(r)
  \/ \E t \in Tasks : Run(t) \/ DropFuture(t)
  \/ Poll

Spec == Init /\ [][Next]_vars

(* Woken tasks get polled (Executor), polls return, nginx ends the         *)
(* requests it was told to end (Request: FinalizedIsFreed), sleeps end.    *)
(* Results arrive but where a peer may keep quiet for ever: reqwest's and  *)
(* tokio's connections have no timeout here, while lookups (benchmark.rs:  *)
(* 90) and PeerConn have.  That hyper_nginx gets its connection, and its   *)
(* driver its events, is PeerConn's TasksEnd: of a peer that does not go   *)
(* on sending for ever.                                                    *)
Bounded(r) == Op(r) \notin {"fetch", "connect"}

Fairness ==
  /\ \A t \in Tasks : SF_vars(Run(t)) /\ SF_vars(DropFuture(t))
  /\ WF_vars(Poll)
  /\ \A r \in Requests :
       /\ SF_vars(EndRequest(r))
       /\ WF_vars(SleepOver(r))
       /\ WF_vars(Arrive(r) /\ Bounded(r))
       /\ WF_vars(DriverEvent(r) /\ kind[r] = "hyper_nginx")

FairSpec == Spec /\ Fairness

-----------------------------------------------------------------------------
(* compat.rs:35, :73 and sidecar.rs:84: an error left the main task by `?'.*)
Escaped(r) == r \in failed /\ ~HandlesErrors(kind[r]) /\ main(r) \notin live

(* Nobody forgets a request: as long as it is alive its main task is going *)
(* to finalize it, or nginx was told to end it.  The one exception are the *)
(* errors that leave compat's and sidecar's handlers by `?': those         *)
(* requests stay until nginx gives up on them.                             *)
RequestOwned ==
  \A r \in Requests : pool[r] = "alive" =>
    main(r) \in live \ doomed \/ r \in final \/ Escaped(r)

(* The tasks whose Task somebody keeps run under the main task: subtask    *)
(* and children end before it (awaited), or are cancelled with it          *)
(* (join_all's Tasks, yielding.rs:39-45; the pool's, compat.rs:48-60).     *)
(* The others may outlive it: hyper_client's driver, detached (benchmark.  *)
(* rs:372-375), and the tasks of tokio's own runtime.                      *)
attached(r) == {sub(r)} \cup children(r)

NoOrphans ==
  \A r \in Requests : \A t \in attached(r) :
    t \in live \ doomed => main(r) \in live

(* No wake is lost: a task that nobody is going to poll has something left *)
(* to wait for that will wake it.  A main task lacks a result or a task it *)
(* awaits, and a reply it lacks has a driver; compat's subtask sleeps in   *)
(* tokio, a driver has read what its connection had, children never wait;  *)
(* and a cancelled task always has the run ahead that drops its future.    *)
Sleeping(t) == t \in live \ (pending \cup doomed) /\ cur # t

NoLostWake ==
  /\ \A r \in Requests :
       /\ Sleeping(main(r)) => ~Arrived(r)
       /\ Sleeping(main(r)) /\ AwaitsReply(r) => driver(r) \in live
       /\ \A t \in {sub(r), driver(r)} : Sleeping(t) => t \notin yielded
       /\ \A t \in children(r) : ~Sleeping(t)
  /\ doomed \subseteq pending

(* Requests whose awaits all come to an end are freed, other than by `?'.  *)
(* For hyper_nginx this rests on its peer, as PeerConn's TasksEnd does: a  *)
(* peer that drips an endless reply keeps the request.                     *)
HandlerEnds ==
  \A r \in Requests :
    pool[r] = "alive" /\ kind[r] \in {"yielding", "sidecar", "resolve", "hyper_nginx"}
      ~> pool[r] = "freed" \/ Escaped(r)

(* A freed request leaves no task behind for good: what is cancelled gets  *)
(* dropped, children through the main task, and hyper_nginx's driver ends  *)
(* by itself (for a peer that stops sending).  Nothing ends hyper_tokio's  *)
(* driver: detached, and on a connection without a timeout.                *)
unbounded(r) == IF kind[r] = "hyper_tokio" THEN {driver(r)} ELSE {}

TasksEnd ==
  \A r \in Requests :
    pool[r] = "freed" ~> (tasksOf(r) \ unbounded(r)) \cap live = {}
=============================================================================
