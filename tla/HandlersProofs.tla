---------------------------- MODULE HandlersProofs ----------------------------
(***************************************************************************)
(* Proofs about Handlers for any number of requests, any choice of the     *)
(* example handlers and any number of children: nobody forgets a request,  *)
(* no attached task outlives its main task unnoticed, and no wake is lost. *)
(***************************************************************************)
EXTENDS Handlers, TLAPS

(* A request that has not come has no tasks, one that is gone has the two  *)
(* tasks it knows of cancelled; a main task is cancelled in no other way.  *)
LifeInv ==
  \A r \in Requests :
    /\ pool[r] = "new" => tasksOf(r) \cap live = {}
    /\ pool[r] # "new" => kind[r] \in Kinds
    /\ pool[r] = "freed" => {main(r), sub(r)} \cap live \subseteq doomed
    /\ main(r) \in doomed => pool[r] = "freed"

(* A cancelled task is not polled again.                                   *)
PolledInv == cur # None => cur \notin doomed

HandlersInv == TypeOK /\ LifeInv /\ PolledInv /\ RequestOwned /\ NoOrphans

(* Tasks of a request are its own, and its main task is none of the others.*)
LEMMA TaskFacts ==
  /\ \A r \in Requests : /\ main(r) \in Tasks /\ sub(r) \in Tasks
                         /\ driver(r) \in Tasks /\ children(r) \subseteq Tasks
                         /\ main(r) # sub(r) /\ main(r) \notin children(r)
                         /\ sub(r) \notin children(r)
                         /\ driver(r) \notin {main(r), sub(r)} \cup children(r)
                         /\ main(r) # None /\ sub(r) # None
                         /\ \A t \in tasksOf(r) : t[1] = r
  /\ \A t \in Tasks : t[1] \in Requests /\ t \in tasksOf(t[1])
<1> USE ChildrenAssumption
<1>1. ASSUME NEW r \in Requests
      PROVE  /\ main(r) # sub(r) /\ main(r) \notin children(r)
             /\ sub(r) \notin children(r)
             /\ driver(r) \notin {main(r), sub(r)} \cup children(r)
             /\ \A t \in tasksOf(r) : t[1] = r
  BY DEF main, sub, driver, children, tasksOf
<1>2. \A r \in Requests : tasksOf(r) \subseteq Tasks
  BY DEF Tasks
<1>3. \A r \in Requests : /\ main(r) \in Tasks /\ sub(r) \in Tasks
                          /\ driver(r) \in Tasks /\ children(r) \subseteq Tasks
  BY <1>2 DEF tasksOf
<1>4. \A t \in Tasks : t[1] \in Requests /\ t \in tasksOf(t[1])
  BY <1>1 DEF Tasks
<1>5. QED
  BY <1>1, <1>3, <1>4, NoneAssumption

(* Two requests share no task.                                             *)
LEMMA OwnTasks ==
  ASSUME NEW r \in Requests, NEW q \in Requests, r # q
  PROVE  tasksOf(r) \cap tasksOf(q) = {}
BY TaskFacts

(* Every handler awaits one to three things, for which one to three        *)
(* results may be due.                                                     *)
LEMMA ProgramFacts ==
  ASSUME NEW k \in Kinds
  PROVE  /\ Len(Program(k)) \in 1..3
         /\ \A i \in 1..Len(Program(k)) : Arrivals(Program(k)[i]) \in 0..3
<1>1. k \in Handlers
  BY KindsAssumption
<1>2. Len(Program(k)) \in 1..3
  BY <1>1 DEF Handlers, Program, yielding_handler, compat_handler, sidecar_handler,
              resolve, hyper_client, reqwest
<1>3. \A op : Arrivals(op) \in 0..3
  BY DEF Arrivals
<1>4. QED
  BY <1>2, <1>3

(* The invariant holds initially.                                          *)
LEMMA InitHandlers == Init => HandlersInv
<1> SUFFICES ASSUME Init PROVE HandlersInv
  OBVIOUS
<1> USE DEF Init
<1>1. TypeOK
  BY DEF TypeOK
<1>2. LifeInv /\ PolledInv /\ RequestOwned /\ NoOrphans
  BY DEF LifeInv, PolledInv, RequestOwned, NoOrphans
<1>3. QED
  BY <1>1, <1>2 DEF HandlersInv

(* A main task that may still be polled has its request.                   *)
LEMMA MainAlive ==
  ASSUME HandlersInv, NEW r \in Requests, main(r) \in live \ doomed
  PROVE  pool[r] = "alive" /\ kind[r] \in Kinds
<1>1. pool[r] # "new"
  BY DEF HandlersInv, LifeInv, tasksOf
<1>2. pool[r] # "freed"
  BY DEF HandlersInv, LifeInv
<1>3. QED
  BY <1>1, <1>2 DEF HandlersInv, TypeOK, LifeInv

(* The task being polled is live and not cancelled.                        *)
LEMMA PolledLive ==
  ASSUME HandlersInv, NEW t \in Tasks, cur = t
  PROVE  t \in live \ doomed
BY NoneAssumption DEF HandlersInv, TypeOK, PolledInv

(* Steps that change neither the tasks nor the requests.                   *)
LEMMA QuietStep ==
  ASSUME HandlersInv, TypeOK', failed \subseteq failed', cur' \in {cur, None},
         UNCHANGED <<requestVars, live, doomed>>
  PROVE  HandlersInv'
<1> USE DEF HandlersInv, requestVars
<1>1. LifeInv' /\ PolledInv' /\ NoOrphans'
  BY DEF LifeInv, PolledInv, NoOrphans
<1>2. RequestOwned'
  BY DEF RequestOwned, Escaped
<1>3. QED
  BY <1>1, <1>2

(* A task other than a main task ends.                                     *)
LEMMA OtherTaskEnds ==
  ASSUME HandlersInv, NEW t \in Tasks, Complete(t), t # main(t[1]), TypeOK',
         failed \subseteq failed', UNCHANGED requestVars
  PROVE  HandlersInv'
<1> USE DEF HandlersInv, requestVars
<1>1. /\ cur' = None /\ live' = live \ {t} /\ doomed' = doomed \ {t}
  BY DEF Complete
<1>2. \A r \in Requests : main(r) # t
  BY TaskFacts DEF tasksOf
<1>3. LifeInv'
  BY <1>1, <1>2 DEF LifeInv
<1>4. PolledInv'
  BY <1>1 DEF PolledInv
<1>5. RequestOwned'
  BY <1>1, <1>2 DEF RequestOwned, Escaped
<1>6. NoOrphans'
  BY <1>1, <1>2 DEF NoOrphans
<1>7. QED
  BY <1>3, <1>4, <1>5, <1>6

(* The main task ends, after all it awaits, and either told nginx to end   *)
(* the request or left with an error that nobody looks at.                 *)
LEMMA MainEnds ==
  ASSUME HandlersInv, NEW r \in Requests, cur = main(r), Complete(main(r)),
         Arrived(r), TypeOK', UNCHANGED <<pool, kind, programVars>>,
         final \subseteq final',
         r \in final' \/ (r \in failed /\ ~HandlesErrors(kind[r]))
  PROVE  HandlersInv'
<1> USE DEF HandlersInv, programVars
<1>1. cur' = None /\ live' = live \ {main(r)} /\ doomed' = doomed \ {main(r)}
  BY DEF Complete
<1>2. \A q \in Requests : q # r => main(q) # main(r)
  BY TaskFacts DEF tasksOf
<1>3. LifeInv'
  BY <1>1, <1>2 DEF LifeInv
<1>4. PolledInv'
  BY <1>1 DEF PolledInv
<1>5. RequestOwned'
  BY <1>1, <1>2 DEF RequestOwned, Escaped
<1>6. \A t \in attached(r) : t \notin live'
  BY <1>1 DEF Arrived, attached
<1>7. NoOrphans'
  BY <1>1, <1>2, <1>6 DEF NoOrphans
<1>8. QED
  BY <1>3, <1>4, <1>5, <1>7

(* A request comes in.                                                     *)
LEMMA HandlerStep ==
  ASSUME HandlersInv, NEW r \in Requests, handler(r) PROVE HandlersInv'
<1> USE DEF HandlersInv
<1>1. /\ pool[r] = "new" /\ pool' = [pool EXCEPT ![r] = "alive"] /\ cur = None
      /\ UNCHANGED <<doomed, cur, programVars>>
  BY DEF handler, InLoop
<1>2. PICK k \in Kinds : kind' = [kind EXCEPT ![r] = k]
  BY DEF handler
<1>3. \/ /\ live' = live \cup {main(r)} /\ pending' = pending \cup {main(r)}
         /\ UNCHANGED final
      \/ final' = final \cup {r} /\ UNCHANGED <<live, pending>>
  BY DEF handler, Spawn
<1>4. main(r) \in Tasks /\ main(r) \notin live /\ main(r) \notin doomed
  BY <1>1, TaskFacts DEF LifeInv, tasksOf, TypeOK
<1>5. /\ pool'[r] = "alive" /\ kind'[r] = k
      /\ \A q \in Requests : q # r => pool'[q] = pool[q] /\ kind'[q] = kind[q]
  BY <1>1, <1>2 DEF TypeOK
<1>6. TypeOK'
  <2>1. final' \subseteq {q \in Requests : pool'[q] = "alive"}
    BY <1>3, <1>5 DEF TypeOK
  <2>2. live' \subseteq Tasks /\ pending' \subseteq live' /\ doomed' \subseteq live'
        /\ cur' \in live' \cup {None}
    BY <1>1, <1>3, <1>4 DEF TypeOK
  <2>3. pool' \in [Requests -> {"new", "alive", "freed"}]
        /\ kind' \in [Requests -> Kinds \cup {None}]
    BY <1>1, <1>2 DEF TypeOK
  <2>4. QED
    BY <1>1, <2>1, <2>2, <2>3 DEF TypeOK, programVars
<1>7. \A q \in Requests : q # r => main(r) \notin tasksOf(q)
  BY OwnTasks DEF tasksOf
<1>8. LifeInv'
  <2>1. ASSUME NEW q \in Requests
        PROVE  /\ pool'[q] = "new" => tasksOf(q) \cap live' = {}
               /\ pool'[q] # "new" => kind'[q] \in Kinds
               /\ pool'[q] = "freed" => {main(q), sub(q)} \cap live' \subseteq doomed'
               /\ main(q) \in doomed' => pool'[q] = "freed"
    <3>1. CASE q = r
      BY <1>1, <1>4, <1>5, <3>1
    <3>2. CASE q # r
      BY <1>1, <1>3, <1>5, <1>7, <3>2 DEF LifeInv, tasksOf
    <3>3. QED
      BY <3>1, <3>2
  <2>2. QED
    BY <2>1 DEF LifeInv
<1>9. PolledInv'
  BY <1>1 DEF PolledInv
<1>10. RequestOwned'
  BY <1>1, <1>3, <1>4, <1>5, <1>7 DEF RequestOwned, Escaped, programVars, tasksOf
<1>11. NoOrphans'
  BY <1>1, <1>3, <1>7, TaskFacts DEF NoOrphans, attached, tasksOf
<1>12. QED
  BY <1>6, <1>8, <1>9, <1>10, <1>11

(* The request ends, and cancels the tasks it knows of.                    *)
LEMMA DestroyStep ==
  ASSUME HandlersInv, NEW r \in Requests, DestroyPool(r), pool[r] = "alive", cur = None
  PROVE  HandlersInv'
<1> USE DEF HandlersInv
<1> DEFINE known == {main(r), sub(r)} \cap live
<1>1. /\ pool' = [pool EXCEPT ![r] = "freed"] /\ final' = final \ {r}
      /\ doomed' = doomed \cup known /\ pending' = pending \cup known
      /\ UNCHANGED <<kind, live, cur, programVars>>
  BY DEF DestroyPool, Cancel
<1>2. /\ pool'[r] = "freed"
      /\ \A q \in Requests : q # r => pool'[q] = pool[q]
  BY <1>1 DEF TypeOK
<1>3. TypeOK'
  <2>1. pool' \in [Requests -> {"new", "alive", "freed"}]
    BY <1>1 DEF TypeOK
  <2>2. final' \subseteq {q \in Requests : pool'[q] = "alive"}
    BY <1>1, <1>2 DEF TypeOK
  <2>3. QED
    BY <1>1, <2>1, <2>2 DEF TypeOK, programVars
<1>4. \A q \in Requests : q # r => main(q) \notin known /\ sub(q) \notin known
  BY OwnTasks DEF tasksOf
<1>5. LifeInv'
  BY <1>1, <1>2, <1>4 DEF LifeInv
<1>6. PolledInv'
  BY <1>1 DEF PolledInv
<1>7. RequestOwned'
  BY <1>1, <1>2, <1>4 DEF RequestOwned, Escaped, programVars
<1>8. NoOrphans'
  BY <1>1 DEF NoOrphans
<1>9. QED
  BY <1>3, <1>5, <1>6, <1>7, <1>8

(* A result arrives and wakes the main task.                               *)
LEMMA ArriveStep ==
  ASSUME HandlersInv, NEW r \in Requests, Arrive(r) PROVE HandlersInv'
<1> USE DEF HandlersInv
<1>1. /\ out[r] > 0 /\ out' = [out EXCEPT ![r] = @ - 1]
      /\ failed' \in {failed, failed \cup {r}}
      /\ pending' = IF main(r) \in live THEN pending \cup {main(r)} ELSE pending
      /\ UNCHANGED <<step, yielded, requestVars, live, doomed, cur>>
  BY DEF Arrive, Wake
<1>2. out' \in [Requests -> 0..3]
  <2>1. out[r] \in 0..3 /\ out[r] - 1 \in 0..3
    BY <1>1 DEF TypeOK
  <2>2. QED
    BY <1>1, <2>1 DEF TypeOK
<1>3. TypeOK'
  BY <1>1, <1>2 DEF TypeOK, requestVars
<1>4. QED
  BY <1>1, <1>3, QuietStep

(* compat's subtask is woken by tokio.                                     *)
LEMMA SleepOverStep ==
  ASSUME HandlersInv, NEW r \in Requests, SleepOver(r) PROVE HandlersInv'
<1> USE DEF HandlersInv
<1>1. /\ yielded' = yielded \cup {sub(r)} /\ sub(r) \in live
      /\ pending' = pending \cup {sub(r)}
      /\ UNCHANGED <<requestVars, step, out, failed, live, doomed, cur>>
  BY DEF SleepOver, Wake
<1>2. TypeOK'
  BY <1>1, TaskFacts DEF TypeOK, requestVars
<1>3. QED
  BY <1>1, <1>2, QuietStep

(* async_handler polls a task, or drops the future of a cancelled one.     *)
LEMMA RunStep ==
  ASSUME HandlersInv, NEW t \in Tasks, Run(t) PROVE HandlersInv'
<1> USE DEF HandlersInv
<1>1. /\ t \in pending \ doomed /\ cur' = t /\ pending' = pending \ {t}
      /\ UNCHANGED <<live, doomed, requestVars, programVars>>
  BY DEF Run
<1>2. TypeOK'
  BY <1>1 DEF TypeOK, requestVars, programVars
<1>3. LifeInv' /\ PolledInv' /\ RequestOwned' /\ NoOrphans'
  BY <1>1 DEF LifeInv, PolledInv, RequestOwned, NoOrphans, Escaped, requestVars, programVars
<1>4. QED
  BY <1>2, <1>3

(* A cancelled main task takes its children with it; its subtask was       *)
(* cancelled when it was.                                                  *)
LEMMA DropFutureStep ==
  ASSUME HandlersInv, NEW t \in Tasks, DropFuture(t) PROVE HandlersInv'
<1> USE DEF HandlersInv
<1> DEFINE orphans == IF t = main(t[1]) THEN children(t[1]) \cap live ELSE {}
           left == IF t = main(t[1]) THEN {driver(t[1])} \cap live ELSE {}
<1>1. /\ cur = None /\ t \in doomed
      /\ live' = live \ {t} /\ doomed' = (doomed \ {t}) \cup orphans
      /\ pending' = (pending \ {t}) \cup orphans \cup left
      /\ UNCHANGED <<cur, requestVars, programVars>>
  BY DEF DropFuture, InLoop
<1>2. t[1] \in Requests /\ t \in tasksOf(t[1])
  BY TaskFacts
<1>3. /\ orphans \subseteq live \ {t}
      /\ \A r \in Requests : main(r) \notin orphans /\ sub(r) \notin orphans
  <2>1. orphans \subseteq live \ {t}
    BY <1>2, TaskFacts
  <2>2. ASSUME NEW r \in Requests, NEW c \in orphans PROVE main(r) # c /\ sub(r) # c
    <3>1. c \in children(t[1])
      BY <2>2
    <3>2. CASE r = t[1]
      BY <3>1, <3>2, <1>2, ChildrenAssumption DEF main, sub, children
    <3>3. CASE r # t[1]
      BY <3>1, <3>3, <1>2, OwnTasks DEF tasksOf
    <3>4. QED
      BY <3>2, <3>3
  <2>3. QED
    BY <2>1, <2>2
<1>10. left \subseteq live \ {t}
  BY <1>2, TaskFacts
<1> HIDE DEF orphans, left
<1>4. TypeOK'
  BY <1>1, <1>3, <1>10 DEF TypeOK, requestVars, programVars
<1>5. LifeInv'
  BY <1>1, <1>3 DEF LifeInv, requestVars
<1>6. PolledInv'
  BY <1>1 DEF PolledInv
<1>7. RequestOwned'
  BY <1>1, <1>3 DEF RequestOwned, Escaped, requestVars, programVars
<1>8. NoOrphans'
  <2>1. ASSUME NEW r \in Requests, NEW c \in attached(r), c \in live' \ doomed'
        PROVE  main(r) \in live'
    <3>1. c \in live \ doomed
      BY <1>1, <2>1
    <3>2. main(r) \in live
      BY <2>1, <3>1 DEF NoOrphans
    <3>3. CASE t = main(r)
      <4>1. t[1] = r
        BY <3>3, TaskFacts DEF tasksOf
      <4>2. c \in children(r) \/ c = sub(r)
        BY <2>1 DEF attached
      <4>3. c \notin children(r)
        BY <1>1, <2>1, <3>1, <3>3, <4>1 DEF orphans
      <4>4. c # sub(r)
        BY <1>1, <3>1, <3>3 DEF LifeInv
      <4>5. QED
        BY <4>2, <4>3, <4>4
    <3>4. CASE t # main(r)
      BY <1>1, <3>2, <3>4
    <3>5. QED
      BY <3>3, <3>4
  <2>2. QED
    BY <2>1 DEF NoOrphans
<1>9. QED
  BY <1>4, <1>5, <1>6, <1>7, <1>8

(* What a main task spawns it spawns while it is polled, so its request is *)
(* alive.                                                                  *)
LEMMA NextAwaitStep ==
  ASSUME HandlersInv, NEW r \in Requests, NextAwait(r) PROVE HandlersInv'
<1> USE DEF HandlersInv
<1> DEFINE s == step[r] + 1
           p == Program(kind[r])
           new == CASE p[s] = "children" -> children(r)
                    [] p[s] = "sub" -> {sub(r)}
                    [] p[s] = "reply" -> {driver(r)}
                    [] OTHER -> {}
<1>1. /\ cur = main(r) /\ s <= Len(p)
      /\ step' = [step EXCEPT ![r] = s] /\ out' = [out EXCEPT ![r] = Arrivals(p[s])]
      /\ live' = live \cup new /\ pending' = pending \cup new
      /\ UNCHANGED <<failed, yielded, requestVars, doomed, cur>>
  BY DEF NextAwait
<1>2. main(r) \in live \ doomed /\ pool[r] = "alive" /\ kind[r] \in Kinds
  BY <1>1, TaskFacts, PolledLive, MainAlive
<1>3. new \subseteq tasksOf(r) \ {main(r)} /\ new \subseteq Tasks
  BY TaskFacts DEF tasksOf
<1>4. s \in 0..3 /\ Arrivals(p[s]) \in 0..3
  <2>1. Len(p) \in 1..3 /\ \A i \in 1..Len(p) : Arrivals(p[i]) \in 0..3
    BY <1>2, ProgramFacts
  <2>2. step[r] \in 0..3
    BY DEF TypeOK
  <2>3. s \in 1..Len(p) /\ s \in 0..3
    BY <1>1, <2>1, <2>2
  <2>4. QED
    BY <2>1, <2>3
<1> HIDE DEF s, p, new
<1>5. TypeOK'
  BY <1>1, <1>3, <1>4 DEF TypeOK, requestVars
<1>6. \A q \in Requests : main(q) \notin new /\ (q # r => tasksOf(q) \cap new = {})
  BY <1>3, OwnTasks DEF tasksOf
<1>7. LifeInv'
  BY <1>1, <1>2, <1>6 DEF LifeInv, requestVars, tasksOf
<1>8. PolledInv'
  BY <1>1 DEF PolledInv
<1>9. RequestOwned'
  BY <1>1, <1>6 DEF RequestOwned, Escaped, requestVars
<1>10. NoOrphans'
  BY <1>1, <1>2, <1>6 DEF NoOrphans, attached, tasksOf
<1>11. QED
  BY <1>5, <1>7, <1>8, <1>9, <1>10

(* Ending a task leaves the sets of tasks consistent.                      *)
LEMMA CompleteTyped ==
  ASSUME HandlersInv, NEW t \in Tasks, Complete(t)
  PROVE  /\ live' \subseteq Tasks /\ pending' \subseteq live' /\ doomed' \subseteq live'
         /\ cur' = None
BY DEF HandlersInv, TypeOK, Complete

(* A main task ends, by finalizing its request or with an error.           *)
LEMMA MainEndsStep ==
  ASSUME HandlersInv, NEW r \in Requests, Finalize(r) \/ Error(r) PROVE HandlersInv'
<1> USE DEF HandlersInv
<1>1. /\ cur = main(r) /\ Complete(main(r)) /\ Arrived(r)
      /\ UNCHANGED <<pool, kind, programVars>>
      /\ final' \in {final, final \cup {r}}
      /\ r \in final' \/ (r \in failed /\ ~HandlesErrors(kind[r]))
  BY DEF Finalize, Error
<1>2. main(r) \in Tasks /\ main(r) \in live \ doomed
  BY <1>1, TaskFacts, PolledLive
<1>3. pool[r] = "alive"
  BY <1>2, MainAlive
<1>4. TypeOK'
  BY <1>1, <1>2, <1>3, CompleteTyped DEF TypeOK, programVars
<1>5. QED
  BY <1>1, <1>4, MainEnds

(* The polls of the other tasks.                                           *)
LEMMA OtherPollStep ==
  ASSUME HandlersInv, NEW t \in Tasks, NEW r \in Requests,
         yield_now(t) \/ (t = sub(r) /\ Subtask(r)) \/ Await(r)
  PROVE  HandlersInv'
<1> USE DEF HandlersInv
<1>1. CASE Await(r)
  <2>1. cur' = None /\ UNCHANGED <<requestVars, programVars, live, pending, doomed>>
    BY <1>1 DEF Await, ReturnPending
  <2>2. TypeOK'
    BY <2>1 DEF TypeOK, requestVars, programVars
  <2>3. QED
    BY <2>1, <2>2, QuietStep DEF programVars
<1>2. CASE yield_now(t)
  <2>1. t \in children(t[1]) /\ t[1] \in Requests /\ UNCHANGED <<requestVars, step, out, failed>>
    BY <1>2, TaskFacts DEF yield_now
  <2>2. CASE Complete(t) /\ UNCHANGED yielded
    <3>1. TypeOK'
      BY <2>1, <2>2, CompleteTyped DEF TypeOK, requestVars
    <3>2. QED
      BY <2>1, <2>2, <3>1, TaskFacts, OtherTaskEnds
  <2>3. CASE /\ yielded' = yielded \cup {t} /\ Wake(t) /\ ReturnPending
             /\ UNCHANGED <<live, doomed>>
    <3>1. TypeOK'
      BY <2>1, <2>3 DEF TypeOK, Wake, ReturnPending, requestVars
    <3>2. QED
      BY <2>1, <2>3, <3>1, QuietStep DEF ReturnPending
  <2>4. QED
    BY <1>2, <2>2, <2>3 DEF yield_now
<1>3. CASE t = sub(r) /\ Subtask(r)
  <2>1. UNCHANGED <<requestVars, programVars>>
    BY <1>3 DEF Subtask
  <2>2. CASE Complete(t)
    <3>1. TypeOK'
      BY <2>1, <2>2, CompleteTyped DEF TypeOK, requestVars, programVars
    <3>2. t # main(t[1])
      BY <1>3, TaskFacts DEF tasksOf
    <3>3. QED
      BY <2>1, <2>2, <3>1, <3>2, OtherTaskEnds DEF programVars
  <2>3. CASE ReturnPending /\ UNCHANGED <<live, pending, doomed>>
    <3>1. TypeOK'
      BY <2>1, <2>3 DEF TypeOK, ReturnPending, requestVars, programVars
    <3>2. QED
      BY <2>1, <2>3, <3>1, QuietStep DEF ReturnPending, programVars
  <2>4. QED
    BY <1>3, <2>2, <2>3 DEF Subtask
<1>4. QED
  BY <1>1, <1>2, <1>3

(* The connection has something for the driver, or the driver is polled.   *)
LEMMA DriverStep ==
  ASSUME HandlersInv, NEW r \in Requests,
         DriverEvent(r) \/ DriverIdle(r) \/ DriverReads(r)
  PROVE  HandlersInv'
<1> USE DEF HandlersInv
<1>1. /\ driver(r) \in Tasks /\ driver(r)[1] = r /\ driver(r) # main(driver(r)[1])
  BY TaskFacts DEF tasksOf
<1>2. CASE DriverEvent(r)
  <2>1. /\ yielded' = yielded \cup {driver(r)} /\ driver(r) \in live
        /\ pending' = pending \cup {driver(r)}
        /\ UNCHANGED <<requestVars, step, out, failed, live, doomed, cur>>
    BY <1>2 DEF DriverEvent, Wake
  <2>2. TypeOK'
    BY <1>1, <2>1 DEF TypeOK, requestVars
  <2>3. QED
    BY <2>1, <2>2, QuietStep
<1>3. CASE DriverIdle(r)
  <2>1. UNCHANGED <<requestVars, programVars>>
    BY <1>3 DEF DriverIdle
  <2>2. CASE Complete(driver(r))
    <3>1. TypeOK'
      BY <1>1, <2>1, <2>2, CompleteTyped DEF TypeOK, requestVars, programVars
    <3>2. QED
      BY <1>1, <2>1, <2>2, <3>1, OtherTaskEnds DEF programVars
  <2>3. CASE ReturnPending /\ UNCHANGED <<live, pending, doomed>>
    <3>1. TypeOK'
      BY <2>1, <2>3 DEF TypeOK, ReturnPending, requestVars, programVars
    <3>2. QED
      BY <2>1, <2>3, <3>1, QuietStep DEF ReturnPending, programVars
  <2>4. QED
    BY <1>3, <2>2, <2>3 DEF DriverIdle
<1>4. CASE DriverReads(r)
  <2>1. /\ yielded' = yielded \ {driver(r)} /\ out' = [out EXCEPT ![r] = 0]
        /\ failed' \in {failed, failed \cup {r}}
        /\ UNCHANGED <<requestVars, step>>
    BY <1>4 DEF DriverReads
  <2>2. /\ yielded' \subseteq Tasks /\ failed' \subseteq Requests
        /\ failed \subseteq failed' /\ step' \in [Requests -> 0..3]
    BY <2>1 DEF TypeOK
  <2>3. out' \in [Requests -> 0..3]
    BY <2>1 DEF TypeOK
  <2>4. CASE Complete(driver(r))
    <3>1. TypeOK'
      BY <1>1, <2>1, <2>2, <2>3, <2>4, CompleteTyped DEF TypeOK, requestVars
    <3>2. QED
      BY <1>1, <2>1, <2>2, <2>4, <3>1, OtherTaskEnds
  <2>5. CASE ReturnPending /\ Wake(main(r)) /\ UNCHANGED <<live, doomed>>
    <3>1. TypeOK'
      BY <2>1, <2>2, <2>3, <2>5 DEF TypeOK, Wake, ReturnPending, requestVars
    <3>2. QED
      BY <2>1, <2>2, <2>5, <3>1, QuietStep DEF ReturnPending
  <2>6. QED
    BY <1>4, <2>4, <2>5 DEF DriverReads
<1>5. QED
  BY <1>2, <1>3, <1>4

(* Every step preserves the invariant.                                     *)
LEMMA StepHandlers == HandlersInv /\ [Next]_vars => HandlersInv'
<1> SUFFICES ASSUME HandlersInv, [Next]_vars PROVE HandlersInv'
  OBVIOUS
<1>1. CASE UNCHANGED vars
  <2>1. TypeOK'
    BY <1>1 DEF HandlersInv, TypeOK, vars, requestVars, programVars, taskVars
  <2>2. QED
    BY <1>1, <2>1, QuietStep DEF vars, programVars, taskVars
<1>2. ASSUME NEW r \in Requests, handler(r) PROVE HandlersInv'
  BY <1>2, HandlerStep
<1>3. ASSUME NEW r \in Requests, EndRequest(r) \/ Teardown(r) PROVE HandlersInv'
  <2>1. DestroyPool(r) /\ cur = None /\ pool[r] = "alive"
    BY <1>3 DEF EndRequest, Teardown, InLoop, HandlersInv, TypeOK
  <2>2. QED
    BY <2>1, DestroyStep
<1>4. ASSUME NEW r \in Requests, Arrive(r) \/ SleepOver(r) PROVE HandlersInv'
  BY <1>4, ArriveStep, SleepOverStep
<1>5. ASSUME NEW t \in Tasks, Run(t) \/ DropFuture(t) PROVE HandlersInv'
  BY <1>5, RunStep, DropFutureStep
<1>6. ASSUME NEW r \in Requests, NextAwait(r) \/ Finalize(r) \/ Error(r)
      PROVE  HandlersInv'
  BY <1>6, NextAwaitStep, MainEndsStep
<1>7. ASSUME NEW r \in Requests, Await(r) \/ Subtask(r) PROVE HandlersInv'
  <2>1. sub(r) \in Tasks
    BY TaskFacts
  <2>2. QED
    BY <1>7, <2>1, OtherPollStep
<1>8. ASSUME NEW t \in Tasks, yield_now(t) PROVE HandlersInv'
  <2>1. t[1] \in Requests
    BY TaskFacts
  <2>2. QED
    BY <1>8, <2>1, OtherPollStep
<1>9. ASSUME NEW r \in Requests, DriverEvent(r) \/ DriverIdle(r) \/ DriverReads(r)
      PROVE  HandlersInv'
  BY <1>9, DriverStep
<1>10. QED
  BY <1>1, <1>2, <1>3, <1>4, <1>5, <1>6, <1>7, <1>8, <1>9 DEF Next, Poll

(* The invariant holds always.                                             *)
LEMMA HandlersInvariant == Spec => []HandlersInv
<1>1. QED
  BY InitHandlers, StepHandlers, PTL DEF Spec

(* Every variable of Handlers keeps its type; only requests that are alive *)
(* wait for nginx to end them, and only live tasks are woken or cancelled. *)
THEOREM HandlersTypeCorrect == Spec => []TypeOK
<1>1. HandlersInv => TypeOK
  BY DEF HandlersInv
<1>2. QED
  BY <1>1, HandlersInvariant, PTL

(* For any handler, any order of results, errors and teardowns: a request  *)
(* that is alive has a main task that will finalize it, or nginx was told  *)
(* to end it, or an error left compat's or sidecar's handler by `?'.       *)
THEOREM HandlersRequestOwned == Spec => []RequestOwned
<1>1. HandlersInv => RequestOwned
  BY DEF HandlersInv
<1>2. QED
  BY <1>1, HandlersInvariant, PTL

(* For any number of children: a subtask or child that nobody cancelled    *)
(* has a main task that awaits it or will cancel it.                       *)
THEOREM HandlersNoOrphans == Spec => []NoOrphans
<1>1. HandlersInv => NoOrphans
  BY DEF HandlersInv
<1>2. QED
  BY <1>1, HandlersInvariant, PTL

-----------------------------------------------------------------------------
(* No wake is lost.  Subtasks are cancelled with their request only, and   *)
(* children once their main task is gone: nobody who is still going to be  *)
(* polled awaits a task that ends without waking its awaiter.              *)
CancelledInv ==
  \A r \in Requests :
    /\ sub(r) \in doomed => pool[r] = "freed"
    /\ \A c \in children(r) : c \in doomed => main(r) \notin live

(* The part of NoLostWake about tasks and what they themselves lack.       *)
WaitInv ==
  /\ \A r \in Requests :
       /\ Sleeping(main(r)) => ~Arrived(r)
       /\ \A t \in {sub(r), driver(r)} : Sleeping(t) => t \notin yielded
       /\ \A t \in children(r) : ~Sleeping(t)
  /\ doomed \subseteq pending

WakeInv == WaitInv /\ CancelledInv

(* Nothing sleeps initially.                                               *)
LEMMA InitWake == Init => WakeInv
BY DEF Init, WakeInv, WaitInv, CancelledInv, Sleeping

(* What a request awaits depends on its own results and tasks only.        *)
LEMMA ArrivedOwn ==
  ASSUME NEW r \in Requests, out'[r] = out[r],
         \A t \in children(r) \cup {sub(r)} : t \in live' <=> t \in live
  PROVE  Arrived(r)' <=> Arrived(r)
BY DEF Arrived

(* A task ends and wakes the main task that may await it.                  *)
LEMMA CompleteWakes ==
  ASSUME HandlersInv, WakeInv, NEW t \in Tasks, cur = t, Complete(t),
         UNCHANGED pool, yielded' \subseteq yielded,
         \A r \in Requests : t \notin tasksOf(r) => out'[r] = out[r]
  PROVE  WakeInv'
<1> USE DEF WakeInv
<1>1. /\ cur' = None /\ live' = live \ {t} /\ doomed' = doomed \ {t}
      /\ pending' = (pending \cup ({watcher(t)} \cap live)) \ {t}
  BY DEF Complete
<1>2. \A u : Sleeping(u)' => Sleeping(u) /\ u # t
  BY <1>1 DEF Sleeping
<1>3. ASSUME NEW r \in Requests, Sleeping(main(r))' PROVE ~Arrived(r)'
  <2>1. t \notin tasksOf(r)
    <3>1. main(r) \in live /\ main(r) \notin pending' /\ main(r) # t
      BY <1>1, <1>3 DEF Sleeping
    <3>2. t[1] # r
      BY <1>1, <3>1, TaskFacts DEF watcher
    <3>3. QED
      BY <3>2, TaskFacts
  <2>2. Arrived(r)' <=> Arrived(r)
    BY <1>1, <2>1, ArrivedOwn DEF tasksOf
  <2>3. QED
    BY <1>2, <1>3, <2>2 DEF WaitInv
<1>4. WaitInv'
  BY <1>1, <1>2, <1>3 DEF WaitInv
<1>5. CancelledInv'
  BY <1>1 DEF CancelledInv
<1>6. QED
  BY <1>4, <1>5

(* A request arrives: its main task is spawned scheduled.                  *)
LEMMA HandlerWakes ==
  ASSUME HandlersInv, WakeInv, NEW r \in Requests, handler(r) PROVE WakeInv'
<1> USE DEF WakeInv
<1>1. /\ pool[r] = "new" /\ pool' = [pool EXCEPT ![r] = "alive"]
      /\ UNCHANGED <<doomed, cur, out, yielded>>
      /\ \/ live' = live \cup {main(r)} /\ pending' = pending \cup {main(r)}
         \/ UNCHANGED <<live, pending>>
  BY DEF handler, Spawn, programVars
<1>2. tasksOf(r) \cap live = {} /\ doomed \subseteq live
  BY <1>1 DEF HandlersInv, LifeInv, TypeOK
<1>3. \A q \in Requests : main(r) \notin children(q) \cup {sub(q)}
  BY TaskFacts, OwnTasks DEF tasksOf
<1>4. \A q \in Requests : Arrived(q)' <=> Arrived(q)
  BY <1>1, <1>3, ArrivedOwn
<1>5. \A u : Sleeping(u)' => Sleeping(u)
  BY <1>1 DEF Sleeping
<1>6. WaitInv'
  BY <1>1, <1>4, <1>5 DEF WaitInv
<1>7. \A q \in Requests : q # r => pool'[q] = pool[q] /\ main(q) # main(r)
  BY <1>1, OwnTasks DEF HandlersInv, TypeOK, tasksOf
<1>8. CancelledInv'
  BY <1>1, <1>2, <1>7 DEF CancelledInv, tasksOf
<1>9. QED
  BY <1>6, <1>8

(* A pool is destroyed: the tasks it cancels are scheduled once more.      *)
LEMMA DestroyWakes ==
  ASSUME HandlersInv, WakeInv, NEW r \in Requests, DestroyPool(r) PROVE WakeInv'
<1> USE DEF WakeInv
<1> DEFINE known == {main(r), sub(r)} \cap live
<1>1. /\ pool' = [pool EXCEPT ![r] = "freed"]
      /\ doomed' = doomed \cup known /\ pending' = pending \cup known
      /\ UNCHANGED <<live, cur, out, yielded>>
  BY DEF DestroyPool, Cancel, programVars
<1>2. \A u : Sleeping(u)' => Sleeping(u)
  BY <1>1 DEF Sleeping
<1>3. WaitInv'
  BY <1>1, <1>2, ArrivedOwn DEF WaitInv
<1>4. \A q \in Requests : /\ known \cap children(q) = {}
                          /\ q # r => pool'[q] = pool[q] /\ sub(q) \notin known
  BY <1>1, TaskFacts, OwnTasks DEF HandlersInv, TypeOK, tasksOf
<1>5. pool'[r] = "freed"
  BY <1>1 DEF HandlersInv, TypeOK
<1>6. CancelledInv'
  BY <1>1, <1>4, <1>5 DEF CancelledInv
<1>7. QED
  BY <1>3, <1>6

(* A result arrives, or a sleep ends, and wakes whoever waits for it.      *)
LEMMA ArriveWakes ==
  ASSUME HandlersInv, WakeInv, NEW r \in Requests, Arrive(r) \/ SleepOver(r)
  PROVE  WakeInv'
<1> USE DEF WakeInv
<1>1. CASE Arrive(r)
  <2>1. /\ out' = [out EXCEPT ![r] = @ - 1]
        /\ pending' = IF main(r) \in live THEN pending \cup {main(r)} ELSE pending
        /\ UNCHANGED <<pool, yielded, live, doomed, cur>>
    BY <1>1 DEF Arrive, Wake, requestVars
  <2>2. ~Sleeping(main(r))' /\ \A u : Sleeping(u)' => Sleeping(u)
    BY <2>1 DEF Sleeping
  <2>3. \A q \in Requests : q # r => (Arrived(q)' <=> Arrived(q))
    BY <2>1, ArrivedOwn DEF HandlersInv, TypeOK
  <2>4. WaitInv'
    BY <2>1, <2>2, <2>3 DEF WaitInv
  <2>5. CancelledInv'
    BY <2>1 DEF CancelledInv
  <2>6. QED
    BY <2>4, <2>5
<1>2. CASE SleepOver(r)
  <2>1. /\ yielded' = yielded \cup {sub(r)} /\ pending' = pending \cup {sub(r)}
        /\ UNCHANGED <<pool, out, live, doomed, cur>>
    BY <1>2 DEF SleepOver, Wake, requestVars
  <2>2. ~Sleeping(sub(r))' /\ \A u : Sleeping(u)' => Sleeping(u)
    BY <2>1 DEF Sleeping
  <2>3. WaitInv'
    BY <2>1, <2>2, ArrivedOwn DEF WaitInv
  <2>4. CancelledInv'
    BY <2>1 DEF CancelledInv
  <2>5. QED
    BY <2>3, <2>4
<1>3. QED
  BY <1>1, <1>2

(* A runnable is run.                                                      *)
LEMMA RunWakes ==
  ASSUME HandlersInv, WakeInv, NEW t \in Tasks, Run(t) PROVE WakeInv'
<1> USE DEF WakeInv
<1>1. /\ cur = None /\ t \in pending \ doomed /\ cur' = t /\ pending' = pending \ {t}
      /\ UNCHANGED <<pool, out, yielded, live, doomed>>
  BY DEF Run, InLoop, requestVars, programVars
<1>2. \A u \in Tasks : Sleeping(u)' => Sleeping(u)
  BY <1>1, NoneAssumption DEF Sleeping
<1>3. \A r \in Requests : Arrived(r)' <=> Arrived(r)
  BY <1>1, ArrivedOwn
<1>4. WaitInv'
  BY <1>1, <1>2, <1>3, TaskFacts DEF WaitInv
<1>5. CancelledInv'
  BY <1>1 DEF CancelledInv
<1>6. QED
  BY <1>4, <1>5

(* A cancelled task wakes nobody, and nobody waits for it.                 *)
LEMMA DropFutureWakes ==
  ASSUME HandlersInv, WakeInv, NEW t \in Tasks, DropFuture(t) PROVE WakeInv'
<1> USE DEF WakeInv
<1> DEFINE orphans == IF t = main(t[1]) THEN children(t[1]) \cap live ELSE {}
           left == IF t = main(t[1]) THEN {driver(t[1])} \cap live ELSE {}
<1>1. /\ t \in doomed /\ live' = live \ {t} /\ doomed' = (doomed \ {t}) \cup orphans
      /\ pending' = (pending \ {t}) \cup orphans \cup left
      /\ UNCHANGED <<cur, pool, out, yielded>>
  BY DEF DropFuture, requestVars, programVars
<1>2. \A u : Sleeping(u)' => Sleeping(u)
  BY <1>1 DEF Sleeping
<1>3. ASSUME NEW r \in Requests, Sleeping(main(r))' PROVE ~Arrived(r)'
  <2>1. Sleeping(main(r))
    BY <1>2, <1>3
  <2>2. main(r) \in live \ doomed
    BY <2>1 DEF Sleeping
  <2>3. t \notin children(r) \cup {sub(r)}
    <3>1. t \notin children(r)
      BY <1>1, <2>2 DEF CancelledInv
    <3>2. t # sub(r)
      BY <1>1, <2>2 DEF CancelledInv, HandlersInv, LifeInv
    <3>3. QED
      BY <3>1, <3>2
  <2>4. Arrived(r)' <=> Arrived(r)
    BY <1>1, <2>3, ArrivedOwn
  <2>5. QED
    BY <2>1, <2>4 DEF WaitInv
<1>4. WaitInv'
  BY <1>1, <1>2, <1>3 DEF WaitInv
<1>5. ASSUME NEW c \in orphans, NEW r \in Requests
      PROVE  c # sub(r) /\ (c \in children(r) => t = main(r))
  <2>1. t = main(t[1]) /\ c \in children(t[1]) /\ t[1] \in Requests
    BY <1>5, TaskFacts
  <2>2. r # t[1] => c \notin tasksOf(r)
    BY <2>1, OwnTasks DEF tasksOf
  <2>3. QED
    BY <2>1, <2>2, TaskFacts DEF tasksOf
<1> HIDE DEF orphans, left
<1>6. CancelledInv'
  BY <1>1, <1>5 DEF CancelledInv
<1>7. QED
  BY <1>4, <1>6

(* A main task goes on to its next await, spawning what it awaits.         *)
LEMMA NextAwaitWakes ==
  ASSUME HandlersInv, WakeInv, NEW r \in Requests, NextAwait(r) PROVE WakeInv'
<1> USE DEF WakeInv
<1> DEFINE s == step[r] + 1
           p == Program(kind[r])
           new == CASE p[s] = "children" -> children(r)
                    [] p[s] = "sub" -> {sub(r)}
                    [] p[s] = "reply" -> {driver(r)}
                    [] OTHER -> {}
<1>1. /\ cur = main(r) /\ cur' = cur
      /\ out' = [out EXCEPT ![r] = Arrivals(p[s])]
      /\ live' = live \cup new /\ pending' = pending \cup new
      /\ UNCHANGED <<pool, yielded, doomed>>
  BY DEF NextAwait, requestVars
<1>2. new \subseteq tasksOf(r) \ {main(r)}
  BY TaskFacts DEF tasksOf
<1> HIDE DEF s, p, new
<1>3. ~Sleeping(main(r))' /\ \A u : Sleeping(u)' => Sleeping(u)
  BY <1>1 DEF Sleeping
<1>4. \A q \in Requests : q # r => tasksOf(q) \cap new = {}
  BY <1>2, OwnTasks
<1>5. \A q \in Requests : q # r => (Arrived(q)' <=> Arrived(q))
  BY <1>1, <1>4, ArrivedOwn DEF HandlersInv, TypeOK, tasksOf
<1>6. WaitInv'
  BY <1>1, <1>3, <1>5 DEF WaitInv
<1>7. CancelledInv'
  BY <1>1, <1>2, <1>4 DEF CancelledInv, tasksOf
<1>8. QED
  BY <1>6, <1>7

(* A poll that returns Pending leaves a task that waits for something.     *)
LEMMA PendingWakes ==
  ASSUME HandlersInv, WakeInv, NEW r \in Requests,
         \/ Await(r)
         \/ /\ cur \in {sub(r), driver(r)} /\ cur \notin yielded /\ ReturnPending
            /\ UNCHANGED <<requestVars, programVars, live, pending, doomed>>
  PROVE  WakeInv'
<1> USE DEF WakeInv
<1>1. /\ cur' = None
      /\ \/ cur = main(r) /\ ~Arrived(r)
         \/ cur \in {sub(r), driver(r)} /\ cur \notin yielded
      /\ UNCHANGED <<pool, out, yielded, live, pending, doomed>>
  BY DEF Await, ReturnPending, requestVars, programVars
<1>2. \A u : Sleeping(u)' => Sleeping(u) \/ u = cur
  BY <1>1 DEF Sleeping
<1>3. \A q \in Requests : Arrived(q)' <=> Arrived(q)
  BY <1>1, ArrivedOwn
<1>4. \A q \in Requests : /\ q # r => cur \notin tasksOf(q)
                          /\ cur \notin children(q)
  BY <1>1, OwnTasks, TaskFacts DEF tasksOf
<1>5. ASSUME NEW q \in Requests
      PROVE  /\ Sleeping(main(q))' => ~Arrived(q)'
             /\ \A c \in {sub(q), driver(q)} : Sleeping(c)' => c \notin yielded'
             /\ \A c \in children(q) : ~Sleeping(c)'
  <2>1. CASE q = r
    BY <1>1, <1>2, <1>3, <1>4, <2>1, TaskFacts DEF WaitInv
  <2>2. CASE q # r
    BY <1>1, <1>2, <1>3, <1>4, <2>2 DEF WaitInv, tasksOf
  <2>3. QED
    BY <2>1, <2>2
<1>6. WaitInv'
  BY <1>1, <1>5 DEF WaitInv
<1>7. CancelledInv'
  BY <1>1 DEF CancelledInv
<1>8. QED
  BY <1>6, <1>7

(* yield_now wakes its task before it returns Pending.                     *)
LEMMA YieldWakes ==
  ASSUME HandlersInv, WakeInv, NEW t \in Tasks, yield_now(t) PROVE WakeInv'
<1> USE DEF WakeInv
<1>1. cur = t /\ t \in children(t[1]) /\ t[1] \in Requests /\ UNCHANGED <<pool, out>>
  BY TaskFacts DEF yield_now, requestVars
<1>2. CASE Complete(t) /\ UNCHANGED yielded
  BY <1>1, <1>2, CompleteWakes
<1>3. CASE /\ yielded' = yielded \cup {t} /\ Wake(t) /\ ReturnPending
           /\ UNCHANGED <<live, doomed>>
  <2>1. t \in live
    BY <1>1, PolledLive
  <2>2. cur' = None /\ pending' = pending \cup {t}
    BY <1>3, <2>1 DEF Wake, ReturnPending
  <2>3. \A u : Sleeping(u)' => Sleeping(u)
    BY <1>1, <1>3, <2>2 DEF Sleeping
  <2>4. \A q \in Requests : (Arrived(q)' <=> Arrived(q)) /\ t \notin {sub(q), driver(q)}
    <3>1. \A q \in Requests : t \notin {sub(q), driver(q)}
      BY <1>1, TaskFacts, OwnTasks DEF tasksOf
    <3>2. QED
      BY <1>1, <1>3, <3>1, ArrivedOwn
  <2>5. WaitInv'
    BY <1>3, <2>2, <2>3, <2>4 DEF WaitInv
  <2>6. CancelledInv'
    BY <1>1, <1>3 DEF CancelledInv
  <2>7. QED
    BY <2>5, <2>6
<1>4. QED
  BY <1>2, <1>3 DEF yield_now

(* The connection's event wakes the driver, which reads all there is.      *)
LEMMA DriverWakes ==
  ASSUME HandlersInv, WakeInv, NEW r \in Requests,
         DriverEvent(r) \/ DriverIdle(r) \/ DriverReads(r)
  PROVE  WakeInv'
<1> USE DEF WakeInv
<1>1. /\ driver(r) \in Tasks
      /\ \A q \in Requests : q # r => driver(r) \notin tasksOf(q)
  BY TaskFacts, OwnTasks DEF tasksOf
<1>2. CASE DriverEvent(r)
  <2>1. /\ yielded' = yielded \cup {driver(r)} /\ pending' = pending \cup {driver(r)}
        /\ UNCHANGED <<pool, out, live, doomed, cur>>
    BY <1>2 DEF DriverEvent, Wake, requestVars
  <2>2. ~Sleeping(driver(r))' /\ \A u : Sleeping(u)' => Sleeping(u)
    BY <2>1 DEF Sleeping
  <2>3. WaitInv'
    BY <2>1, <2>2, ArrivedOwn DEF WaitInv
  <2>4. CancelledInv'
    BY <2>1 DEF CancelledInv
  <2>5. QED
    BY <2>3, <2>4
<1>3. CASE DriverIdle(r)
  <2>1. cur = driver(r) /\ cur \notin yielded /\ UNCHANGED <<requestVars, programVars>>
    BY <1>3 DEF DriverIdle
  <2>2. CASE Complete(driver(r))
    BY <1>1, <2>1, <2>2, CompleteWakes DEF requestVars, programVars
  <2>3. CASE ReturnPending /\ UNCHANGED <<live, pending, doomed>>
    BY <2>1, <2>3, PendingWakes
  <2>4. QED
    BY <1>3, <2>2, <2>3 DEF DriverIdle
<1>4. CASE DriverReads(r)
  <2>1. /\ cur = driver(r) /\ yielded' = yielded \ {driver(r)}
        /\ out' = [out EXCEPT ![r] = 0] /\ UNCHANGED pool
    BY <1>4 DEF DriverReads, requestVars
  <2>2. \A q \in Requests : q # r => out'[q] = out[q]
    BY <2>1 DEF HandlersInv, TypeOK
  <2>3. CASE Complete(driver(r))
    <3>1. \A q \in Requests : driver(r) \notin tasksOf(q) => out'[q] = out[q]
      BY <2>2 DEF tasksOf
    <3>2. QED
      BY <1>1, <2>1, <2>3, <3>1, CompleteWakes
  <2>4. CASE ReturnPending /\ Wake(main(r)) /\ UNCHANGED <<live, doomed>>
    <3>1. /\ cur' = None /\ UNCHANGED <<live, doomed>>
          /\ pending' = IF main(r) \in live THEN pending \cup {main(r)} ELSE pending
      BY <2>4 DEF Wake, ReturnPending
    <3>2. /\ ~Sleeping(main(r))'
          /\ \A u : Sleeping(u)' => Sleeping(u) \/ u = driver(r)
      BY <2>1, <3>1 DEF Sleeping
    <3>3. \A q \in Requests : q # r => (Arrived(q)' <=> Arrived(q))
      BY <2>2, <3>1, ArrivedOwn
    <3>4. /\ driver(r) \notin yielded' /\ yielded' \subseteq yielded
          /\ \A q \in Requests : driver(r) \notin {main(q)} \cup children(q)
      BY <1>1, <2>1, TaskFacts DEF tasksOf
    <3>5. WaitInv'
      BY <3>1, <3>2, <3>3, <3>4 DEF WaitInv
    <3>6. CancelledInv'
      BY <2>1, <3>1 DEF CancelledInv
    <3>7. QED
      BY <3>5, <3>6
  <2>5. QED
    BY <1>4, <2>3, <2>4 DEF DriverReads
<1>5. QED
  BY <1>2, <1>3, <1>4

(* Every step preserves the invariant.                                     *)
LEMMA StepWake == HandlersInv /\ WakeInv /\ [Next]_vars => WakeInv'
<1> SUFFICES ASSUME HandlersInv, WakeInv, [Next]_vars PROVE WakeInv'
  OBVIOUS
<1>1. CASE UNCHANGED vars
  BY <1>1 DEF WakeInv, WaitInv, CancelledInv, Sleeping, Arrived, vars,
              requestVars, programVars, taskVars
<1>2. ASSUME NEW r \in Requests,
             handler(r) \/ EndRequest(r) \/ Teardown(r) \/ Arrive(r) \/ SleepOver(r)
      PROVE  WakeInv'
  BY <1>2, HandlerWakes, DestroyWakes, ArriveWakes DEF EndRequest, Teardown
<1>3. ASSUME NEW t \in Tasks, Run(t) \/ DropFuture(t) PROVE WakeInv'
  BY <1>3, RunWakes, DropFutureWakes
<1>4. ASSUME NEW r \in Requests, NextAwait(r) \/ Await(r) PROVE WakeInv'
  BY <1>4, NextAwaitWakes, PendingWakes
<1>5. ASSUME NEW r \in Requests, Finalize(r) \/ Error(r) PROVE WakeInv'
  <2>1. main(r) \in Tasks /\ cur = main(r) /\ Complete(main(r))
        /\ UNCHANGED <<pool, out, yielded>>
    BY <1>5, TaskFacts DEF Finalize, Error, programVars
  <2>2. QED
    BY <2>1, CompleteWakes
<1>6. ASSUME NEW r \in Requests, Subtask(r) PROVE WakeInv'
  <2>1. sub(r) \in Tasks /\ cur = sub(r) /\ UNCHANGED <<pool, out, yielded>>
    BY <1>6, TaskFacts DEF Subtask, requestVars, programVars
  <2>2. CASE Complete(sub(r))
    BY <2>1, <2>2, CompleteWakes
  <2>3. CASE sub(r) \notin yielded /\ ReturnPending /\ UNCHANGED <<live, pending, doomed>>
    BY <1>6, <2>1, <2>3, PendingWakes DEF Subtask
  <2>4. QED
    BY <1>6, <2>2, <2>3 DEF Subtask
<1>7. ASSUME NEW t \in Tasks, yield_now(t) PROVE WakeInv'
  BY <1>7, YieldWakes
<1>8. ASSUME NEW r \in Requests, DriverEvent(r) \/ DriverIdle(r) \/ DriverReads(r)
      PROVE  WakeInv'
  BY <1>8, DriverWakes
<1>9. QED
  BY <1>1, <1>2, <1>3, <1>4, <1>5, <1>6, <1>7, <1>8 DEF Next, Poll

-----------------------------------------------------------------------------
(* A main task that lacks its reply has a driver to wait for: nobody       *)
(* cancels the driver, and it ends only when it has read the reply, or     *)
(* when nobody waits for it.                                               *)
Reply(r) ==
  /\ pool[r] = "new" => out[r] = 0
  /\ driver(r) \notin doomed
  /\ main(r) \in live /\ AwaitsReply(r) => driver(r) \in live

ReplyInv == \A r \in Requests : Reply(r)

(* Nothing is awaited initially.                                           *)
LEMMA InitReply == Init => ReplyInv
BY DEF Init, ReplyInv, Reply

(* Steps that spawn no main task, end no driver, cancel none and leave     *)
(* what the request awaits keep it.                                        *)
LEMMA SameReply ==
  ASSUME ReplyInv, NEW r \in Requests, pool'[r] = pool[r] \/ pool'[r] # "new",
         out'[r] = out[r], kind'[r] = kind[r], step'[r] = step[r],
         driver(r) \in doomed' => driver(r) \in doomed,
         main(r) \in live' => main(r) \in live,
         driver(r) \in live => driver(r) \in live'
  PROVE  Reply(r)'
BY DEF ReplyInv, Reply, AwaitsReply, Op

(* The end of a task that is no driver takes no driver away.               *)
LEMMA CompleteReply ==
  ASSUME ReplyInv, NEW t \in Tasks, t # driver(t[1]), Complete(t),
         UNCHANGED <<pool, kind, step, out>>, NEW q \in Requests
  PROVE  Reply(q)'
<1>1. live' = live \ {t} /\ doomed' = doomed \ {t}
  BY DEF Complete
<1>2. driver(q) # t
  BY TaskFacts DEF tasksOf
<1>3. QED
  BY <1>1, <1>2, SameReply

(* Every step preserves the invariant.                                     *)
LEMMA StepReply == HandlersInv /\ ReplyInv /\ [Next]_vars => ReplyInv'
<1> SUFFICES ASSUME HandlersInv, ReplyInv, [Next]_vars, NEW q \in Requests PROVE Reply(q)'
  BY DEF ReplyInv
<1>0. \A r \in Requests : /\ r # q => main(r) # main(q) /\ driver(r) # driver(q)
                          /\ driver(q) \notin {main(r), sub(r)} \cup children(r)
  BY TaskFacts, OwnTasks DEF tasksOf
<1>1. CASE UNCHANGED vars
  BY <1>1, SameReply DEF vars, requestVars, programVars, taskVars
<1>2. ASSUME NEW r \in Requests, handler(r) PROVE Reply(q)'
  <2>1. /\ pool[r] = "new" /\ pool' = [pool EXCEPT ![r] = "alive"]
        /\ UNCHANGED <<step, out, doomed>>
        /\ live' \in {live, live \cup {main(r)}}
    BY <1>2 DEF handler, Spawn, programVars
  <2>2. PICK k \in Kinds : kind' = [kind EXCEPT ![r] = k]
    BY <1>2 DEF handler
  <2>3. CASE q = r
    <3>1. out[q] = 0 /\ driver(q) \notin doomed
      BY <2>1, <2>3 DEF ReplyInv, Reply
    <3>2. ~AwaitsReply(q)'
      BY <2>1, <3>1 DEF AwaitsReply
    <3>3. QED
      BY <2>1, <3>1, <3>2 DEF Reply
  <2>4. CASE q # r
    <3>1. pool'[q] = pool[q] /\ kind'[q] = kind[q]
      BY <2>1, <2>2, <2>4 DEF HandlersInv, TypeOK
    <3>2. QED
      BY <1>0, <2>1, <2>4, <3>1, SameReply
  <2>5. QED
    BY <2>3, <2>4
<1>3. ASSUME NEW r \in Requests, EndRequest(r) \/ Teardown(r) PROVE Reply(q)'
  <2>1. /\ pool' = [pool EXCEPT ![r] = "freed"]
        /\ doomed' = doomed \cup ({main(r), sub(r)} \cap live)
        /\ UNCHANGED <<kind, step, out, live>>
    BY <1>3 DEF EndRequest, Teardown, DestroyPool, Cancel, programVars
  <2>2. pool'[q] = pool[q] \/ pool'[q] # "new"
    BY <2>1 DEF HandlersInv, TypeOK
  <2>3. QED
    BY <1>0, <2>1, <2>2, SameReply
<1>4. ASSUME NEW r \in Requests, Arrive(r) PROVE Reply(q)'
  <2>1. /\ out[r] > 0 /\ ~AwaitsReply(r) /\ out' = [out EXCEPT ![r] = @ - 1]
        /\ UNCHANGED <<pool, kind, step, live, doomed>>
    BY <1>4 DEF Arrive, requestVars
  <2>2. CASE q = r
    <3>1. ~AwaitsReply(q)'
      BY <2>1, <2>2 DEF AwaitsReply, Op
    <3>2. pool'[q] # "new" /\ driver(q) \notin doomed'
      BY <2>1, <2>2 DEF ReplyInv, Reply
    <3>3. QED
      BY <3>1, <3>2 DEF Reply
  <2>3. CASE q # r
    <3>1. out'[q] = out[q]
      BY <2>1, <2>3 DEF HandlersInv, TypeOK
    <3>2. QED
      BY <2>1, <3>1, SameReply
  <2>4. QED
    BY <2>2, <2>3
<1>5. ASSUME NEW r \in Requests, SleepOver(r) \/ DriverEvent(r) \/ Await(r) PROVE Reply(q)'
  <2>1. UNCHANGED <<pool, kind, step, out, live, doomed>>
    BY <1>5 DEF SleepOver, DriverEvent, Await, requestVars, programVars
  <2>2. QED
    BY <2>1, SameReply
<1>6. ASSUME NEW t \in Tasks, Run(t) PROVE Reply(q)'
  <2>1. UNCHANGED <<pool, kind, step, out, live, doomed>>
    BY <1>6 DEF Run, requestVars, programVars
  <2>2. QED
    BY <2>1, SameReply
<1>7. ASSUME NEW t \in Tasks, DropFuture(t) PROVE Reply(q)'
  <2> DEFINE orphans == IF t = main(t[1]) THEN children(t[1]) \cap live ELSE {}
  <2>1. /\ t \in doomed /\ live' = live \ {t} /\ doomed' = (doomed \ {t}) \cup orphans
        /\ UNCHANGED <<pool, kind, step, out>>
    BY <1>7 DEF DropFuture, requestVars, programVars
  <2>2. driver(q) # t
    BY <2>1 DEF ReplyInv, Reply
  <2>3. driver(q) \notin orphans
    BY <1>0, TaskFacts
  <2> HIDE DEF orphans
  <2>4. QED
    BY <2>1, <2>2, <2>3, SameReply
<1>8. ASSUME NEW r \in Requests, NextAwait(r) PROVE Reply(q)'
  <2> DEFINE s == step[r] + 1
             p == Program(kind[r])
             new == CASE p[s] = "children" -> children(r)
                      [] p[s] = "sub" -> {sub(r)}
                      [] p[s] = "reply" -> {driver(r)}
                      [] OTHER -> {}
  <2>1. /\ cur = main(r) /\ step' = [step EXCEPT ![r] = s]
        /\ out' = [out EXCEPT ![r] = Arrivals(p[s])]
        /\ live' = live \cup new /\ UNCHANGED <<pool, kind, doomed>>
    BY <1>8 DEF NextAwait, requestVars
  <2>2. p[s] = "reply" => driver(r) \in new
    OBVIOUS
  <2>3. main(r) \notin new /\ \A c \in new : c \in tasksOf(r)
    BY TaskFacts DEF tasksOf
  <2>4. CASE q = r
    <3>1. pool[q] = "alive"
      BY <2>1, <2>4, TaskFacts, PolledLive, MainAlive
    <3>2. AwaitsReply(q)' => p[s] = "reply"
      <4>1. step'[q] = s /\ kind'[q] = kind[r]
        BY <2>1, <2>4 DEF HandlersInv, TypeOK
      <4>2. QED
        BY <4>1 DEF AwaitsReply, Op
    <3>3. driver(q) \notin doomed'
      BY <2>1 DEF ReplyInv, Reply
    <3> HIDE DEF s, p, new
    <3>4. QED
      BY <2>1, <2>2, <2>4, <3>1, <3>2, <3>3 DEF Reply
  <2>5. CASE q # r
    <3> HIDE DEF s, p, new
    <3>1. step'[q] = step[q] /\ out'[q] = out[q]
      BY <2>1, <2>5 DEF HandlersInv, TypeOK
    <3>2. main(q) \notin new
      BY <2>3, <2>5, OwnTasks DEF tasksOf
    <3>3. QED
      BY <2>1, <3>1, <3>2, SameReply
  <2>6. QED
    BY <2>4, <2>5
<1>9. ASSUME NEW r \in Requests, Finalize(r) \/ Error(r) PROVE Reply(q)'
  <2>1. Complete(main(r)) /\ UNCHANGED <<pool, kind, step, out>>
    BY <1>9 DEF Finalize, Error, programVars
  <2>2. main(r) \in Tasks /\ main(r) # driver(main(r)[1])
    BY TaskFacts DEF tasksOf
  <2>3. QED
    BY <2>1, <2>2, CompleteReply
<1>10. ASSUME NEW r \in Requests, Subtask(r) PROVE Reply(q)'
  <2>1. UNCHANGED <<pool, kind, step, out>>
        /\ (Complete(sub(r)) \/ UNCHANGED <<live, doomed>>)
    BY <1>10 DEF Subtask, requestVars, programVars
  <2>2. sub(r) \in Tasks /\ sub(r) # driver(sub(r)[1])
    BY TaskFacts DEF tasksOf
  <2>3. QED
    BY <2>1, <2>2, CompleteReply, SameReply
<1>11. ASSUME NEW t \in Tasks, yield_now(t) PROVE Reply(q)'
  <2>1. UNCHANGED <<pool, kind, step, out>> /\ t \in children(t[1])
        /\ (Complete(t) \/ UNCHANGED <<live, doomed>>)
    BY <1>11 DEF yield_now, requestVars
  <2>2. t # driver(t[1])
    BY <2>1, TaskFacts
  <2>3. QED
    BY <2>1, <2>2, CompleteReply, SameReply
<1>12. ASSUME NEW r \in Requests, DriverIdle(r) PROVE Reply(q)'
  <2>1. UNCHANGED <<pool, kind, step, out>>
        /\ \/ UNCHANGED <<live, doomed>>
           \/ main(r) \notin live /\ live' = live \ {driver(r)} /\ doomed' = doomed \ {driver(r)}
    BY <1>12 DEF DriverIdle, Complete, requestVars, programVars
  <2>2. CASE q = r /\ main(r) \notin live
    BY <2>1, <2>2 DEF ReplyInv, Reply
  <2>3. CASE q # r \/ UNCHANGED <<live, doomed>>
    BY <1>0, <2>1, <2>3, SameReply
  <2>4. QED
    BY <2>1, <2>2, <2>3
<1>13. ASSUME NEW r \in Requests, DriverReads(r) PROVE Reply(q)'
  <2>1. /\ out' = [out EXCEPT ![r] = 0] /\ UNCHANGED <<pool, kind, step>>
        /\ \/ UNCHANGED <<live, doomed>>
           \/ live' = live \ {driver(r)} /\ doomed' = doomed \ {driver(r)}
    BY <1>13 DEF DriverReads, Complete, requestVars
  <2>2. CASE q = r
    <3>1. out'[q] = 0
      BY <2>1, <2>2 DEF HandlersInv, TypeOK
    <3>2. ~AwaitsReply(q)'
      BY <3>1 DEF AwaitsReply
    <3>3. driver(q) \notin doomed'
      BY <2>1 DEF ReplyInv, Reply
    <3>4. QED
      BY <3>1, <3>2, <3>3 DEF Reply
  <2>3. CASE q # r
    <3>1. out'[q] = out[q]
      BY <2>1, <2>3 DEF HandlersInv, TypeOK
    <3>2. QED
      BY <1>0, <2>1, <2>3, <3>1, SameReply
  <2>4. QED
    BY <2>2, <2>3
<1>14. QED
  BY <1>1, <1>2, <1>3, <1>4, <1>5, <1>6, <1>7, <1>8, <1>9, <1>10, <1>11, <1>12, <1>13
     DEF Next, Poll

(* For any handler and any number of children: a task that nobody is going *)
(* to poll waits for something that is still to come and will wake it, and *)
(* a cancelled task is always owed the run that drops its future.          *)
THEOREM HandlersNoLostWake == Spec => []NoLostWake
<1>1. WakeInv /\ ReplyInv => NoLostWake
  BY DEF WakeInv, WaitInv, ReplyInv, Reply, NoLostWake, Sleeping
<1>2. QED
  BY <1>1, InitWake, StepWake, InitReply, StepReply, HandlersInvariant, PTL DEF Spec
=============================================================================
