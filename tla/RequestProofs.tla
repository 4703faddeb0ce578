---------------------------- MODULE RequestProofs ----------------------------
(***************************************************************************)
(* Proofs about Request for any number of requests: no future is polled    *)
(* and no finalizer runs on a freed request, and a torn-down task always   *)
(* has the runnable that will drop its future.                             *)
(***************************************************************************)
EXTENDS Request, TLAPS

(* What the proofs need to know of tasks; main, sub and Tasks are not      *)
(* expanded below.                                                         *)
LEMMA TaskFacts ==
  /\ None \notin Tasks /\ None \notin Requests
  /\ Dangling \notin Requests /\ Dangling # None
  /\ \A r \in Requests :
       /\ main(r) \in Tasks /\ sub(r) \in Tasks /\ main(r) # sub(r)
       /\ main(r)[1] = r /\ sub(r)[1] = r
  /\ \A t \in Tasks : t[1] \in Requests /\ t \in {main(t[1]), sub(t[1])}
  /\ \A r \in Requests, t \in Tasks : t \in tasksOf(r) <=> t[1] = r
  /\ \A r \in Requests : tasksOf(r) \subseteq Tasks
BY DistinctAssumption DEF Tasks, Kinds, main, sub, tasksOf

-----------------------------------------------------------------------------
(* The run queue holds the scheduled tasks, each once.                     *)
Holds(q, t) == \E i \in 1 .. Len(q) : q[i] = t

QueueMatches(q, st) ==
  /\ \A t \in Tasks : st[t] = "sched" <=> Holds(q, t)
  /\ \A i, j \in 1 .. Len(q) : q[i] = q[j] => i = j

(* A task is scheduled.                                                    *)
LEMMA AppendMatches ==
  ASSUME NEW q \in Seq(Tasks), NEW st, NEW st2, NEW t \in Tasks,
         QueueMatches(q, st), st[t] # "sched", st2[t] = "sched",
         \A u \in Tasks : u # t => (st2[u] = "sched" <=> st[u] = "sched")
  PROVE  Append(q, t) \in Seq(Tasks) /\ QueueMatches(Append(q, t), st2)
<1> DEFINE p == Append(q, t)
<1>1. /\ p \in Seq(Tasks) /\ Len(p) = Len(q) + 1 /\ Len(q) \in Nat
      /\ \A i \in 1 .. Len(q) : p[i] = q[i]
      /\ p[Len(q) + 1] = t
  OBVIOUS
<1>2. \A u \in Tasks : Holds(p, u) <=> Holds(q, u) \/ u = t
  BY <1>1 DEF Holds
<1>3. \A i \in 1 .. Len(q) : q[i] # t
  BY DEF QueueMatches, Holds
<1>4. \A i, j \in 1 .. Len(p) : p[i] = p[j] => i = j
  BY <1>1, <1>3 DEF QueueMatches
<1>5. \A u \in Tasks : st2[u] = "sched" <=> Holds(p, u)
  BY <1>2 DEF QueueMatches
<1>6. QED
  BY <1>1, <1>4, <1>5 DEF QueueMatches

(* The next runnable is taken.                                             *)
LEMMA TailMatches ==
  ASSUME NEW q \in Seq(Tasks), q # <<>>, NEW st, NEW st2,
         QueueMatches(q, st), st2[Head(q)] # "sched",
         \A u \in Tasks : u # Head(q) => (st2[u] = "sched" <=> st[u] = "sched")
  PROVE  /\ Head(q) \in Tasks /\ st[Head(q)] = "sched"
         /\ Tail(q) \in Seq(Tasks) /\ QueueMatches(Tail(q), st2)
<1> DEFINE p == Tail(q)
<1>1. /\ p \in Seq(Tasks) /\ Len(p) = Len(q) - 1 /\ Len(q) \in Nat \ {0}
      /\ \A i \in 1 .. Len(p) : p[i] = q[i + 1]
      /\ Head(q) = q[1] /\ Head(q) \in Tasks
  OBVIOUS
<1>2. st[Head(q)] = "sched"
  BY <1>1 DEF QueueMatches, Holds
<1>3. \A i \in 1 .. Len(p) : p[i] # Head(q)
  BY <1>1 DEF QueueMatches
<1>4. \A u \in Tasks : u # Head(q) => (Holds(p, u) <=> Holds(q, u))
  <2> SUFFICES ASSUME NEW u \in Tasks, u # Head(q) PROVE Holds(p, u) <=> Holds(q, u)
    OBVIOUS
  <2>1. Holds(p, u) => Holds(q, u)
    BY <1>1 DEF Holds
  <2>2. ASSUME NEW i \in 1 .. Len(q), q[i] = u PROVE Holds(p, u)
    <3>1. i - 1 \in 1 .. Len(p) /\ p[i - 1] = u
      BY <1>1, <2>2
    <3>2. QED
      BY <3>1 DEF Holds
  <2>3. QED
    BY <2>1, <2>2 DEF Holds
<1>5. \A i, j \in 1 .. Len(p) : p[i] = p[j] => i = j
  BY <1>1 DEF QueueMatches
<1>6. \A u \in Tasks : st2[u] = "sched" <=> Holds(p, u)
  BY <1>3, <1>4 DEF QueueMatches, Holds
<1>7. QED
  BY <1>1, <1>2, <1>5, <1>6 DEF QueueMatches

(* No task becomes or ceases to be scheduled.                              *)
LEMMA SameMatches ==
  ASSUME NEW q, NEW st, NEW st2, QueueMatches(q, st),
         \A u \in Tasks : st2[u] = "sched" <=> st[u] = "sched"
  PROVE  QueueMatches(q, st2)
BY DEF QueueMatches

-----------------------------------------------------------------------------
(* The inductive invariant: what a task's parts say of each other, and     *)
(* where the main thread can be while a request lives.                     *)

(* A task that has its future is in some state; a closed one is scheduled; *)
(* only the task being polled is running; all but cancelled tasks are      *)
(* still anchored.                                                         *)
TaskInv ==
  \A t \in Tasks :
    /\ state[t] # "none" <=> future[t] = "alive"
    /\ state[t] \in {"run", "rerun"} <=> cur = t
    /\ future[t] = "alive" /\ closed[t] => state[t] = "sched"
    /\ future[t] = "alive" /\ ~closed[t] => slot[t] = "some"
    /\ future[t] # "none" => pool[t[1]] # "new"
    /\ future[t] = "alive" /\ pool[t[1]] = "freed" => closed[t]

(* Nothing is polled while fini runs.                                      *)
FiniInv == FiniUsesLiveMemory /\ (fpc # "none" => cur = None)

SafetyInv == TypeOK /\ TaskInv /\ FiniInv /\ QueueMatches(queue, state)

(* The invariant holds initially.                                          *)
LEMMA InitSafety == Init => SafetyInv
<1> SUFFICES ASSUME Init PROVE SafetyInv
  OBVIOUS
<1> USE TaskFacts DEF Init
<1>1. TypeOK
  BY DEF TypeOK
<1>2. TaskInv
  BY DEF TaskInv
<1>3. FiniInv
  BY DEF FiniInv, FiniUsesLiveMemory
<1>4. QueueMatches(queue, state)
  BY DEF QueueMatches, Holds
<1>5. QED
  BY <1>1, <1>2, <1>3, <1>4 DEF SafetyInv

-----------------------------------------------------------------------------
(* The part of TypeOK about tasks; the rest is about how requests end.     *)
TaskTypes ==
  /\ pool \in [Requests -> {"new", "alive", "freed"}]
  /\ slot \in [Tasks -> {"none", "some", "taken"}]
  /\ state \in [Tasks -> {"none", "idle", "sched", "run", "rerun"}]
  /\ closed \in [Tasks -> BOOLEAN]
  /\ future \in [Tasks -> {"none", "alive", "dropped"}]
  /\ awaited \subseteq Requests
  /\ queue \in Seq(Tasks)
  /\ cur \in Tasks \cup {None}

TasksOK == TaskTypes /\ TaskInv /\ QueueMatches(queue, state)

EndTypes ==
  /\ finalized \subseteq Requests
  /\ posted \subseteq finalized
  /\ terminal \subseteq Requests
  /\ closing \subseteq Requests
  /\ fpc \in {"none", "finalize", "run_posted"}
  /\ freq \in Requests \cup {None}
  /\ fconn \in Requests \cup {None, Dangling}
  /\ fpc # "none" => freq \in Requests

(* The invariant splits into what is about tasks and what is about ends of *)
(* requests, so that each step disturbs one part.                          *)
LEMMA SafetyParts ==
  /\ SafetyInv <=> TasksOK /\ EndTypes /\ FiniInv
  /\ SafetyInv' <=> TasksOK' /\ EndTypes' /\ FiniInv'
BY DEF SafetyInv, TypeOK, TasksOK, TaskTypes, EndTypes

(* Spawning a task for a request that is alive.                            *)
LEMMA SpawnStep ==
  ASSUME TasksOK, NEW t \in Tasks, Spawn(t), UNCHANGED cur,
         pool' = [pool EXCEPT ![t[1]] = "alive"],
         pool[t[1]] # "freed"
  PROVE  TasksOK'
<1>1. /\ future[t] = "none" /\ state[t] = "none" /\ queue \in Seq(Tasks)
      /\ QueueMatches(queue, state)
  BY DEF Spawn, TaskInv, TasksOK, TaskTypes
<1>2. ASSUME slot' = [slot EXCEPT ![t] = "some"],
             state' = [state EXCEPT ![t] = "sched"],
             future' = [future EXCEPT ![t] = "alive"],
             queue' = Append(queue, t),
             UNCHANGED <<closed, awaited>>
      PROVE  TasksOK'
  <2>1. /\ state[t] # "sched" /\ state'[t] = "sched"
        /\ \A u \in Tasks : u # t => (state'[u] = "sched" <=> state[u] = "sched")
    BY <1>1, <1>2 DEF TasksOK, TaskTypes
  <2>2. Append(queue, t) \in Seq(Tasks) /\ QueueMatches(Append(queue, t), state')
    BY <1>1, <2>1, AppendMatches
  <2>3. TaskTypes'
    BY <1>2, <2>2, TaskFacts DEF TasksOK, TaskTypes
  <2>4. TaskInv'
    BY <1>1, <1>2, TaskFacts DEF TaskInv, TasksOK, TaskTypes
  <2>5. QED
    BY <1>2, <2>2, <2>3, <2>4 DEF TasksOK
<1>3. ASSUME closed' = [closed EXCEPT ![t] = TRUE],
             future' = [future EXCEPT ![t] = "dropped"],
             UNCHANGED <<slot, state, queue, awaited>>
      PROVE  TasksOK'
  <2>1. TaskTypes'
    BY <1>3, TaskFacts DEF TasksOK, TaskTypes
  <2>2. TaskInv'
    BY <1>1, <1>3, TaskFacts DEF TaskInv, TasksOK, TaskTypes
  <2>3. QED
    BY <1>1, <1>3, <2>1, <2>2 DEF TasksOK
<1>4. QED
  BY <1>2, <1>3 DEF Spawn

(* A task ends: polled to the end, or its runnable taken from the channel  *)
(* after it was closed.                                                    *)
LEMMA FinishStep ==
  ASSUME TasksOK, NEW t \in Tasks, NEW q, Finish(t, q), UNCHANGED pool,
         cur' = None,
         \/ cur = t /\ q = queue
         \/ cur = None /\ queue # <<>> /\ t = Head(queue) /\ q = Tail(queue)
  PROVE  TasksOK'
<1> DEFINE m == main(t[1])
           schedules == /\ t = sub(t[1]) /\ t[1] \in awaited
                        /\ state[m] = "idle" /\ ~closed[m]
           st == [state EXCEPT ![t] = "none"]
<1>1. /\ future' = [future EXCEPT ![t] = "dropped"]
      /\ state' = [state EXCEPT ![t] = "none",
                     ![m] = IF t = m THEN "none"
                            ELSE IF schedules THEN "sched" ELSE @]
      /\ queue' = IF schedules THEN Append(q, m) ELSE q
      /\ awaited' \subseteq awaited
      /\ UNCHANGED <<slot, closed>>
  BY DEF Finish
<1>2. m \in Tasks /\ (schedules => m # t) /\ None \notin Tasks
  BY TaskFacts
<1>3. /\ queue \in Seq(Tasks) /\ QueueMatches(queue, state)
      /\ state \in [Tasks -> {"none", "idle", "sched", "run", "rerun"}]
  BY DEF TasksOK, TaskTypes
<1>4. st[t] = "none" /\ \A u \in Tasks : u # t => st[u] = state[u]
  BY <1>3
<1>5. q \in Seq(Tasks) /\ QueueMatches(q, st)
  <2>1. CASE cur = t /\ q = queue
    <3>1. state[t] # "sched"
      BY <2>1 DEF TasksOK, TaskInv
    <3>2. \A u \in Tasks : st[u] = "sched" <=> state[u] = "sched"
      BY <1>4, <3>1
    <3>3. QueueMatches(queue, st)
      BY <1>3, <3>2, SameMatches
    <3>4. QED
      BY <1>3, <2>1, <3>3
  <2>2. CASE queue # <<>> /\ t = Head(queue) /\ q = Tail(queue)
    <3>1. /\ st[Head(queue)] # "sched"
          /\ \A u \in Tasks : u # Head(queue) =>
               (st[u] = "sched" <=> state[u] = "sched")
      BY <1>4, <2>2
    <3>2. Tail(queue) \in Seq(Tasks) /\ QueueMatches(Tail(queue), st)
      BY <1>3, <2>2, <3>1, TailMatches
    <3>3. QED
      BY <2>2, <3>2
  <2>3. QED
    BY <2>1, <2>2
<1>6. queue' \in Seq(Tasks) /\ QueueMatches(queue', state')
  <2>1. CASE schedules
    <3>1. /\ st[m] # "sched" /\ state'[m] = "sched"
          /\ \A u \in Tasks : u # m => (state'[u] = "sched" <=> st[u] = "sched")
      BY <1>1, <1>2, <1>3, <1>4, <2>1
    <3>2. Append(q, m) \in Seq(Tasks) /\ QueueMatches(Append(q, m), state')
      BY <1>2, <1>5, <3>1, AppendMatches
    <3>3. QED
      BY <1>1, <2>1, <3>2
  <2>2. CASE ~schedules
    <3>1. state' = st /\ queue' = q
      BY <1>1, <1>2, <1>3, <2>2
    <3>2. QED
      BY <1>5, <3>1
  <2>3. QED
    BY <2>1, <2>2
<1>7. TaskTypes'
  BY <1>1, <1>2, <1>6 DEF TasksOK, TaskTypes
<1>8. TaskInv'
  <2>1. \A u \in Tasks : u # t =>
          /\ future'[u] = future[u]
          /\ state'[u] = state[u] \/ (state[u] = "idle" /\ state'[u] = "sched"
                                        /\ ~closed[u])
    BY <1>1, <1>2 DEF TasksOK, TaskTypes
  <2>2. future'[t] = "dropped" /\ state'[t] = "none"
    BY <1>1, <1>2 DEF TasksOK, TaskTypes
  <2>3. cur' = None /\ \A u \in Tasks : u # t => cur # u
    BY <1>2 DEF TasksOK, TaskInv
  <2>4. future[t] = "alive"
    <3>1. CASE cur = t
      BY <3>1 DEF TasksOK, TaskInv
    <3>2. CASE queue # <<>> /\ t = Head(queue)
      <4>1. queue[1] = t /\ 1 \in 1 .. Len(queue)
        BY <1>3, <3>2
      <4>2. state[t] = "sched"
        BY <1>3, <4>1 DEF QueueMatches, Holds
      <4>3. QED
        BY <4>2 DEF TasksOK, TaskInv
    <3>3. QED
      BY <3>1, <3>2
  <2>5. \A u \in Tasks : pool'[u[1]] = pool[u[1]] /\ slot'[u] = slot[u]
                          /\ closed'[u] = closed[u] /\ cur' # u
    BY <1>1, <1>2
  <2>6. ASSUME NEW u \in Tasks PROVE TaskInv!(u)'
    <3>1. CASE u = t
      BY <2>2, <2>4, <2>5, <3>1 DEF TasksOK, TaskInv
    <3>2. CASE u # t
      BY <2>1, <2>3, <2>5, <3>2 DEF TasksOK, TaskInv
    <3>3. QED
      BY <3>1, <3>2
  <2>7. QED
    BY <2>6 DEF TaskInv
<1>9. QED
  BY <1>6, <1>7, <1>8 DEF TasksOK

(* The pool of a request is destroyed while nothing is polled.             *)
LEMMA DestroyStep ==
  ASSUME TasksOK, NEW r \in Requests, DestroyPool(r), cur = None, UNCHANGED cur
  PROVE  TasksOK'
<1> DEFINE idle(t) == t \in Anchored(r) /\ state[t] = "idle"
           s == sub(r)
           m == main(r)
           st == [state EXCEPT ![s] = IF idle(s) THEN "sched" ELSE @]
           q == queue \o (IF idle(s) THEN <<s>> ELSE <<>>)
<1>1. /\ pool' = [pool EXCEPT ![r] = "freed"]
      /\ closed' = [t \in Tasks |-> closed[t] \/ t \in Anchored(r)]
      /\ state' = [t \in Tasks |-> IF idle(t) THEN "sched" ELSE state[t]]
      /\ queue' = q \o (IF idle(m) THEN <<m>> ELSE <<>>)
      /\ UNCHANGED <<slot, future, awaited>>
  BY DEF DestroyPool
<1>2. /\ s \in Tasks /\ m \in Tasks /\ s # m
      /\ \A t \in Tasks : t[1] = r => t \in {s, m}
  BY TaskFacts
<1>3. \A t \in Tasks : t \in Anchored(r) <=>
        t[1] = r /\ slot[t] = "some" /\ future[t] = "alive"
  BY TaskFacts DEF Anchored, Cancellable
<1>4. \A t \in Tasks : idle(t) => t \in {s, m}
  BY <1>2, <1>3
<1>5. /\ queue \in Seq(Tasks) /\ QueueMatches(queue, state)
      /\ state \in [Tasks -> {"none", "idle", "sched", "run", "rerun"}]
  BY DEF TasksOK, TaskTypes
<1>6. /\ st[s] = IF idle(s) THEN "sched" ELSE state[s]
      /\ \A u \in Tasks : u # s => st[u] = state[u]
  BY <1>2, <1>5
<1>7. q \in Seq(Tasks) /\ QueueMatches(q, st)
  <2>1. CASE idle(s)
    <3>1. q = Append(queue, s)
      BY <1>2, <1>5, <2>1
    <3>2. /\ state[s] # "sched" /\ st[s] = "sched"
          /\ \A u \in Tasks : u # s => (st[u] = "sched" <=> state[u] = "sched")
      BY <1>6, <2>1
    <3>3. Append(queue, s) \in Seq(Tasks) /\ QueueMatches(Append(queue, s), st)
      BY <1>2, <1>5, <3>2, AppendMatches
    <3>4. QED
      BY <3>1, <3>3
  <2>2. CASE ~idle(s)
    <3>1. q = queue
      BY <1>5, <2>2
    <3>2. \A u \in Tasks : st[u] = "sched" <=> state[u] = "sched"
      BY <1>6, <2>2
    <3>3. QueueMatches(queue, st)
      BY <1>5, <3>2, SameMatches
    <3>4. QED
      BY <1>5, <3>1, <3>3
  <2>3. QED
    BY <2>1, <2>2
<1>8. queue' \in Seq(Tasks) /\ QueueMatches(queue', state')
  <2> HIDE DEF q, st
  <2>1. /\ \A u \in Tasks : u # m => (state'[u] = "sched" <=> st[u] = "sched")
        /\ state'[m] = "sched" <=> idle(m) \/ st[m] = "sched"
    BY <1>1, <1>2, <1>4, <1>6
  <2>2. CASE idle(m)
    <3>1. queue' = Append(q, m)
      BY <1>1, <1>2, <1>7, <2>2
    <3>2. st[m] # "sched" /\ state'[m] = "sched"
      BY <1>2, <1>6, <2>1, <2>2
    <3>3. Append(q, m) \in Seq(Tasks) /\ QueueMatches(Append(q, m), state')
      BY <1>2, <1>7, <2>1, <3>2, AppendMatches
    <3>4. QED
      BY <3>1, <3>3
  <2>3. CASE ~idle(m)
    <3>1. queue' = q
      BY <1>1, <1>7, <2>3
    <3>2. \A u \in Tasks : state'[u] = "sched" <=> st[u] = "sched"
      BY <2>1, <2>3
    <3>3. QueueMatches(q, state')
      BY <1>7, <3>2, SameMatches
    <3>4. QED
      BY <1>7, <3>1, <3>3
  <2>4. QED
    BY <2>2, <2>3
<1>9. TaskTypes'
  BY <1>1, <1>8 DEF TasksOK, TaskTypes
<1>10. TaskInv'
  <2>1. \A u \in Tasks :
          /\ closed'[u] <=> closed[u] \/ u \in Anchored(r)
          /\ state'[u] = IF u \in Anchored(r) /\ state[u] = "idle"
                           THEN "sched" ELSE state[u]
          /\ pool'[u[1]] = IF u[1] = r THEN "freed" ELSE pool[u[1]]
    BY <1>1, TaskFacts DEF TasksOK, TaskTypes
  <2>2. QED
    BY <1>1, <1>3, <1>5, <2>1, TaskFacts DEF TasksOK, TaskInv
<1>11. QED
  BY <1>8, <1>9, <1>10 DEF TasksOK

-----------------------------------------------------------------------------
(* A waker of a task is used.                                              *)
LEMMA WakeStep ==
  ASSUME TasksOK, NEW t \in Tasks, Wake(t)
  PROVE  TasksOK'
<1>1. /\ queue \in Seq(Tasks) /\ QueueMatches(queue, state)
      /\ state \in [Tasks -> {"none", "idle", "sched", "run", "rerun"}]
  BY DEF TasksOK, TaskTypes
<1>2. UNCHANGED <<pool, slot, closed, future, awaited, cur>>
  BY DEF Wake
<1>3. CASE state[t] = "idle" /\ state' = [state EXCEPT ![t] = "sched"]
           /\ queue' = Append(queue, t)
  <2>1. /\ state[t] # "sched" /\ state'[t] = "sched"
        /\ \A u \in Tasks : u # t => (state'[u] = "sched" <=> state[u] = "sched")
    BY <1>1, <1>3
  <2>2. Append(queue, t) \in Seq(Tasks) /\ QueueMatches(Append(queue, t), state')
    BY <1>1, <2>1, AppendMatches
  <2>3. TaskTypes'
    BY <1>2, <1>3, <2>2 DEF TasksOK, TaskTypes
  <2>4. TaskInv'
    BY <1>1, <1>2, <1>3 DEF TasksOK, TaskInv
  <2>5. QED
    BY <1>3, <2>2, <2>3, <2>4 DEF TasksOK
<1>4. CASE state[t] = "run" /\ state' = [state EXCEPT ![t] = "rerun"]
           /\ UNCHANGED queue
  <2>1. \A u \in Tasks : state'[u] = "sched" <=> state[u] = "sched"
    BY <1>1, <1>4
  <2>2. QueueMatches(queue, state')
    BY <1>1, <2>1, SameMatches
  <2>3. TaskTypes'
    BY <1>2, <1>4 DEF TasksOK, TaskTypes
  <2>4. TaskInv'
    BY <1>1, <1>2, <1>4 DEF TasksOK, TaskInv
  <2>5. QED
    BY <1>4, <2>2, <2>3, <2>4 DEF TasksOK
<1>5. QED
  BY <1>3, <1>4 DEF Wake

(* A task that is not closed is polled; its request is alive.              *)
LEMMA RunStep ==
  ASSUME TasksOK, RunTask
  PROVE  TasksOK'
<1> DEFINE t == Head(queue)
<1>1. /\ queue \in Seq(Tasks) /\ QueueMatches(queue, state) /\ queue # <<>>
      /\ state \in [Tasks -> {"none", "idle", "sched", "run", "rerun"}]
  BY DEF TasksOK, TaskTypes, RunTask
<1>2. /\ ~closed[t] /\ cur = None /\ cur' = t
      /\ state' = [state EXCEPT ![t] = "run"]
      /\ queue' = Tail(queue)
      /\ UNCHANGED <<pool, slot, closed, future, awaited>>
  BY DEF RunTask, InLoop
<1>3. t \in Tasks
  BY <1>1
<1>4. /\ state'[Head(queue)] # "sched"
      /\ \A u \in Tasks : u # Head(queue) =>
           (state'[u] = "sched" <=> state[u] = "sched")
  BY <1>1, <1>2, <1>3
<1>5. /\ state[Head(queue)] = "sched"
      /\ Tail(queue) \in Seq(Tasks) /\ QueueMatches(Tail(queue), state')
  BY <1>1, <1>4, TailMatches
<1> HIDE DEF t
<1>6. TaskTypes'
  BY <1>2, <1>3, <1>5 DEF TasksOK, TaskTypes
<1>7. TaskInv'
  <2>1. state[t] = "sched" /\ future[t] = "alive" /\ pool[t[1]] # "freed"
    BY <1>2, <1>3, <1>5 DEF t, TasksOK, TaskInv
  <2>2. ASSUME NEW u \in Tasks PROVE TaskInv!(u)'
    <3>1. CASE u = t
      BY <1>1, <1>2, <2>1, <3>1 DEF TasksOK, TaskInv
    <3>2. CASE u # t
      BY <1>1, <1>2, <1>3, <3>2, TaskFacts DEF TasksOK, TaskInv
    <3>3. QED
      BY <3>1, <3>2
  <2>3. QED
    BY <2>2 DEF TaskInv
<1>8. QED
  BY <1>2, <1>5, <1>6, <1>7 DEF TasksOK

(* cancel() closes the subtask, and schedules it if it has no runnable.    *)
LEMMA CancelStep ==
  ASSUME TasksOK, NEW r \in Requests, Cancel(r)
  PROVE  TasksOK'
<1> DEFINE t == sub(r)
<1>1. /\ queue \in Seq(Tasks) /\ QueueMatches(queue, state)
      /\ state \in [Tasks -> {"none", "idle", "sched", "run", "rerun"}]
  BY DEF TasksOK, TaskTypes
<1>2. /\ slot' = [slot EXCEPT ![t] = "taken"]
      /\ closed' = [closed EXCEPT ![t] = @ \/ future[t] = "alive"]
      /\ state' = [state EXCEPT ![t] = IF @ = "idle" THEN "sched" ELSE @]
      /\ queue' = IF state[t] = "idle" THEN Append(queue, t) ELSE queue
      /\ cur = main(r)
      /\ UNCHANGED <<pool, future, awaited, cur>>
  BY DEF Cancel, Cancellable
<1>3. t \in Tasks /\ cur # t
  BY <1>2, TaskFacts
<1> HIDE DEF t
<1>4. queue' \in Seq(Tasks) /\ QueueMatches(queue', state')
  <2>1. CASE state[t] = "idle"
    <3>1. /\ state[t] # "sched" /\ state'[t] = "sched"
          /\ \A u \in Tasks : u # t => (state'[u] = "sched" <=> state[u] = "sched")
      BY <1>1, <1>2, <1>3, <2>1
    <3>2. Append(queue, t) \in Seq(Tasks) /\ QueueMatches(Append(queue, t), state')
      BY <1>1, <1>3, <3>1, AppendMatches
    <3>3. QED
      BY <1>2, <2>1, <3>2
  <2>2. CASE state[t] # "idle"
    <3>1. state' = state
      BY <1>1, <1>2, <1>3, <2>2
    <3>2. QED
      BY <1>1, <1>2, <2>2, <3>1
  <2>3. QED
    BY <2>1, <2>2
<1>5. TaskTypes'
  BY <1>2, <1>3, <1>4 DEF TasksOK, TaskTypes
<1>6. TaskInv'
  BY <1>1, <1>2, <1>3 DEF TasksOK, TaskTypes, TaskInv
<1>7. QED
  BY <1>4, <1>5, <1>6 DEF TasksOK

(* A poll returns Pending.                                                 *)
LEMMA PendingStep ==
  ASSUME TasksOK, NEW t \in Tasks, ReturnPending(t), awaited' \subseteq Requests
  PROVE  TasksOK'
<1>1. /\ queue \in Seq(Tasks) /\ QueueMatches(queue, state)
      /\ state \in [Tasks -> {"none", "idle", "sched", "run", "rerun"}]
  BY DEF TasksOK, TaskTypes
<1>2. /\ cur = t /\ cur' = None
      /\ state' = [state EXCEPT ![t] = IF @ = "rerun" THEN "sched" ELSE "idle"]
      /\ queue' = IF state[t] = "rerun" THEN Append(queue, t) ELSE queue
      /\ UNCHANGED <<pool, slot, closed, future>>
  BY DEF ReturnPending
<1>3. state[t] \in {"run", "rerun"}
  BY <1>2 DEF TasksOK, TaskInv
<1>4. queue' \in Seq(Tasks) /\ QueueMatches(queue', state')
  <2>1. CASE state[t] = "rerun"
    <3>1. /\ state[t] # "sched" /\ state'[t] = "sched"
          /\ \A u \in Tasks : u # t => (state'[u] = "sched" <=> state[u] = "sched")
      BY <1>1, <1>2, <2>1
    <3>2. Append(queue, t) \in Seq(Tasks) /\ QueueMatches(Append(queue, t), state')
      BY <1>1, <3>1, AppendMatches
    <3>3. QED
      BY <1>2, <2>1, <3>2
  <2>2. CASE state[t] = "run"
    <3>1. \A u \in Tasks : state'[u] = "sched" <=> state[u] = "sched"
      BY <1>1, <1>2, <2>2
    <3>2. QueueMatches(queue, state')
      BY <1>1, <3>1, SameMatches
    <3>3. QED
      BY <1>1, <1>2, <2>2, <3>2
  <2>3. QED
    BY <1>3, <2>1, <2>2
<1>5. TaskTypes'
  BY <1>2, <1>4 DEF TasksOK, TaskTypes
<1>6. TaskInv'
  BY <1>1, <1>2, <1>3, TaskFacts DEF TasksOK, TaskInv
<1>7. QED
  BY <1>4, <1>5, <1>6 DEF TasksOK

-----------------------------------------------------------------------------
(* Every step preserves the invariant.                                     *)
LEMMA StepSafety == SafetyInv /\ [Next]_vars => SafetyInv'
<1> SUFFICES ASSUME SafetyInv, [Next]_vars
             PROVE  SafetyInv'
  OBVIOUS
<1> SUFFICES ASSUME TasksOK, EndTypes, FiniInv
             PROVE  TasksOK' /\ EndTypes' /\ FiniInv'
  BY SafetyParts
<1> USE DEF FiniInv, FiniUsesLiveMemory
<1>0. /\ pool \in [Requests -> {"new", "alive", "freed"}]
      /\ cur # None => cur \in Tasks /\ pool[cur[1]] = "alive"
      /\ None \notin Requests /\ Dangling \notin Requests /\ Dangling # None
  <2>1. ASSUME cur # None PROVE cur \in Tasks /\ pool[cur[1]] = "alive"
    <3>1. cur \in Tasks /\ cur[1] \in Requests
      BY <2>1, TaskFacts DEF TasksOK, TaskTypes
    <3>2. QED
      BY <3>1 DEF TasksOK, TaskTypes, TaskInv
  <2>2. QED
    BY <2>1, TaskFacts DEF TasksOK, TaskTypes
<1>1. ASSUME NEW r \in Requests, DestroyPool(r), cur = None, UNCHANGED cur
      PROVE  /\ TasksOK'
             /\ pool' = [pool EXCEPT ![r] = "freed"]
             /\ posted' = posted \ {r} /\ terminal' = terminal \ {r}
             /\ closing' = closing \ {r} /\ UNCHANGED finalized
             /\ \A q \in posted' \cup terminal' \cup closing' : pool'[q] = "alive"
  <2>1. TasksOK'
    BY <1>1, DestroyStep
  <2>2. /\ pool' = [pool EXCEPT ![r] = "freed"]
        /\ posted' = posted \ {r} /\ terminal' = terminal \ {r}
        /\ closing' = closing \ {r} /\ UNCHANGED finalized
    BY <1>1 DEF DestroyPool
  <2>3. posted \cup terminal \cup closing \subseteq Requests
    BY DEF EndTypes
  <2>4. QED
    BY <1>0, <2>1, <2>2, <2>3
<1>2. ASSUME UNCHANGED <<pool, taskVars, queue, cur>>
      PROVE  TasksOK'
  BY <1>2 DEF taskVars, TasksOK, TaskTypes, TaskInv
<1>3. ASSUME NEW r \in Requests, Handler(r)
      PROVE  TasksOK' /\ EndTypes' /\ FiniInv'
  <2>1. TasksOK'
    BY <1>3, SpawnStep, TaskFacts DEF Handler
  <2>2. QED
    BY <1>0, <1>3, <2>1 DEF Handler, EndTypes, finiVars
<1>4. ASSUME NEW r \in Requests, Teardown(r) \/ ResponseSent(r)
      PROVE  TasksOK' /\ EndTypes' /\ FiniInv'
  BY <1>0, <1>1, <1>4 DEF Teardown, ResponseSent, InLoop, EndTypes, finiVars
<1>5. ASSUME NEW r \in Requests, fini(r)
      PROVE  TasksOK' /\ EndTypes' /\ FiniInv'
  BY <1>0, <1>2, <1>5 DEF fini, InLoop, Connection, EndTypes
<1>6. ASSUME NEW t \in Tasks, Wake(t)
      PROVE  TasksOK' /\ EndTypes' /\ FiniInv'
  BY <1>6, WakeStep DEF Wake, EndTypes, finiVars
<1>7. CASE RunClosed
  <2>1. Head(queue) \in Tasks /\ queue # <<>> /\ cur = None
    BY <1>7 DEF RunClosed, InLoop, TasksOK, TaskTypes
  <2>2. TasksOK'
    BY <1>7, <2>1, FinishStep DEF RunClosed
  <2>3. QED
    BY <1>7, <2>2 DEF RunClosed, EndTypes, finiVars
<1>8. CASE RunTask
  BY <1>8, RunStep DEF RunTask, InLoop, EndTypes, finiVars
<1>9. ASSUME NEW r \in Requests, SpawnSub(r)
      PROVE  TasksOK' /\ EndTypes' /\ FiniInv'
  <2>1. pool[r] = "alive" /\ sub(r) \in Tasks /\ sub(r)[1] = r
    BY <1>0, <1>9, TaskFacts DEF SpawnSub
  <2>2. pool' = [pool EXCEPT ![r] = "alive"]
    BY <1>0, <1>9, <2>1 DEF SpawnSub
  <2>3. TasksOK'
    BY <1>9, <2>1, <2>2, SpawnStep DEF SpawnSub
  <2>4. QED
    BY <1>9, <2>3 DEF SpawnSub, EndTypes, finiVars
<1>10. ASSUME NEW r \in Requests, Cancel(r)
       PROVE  TasksOK' /\ EndTypes' /\ FiniInv'
  BY <1>10, CancelStep DEF Cancel, EndTypes, finiVars
<1>11. ASSUME NEW t \in Tasks, ReturnPending(t), awaited' \subseteq Requests
       PROVE  TasksOK' /\ EndTypes' /\ FiniInv'
  BY <1>11, PendingStep DEF ReturnPending, EndTypes, finiVars
<1>12. ASSUME NEW r \in Requests, Await(r)
       PROVE  TasksOK' /\ EndTypes' /\ FiniInv'
  <2>1. awaited' \subseteq Requests /\ main(r) \in Tasks /\ ReturnPending(main(r))
    BY <1>12, TaskFacts DEF Await, TasksOK, TaskTypes
  <2>2. QED
    BY <1>11, <2>1
<1>13. ASSUME NEW t \in Tasks, PollPending(t)
       PROVE  TasksOK' /\ EndTypes' /\ FiniInv'
  BY <1>11, <1>13 DEF PollPending, TasksOK, TaskTypes
<1>14. ASSUME NEW t \in Tasks, PollReady(t)
       PROVE  TasksOK' /\ EndTypes' /\ FiniInv'
  BY <1>14, FinishStep DEF PollReady, EndTypes, finiVars
<1>15. ASSUME NEW t \in Tasks, finalize_request(t)
       PROVE  TasksOK' /\ EndTypes' /\ FiniInv'
  BY <1>0, <1>2, <1>15, TaskFacts DEF finalize_request, EndTypes, finiVars
<1>16. CASE FiniFinalize
  <2>1. freq \in Requests /\ cur = None /\ UNCHANGED cur /\ pool[freq] = "alive"
    BY <1>16 DEF FiniFinalize, EndTypes
  <2>2. CASE DestroyPool(freq)
    BY <1>1, <1>16, <2>1, <2>2 DEF FiniFinalize, EndTypes
  <2>3. CASE /\ terminal' \subseteq terminal \cup {freq}
             /\ closing' \subseteq closing \cup {freq}
             /\ UNCHANGED <<pool, taskVars, queue, finalized, posted>>
    <3>1. fpc' = "run_posted" /\ UNCHANGED <<cur, freq, fconn>>
      BY <1>16 DEF FiniFinalize
    <3>2. TasksOK'
      BY <1>2, <2>3, <3>1
    <3>3. EndTypes'
      BY <2>1, <2>3, <3>1 DEF EndTypes
    <3>4. FiniInv'
      BY <2>1, <2>3, <3>1
    <3>5. QED
      BY <3>2, <3>3, <3>4
  <2>4. QED
    BY <1>16, <2>2, <2>3 DEF FiniFinalize
<1>17. CASE FiniRunPosted
  <2>1. cur = None /\ UNCHANGED cur
    BY <1>17 DEF FiniRunPosted
  <2>2. CASE fconn \in terminal /\ DestroyPool(fconn)
    <3>1. fconn \in Requests
      BY <2>2 DEF EndTypes
    <3>2. QED
      BY <1>0, <1>1, <1>17, <2>1, <2>2, <3>1 DEF FiniRunPosted, EndTypes
  <2>3. CASE UNCHANGED <<pool, taskVars, queue, finalized, posted, terminal,
                         closing>>
    BY <1>0, <1>2, <1>17, <2>1, <2>3 DEF FiniRunPosted, EndTypes
  <2>4. QED
    BY <1>17, <2>2, <2>3 DEF FiniRunPosted
<1>18. CASE UNCHANGED vars
  BY <1>2, <1>18 DEF vars, EndTypes, finiVars
<1>19. ASSUME NEW r \in Requests, NEW t \in tasksOf(r) PROVE t \in Tasks
  BY <1>19, TaskFacts
<1>20. QED
  BY <1>3, <1>4, <1>5, <1>6, <1>7, <1>8, <1>9, <1>10, <1>12, <1>13, <1>14,
     <1>15, <1>16, <1>17, <1>18, <1>19 DEF Next, Run, Poll

(* The invariant holds always.                                             *)
LEMMA Safety == Spec => []SafetyInv
BY InitSafety, StepSafety, PTL DEF Spec

-----------------------------------------------------------------------------
(* Type correctness.                                                       *)
THEOREM RequestTypeCorrect == Spec => []TypeOK
BY Safety, PTL DEF SafetyInv

(* A future is polled only while its request is alive, whatever order      *)
(* nginx, fini, cancel() and the wakers of other threads come in.          *)
THEOREM RequestPollsOnLiveRequest == Spec => []PollsOnLiveRequest
<1>1. SafetyInv => PollsOnLiveRequest
  <2> SUFFICES ASSUME SafetyInv, cur # None PROVE pool[cur[1]] = "alive"
    BY DEF PollsOnLiveRequest
  <2>1. cur \in Tasks /\ cur[1] \in Requests
    BY TaskFacts DEF SafetyInv, TypeOK
  <2>2. QED
    BY <2>1 DEF SafetyInv, TypeOK, TaskInv
<1>2. QED
  BY <1>1, Safety, PTL

(* A task that outlives its request is closed and has a runnable, so its   *)
(* future is dropped, and never polled again.                              *)
THEOREM RequestTornDownTasksClosed == Spec => []TornDownTasksClosed
<1>1. SafetyInv => TornDownTasksClosed
  <2> SUFFICES ASSUME SafetyInv, NEW r \in Requests, pool[r] = "freed",
                      NEW t \in tasksOf(r), future[t] = "alive"
               PROVE  closed[t] /\ \E i \in DOMAIN queue : queue[i] = t
    BY DEF TornDownTasksClosed
  <2>1. t \in Tasks /\ t[1] = r
    BY TaskFacts
  <2>2. closed[t] /\ state[t] = "sched"
    BY <2>1 DEF SafetyInv, TaskInv
  <2>3. DOMAIN queue = 1 .. Len(queue)
    BY DEF SafetyInv, TypeOK
  <2>4. QED
    BY <2>1, <2>2, <2>3 DEF SafetyInv, QueueMatches, Holds
<1>2. QED
  BY <1>1, Safety, PTL

(* fini never touches a freed request, and no pool is destroyed twice.     *)
THEOREM RequestFiniUsesLiveMemory == Spec => []FiniUsesLiveMemory
BY Safety, PTL DEF SafetyInv, FiniInv

-----------------------------------------------------------------------------
(* The safety half of CancelReturns: a main task that awaits the subtask   *)
(* it cancelled has the subtask's last runnable in the channel, and with   *)
(* it its own wake (spawn.rs:243-247).                                     *)
CancelInFlight ==
  \A r \in awaited : slot[sub(r)] = "taken" =>
    closed[sub(r)] /\ \E i \in 1 .. Len(queue) : queue[i] = sub(r)

(* How awaited and futures change together.                                *)
AwaitInv == \A r \in awaited : future[sub(r)] = "alive"

(* A task that is spawned was awaited by nobody.                           *)
LEMMA SpawnAwait ==
  ASSUME TypeOK, AwaitInv, NEW t \in Tasks, Spawn(t)
  PROVE  AwaitInv'
BY TaskFacts DEF TypeOK, AwaitInv, Spawn

(* A subtask that ends is no longer awaited.                               *)
LEMMA FinishAwait ==
  ASSUME TypeOK, AwaitInv, NEW t \in Tasks, NEW q, Finish(t, q)
  PROVE  AwaitInv'
<1>1. /\ future' = [future EXCEPT ![t] = "dropped"]
      /\ awaited' \subseteq awaited
      /\ t = sub(t[1]) => t[1] \notin awaited'
  BY DEF Finish
<1>2. ASSUME NEW r \in awaited' PROVE future'[sub(r)] = "alive"
  <2>1. r \in Requests /\ sub(r) \in Tasks /\ sub(r)[1] = r /\ future[sub(r)] = "alive"
    BY <1>1, <1>2, TaskFacts DEF TypeOK, AwaitInv
  <2>2. sub(r) # t
    BY <1>1, <1>2, <2>1
  <2>3. QED
    BY <1>1, <2>1, <2>2 DEF TypeOK
<1>3. QED
  BY <1>2 DEF AwaitInv

(* Every step keeps awaited subtasks alive.                                *)
LEMMA StepAwait == SafetyInv /\ AwaitInv /\ [Next]_vars => AwaitInv'
<1> SUFFICES ASSUME TypeOK, AwaitInv, [Next]_vars PROVE AwaitInv'
  BY DEF SafetyInv
<1>1. ASSUME UNCHANGED <<future, awaited>> PROVE AwaitInv'
  BY <1>1 DEF AwaitInv
<1>2. ASSUME NEW r \in Requests, Handler(r) PROVE AwaitInv'
  BY <1>2, SpawnAwait, TaskFacts DEF Handler
<1>3. ASSUME NEW r \in Requests, SpawnSub(r) PROVE AwaitInv'
  BY <1>3, SpawnAwait, TaskFacts DEF SpawnSub
<1>4. ASSUME NEW r \in Requests, Teardown(r) \/ ResponseSent(r) \/ fini(r) \/ Cancel(r)
      PROVE  AwaitInv'
  BY <1>1, <1>4 DEF Teardown, ResponseSent, DestroyPool, fini, taskVars, Cancel
<1>5. ASSUME NEW t \in Tasks, Wake(t) \/ PollPending(t) \/ finalize_request(t)
      PROVE  AwaitInv'
  BY <1>1, <1>5 DEF Wake, PollPending, ReturnPending, finalize_request, taskVars
<1>6. CASE RunClosed
  <2>1. Head(queue) \in Tasks
    BY <1>6 DEF RunClosed, TypeOK
  <2>2. QED
    BY <1>6, <2>1, FinishAwait DEF RunClosed
<1>7. CASE RunTask
  BY <1>1, <1>7 DEF RunTask
<1>8. ASSUME NEW r \in Requests, Await(r) PROVE AwaitInv'
  BY <1>8 DEF Await, ReturnPending, AwaitInv
<1>9. ASSUME NEW t \in Tasks, PollReady(t) PROVE AwaitInv'
  BY <1>9, FinishAwait DEF PollReady
<1>10. CASE FiniFinalize \/ FiniRunPosted
  BY <1>1, <1>10 DEF FiniFinalize, FiniRunPosted, DestroyPool, taskVars
<1>11. CASE UNCHANGED vars
  BY <1>1, <1>11 DEF vars, taskVars
<1>12. ASSUME NEW r \in Requests, NEW t \in tasksOf(r) PROVE t \in Tasks
  BY <1>12, TaskFacts
<1>13. QED
  BY <1>2, <1>3, <1>4, <1>5, <1>6, <1>7, <1>8, <1>9, <1>10, <1>11, <1>12
  DEF Next, Run, Poll

(* No main task waits for a cancelled subtask that nobody will run: until  *)
(* the await ends, the runnable that ends it is in the channel.            *)
THEOREM RequestCancelInFlight == Spec => []CancelInFlight
<1>1. Init => AwaitInv
  BY DEF Init, AwaitInv
<1>2. SafetyInv /\ AwaitInv => CancelInFlight
  <2> SUFFICES ASSUME SafetyInv, AwaitInv, NEW r \in awaited, slot[sub(r)] = "taken"
               PROVE  closed[sub(r)] /\ \E i \in 1 .. Len(queue) : queue[i] = sub(r)
    BY DEF CancelInFlight
  <2>1. sub(r) \in Tasks /\ future[sub(r)] = "alive"
    BY TaskFacts DEF SafetyInv, TypeOK, AwaitInv
  <2>2. closed[sub(r)] /\ state[sub(r)] = "sched"
    BY <2>1 DEF SafetyInv, TypeOK, TaskInv
  <2>3. QED
    BY <2>1, <2>2 DEF SafetyInv, QueueMatches, Holds
<1>3. QED
  BY <1>1, <1>2, StepAwait, Safety, PTL DEF Spec

-----------------------------------------------------------------------------
(* Where a request is between finalize_request and its end: fini has the   *)
(* connection of the request it finalizes, and a terminate handler is      *)
(* posted only while fini is about to run it.                              *)
FlightInv ==
  /\ FinalizationInFlight
  /\ fpc # "none" => fconn = freq
  /\ \A r \in terminal : fpc = "run_posted" /\ freq = r

(* Every step keeps finalized requests in flight.                          *)
LEMMA StepFlight == SafetyInv /\ FlightInv /\ [Next]_vars => FlightInv'
<1> SUFFICES ASSUME TypeOK, FiniInv, FlightInv, [Next]_vars PROVE FlightInv'
  BY DEF SafetyInv
<1> USE DEF FlightInv, FinalizationInFlight
<1>1. ASSUME UNCHANGED <<finalized, posted, terminal, closing, finiVars>>,
             \A r \in Requests : pool[r] = "freed" => pool'[r] = "freed"
      PROVE  FlightInv'
  BY <1>1 DEF finiVars, TypeOK
<1>2. ASSUME NEW r \in Requests, Handler(r) PROVE FlightInv'
  BY <1>1, <1>2 DEF Handler, TypeOK
<1>3. ASSUME NEW r \in Requests, DestroyPool(r)
      PROVE  /\ pool' = [pool EXCEPT ![r] = "freed"]
             /\ posted' = posted \ {r} /\ terminal' = terminal \ {r}
             /\ closing' = closing \ {r} /\ UNCHANGED finalized
  BY <1>3 DEF DestroyPool
<1>4. ASSUME NEW r \in Requests, Teardown(r) \/ ResponseSent(r) PROVE FlightInv'
  BY <1>3, <1>4 DEF Teardown, ResponseSent, InLoop, finiVars, TypeOK
<1>5. ASSUME NEW r \in Requests, fini(r) PROVE FlightInv'
  BY <1>5 DEF fini, InLoop, Connection, FiniInv, FiniUsesLiveMemory, TypeOK
<1>6. ASSUME NEW t \in Tasks, finalize_request(t) PROVE FlightInv'
  BY <1>6 DEF finalize_request, finiVars
<1>7. CASE FiniFinalize
  <2>1. fpc = "finalize" /\ freq \in Requests /\ fconn = freq /\ terminal = {}
    BY <1>7 DEF FiniFinalize, TypeOK
  <2>2. fpc' = "run_posted" /\ UNCHANGED <<freq, fconn>>
    BY <1>7 DEF FiniFinalize
  <2>3. CASE DestroyPool(freq)
    BY <1>3, <2>1, <2>2, <2>3 DEF TypeOK
  <2>4. QED
    BY <1>7, <2>1, <2>2, <2>3 DEF FiniFinalize
<1>8. CASE FiniRunPosted
  <2>1. fpc' = "none" /\ fconn = freq /\ freq \in Requests /\ terminal \subseteq {freq}
    BY <1>8 DEF FiniRunPosted, TypeOK
  <2>2. CASE DestroyPool(fconn)
    BY <1>3, <1>8, <2>1, <2>2 DEF FiniRunPosted, TypeOK
  <2>3. QED
    BY <1>8, <2>1, <2>2 DEF FiniRunPosted
<1>9. CASE \/ \E t \in Tasks : Wake(t) \/ PollPending(t) \/ PollReady(t)
           \/ \E r \in Requests : SpawnSub(r) \/ Cancel(r) \/ Await(r)
           \/ Run \/ UNCHANGED vars
  <2>1. UNCHANGED <<pool, finalized, posted, terminal, closing, finiVars>>
    BY <1>9 DEF Wake, PollPending, PollReady, SpawnSub, Cancel, Await,
                ReturnPending, Run, RunClosed, RunTask, vars
  <2>2. QED
    BY <1>1, <2>1
<1>10. ASSUME NEW r \in Requests, NEW t \in tasksOf(r) PROVE t \in Tasks
  BY <1>10, TaskFacts
<1>11. QED
  BY <1>2, <1>4, <1>5, <1>6, <1>7, <1>8, <1>9, <1>10 DEF Next, Poll

(* A finalized request is always freed, or on its way to it: in            *)
(* ngx_posted_events, in fini, or with nginx, which has its response to    *)
(* send.                                                                   *)
THEOREM RequestFinalizationInFlight == Spec => []FinalizationInFlight
<1>1. Init => FlightInv
  BY DEF Init, FlightInv, FinalizationInFlight
<1>2. FlightInv => FinalizationInFlight
  BY DEF FlightInv
<1>3. QED
  BY <1>1, <1>2, StepFlight, Safety, PTL DEF Spec
=============================================================================
