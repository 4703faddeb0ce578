----------------------------- MODULE WorkerProofs -----------------------------
(***************************************************************************)
(* Proofs about Worker for any number of processes and threads, with and   *)
(* without modules that misuse init(): which event loop a process signals, *)
(* and that nothing that was queued is lost in silence.                    *)
(***************************************************************************)
EXTENDS Worker, TLAPS

(* Only processes that may call init() have set the OnceLock, are about to *)
(* or have an unread signal; whoever opened a descriptor has its own in    *)
(* CTX.                                                                    *)
InitInv ==
  \A p \in Processes :
    /\ kind[p] \in {"master", "helper"} => ~INIT[p] /\ ipc[p] = "idle"
    /\ Live(p) /\ (INIT[p] \/ ipc[p] = "opened") => ctx_fd[p] = p
    /\ p \in readable => kind[p] \in {"single", "worker"}

(* A set TICKLED has its signal written, or a thread on its way to write   *)
(* it.                                                                     *)
TickledInv ==
  \A p \in Processes : Live(p) /\ TICKLED[p] =>
    p \in readable \/ \E th \in Threads : tpc[p][th] = "tickle"

WorkerInv == TypeOK /\ InitInv /\ TickledInv /\ NoSilentLoss

(* The invariant holds initially.                                          *)
LEMMA InitWorker == Init => WorkerInv
<1> SUFFICES ASSUME Init PROVE WorkerInv
  OBVIOUS
<1> USE RootAssumption, ThreadsAssumption DEF Init, Idle, Live
<1>1. TypeOK
  BY DEF TypeOK, Kinds
<1>2. InitInv
  BY DEF InitInv
<1>3. TickledInv /\ NoSilentLoss
  BY DEF TickledInv, NoSilentLoss
<1>4. QED
  BY <1>1, <1>2, <1>3 DEF WorkerInv

(* An aborted process is not alive any more.                               *)
LEMMA AbortStep ==
  ASSUME WorkerInv, NEW p \in Processes, Abort(p),
         started' \in [Processes -> BOOLEAN]
  PROVE  WorkerInv'
<1> USE DEF WorkerInv
<1>1. /\ kind' = [kind EXCEPT ![p] = "aborted"] /\ readable' = readable \ {p}
      /\ UNCHANGED <<ipc, INIT, ctx_fd, TICKLED, queued, tpc>>
  BY DEF Abort
<1>2. TypeOK'
  BY <1>1 DEF TypeOK, Kinds
<1>3. ~Live(p)' /\ \A q \in Processes : q # p => (Live(q)' <=> Live(q))
                                            /\ kind'[q] = kind[q]
  BY <1>1 DEF Live, TypeOK
<1>4. InitInv'
  BY <1>1, <1>3 DEF InitInv, TypeOK
<1>5. TickledInv' /\ NoSilentLoss'
  BY <1>1, <1>3 DEF TickledInv, NoSilentLoss
<1>6. QED
  BY <1>2, <1>4, <1>5

(* init(), called from init_process or from anywhere else.                 *)
LEMMA InitCallStep ==
  ASSUME WorkerInv, NEW p \in Processes, init(p),
         started' \in [Processes -> BOOLEAN]
  PROVE  WorkerInv'
<1> USE DEF WorkerInv
<1>1. CASE Abort(p)
  BY <1>1, AbortStep
<1>2. CASE kind[p] \in {"single", "worker"} /\ notify_init(p)
  <2>1. /\ UNCHANGED <<kind, INIT, TICKLED, queued, tpc, readable>>
        /\ \/ UNCHANGED <<ipc, ctx_fd>>
           \/ /\ ipc' = [ipc EXCEPT ![p] = "opened"]
              /\ ctx_fd' = [ctx_fd EXCEPT ![p] = p]
    BY <1>2 DEF notify_init
  <2>2. TypeOK'
    <3>1. ipc' \in [Processes -> {"idle", "opened"}]
      BY <2>1 DEF TypeOK
    <3>2. ctx_fd' \in [Processes -> Processes \cup {None}]
      BY <2>1 DEF TypeOK
    <3>3. QED
      BY <2>1, <3>1, <3>2 DEF TypeOK
  <2>3. InitInv'
    BY <1>2, <2>1 DEF InitInv, Live, TypeOK
  <2>4. TickledInv' /\ NoSilentLoss'
    BY <2>1 DEF TickledInv, NoSilentLoss, Live
  <2>5. QED
    BY <2>2, <2>3, <2>4
<1>3. QED
  BY <1>1, <1>2 DEF init

(* A fork of the master inherits an empty run queue and a clear TICKLED: a *)
(* master that schedules aborts, and none is inside schedule() when it     *)
(* forks.                                                                  *)
LEMMA ForkStep ==
  ASSUME WorkerInv, NEW m \in Processes, NEW p \in Processes,
         NEW k \in {"worker", "helper"}, Fork(m, p, k)
  PROVE  WorkerInv'
<1> USE DEF WorkerInv
<1>1. kind[m] = "master" /\ kind[p] = "none" /\ tpc[m] = Idle /\ m # p
  BY DEF Fork
<1>2. ~INIT[m] /\ m \notin readable /\ Live(m)
  BY <1>1 DEF InitInv, Live
<1>3. ~TICKLED[m] /\ ~queued[m]
  BY <1>1, <1>2 DEF TickledInv, NoSilentLoss, Idle
<1>4. /\ kind' = [kind EXCEPT ![p] = k]
      /\ started' = [started EXCEPT ![p] = FALSE]
      /\ ipc' = [ipc EXCEPT ![p] = "idle"]
      /\ INIT' = [INIT EXCEPT ![p] = INIT[m]]
      /\ ctx_fd' = [ctx_fd EXCEPT ![p] = ctx_fd[m]]
      /\ TICKLED' = [TICKLED EXCEPT ![p] = TICKLED[m]]
      /\ queued' = [queued EXCEPT ![p] = queued[m]]
      /\ tpc' = [tpc EXCEPT ![p] = Idle]
      /\ readable' = readable \ {p}
  BY DEF Fork
<1>5. TypeOK'
  BY <1>4 DEF TypeOK, Kinds, Idle
<1>6. \A q \in Processes : q # p =>
        /\ kind'[q] = kind[q] /\ ipc'[q] = ipc[q] /\ INIT'[q] = INIT[q]
        /\ ctx_fd'[q] = ctx_fd[q] /\ TICKLED'[q] = TICKLED[q]
        /\ queued'[q] = queued[q] /\ tpc'[q] = tpc[q]
        /\ (q \in readable' <=> q \in readable) /\ (Live(q)' <=> Live(q))
  BY <1>4 DEF TypeOK, Live
<1>7. /\ kind'[p] = k /\ ipc'[p] = "idle" /\ ~INIT'[p] /\ ~TICKLED'[p]
      /\ ~queued'[p] /\ p \notin readable'
  BY <1>2, <1>3, <1>4 DEF TypeOK
<1>8. InitInv'
  BY <1>6, <1>7 DEF InitInv
<1>9. TickledInv' /\ NoSilentLoss'
  BY <1>6, <1>7 DEF TickledInv, NoSilentLoss
<1>10. QED
  BY <1>5, <1>8, <1>9

(* A process that lives can only set the OnceLock for a descriptor of its  *)
(* own.                                                                    *)
LEMMA InitDoneStep ==
  ASSUME WorkerInv, NEW p \in Processes, InitDone(p)
  PROVE  WorkerInv'
<1> USE DEF WorkerInv
<1>1. Live(p) /\ ipc[p] = "opened" /\ UNCHANGED started
  BY DEF InitDone
<1>2. CASE Abort(p)
  <2>1. started' \in [Processes -> BOOLEAN]
    BY <1>1 DEF TypeOK
  <2>2. QED
    BY <1>2, <2>1, AbortStep
<1>3. CASE /\ ipc' = [ipc EXCEPT ![p] = "idle"]
           /\ INIT' = [INIT EXCEPT ![p] = TRUE]
           /\ UNCHANGED <<kind, ctx_fd, TICKLED, queued, tpc, readable>>
  <2>1. TypeOK'
    BY <1>1, <1>3 DEF TypeOK
  <2>2. InitInv'
    BY <1>1, <1>3 DEF InitInv, Live, TypeOK
  <2>3. TickledInv' /\ NoSilentLoss'
    BY <1>3 DEF TickledInv, NoSilentLoss, Live
  <2>4. QED
    BY <2>1, <2>2, <2>3
<1>4. QED
  BY <1>2, <1>3 DEF InitDone

(* The slot of a worker or helper that is gone has nothing unread.         *)
LEMMA ExitStep ==
  ASSUME WorkerInv, NEW p \in Processes, Exit(p)
  PROVE  WorkerInv'
<1> USE DEF WorkerInv
<1>1. /\ kind' = [kind EXCEPT ![p] = "none"] /\ readable' = readable \ {p}
      /\ UNCHANGED <<started, ipc, INIT, ctx_fd, TICKLED, queued, tpc>>
  BY DEF Exit
<1>2. TypeOK'
  BY <1>1 DEF TypeOK, Kinds
<1>3. ~Live(p)' /\ \A q \in Processes : q # p => (Live(q)' <=> Live(q))
                                            /\ kind'[q] = kind[q]
  BY <1>1 DEF Live, TypeOK
<1>4. InitInv'
  BY <1>1, <1>3 DEF InitInv, TypeOK
<1>5. TickledInv' /\ NoSilentLoss'
  BY <1>1, <1>3 DEF TickledInv, NoSilentLoss
<1>6. QED
  BY <1>2, <1>4, <1>5

(* schedule(): the queue fills before the signal is thought of, the thread *)
(* that sets TICKLED writes the signal, and the signal lands in the        *)
(* process's own event loop.                                               *)
LEMMA ScheduleStep ==
  ASSUME WorkerInv, NEW p \in Processes, NEW th \in Threads,
         Send(p, th) \/ Cas(p, th) \/ tickle(p, th)
  PROVE  WorkerInv'
<1> USE DEF WorkerInv
<1>1. CASE Send(p, th)
  <2>1. /\ queued' = [queued EXCEPT ![p] = TRUE]
        /\ tpc' = [tpc EXCEPT ![p][th] = "cas"] /\ tpc[p][th] = "idle"
        /\ UNCHANGED <<kind, started, ipc, INIT, ctx_fd, TICKLED, readable>>
    BY <1>1 DEF Send
  <2>2. TypeOK'
    BY <2>1 DEF TypeOK
  <2>3. InitInv'
    BY <2>1 DEF InitInv, Live
  <2>4. tpc'[p][th] = "cas" /\ \A q \in Processes, t \in Threads :
          tpc[q][t] # "idle" => tpc'[q][t] = tpc[q][t]
    BY <2>1 DEF TypeOK
  <2>5. TickledInv'
    BY <2>1, <2>4 DEF TickledInv, Live
  <2>6. NoSilentLoss'
    BY <2>1, <2>4 DEF NoSilentLoss, Live, TypeOK
  <2>7. QED
    BY <2>2, <2>3, <2>5, <2>6
<1>2. CASE Cas(p, th)
  <2>1. /\ Live(p) /\ tpc[p][th] = "cas"
        /\ TICKLED' = [TICKLED EXCEPT ![p] = TRUE]
        /\ tpc' = [tpc EXCEPT ![p][th] = IF TICKLED[p] THEN "idle" ELSE "tickle"]
        /\ UNCHANGED <<kind, started, ipc, INIT, ctx_fd, queued, readable>>
    BY <1>2 DEF Cas
  <2>2. TypeOK'
    BY <2>1 DEF TypeOK
  <2>3. InitInv'
    BY <2>1 DEF InitInv, Live
  <2>4. \A q \in Processes : q # p => TICKLED'[q] = TICKLED[q] /\ tpc'[q] = tpc[q]
    BY <2>1 DEF TypeOK
  <2>5. p \in readable \/ \E t \in Threads : tpc'[p][t] = "tickle"
    <3>1. CASE TICKLED[p]
      BY <2>1, <3>1 DEF TickledInv, TypeOK
    <3>2. CASE ~TICKLED[p]
      BY <2>1, <3>2 DEF TypeOK
    <3>3. QED
      BY <3>1, <3>2
  <2>6. TickledInv' /\ NoSilentLoss'
    BY <2>1, <2>4, <2>5 DEF TickledInv, NoSilentLoss, Live
  <2>7. QED
    BY <2>2, <2>3, <2>6
<1>3. CASE tickle(p, th)
  <2>1. Live(p) /\ tpc[p][th] = "tickle" /\ UNCHANGED started
    BY <1>3 DEF tickle
  <2>2. CASE Abort(p)
    <3>1. started' \in [Processes -> BOOLEAN]
      BY <2>1 DEF TypeOK
    <3>2. QED
      BY <2>2, <3>1, AbortStep
  <2>3. CASE /\ INIT[p] /\ readable' = readable \cup {ctx_fd[p]}
             /\ tpc' = [tpc EXCEPT ![p][th] = "idle"]
             /\ UNCHANGED <<kind, ipc, INIT, ctx_fd, TICKLED, queued>>
    <3>1. ctx_fd[p] = p /\ kind[p] \in {"single", "worker"}
      BY <2>1, <2>3 DEF InitInv, Live, TypeOK, Kinds
    <3>2. readable' = readable \cup {p} /\ tpc' \in [Processes -> [Threads -> {"idle", "cas", "tickle"}]]
      BY <2>3, <3>1 DEF TypeOK
    <3>3. TypeOK'
      BY <2>1, <2>3, <3>2 DEF TypeOK
    <3>4. InitInv'
      BY <2>3, <3>1, <3>2 DEF InitInv, Live
    <3>5. \A q \in Processes : q # p => tpc'[q] = tpc[q]
      BY <2>3 DEF TypeOK
    <3>6. TickledInv' /\ NoSilentLoss'
      BY <2>3, <3>2, <3>5 DEF TickledInv, NoSilentLoss, Live
    <3>7. QED
      BY <3>3, <3>4, <3>6
  <2>4. QED
    BY <1>3, <2>2, <2>3 DEF tickle
<1>4. QED
  BY <1>1, <1>2, <1>3

(* async_handler takes the signal, the flag and the queue together.        *)
LEMMA DrainStep ==
  ASSUME WorkerInv, NEW p \in Processes, Drain(p)
  PROVE  WorkerInv'
<1> USE DEF WorkerInv
<1>1. /\ readable' = readable \ {p}
      /\ TICKLED' = [TICKLED EXCEPT ![p] = FALSE]
      /\ queued' = [queued EXCEPT ![p] = FALSE]
      /\ UNCHANGED <<kind, started, ipc, INIT, ctx_fd, tpc>>
  BY DEF Drain
<1>2. TypeOK'
  BY <1>1 DEF TypeOK
<1>3. InitInv'
  BY <1>1 DEF InitInv, Live
<1>4. TickledInv' /\ NoSilentLoss'
  BY <1>1 DEF TickledInv, NoSilentLoss, Live, TypeOK
<1>5. QED
  BY <1>2, <1>3, <1>4

(* nginx calls init_process, which may do nothing of ours.                 *)
LEMMA InitProcessStep ==
  ASSUME WorkerInv, NEW p \in Processes, InitProcess(p)
  PROVE  WorkerInv'
<1> USE DEF WorkerInv
<1>1. started' = [started EXCEPT ![p] = TRUE]
  BY DEF InitProcess
<1>2. started' \in [Processes -> BOOLEAN]
  BY <1>1 DEF TypeOK
<1>3. CASE init(p)
  BY <1>2, <1>3, InitCallStep
<1>4. CASE UNCHANGED <<kind, ipc, INIT, ctx_fd, TICKLED, queued, tpc, readable>>
  <2>1. TypeOK'
    BY <1>2, <1>4 DEF TypeOK
  <2>2. InitInv' /\ TickledInv' /\ NoSilentLoss'
    BY <1>4 DEF InitInv, TickledInv, NoSilentLoss, Live
  <2>3. QED
    BY <2>1, <2>2
<1>5. QED
  BY <1>3, <1>4 DEF InitProcess

(* Every step preserves the invariant.                                     *)
LEMMA StepWorker == WorkerInv /\ [Next]_vars => WorkerInv'
<1> SUFFICES ASSUME WorkerInv, [Next]_vars PROVE WorkerInv'
  OBVIOUS
<1>1. CASE UNCHANGED vars
  BY <1>1 DEF vars, WorkerInv, TypeOK, InitInv, TickledInv, NoSilentLoss, Live
<1>2. ASSUME NEW p \in Processes, NEW m \in Processes,
             NEW k \in {"worker", "helper"}, Fork(m, p, k)
      PROVE  WorkerInv'
  BY <1>2, ForkStep
<1>3. ASSUME NEW p \in Processes, Exit(p) PROVE WorkerInv'
  BY <1>3, ExitStep
<1>4. ASSUME NEW p \in Processes, InitProcess(p) PROVE WorkerInv'
  BY <1>4, InitProcessStep
<1>5. ASSUME NEW p \in Processes, CallInit(p) PROVE WorkerInv'
  <2>1. init(p) /\ started' \in [Processes -> BOOLEAN]
    BY <1>5 DEF CallInit, WorkerInv, TypeOK
  <2>2. QED
    BY <2>1, InitCallStep
<1>6. ASSUME NEW p \in Processes, InitDone(p) PROVE WorkerInv'
  BY <1>6, InitDoneStep
<1>7. ASSUME NEW p \in Processes, Drain(p) PROVE WorkerInv'
  BY <1>7, DrainStep
<1>8. ASSUME NEW p \in Processes, NEW th \in Threads,
             Send(p, th) \/ Cas(p, th) \/ tickle(p, th)
      PROVE  WorkerInv'
  BY <1>8, ScheduleStep
<1>9. QED
  BY <1>1, <1>2, <1>3, <1>4, <1>5, <1>6, <1>7, <1>8 DEF Next

(* The invariant holds always.                                             *)
LEMMA WorkerInvariant == Spec => []WorkerInv
<1>1. QED
  BY InitWorker, StepWorker, PTL DEF Spec

(* Every variable of Worker keeps its type.                                *)
THEOREM WorkerTypeCorrect == Spec => []TypeOK
<1>1. WorkerInv => TypeOK
  BY DEF WorkerInv
<1>2. QED
  BY <1>1, WorkerInvariant, PTL

(* A process with INIT set signals its own event loop, whatever it was     *)
(* forked from and wherever init() was called (lib.rs:106-109).            *)
THEOREM WorkerSignalsOwnLoop == Spec => []SignalsOwnLoop
<1>1. WorkerInv => SignalsOwnLoop
  BY DEF WorkerInv, InitInv, SignalsOwnLoop
<1>2. QED
  BY <1>1, WorkerInvariant, PTL

(* A missing, late or misplaced init() never loses a task in silence: a    *)
(* process that lives and has something queued has a signal behind it, or  *)
(* a thread that will signal or abort (mod.rs:83-85).                      *)
THEOREM WorkerNoSilentLoss == Spec => []NoSilentLoss
<1>1. WorkerInv => NoSilentLoss
  BY DEF WorkerInv
<1>2. QED
  BY <1>1, WorkerInvariant, PTL
=============================================================================
