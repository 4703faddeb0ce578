-------------------------------- MODULE Worker --------------------------------
(***************************************************************************)
(* ngx-tickle across the processes of nginx: init() (src/src/lib.rs) and   *)
(* notify::init (src/src/notify/mod.rs) against processes that fork and    *)
(* inherit every static, threads that schedule before, during and after    *)
(* init(), and modules that call init() where they should not.             *)
(* The run queue is reduced to "something is queued"; module Tickle has    *)
(* the rest of it.                                                         *)
(***************************************************************************)
EXTENDS Naturals

CONSTANTS
  Processes, Root,  \* process slots; the process the operator starts
  Threads, MainThread,
  Misuse,           \* may modules call init() outside init_process, or spawn before it?
  None

ASSUME RootAssumption == Root \in Processes /\ None \notin Processes
ASSUME ThreadsAssumption == MainThread \in Threads
ASSUME MisuseAssumption == Misuse \in BOOLEAN

VARIABLES
  kind,     \* ngx_process
  started,  \* has nginx called the modules' init_process?
  ipc,      \* the main thread is inside notify::init's closure
  INIT,     \* the static OnceLock is set
  ctx_fd,   \* CTX.read_fd/write_fd: the process that opened the descriptor
  TICKLED,
  queued,   \* the channel is not empty
  tpc,      \* where each thread is in schedule()
  readable  \* processes whose descriptor has an unread signal

vars == <<kind, started, ipc, INIT, ctx_fd, TICKLED, queued, tpc, readable>>

Kinds == {"none", "single", "master", "worker", "helper", "aborted"}
Live(p) == kind[p] \notin {"none", "aborted"}

TypeOK ==
  /\ kind \in [Processes -> Kinds]
  /\ started \in [Processes -> BOOLEAN]
  /\ ipc \in [Processes -> {"idle", "opened"}]
  /\ INIT \in [Processes -> BOOLEAN]
  /\ ctx_fd \in [Processes -> Processes \cup {None}]
  /\ TICKLED \in [Processes -> BOOLEAN]
  /\ queued \in [Processes -> BOOLEAN]
  /\ tpc \in [Processes -> [Threads -> {"idle", "cas", "tickle"}]]
  /\ readable \subseteq Processes

Idle == [th \in Threads |-> "idle"]

Init ==
  /\ \E k \in {"single", "master"} :
       kind = [p \in Processes |-> IF p = Root THEN k ELSE "none"]
  /\ started = [p \in Processes |-> FALSE]
  /\ ipc = [p \in Processes |-> "idle"]
  /\ INIT = [p \in Processes |-> FALSE]
  /\ ctx_fd = [p \in Processes |-> None]
  /\ TICKLED = [p \in Processes |-> FALSE]
  /\ queued = [p \in Processes |-> FALSE]
  /\ tpc = [p \in Processes |-> Idle]
  /\ readable = {}

-----------------------------------------------------------------------------
(* The master forks a worker, or a cache manager or loader (a helper).     *)
(* The child has the parent's memory and none of its other threads.        *)
(* Assumed: no thread of the master is inside schedule() at that moment    *)
(* (such a call ends in abort()).                                          *)
Fork(m, p, k) ==
  /\ kind[m] = "master" /\ kind[p] = "none"
  /\ tpc[m] = Idle
  /\ kind' = [kind EXCEPT ![p] = k]
  /\ started' = [started EXCEPT ![p] = FALSE]
  /\ ipc' = [ipc EXCEPT ![p] = "idle"]
  /\ INIT' = [INIT EXCEPT ![p] = INIT[m]]
  /\ ctx_fd' = [ctx_fd EXCEPT ![p] = ctx_fd[m]]
  /\ TICKLED' = [TICKLED EXCEPT ![p] = TICKLED[m]]
  /\ queued' = [queued EXCEPT ![p] = queued[m]]
  /\ tpc' = [tpc EXCEPT ![p] = Idle]
  /\ readable' = readable \ {p}

(* A worker or helper exits or is killed; its descriptor goes with it, and *)
(* the slot can be used again.  (An aborted process is kept to be seen.)   *)
Exit(p) ==
  /\ kind[p] \in {"worker", "helper"}
  /\ kind' = [kind EXCEPT ![p] = "none"]
  /\ readable' = readable \ {p}
  /\ UNCHANGED <<started, ipc, INIT, ctx_fd, TICKLED, queued, tpc>>

(* tickle_abort!                                                           *)
Abort(p) ==
  /\ kind' = [kind EXCEPT ![p] = "aborted"]
  /\ readable' = readable \ {p}
  /\ UNCHANGED <<ipc, INIT, ctx_fd, TICKLED, queued, tpc>>

(* The first init() of a process opens the descriptor and fills in CTX,    *)
(* later ones do nothing.                                                  *)
notify_init(p) ==
  /\ \/ INIT[p] /\ UNCHANGED <<ipc, ctx_fd>>
     \/ /\ ~INIT[p]
        /\ ipc' = [ipc EXCEPT ![p] = "opened"]
        /\ ctx_fd' = [ctx_fd EXCEPT ![p] = p]
  /\ UNCHANGED <<kind, INIT, TICKLED, queued, tpc, readable>>

(* Broken: init() does not look at ngx_process.                            *)
initAnywhere(p) ==
  /\ ipc[p] = "idle"
  /\ notify_init(p)

(* init() aborts in any process but a worker or a single one.              *)
init(p) ==
  /\ ipc[p] = "idle"
  /\ \/ kind[p] \notin {"single", "worker"} /\ Abort(p)
     \/ kind[p] \in {"single", "worker"} /\ notify_init(p)

(* The event is registered with this process's event loop and the OnceLock *)
(* is set, or ngx_add_event fails.                                         *)
InitDone(p) ==
  /\ Live(p) /\ ipc[p] = "opened"
  /\ \/ /\ ipc' = [ipc EXCEPT ![p] = "idle"]
        /\ INIT' = [INIT EXCEPT ![p] = TRUE]
        /\ UNCHANGED <<kind, ctx_fd, TICKLED, queued, tpc, readable>>
     \/ Abort(p)
  /\ UNCHANGED started

(* nginx calls every module's init_process once per process, also in the   *)
(* cache helpers (ngx_worker_process_init); a module calls init() there,   *)
(* as documented, or forgets to.                                           *)
InitProcess(p) ==
  /\ kind[p] \in {"single", "worker", "helper"}
  /\ ~started[p]
  /\ started' = [started EXCEPT ![p] = TRUE]
  /\ \/ init(p)
     \/ Misuse /\ UNCHANGED <<kind, ipc, INIT, ctx_fd, TICKLED, queued, tpc, readable>>

(* A second module calls init() again, or one calls it from init_module in *)
(* the master.                                                             *)
CallInit(p) ==
  /\ Live(p)
  /\ started[p] \/ Misuse
  /\ init(p)
  /\ UNCHANGED started

-----------------------------------------------------------------------------
(* schedule(): documented after init() only, on any thread.                *)
Send(p, th) ==
  /\ Live(p)
  /\ INIT[p] \/ Misuse
  /\ th = MainThread => ipc[p] = "idle"
  /\ tpc[p][th] = "idle"
  /\ queued' = [queued EXCEPT ![p] = TRUE]
  /\ tpc' = [tpc EXCEPT ![p][th] = "cas"]
  /\ UNCHANGED <<kind, started, ipc, INIT, ctx_fd, TICKLED, readable>>

Cas(p, th) ==
  /\ Live(p)
  /\ tpc[p][th] = "cas"
  /\ TICKLED' = [TICKLED EXCEPT ![p] = TRUE]
  /\ tpc' = [tpc EXCEPT ![p][th] = IF TICKLED[p] THEN "idle" ELSE "tickle"]
  /\ UNCHANGED <<kind, started, ipc, INIT, ctx_fd, queued, readable>>

(* Broken: the signal is written without expect_init().                    *)
tickleUnchecked(p, th) ==
  /\ Live(p)
  /\ tpc[p][th] = "tickle"
  /\ readable' = readable \cup {ctx_fd[p]}
  /\ tpc' = [tpc EXCEPT ![p][th] = "idle"]
  /\ UNCHANGED <<kind, started, ipc, INIT, ctx_fd, TICKLED, queued>>

(* tickle(): expect_init() aborts, or the signal goes to CTX.write_fd.     *)
tickle(p, th) ==
  /\ Live(p)
  /\ tpc[p][th] = "tickle"
  /\ \/ ~INIT[p] /\ Abort(p)
     \/ /\ INIT[p]
        /\ readable' = readable \cup {ctx_fd[p]}
        /\ tpc' = [tpc EXCEPT ![p][th] = "idle"]
        /\ UNCHANGED <<kind, ipc, INIT, ctx_fd, TICKLED, queued>>
  /\ UNCHANGED started

(* async_handler in the process whose event loop has the descriptor.       *)
Drain(p) ==
  /\ Live(p) /\ p \in readable
  /\ ipc[p] = "idle" /\ tpc[p][MainThread] = "idle"
  /\ readable' = readable \ {p}
  /\ TICKLED' = [TICKLED EXCEPT ![p] = FALSE]
  /\ queued' = [queued EXCEPT ![p] = FALSE]
  /\ UNCHANGED <<kind, started, ipc, INIT, ctx_fd, tpc>>

Next ==
  \E p \in Processes :
    \/ \E m \in Processes, k \in {"worker", "helper"} : Fork(m, p, k)
    \/ Exit(p) \/ InitProcess(p) \/ CallInit(p) \/ InitDone(p) \/ Drain(p)
    \/ \E th \in Threads : Send(p, th) \/ Cas(p, th) \/ tickle(p, th)

Spec == Init /\ [][Next]_vars

-----------------------------------------------------------------------------
(* A process never signals another process's event loop: whatever it       *)
(* inherited when it was forked, once INIT is set CTX holds a descriptor   *)
(* it opened itself (lib.rs:106-109).                                      *)
SignalsOwnLoop ==
  \A p \in Processes : Live(p) /\ INIT[p] => ctx_fd[p] = p

(* A missing or late init() fails loudly (mod.rs:83-85): in a process that *)
(* lives, whatever is queued has a signal behind it or a thread that will  *)
(* signal or abort.                                                        *)
NoSilentLoss ==
  \A p \in Processes : Live(p) /\ queued[p] =>
    \/ p \in readable
    \/ \E th \in Threads : tpc[p][th] # "idle"

(* What the documentation of init says (lib.rs:106-111): called from       *)
(* init_process, which nginx runs in a worker, it is safe; only a failure  *)
(* to register the descriptor aborts.                                      *)
InitProcessSurvives ==
  \A p \in Processes : kind[p] = "aborted" => ipc[p] = "opened"
=============================================================================
