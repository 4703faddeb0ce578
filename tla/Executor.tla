------------------------------- MODULE Executor -------------------------------
(***************************************************************************)
(* What ngx-tickle promises its users about tasks, with no queue, no       *)
(* wakeup descriptor and no threads: a task that was woken is polled       *)
(* again, polls never overlap, and a wake never polls by itself            *)
(* (README.md "Key invariant", spawn.rs "Always queue + tickle").          *)
(* Module Tickle is shown to implement this specification.                 *)
(***************************************************************************)
CONSTANT Tasks

VARIABLES
  live,     \* the tasks that were spawned and have not completed
  pending,  \* the live tasks that are owed a poll
  polling   \* the tasks whose future is being polled

vars == <<live, pending, polling>>

TypeOK ==
  /\ live \subseteq Tasks
  /\ pending \subseteq live
  /\ polling \subseteq live

Init ==
  /\ live = {}
  /\ pending = {}
  /\ polling = {}

(* A new task is owed its first poll.                                      *)
Spawn(t) ==
  /\ t \notin live
  /\ live' = live \cup {t}
  /\ pending' = pending \cup {t}
  /\ UNCHANGED polling

(* Wakes of one task coalesce until its next poll starts; a wake during    *)
(* the poll earns another one.                                             *)
Wake(t) ==
  /\ t \in live \ pending
  /\ pending' = pending \cup {t}
  /\ UNCHANGED <<live, polling>>

StartPoll(t) ==
  /\ polling = {}
  /\ t \in pending
  /\ polling' = {t}
  /\ pending' = pending \ {t}
  /\ UNCHANGED live

ReturnPending(t) ==
  /\ t \in polling
  /\ polling' = polling \ {t}
  /\ UNCHANGED <<live, pending>>

ReturnReady(t) ==
  /\ t \in polling
  /\ polling' = polling \ {t}
  /\ live' = live \ {t}
  /\ pending' = pending \ {t}

Next ==
  \E t \in Tasks :
    \/ Spawn(t) \/ Wake(t) \/ StartPoll(t)
    \/ ReturnPending(t) \/ ReturnReady(t)

(* Every poll returns, and no task that is owed a poll is passed over      *)
(* forever: StartPoll(t) is disabled while another task is polled, hence   *)
(* strong fairness.                                                        *)
Fairness ==
  \A t \in Tasks :
    /\ SF_vars(StartPoll(t))
    /\ WF_vars(ReturnPending(t) \/ ReturnReady(t))

Spec == Init /\ [][Next]_vars /\ Fairness
=============================================================================
