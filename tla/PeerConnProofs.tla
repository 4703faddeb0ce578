---------------------------- MODULE PeerConnProofs ----------------------------
(***************************************************************************)
(* Proofs about PeerConn for any size of the receive buffer and any number *)
(* of writes, whatever the peer sends: who owns the ngx_connection_t, whom *)
(* its events wake, and that it is a lease of the PeerConnection.          *)
(***************************************************************************)
EXTENDS PeerConn, TLAPS

-----------------------------------------------------------------------------
(* The inductive invariant about the connection.                           *)

(* TypeOK, in parts.                                                       *)
SocketTypes ==
  /\ sock \in {"closed", "connecting", "refused", "open", "eof", "reset"}
  /\ inbox \in 0..MaxChunks
  /\ room \in BOOLEAN
  /\ edges \subseteq {"read", "write"}

SlotTypes ==
  /\ slot \in {"unused", "ours", "free", "other"}
  /\ timer \in BOOLEAN /\ timedout \in BOOLEAN
  /\ timer => slot = "ours"
  /\ mem \in {"none", "alive", "dropped"}
  /\ connection \in BOOLEAN
  /\ rev \in Tasks \cup {None} /\ wev \in Tasks \cup {None}

TaskTypes ==
  /\ future \in [Tasks -> {"none", "alive", "dropped"}]
  /\ woken \subseteq {t \in Tasks : future[t] = "alive"}
  /\ cancelled \in BOOLEAN
  /\ cur \in Tasks \cup {None}
  /\ waits \in [Tasks -> SUBSET {"connect", "reply", "read", "write"}]

PlaceTypes ==
  /\ at \in {"start", "address", "connect", "failed", "call", "reply"}
  /\ step \in {"read", "write", "shutdown", "end"}
  /\ todo \in 0..MaxWrites
  /\ reply \in {"none", "done", "failed"}

(* There is a driver only once the request's task has handed over.         *)
HandedOver == future["driver"] # "none" => at = "reply"

(* Only a task that has its future is polled.                              *)
PolledIsAlive == cur # None => future[cur] = "alive"

(* The request's task has its PeerConnection until it hands it over, and a *)
(* set pc.connection is one of a live PeerConnection.                      *)
ConnectsOnLiveMemory ==
  /\ at \in {"address", "connect", "call"} /\ future["request"] # "dropped"
       => mem = "alive"
  /\ connection => mem = "alive"

(* pc.connection dangles only from connect_timedout to the end of the same *)
(* poll.                                                                   *)
DanglesInPoll ==
  connection =>
    slot = "ours" \/ (slot = "free" /\ cur = "request" /\ at = "failed")

(* A task that may still connect has not had a connection yet.             *)
ConnectsOnce ==
  /\ at \in {"start", "address", "connect"} /\ future["request"] # "dropped"
       /\ ~connection => slot = "unused"
  /\ at = "start" /\ future["request"] # "dropped" => mem = "none"

OwnershipInv ==
  /\ HandlersOnLiveMemory /\ HandedOver /\ PolledIsAlive
  /\ ConnectsOnLiveMemory /\ DanglesInPoll /\ ConnectsOnce

SlotInv ==
  /\ SocketTypes /\ SlotTypes /\ TaskTypes /\ PlaceTypes
  /\ OwnershipInv

(* A task that ends drops its future and, if it owns the PeerConnection,   *)
(* closes what pc.connection points to, dangling or not.                   *)
LEMMA FinishStep ==
  ASSUME SlotInv, NEW t \in Tasks, future[t] = "alive", cur \in {None, t},
         t = "request" \/ future["driver"] # "none", Finish(t)
  PROVE  SlotInv'
<1> USE NoneAssumption, BoundsAssumption
    DEF SlotInv, SocketTypes, SlotTypes, TaskTypes, PlaceTypes, OwnershipInv,
        HandlersOnLiveMemory, HandedOver, PolledIsAlive, ConnectsOnLiveMemory,
        DanglesInPoll, ConnectsOnce, Tasks, Owner,
        sockVars, nginxVars, pcVars
<1>1. /\ future' = [future EXCEPT ![t] = "dropped"]
      /\ waits' = [waits EXCEPT ![t] = {}]
      /\ woken' = (woken \cup {u \in Tasks : future[u] = "alive"}) \ {t}
      /\ cur' = None
      /\ reply' = IF t = "driver" /\ reply = "none" THEN "failed" ELSE reply
      /\ UNCHANGED <<cancelled, at, step, todo>>
  BY DEF Finish
<1>2. /\ future' \in [Tasks -> {"none", "alive", "dropped"}]
      /\ waits' \in [Tasks -> SUBSET {"connect", "reply", "read", "write"}]
      /\ woken' \subseteq {u \in Tasks : future'[u] = "alive"}
      /\ cur' \in Tasks \cup {None}
      /\ reply' \in {"none", "done", "failed"}
  <2>1. future' \in [Tasks -> {"none", "alive", "dropped"}]
    BY <1>1
  <2>2. waits' \in [Tasks -> SUBSET {"connect", "reply", "read", "write"}]
    BY <1>1
  <2>3. woken' \subseteq {u \in Tasks : future'[u] = "alive"}
    BY <1>1
  <2>4. cur' \in Tasks \cup {None} /\ reply' \in {"none", "done", "failed"}
    BY <1>1
  <2>5. QED
    BY <2>1, <2>2, <2>3, <2>4
<1>3. CASE Owner = t /\ mem = "alive" /\ connection
  <2>1. /\ mem' = "dropped" /\ connection' = FALSE
        /\ slot' \in {"unused", "free"}
        /\ sock' = "closed" /\ edges' = {} /\ timer' = FALSE
        /\ UNCHANGED <<rev, wev, inbox, room, timedout>>
    BY <1>3 DEF Finish, Drop, close_pc, close
  <2>2. SocketTypes'
    BY <1>1, <1>2, <1>3, <2>1
  <2>3. SlotTypes'
    BY <1>1, <1>2, <1>3, <2>1
  <2>4. TaskTypes'
    BY <1>1, <1>2, <1>3, <2>1
  <2>5. PlaceTypes'
    BY <1>1, <1>2, <1>3, <2>1
  <2>6. OwnershipInv'
    BY <1>1, <1>2, <1>3, <2>1
  <2>7. QED
    BY <2>2, <2>3, <2>4, <2>5, <2>6 DEF SlotInv
<1>4. CASE Owner = t /\ mem = "alive" /\ ~connection
  <2>1. /\ mem' = "dropped" /\ connection' = FALSE
        /\ UNCHANGED <<rev, wev, sockVars, nginxVars>>
    BY <1>4 DEF Finish, Drop, close_pc
  <2>2. SocketTypes'
    BY <1>1, <1>2, <1>4, <2>1
  <2>3. SlotTypes'
    BY <1>1, <1>2, <1>4, <2>1
  <2>4. TaskTypes'
    BY <1>1, <1>2, <1>4, <2>1
  <2>5. PlaceTypes'
    BY <1>1, <1>2, <1>4, <2>1
  <2>6. OwnershipInv'
    BY <1>1, <1>2, <1>4, <2>1
  <2>7. QED
    BY <2>2, <2>3, <2>4, <2>5, <2>6 DEF SlotInv
<1>5. CASE ~(Owner = t /\ mem = "alive")
  <2>1. UNCHANGED <<sockVars, nginxVars, pcVars>>
    BY <1>5 DEF Finish
  <2>2. QED
    BY <1>1, <1>2, <1>5, <2>1
<1>6. QED
  BY <1>3, <1>4, <1>5

(* Every step keeps the types and the ownership of the connection.         *)
LEMMA SlotStep == ASSUME SlotInv, [Next]_vars PROVE SlotInv'
<1> USE NoneAssumption, BoundsAssumption
    DEF SlotInv, SocketTypes, SlotTypes, TaskTypes, PlaceTypes, OwnershipInv,
        HandlersOnLiveMemory, HandedOver, PolledIsAlive, ConnectsOnLiveMemory,
        DanglesInPoll, ConnectsOnce, Tasks, Owner, InLoop,
        InRequest, InDriver, sockVars, nginxVars, pcVars, taskVars, hyperVars
<1>1. CASE Peer
  <2>1. sock' \in {"closed", "connecting", "refused", "open", "eof", "reset"}
        /\ edges' \subseteq {"read", "write"} /\ room' \in BOOLEAN
    BY <1>1 DEF Peer
  <2>2. inbox' = inbox
    BY <1>1 DEF Peer
  <2>3. UNCHANGED <<nginxVars, pcVars, taskVars, hyperVars>>
    BY <1>1 DEF Peer
  <2>4. QED
    BY <2>1, <2>2, <2>3
<1>2. CASE ReadEvent
  BY <1>2 DEF ReadEvent, read_handler, Wake
<1>3. CASE WriteEvent
  BY <1>3 DEF WriteEvent, Wake
<1>4. CASE TimerFires
  <2>1. /\ timer' = FALSE /\ timedout' = TRUE /\ rev' = None
        /\ UNCHANGED <<sockVars, slot, mem, connection, wev, future,
                       cancelled, cur, waits, hyperVars>>
    BY <1>4 DEF TimerFires, read_handler
  <2>2. woken' \subseteq {t \in Tasks : future'[t] = "alive"}
    BY <1>4, <2>1 DEF TimerFires, read_handler, Wake
  <2>3. SocketTypes'
    BY <2>1, <2>2
  <2>4. SlotTypes'
    BY <2>1, <2>2
  <2>5. TaskTypes'
    BY <2>1, <2>2
  <2>6. PlaceTypes'
    BY <2>1, <2>2
  <2>7. OwnershipInv'
    BY <2>1, <2>2
  <2>8. QED
    BY <2>3, <2>4, <2>5, <2>6, <2>7 DEF SlotInv
<1>5. CASE OtherConnection
  <2>1. /\ slot = "free" /\ slot' = "other"
        /\ timedout' = FALSE /\ InLoop
        /\ UNCHANGED <<timer, sockVars, pcVars, taskVars, hyperVars>>
    BY <1>5 DEF OtherConnection
  <2>2. ~connection /\ timer = FALSE
    BY <2>1
  <2>3. SocketTypes'
    BY <2>1, <2>2
  <2>4. SlotTypes'
    BY <2>1, <2>2
  <2>5. TaskTypes'
    BY <2>1, <2>2
  <2>6. PlaceTypes'
    BY <2>1, <2>2
  <2>7. OwnershipInv'
    BY <2>1, <2>2
  <2>8. QED
    BY <2>3, <2>4, <2>5, <2>6, <2>7 DEF SlotInv
<1>6. CASE Handler
  <2>1. /\ future' \in [Tasks -> {"none", "alive", "dropped"}]
        /\ future'["driver"] = future["driver"] /\ future'["request"] = "alive"
    BY <1>6 DEF Handler
  <2>2. woken' \subseteq {t \in Tasks : future'[t] = "alive"}
    BY <1>6, <2>1 DEF Handler
  <2>3. /\ cur = None /\ future["request"] = "none"
        /\ UNCHANGED <<sockVars, nginxVars, pcVars, cancelled, cur, waits,
                       hyperVars>>
    BY <1>6 DEF Handler
  <2>4. SocketTypes'
    BY <2>1, <2>2, <2>3
  <2>5. SlotTypes'
    BY <2>1, <2>2, <2>3
  <2>6. TaskTypes'
    BY <2>1, <2>2, <2>3
  <2>7. PlaceTypes'
    BY <2>1, <2>2, <2>3
  <2>8. OwnershipInv'
    BY <2>1, <2>2, <2>3
  <2>9. QED
    BY <2>4, <2>5, <2>6, <2>7, <2>8 DEF SlotInv
<1>7. CASE Teardown
  <2>1. /\ woken' \subseteq {t \in Tasks : future'[t] = "alive"}
        /\ cancelled' = TRUE
    BY <1>7 DEF Teardown, Wake
  <2>2. UNCHANGED <<sockVars, nginxVars, pcVars, future, cur, waits, hyperVars>>
    BY <1>7 DEF Teardown
  <2>3. QED
    BY <2>1, <2>2
<1>8. ASSUME NEW t \in Tasks, Run(t) PROVE SlotInv'
  <2>0. future[t] = "alive" /\ cur = None
    BY <1>8 DEF Run
  <2>1. CASE t = "request" /\ cancelled
    BY <1>8, <2>0, <2>1, FinishStep DEF Run
  <2>2. CASE ~(t = "request" /\ cancelled)
    <3>1. /\ cur' = t /\ woken' = woken \ {t} /\ step' = "read"
          /\ waits' = [waits EXCEPT ![t] = {}]
          /\ UNCHANGED <<sockVars, nginxVars, pcVars, future, cancelled, at,
                         todo, reply>>
      BY <1>8, <2>2 DEF Run
    <3>2. waits' \in [Tasks -> SUBSET {"connect", "reply", "read", "write"}]
      BY <3>1
    <3>3. QED
      BY <2>0, <3>1, <3>2
  <2>3. QED
    BY <2>1, <2>2
<1>9. CASE new
  BY <1>9 DEF new
<1>10. CASE get_nginx_io
  BY <1>10 DEF get_nginx_io
<1>11. CASE connect_error
  BY <1>11 DEF connect_error
<1>12. CASE connect_ok
  BY <1>12 DEF connect_ok, connect_peer
<1>13. CASE connect_again
  BY <1>13 DEF connect_again, connect_peer, Pending
<1>14. CASE connect_timedout
  BY <1>14 DEF connect_timedout, close
<1>15. CASE test_connect
  BY <1>15 DEF test_connect
<1>16. CASE spawn_driver
  BY <1>16 DEF spawn_driver
<1>17. CASE AwaitReply
  BY <1>17 DEF AwaitReply, Pending
<1>18. CASE Return
  BY <1>18, FinishStep DEF Return
<1>19. CASE read_again
  BY <1>19 DEF read_again, poll_read, RecvAgain
<1>20. CASE read_data
  <2>1. inbox' \in 0..MaxChunks
    BY <1>20 DEF read_data, poll_read, RecvData
  <2>2. woken' \subseteq {t \in Tasks : future'[t] = "alive"}
    BY <1>20 DEF read_data, Wake
  <2>3. /\ timer' = TRUE /\ slot = "ours"
        /\ step' \in {"read", "shutdown", "end"}
        /\ reply' \in {"none", "done", "failed"}
        /\ UNCHANGED <<slot, timedout, sock, room, edges, pcVars, future,
                       cancelled, cur, waits, at, todo>>
    BY <1>20 DEF read_data, poll_read
  <2>4. QED
    BY <2>1, <2>2, <2>3
<1>21. CASE read_eof
  BY <1>21 DEF read_eof, poll_read, RecvEof, Wake
<1>22. CASE read_error
  BY <1>22 DEF read_error
<1>23. CASE SenderGone
  BY <1>23 DEF SenderGone
<1>24. CASE write_done
  BY <1>24 DEF write_done, poll_write
<1>25. CASE write_again
  BY <1>25 DEF write_again, poll_write, Pending
<1>26. CASE write_error
  BY <1>26 DEF write_error, poll_write
<1>27. CASE NothingToWrite
  BY <1>27 DEF NothingToWrite, Pending
<1>28. CASE poll_shutdown
  <2>1. /\ connection' = FALSE
        /\ InDriver("shutdown") /\ step' = "end"
        /\ UNCHANGED <<mem, rev, wev, taskVars, at, todo, reply>>
    BY <1>28 DEF poll_shutdown, close_pc
  <2>2. CASE connection
    <3>1. slot' = "free" /\ sock' = "closed" /\ edges' = {} /\ timer' = FALSE
          /\ UNCHANGED <<inbox, room, timedout>>
      BY <1>28, <2>2 DEF poll_shutdown, close_pc, close
    <3>2. SocketTypes'
      BY <2>1, <3>1
    <3>3. SlotTypes'
      BY <2>1, <3>1
    <3>4. TaskTypes'
      BY <2>1, <3>1
    <3>5. PlaceTypes'
      BY <2>1, <3>1
    <3>6. OwnershipInv'
      BY <2>1, <3>1
    <3>7. QED
      BY <3>2, <3>3, <3>4, <3>5, <3>6 DEF SlotInv
  <2>3. CASE ~connection
    <3>1. UNCHANGED <<sockVars, nginxVars>>
      BY <1>28, <2>3 DEF poll_shutdown, close_pc
    <3>2. SocketTypes'
      BY <2>1, <2>3, <3>1
    <3>3. SlotTypes'
      BY <2>1, <2>3, <3>1
    <3>4. TaskTypes'
      BY <2>1, <2>3, <3>1
    <3>5. PlaceTypes'
      BY <2>1, <2>3, <3>1
    <3>6. OwnershipInv'
      BY <2>1, <2>3, <3>1
    <3>7. QED
      BY <3>2, <3>3, <3>4, <3>5, <3>6 DEF SlotInv
  <2>4. QED
    BY <2>2, <2>3
<1>29. CASE DriverEnds
  BY <1>29, FinishStep DEF DriverEnds
<1>30. CASE UNCHANGED vars
  BY <1>30 DEF vars
<1>31. CASE PeerSends
  <2>1. inbox' \in 0..MaxChunks /\ edges' \subseteq {"read", "write"}
    BY <1>31 DEF PeerSends
  <2>2. UNCHANGED <<sock, room, nginxVars, pcVars, taskVars, hyperVars>>
    BY <1>31 DEF PeerSends
  <2>3. QED
    BY <2>1, <2>2
<1>32. QED
  BY <1>1, <1>2, <1>3, <1>4, <1>5, <1>6, <1>7, <1>8, <1>9, <1>10, <1>11,
     <1>12, <1>13, <1>14, <1>15, <1>16, <1>17, <1>18, <1>19, <1>20, <1>21,
     <1>22, <1>23, <1>24, <1>25, <1>26, <1>27, <1>28, <1>29, <1>30, <1>31
     DEF Next, Event, PollStep

(* The inductive invariant holds in every reachable state.                 *)
LEMMA SlotInvariant == Spec => []SlotInv
<1>1. Init => SlotInv
  <2> SUFFICES ASSUME Init PROVE SlotInv
    OBVIOUS
  <2> USE NoneAssumption, BoundsAssumption DEF Init, Tasks
  <2>1. SocketTypes
    BY DEF SocketTypes
  <2>2. SlotTypes
    BY DEF SlotTypes
  <2>3. TaskTypes
    BY DEF TaskTypes
  <2>4. PlaceTypes
    BY DEF PlaceTypes
  <2>5. OwnershipInv
    BY DEF OwnershipInv, HandlersOnLiveMemory, HandedOver, PolledIsAlive,
           ConnectsOnLiveMemory, DanglesInPoll, ConnectsOnce
  <2>6. QED
    BY <2>1, <2>2, <2>3, <2>4, <2>5 DEF SlotInv
<1>2. SlotInv /\ [Next]_vars => SlotInv'
  BY SlotStep
<1>3. QED
  BY <1>1, <1>2, PTL DEF Spec

(* Type correctness: every variable of PeerConn keeps its type, and the    *)
(* read event is in the timer tree only while the connection is ours.      *)
THEOREM PeerTypeCorrect == Spec => []TypeOK
<1>1. SlotInv => TypeOK
  BY DEF SlotInv, SocketTypes, SlotTypes, TaskTypes, PlaceTypes, TypeOK
<1>2. QED
  BY <1>1, SlotInvariant, PTL

(* nginx never runs an event handler or a timer on a PeerConnection that   *)
(* was dropped, by a cancelled task, an error or the driver's end          *)
(* (peer_conn.rs:166, 333-357).                                            *)
THEOREM PeerHandlersLive == Spec => []HandlersOnLiveMemory
<1>1. SlotInv => HandlersOnLiveMemory
  BY DEF SlotInv, OwnershipInv
<1>2. QED
  BY <1>1, SlotInvariant, PTL

(* The close after a connect that timed out comes in the same poll as the  *)
(* first one, before nginx can give the slot away (peer_conn.rs:187, 261). *)
THEOREM PeerConnectionOwned == Spec => []ConnectionOwned
<1>1. SlotInv => ConnectionOwned
  BY NoneAssumption
     DEF SlotInv, OwnershipInv, DanglesInPoll, ConnectionOwned, InLoop
<1>2. QED
  BY <1>1, SlotInvariant, PTL

-----------------------------------------------------------------------------
(* The inductive invariant about waiting.                                  *)

(* What each task can wait for, and where.                                 *)
WaitsInPlace ==
  /\ waits["request"] \subseteq {"connect", "reply"}
  /\ waits["driver"] \subseteq {"read", "write"}
  /\ "connect" \in waits["request"] => at = "connect"
  /\ "write" \in waits["driver"] => "read" \in waits["driver"]
  /\ cur = "request" => waits["request"] = {}

(* A driver that goes on to write has registered for reading, with a timer *)
(* on it.                                                                  *)
ReadsBeforeWriting ==
  cur = "driver" /\ step = "write" => rev = "driver" /\ timer

WaitInv ==
  /\ WaiterRegistered /\ WaitsAreTimed
  /\ WaitsInPlace /\ ReadsBeforeWriting

(* A task that ends wakes the other one and waits for nothing itself.      *)
LEMMA FinishWaits ==
  ASSUME SlotInv, WaitInv, NEW t \in Tasks, cur \in {None, t}, Finish(t)
  PROVE  WaitInv'
<1> USE NoneAssumption
    DEF SlotInv, TaskTypes, WaitInv, WaiterRegistered, WaitsAreTimed,
        WaitsInPlace, ReadsBeforeWriting, Tasks
<1>1. /\ future' = [future EXCEPT ![t] = "dropped"]
      /\ waits' = [waits EXCEPT ![t] = {}]
      /\ woken' = (woken \cup {u \in Tasks : future[u] = "alive"}) \ {t}
      /\ cur' = None /\ UNCHANGED at
  BY DEF Finish
<1>2. \A u \in Tasks : future'[u] = "alive" => u \in woken'
  BY <1>1
<1>3. WaitsInPlace' /\ ReadsBeforeWriting'
  BY <1>1
<1>4. QED
  BY <1>2, <1>3

(* Every step keeps those who wait registered and timed.                   *)
LEMMA WaitStep == ASSUME SlotInv, WaitInv, [Next]_vars PROVE WaitInv'
<1> USE NoneAssumption
    DEF SlotInv, TaskTypes, OwnershipInv, HandedOver, PolledIsAlive, WaitInv,
        WaiterRegistered, WaitsAreTimed, WaitsInPlace, ReadsBeforeWriting,
        Tasks, InLoop, InRequest, InDriver, sockVars, nginxVars, pcVars,
        taskVars, hyperVars
<1>1. CASE Peer
  BY <1>1 DEF Peer
<1>2. CASE ReadEvent
  BY <1>2 DEF ReadEvent, read_handler, Wake
<1>3. CASE WriteEvent
  BY <1>3 DEF WriteEvent, Wake
<1>4. CASE TimerFires
  <2>1. /\ cur = None /\ rev' = None
        /\ woken' = woken \cup {t \in Tasks \cap {rev} : future[t] = "alive"}
        /\ UNCHANGED <<wev, future, cur, waits, at, step>>
    BY <1>4 DEF TimerFires, read_handler, Wake
  <2>2. \A t \in Tasks : future'[t] = "alive" /\ t \notin woken' =>
          waits'[t] \cap {"connect", "read", "write"} = {}
    BY <2>1
  <2>3. WaiterRegistered' /\ WaitsAreTimed'
    BY <2>2
  <2>4. WaitsInPlace' /\ ReadsBeforeWriting'
    BY <2>1
  <2>5. QED
    BY <2>3, <2>4
<1>5. CASE OtherConnection
  BY <1>5 DEF OtherConnection
<1>6. CASE Handler
  BY <1>6 DEF Handler
<1>7. CASE Teardown
  BY <1>7 DEF Teardown, Wake
<1>8. ASSUME NEW t \in Tasks, Run(t) PROVE WaitInv'
  <2>1. CASE t = "request" /\ cancelled
    BY <1>8, <2>1, FinishWaits DEF Run
  <2>2. CASE ~(t = "request" /\ cancelled)
    BY <1>8, <2>2 DEF Run
  <2>3. QED
    BY <2>1, <2>2
<1>9. CASE new
  BY <1>9 DEF new
<1>10. CASE get_nginx_io
  BY <1>10 DEF get_nginx_io
<1>11. CASE connect_error
  BY <1>11 DEF connect_error
<1>12. CASE connect_ok
  BY <1>12 DEF connect_ok, connect_peer
<1>13. CASE connect_again
  BY <1>13 DEF connect_again, connect_peer, Pending
<1>14. CASE connect_timedout
  BY <1>14 DEF connect_timedout, close
<1>15. CASE test_connect
  BY <1>15 DEF test_connect
<1>16. CASE spawn_driver
  BY <1>16 DEF spawn_driver
<1>17. CASE AwaitReply
  BY <1>17 DEF AwaitReply, Pending
<1>18. CASE Return
  BY <1>18, FinishWaits DEF Return
<1>19. CASE read_again
  BY <1>19 DEF read_again, poll_read
<1>20. CASE read_data
  BY <1>20 DEF read_data, poll_read, Wake
<1>21. CASE read_eof
  BY <1>21 DEF read_eof, poll_read, Wake
<1>22. CASE read_error
  BY <1>22 DEF read_error
<1>23. CASE SenderGone
  BY <1>23 DEF SenderGone
<1>24. CASE write_done
  BY <1>24 DEF write_done, poll_write
<1>25. CASE write_again
  BY <1>25 DEF write_again, poll_write, Pending
<1>26. CASE write_error
  BY <1>26 DEF write_error, poll_write
<1>27. CASE NothingToWrite
  BY <1>27 DEF NothingToWrite, Pending
<1>28. CASE poll_shutdown
  BY <1>28 DEF poll_shutdown, close_pc, close
<1>29. CASE DriverEnds
  BY <1>29, FinishWaits DEF DriverEnds
<1>30. CASE UNCHANGED vars
  BY <1>30 DEF vars
<1>31. CASE PeerSends
  BY <1>31 DEF PeerSends
<1>32. QED
  BY <1>1, <1>2, <1>3, <1>4, <1>5, <1>6, <1>7, <1>8, <1>9, <1>10, <1>11,
     <1>12, <1>13, <1>14, <1>15, <1>16, <1>17, <1>18, <1>19, <1>20, <1>21,
     <1>22, <1>23, <1>24, <1>25, <1>26, <1>27, <1>28, <1>29, <1>30, <1>31
     DEF Next, Event, PollStep

(* It holds in every reachable state.                                      *)
LEMMA WaitInvariant == Spec => []WaitInv
<1>1. Init => WaitInv
  BY DEF Init, WaitInv, WaiterRegistered, WaitsAreTimed, WaitsInPlace,
         ReadsBeforeWriting, Tasks
<1>2. SlotInv /\ WaitInv /\ [Next]_vars => WaitInv'
  BY WaitStep
<1>3. QED
  BY <1>1, <1>2, SlotInvariant, PTL DEF Spec

(* An event wakes the task that waits for it, though the connection passes *)
(* from one task to another with wakers stored in it.                      *)
THEOREM PeerWaiterRegistered == Spec => []WaiterRegistered
<1>1. WaitInv => WaiterRegistered
  BY DEF WaitInv
<1>2. QED
  BY <1>1, WaitInvariant, PTL

(* No task waits for the socket without a running read timer, a writer     *)
(* included (peer_conn.rs:60, 91, 217).                                    *)
THEOREM PeerWaitsAreTimed == Spec => []WaitsAreTimed
<1>1. WaitInv => WaitsAreTimed
  BY DEF WaitInv
<1>2. QED
  BY <1>1, WaitInvariant, PTL

-----------------------------------------------------------------------------
(* The connection slot as a lease.                                         *)

(* What Lease sees of a state: the PeerConnection and the slot.            *)
OwnerOf(m) ==
  CASE m = "none" -> "absent" [] m = "alive" -> "alive" [] OTHER -> "gone"
LeaseOf(c) ==
  CASE c = "unused" -> "free" [] c = "ours" -> "held"
    [] c = "free" -> "released" [] OTHER -> "reused"

(* A step changes the lease as its change of mem and slot says.            *)
LEMMA LeaseSteps ==
  /\ OwnerOf(mem') = OwnerOf(mem) /\ LeaseOf(slot') = LeaseOf(slot)
       => UNCHANGED LeasedSlot!vars
  /\ mem = "none" /\ mem' = "alive" /\ slot' = slot => LeasedSlot!Next
  /\ mem = "alive" /\ slot = "unused" /\ mem' = "alive" /\ slot' = "ours"
       => LeasedSlot!Next
  /\ slot = "ours" /\ slot' = "free" /\ mem' = mem => LeasedSlot!Next
  /\ slot = "free" /\ slot' = "other" /\ mem' = mem => LeasedSlot!Next
  /\ mem = "alive" /\ mem' = "dropped"
       /\ LeaseOf(slot') = (IF slot = "ours" THEN "released" ELSE LeaseOf(slot))
       => LeasedSlot!Next
<1> USE DEF OwnerOf, LeaseOf
<1>1. ASSUME OwnerOf(mem') = OwnerOf(mem), LeaseOf(slot') = LeaseOf(slot)
      PROVE  UNCHANGED LeasedSlot!vars
  BY <1>1 DEF LeasedSlot!vars
<1>2. ASSUME mem = "none", mem' = "alive", slot' = slot
      PROVE  LeasedSlot!Begin("pc")
  BY <1>2 DEF LeasedSlot!Begin
<1>3. ASSUME mem = "alive", slot = "unused", mem' = "alive", slot' = "ours"
      PROVE  LeasedSlot!Acquire("pc")
  BY <1>3 DEF LeasedSlot!Acquire
<1>4. ASSUME slot = "ours", slot' = "free", mem' = mem
      PROVE  LeasedSlot!Release("pc")
  BY <1>4 DEF LeasedSlot!Release
<1>5. ASSUME mem = "alive", mem' = "dropped",
             LeaseOf(slot') =
               (IF slot = "ours" THEN "released" ELSE LeaseOf(slot))
      PROVE  LeasedSlot!End("pc")
  BY <1>5 DEF LeasedSlot!End
<1>6. ASSUME slot = "free", slot' = "other", mem' = mem
      PROVE  LeasedSlot!Reuse("pc")
  BY <1>6 DEF LeasedSlot!Reuse
<1>7. QED
  BY <1>1, <1>2, <1>3, <1>4, <1>5, <1>6 DEF LeasedSlot!Next

(* The end of a task gives the slot back with the PeerConnection, or       *)
(* leaves both alone.                                                      *)
LEMMA FinishImplements ==
  ASSUME SlotInv, NEW t \in Tasks, Finish(t)
  PROVE  [LeasedSlot!Next]_(LeasedSlot!vars)
<1> USE DEF SlotInv, SlotTypes, OwnershipInv, HandlersOnLiveMemory, DanglesInPoll
<1>1. CASE Owner = t /\ mem = "alive" /\ connection
  <2>1. /\ mem' = "dropped"
        /\ slot' = (IF slot = "unused" THEN "unused" ELSE "free")
    BY <1>1 DEF Finish, Drop, close_pc, close
  <2>2. QED
    BY <1>1, <2>1, LeaseSteps DEF LeaseOf
<1>2. CASE Owner = t /\ mem = "alive" /\ ~connection
  <2>1. mem' = "dropped" /\ slot' = slot
    BY <1>2 DEF Finish, Drop, close_pc, nginxVars
  <2>2. QED
    BY <1>2, <2>1, LeaseSteps DEF LeaseOf
<1>3. CASE ~(Owner = t /\ mem = "alive")
  <2>1. mem' = mem /\ slot' = slot
    BY <1>3 DEF Finish, pcVars, nginxVars
  <2>2. QED
    BY <2>1, LeaseSteps
<1>4. QED
  BY <1>1, <1>2, <1>3

(* Every step of PeerConn is a step of the lease or invisible to it.       *)
LEMMA StepImplementsLease ==
  ASSUME SlotInv, [Next]_vars
  PROVE  [LeasedSlot!Next]_(LeasedSlot!vars)
<1> USE DEF SlotInv, SlotTypes, OwnershipInv, InRequest, InDriver
<1>1. CASE new
  <2>1. \/ mem' = mem /\ slot' = slot
        \/ mem = "none" /\ mem' = "alive" /\ slot' = slot
    BY <1>1, NoneAssumption DEF new, nginxVars, ConnectsOnce, PolledIsAlive
  <2>2. QED
    BY <2>1, LeaseSteps
<1>2. CASE connect_ok \/ connect_again
  <2>1. mem = "alive" /\ mem' = mem /\ slot = "unused" /\ slot' = "ours"
    BY <1>2, NoneAssumption
       DEF connect_ok, connect_again, connect_peer, ConnectsOnce, PolledIsAlive,
           ConnectsOnLiveMemory
  <2>2. QED
    BY <2>1, LeaseSteps
<1>3. CASE connect_timedout
  <2>1. slot = "ours" /\ slot' = "free" /\ mem' = mem
    BY <1>3 DEF connect_timedout, close, pcVars, DanglesInPoll
  <2>2. QED
    BY <2>1, LeaseSteps
<1>4. CASE poll_shutdown
  <2>1. \/ slot = "ours" /\ slot' = "free" /\ mem' = mem
        \/ slot' = slot /\ mem' = mem
    BY <1>4 DEF poll_shutdown, close_pc, close, nginxVars, DanglesInPoll
  <2>2. QED
    BY <2>1, LeaseSteps
<1>5. CASE Return \/ DriverEnds
  BY <1>5, FinishImplements DEF Return, DriverEnds, Tasks
<1>6. CASE OtherConnection
  <2>1. slot = "free" /\ slot' = "other" /\ mem' = mem
    BY <1>6 DEF OtherConnection, pcVars
  <2>2. QED
    BY <2>1, LeaseSteps
<1>7. ASSUME NEW t \in Tasks, Run(t) PROVE [LeasedSlot!Next]_(LeasedSlot!vars)
  <2>1. CASE Finish(t)
    BY <2>1, FinishImplements
  <2>2. CASE UNCHANGED <<mem, slot>>
    BY <2>2, LeaseSteps
  <2>3. QED
    BY <1>7, <2>1, <2>2 DEF Run, pcVars, nginxVars
<1>8. CASE UNCHANGED <<mem, slot>>
  BY <1>8, LeaseSteps
<1>9. \/ new \/ connect_ok \/ connect_again \/ connect_timedout \/ poll_shutdown
      \/ Return \/ DriverEnds \/ OtherConnection
      \/ \E t \in Tasks : Run(t)
      \/ UNCHANGED <<mem, slot>>
  <2> USE DEF pcVars, nginxVars
  <2>1. CASE PeerSends \/ Peer \/ Handler \/ Teardown \/ UNCHANGED vars
    BY <2>1 DEF PeerSends, Peer, Handler, Teardown, vars
  <2>2. CASE Event
    BY <2>2 DEF Event, ReadEvent, WriteEvent, TimerFires, read_handler
  <2>3. CASE PollStep
    BY <2>3
       DEF PollStep, get_nginx_io, connect_error, test_connect, spawn_driver,
           AwaitReply, read_again, read_data, read_eof, poll_read, read_error,
           SenderGone, write_done, write_again, write_error, NothingToWrite
  <2>4. QED
    BY <2>1, <2>2, <2>3 DEF Next
<1>10. QED
  BY <1>1, <1>2, <1>3, <1>4, <1>5, <1>6, <1>7, <1>8, <1>9

(* The connection slot is a lease of the PeerConnection, its liveness      *)
(* aside: it is taken at most once, by a live PeerConnection, and closed   *)
(* at the latest with it; a close never hits the connection of another     *)
(* socket (peer_conn.rs:187, 261-273).                                     *)
THEOREM PeerImplementsLease == Spec => LeasedSlot!Safety
<1>1. Init => LeasedSlot!Init
  BY DEF Init, LeasedSlot!Init
<1>2. SlotInv /\ [Next]_vars => [LeasedSlot!Next]_(LeasedSlot!vars)
  BY StepImplementsLease
<1>3. QED
  BY <1>1, <1>2, SlotInvariant, PTL DEF Spec, LeasedSlot!Safety
=============================================================================
