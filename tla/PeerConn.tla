------------------------------- MODULE PeerConn -------------------------------
(***************************************************************************)
(* PeerConnection (examples/nginx_acme/net/peer_conn.rs), the async        *)
(* wrapper of an nginx connection, as benchmark.rs uses it: the request's  *)
(* task connects (get_nginx_io), then hands it to a detached task, the     *)
(* driver, which reads and writes for it (hyper_client).                   *)
(*                                                                         *)
(* Everything below runs on the nginx main thread, but for the kernel and  *)
(* the peer.  A wake only marks a task (module Executor), so an event      *)
(* handler and the poll it causes are steps of their own, and other        *)
(* events, timers, connections and teardowns come between them.  Events    *)
(* are edge-triggered (epoll).                                             *)
(***************************************************************************)
EXTENDS Naturals

CONSTANTS
  None,       \* no waker, no task
  MaxChunks,  \* chunks the receive buffer takes (a bound)
  MaxWrites   \* writes the HTTP request takes (a bound)

ASSUME NoneAssumption == None \notin {"request", "driver"}
ASSUME BoundsAssumption == MaxChunks \in Nat /\ MaxWrites \in Nat

Tasks == {"request", "driver"}

VARIABLES
  sock,        \* the socket, as the kernel has it
  inbox,       \* chunks that arrived and were not received
  room,        \* does the send buffer take another write?
  edges,       \* readiness changes epoll has not reported yet
  slot,        \* the ngx_connection_t: unused, ours, free, another socket's
  timer,       \* is the read event in nginx's timer tree?
  timedout,    \* the read event's timedout flag
  mem,         \* the PeerConnection and its pool
  connection,  \* is pc.connection non-null?
  rev, wev,    \* the wakers stored in the PeerConnection
  future,      \* the tasks' futures
  woken,       \* tasks that are owed a poll
  cancelled,   \* did the request's pool cleanup cancel the request's task?
  cur,         \* the task being polled
  waits,       \* what a task's last poll returned Pending on
  at,          \* where the request's task is in hyper_client
  step,        \* where the driver is in its poll
  todo,        \* writes the driver still has to do
  reply        \* what the driver answered the request's task

sockVars == <<sock, inbox, room, edges>>
nginxVars == <<slot, timer, timedout>>
pcVars == <<mem, connection, rev, wev>>
taskVars == <<future, woken, cancelled, cur, waits>>
hyperVars == <<at, step, todo, reply>>
vars == <<sockVars, nginxVars, pcVars, taskVars, hyperVars>>

TypeOK ==
  /\ sock \in {"closed", "connecting", "refused", "open", "eof", "reset"}
  /\ inbox \in 0..MaxChunks
  /\ room \in BOOLEAN
  /\ edges \subseteq {"read", "write"}
  /\ slot \in {"unused", "ours", "free", "other"}
  /\ timer \in BOOLEAN /\ timedout \in BOOLEAN
  /\ timer => slot = "ours"
  /\ mem \in {"none", "alive", "dropped"}
  /\ connection \in BOOLEAN
  /\ rev \in Tasks \cup {None} /\ wev \in Tasks \cup {None}
  /\ future \in [Tasks -> {"none", "alive", "dropped"}]
  /\ woken \subseteq {t \in Tasks : future[t] = "alive"}
  /\ cancelled \in BOOLEAN
  /\ cur \in Tasks \cup {None}
  /\ waits \in [Tasks -> SUBSET {"connect", "reply", "read", "write"}]
  /\ at \in {"start", "address", "connect", "failed", "call", "reply"}
  /\ step \in {"read", "write", "shutdown", "end"}
  /\ todo \in 0..MaxWrites
  /\ reply \in {"none", "done", "failed"}

Init ==
  /\ sock = "closed" /\ inbox = 0 /\ room = TRUE /\ edges = {}
  /\ slot = "unused" /\ timer = FALSE /\ timedout = FALSE
  /\ mem = "none" /\ connection = FALSE /\ rev = None /\ wev = None
  /\ future = [t \in Tasks |-> "none"]
  /\ woken = {} /\ cancelled = FALSE /\ cur = None
  /\ waits = [t \in Tasks |-> {}]
  /\ at = "start" /\ step = "read" /\ todo = MaxWrites /\ reply = "none"

-----------------------------------------------------------------------------
(* The peer sends, now and then and for ever, as long as the receive       *)
(* buffer has room.                                                        *)
PeerSends ==
  /\ sock = "open" /\ inbox < MaxChunks
  /\ inbox' = inbox + 1
  /\ edges' = edges \cup {"read"}
  /\ UNCHANGED <<sock, room, nginxVars, pcVars, taskVars, hyperVars>>

(* The kernel and the peer, at any time.                                   *)
Peer ==
  /\ \/ /\ sock = "connecting"
        /\ \/ sock' = "open" /\ edges' = edges \cup {"write"}
           \/ sock' = "refused" /\ edges' = {"read", "write"}
        /\ UNCHANGED room
     \/ /\ sock = "open"
        /\ sock' = "eof" /\ edges' = edges \cup {"read"}
        /\ UNCHANGED room
     \/ /\ sock \in {"open", "eof"}
        /\ sock' = "reset" /\ edges' = {"read", "write"}
        /\ UNCHANGED room
     \/ /\ sock \in {"open", "eof"} /\ ~room
        /\ room' = TRUE /\ edges' = edges \cup {"write"}
        /\ UNCHANGED sock
  /\ UNCHANGED <<inbox, nginxVars, pcVars, taskVars, hyperVars>>

-----------------------------------------------------------------------------
(* The main thread is in the nginx event loop.                             *)
InLoop == cur = None

(* Waking the tasks ts: only those that still run notice.                  *)
Wake(ts) == woken' = woken \cup {t \in Tasks \cap ts : future[t] = "alive"}

(* Connection::close, ngx_close_connection: whichever socket the slot      *)
(* holds is closed, and with it go its timer and its events.  On a slot    *)
(* that is free already nginx only logs an alert.                          *)
close ==
  /\ slot' = IF slot = "unused" THEN "unused" ELSE "free"
  /\ sock' = "closed" /\ edges' = {} /\ timer' = FALSE
  /\ UNCHANGED <<inbox, room, timedout>>

(* Broken: the PeerConnection goes without closing its connection.         *)
DropWithoutClose ==
  /\ mem' = "dropped"
  /\ connection' = FALSE
  /\ UNCHANGED <<rev, wev, sockVars, nginxVars>>

(* PeerConnection::close and poll_shutdown: what pc.connection points to   *)
(* is closed, and pc.connection becomes null.                              *)
close_pc ==
  /\ IF connection THEN close ELSE UNCHANGED <<sockVars, nginxVars>>
  /\ connection' = FALSE

(* Drop for PeerConnection; its pool goes with it.                         *)
Drop ==
  /\ mem' = "dropped"
  /\ close_pc
  /\ UNCHANGED <<rev, wev>>

(* The PeerConnection is the request's until the driver is spawned.        *)
Owner == IF future["driver"] = "none" THEN "request" ELSE "driver"

(* Task t ends: its future is dropped, with the PeerConnection if it owns  *)
(* it, and with its end of hyper's channel, which wakes the other task.    *)
Finish(t) ==
  /\ future' = [future EXCEPT ![t] = "dropped"]
  /\ waits' = [waits EXCEPT ![t] = {}]
  /\ woken' = (woken \cup {u \in Tasks : future[u] = "alive"}) \ {t}
  /\ cur' = None
  /\ IF Owner = t /\ mem = "alive"
     THEN Drop
     ELSE UNCHANGED <<sockVars, nginxVars, pcVars>>
  /\ reply' = IF t = "driver" /\ reply = "none" THEN "failed" ELSE reply
  /\ UNCHANGED <<cancelled, at, step, todo>>

(* The poll of cur returns Pending on ops.                                 *)
Pending(ops) ==
  /\ cur' = None
  /\ waits' = [waits EXCEPT ![cur] = ops]

-----------------------------------------------------------------------------
(* nginx's part: the event loop, other connections, the request's end.     *)

(* ngx_peer_conn_read_handler: take the waker and wake it.                 *)
read_handler ==
  /\ Wake({rev})
  /\ rev' = None
  /\ UNCHANGED <<mem, connection, wev, future, cancelled, cur, waits, hyperVars>>

ReadEvent ==
  /\ InLoop /\ "read" \in edges
  /\ edges' = edges \ {"read"}
  /\ read_handler
  /\ UNCHANGED <<sock, inbox, room, nginxVars>>

(* ngx_peer_conn_write_handler; with no waker stored, it only asks epoll   *)
(* for what epoll already reports.                                         *)
WriteEvent ==
  /\ InLoop /\ "write" \in edges
  /\ edges' = edges \ {"write"}
  /\ Wake({wev})
  /\ wev' = None
  /\ UNCHANGED <<sock, inbox, room, nginxVars, mem, connection, rev,
                 future, cancelled, cur, waits, hyperVars>>

(* Broken: on a timeout the handler closes the connection itself.          *)
TimerCloses ==
  /\ InLoop /\ timer
  /\ timedout' = TRUE
  /\ slot' = "free" /\ sock' = "closed" /\ edges' = {} /\ timer' = FALSE
  /\ read_handler
  /\ UNCHANGED <<inbox, room>>

(* The read event's 60 s are over: its handler runs with timedout set.     *)
TimerFires ==
  /\ InLoop /\ timer
  /\ timer' = FALSE /\ timedout' = TRUE
  /\ read_handler
  /\ UNCHANGED <<sockVars, slot>>

(* nginx gives a free ngx_connection_t to another socket, with its events  *)
(* zeroed.  That socket keeps it: giving it back would only lead back to   *)
(* the state before, and what counts is that it is not ours to close.      *)
OtherConnection ==
  /\ InLoop /\ slot = "free"
  /\ slot' = "other"
  /\ timedout' = FALSE
  /\ UNCHANGED <<timer, sockVars, pcVars, taskVars, hyperVars>>

(* The handler spawns the request's task; its pool's cleanup cancels it.   *)
Handler ==
  /\ InLoop /\ future["request"] = "none"
  /\ future' = [future EXCEPT !["request"] = "alive"]
  /\ woken' = woken \cup {"request"}
  /\ UNCHANGED <<sockVars, nginxVars, pcVars, cancelled, cur, waits, hyperVars>>

Teardown ==
  /\ InLoop /\ future["request"] = "alive" /\ ~cancelled
  /\ cancelled' = TRUE
  /\ Wake({"request"})
  /\ UNCHANGED <<sockVars, nginxVars, pcVars, future, cur, waits, hyperVars>>

(* async_handler runs a task; of a cancelled one only the future is        *)
(* dropped.                                                                *)
Run(t) ==
  /\ InLoop /\ t \in woken
  /\ IF t = "request" /\ cancelled
     THEN Finish(t)
     ELSE /\ cur' = t
          /\ woken' = woken \ {t}
          /\ waits' = [waits EXCEPT ![t] = {}]
          /\ step' = "read"
          /\ UNCHANGED <<sockVars, nginxVars, pcVars, future, cancelled, at,
                         todo, reply>>

-----------------------------------------------------------------------------
(* The request's task, while it is polled.                                 *)
InRequest(place) == cur = "request" /\ at = place

(* PeerConnection::new: its pool and its log, or out of memory.            *)
new ==
  /\ InRequest("start")
  /\ \/ at' = "failed" /\ UNCHANGED mem
     \/ at' = "address" /\ mem' = "alive"
  /\ UNCHANGED <<sockVars, nginxVars, connection, rev, wev, taskVars, step,
                 todo, reply>>

(* The address is allocated in the request's pool and copied into the      *)
(* connection's (connect); any of it can fail.                             *)
get_nginx_io ==
  /\ InRequest("address")
  /\ at' \in {"failed", "connect"}
  /\ UNCHANGED <<sockVars, nginxVars, pcVars, taskVars, step, todo, reply>>

(* ngx_event_connect_peer took a connection; its events' handlers are      *)
(* ours, its data is the PeerConnection.                                   *)
connect_peer(s) ==
  /\ InRequest("connect") /\ ~connection
  /\ slot' = "ours" /\ sock' = s
  /\ connection' = TRUE

(* Broken: the timer is armed before the result is looked at.              *)
ConnectFailsArmed ==
  /\ InRequest("connect") /\ ~connection
  /\ at' = "failed" /\ timer' = TRUE
  /\ UNCHANGED <<sockVars, slot, timedout, pcVars, taskVars, step, todo, reply>>

(* connect_peer returned an error; nginx left pc.connection null.          *)
connect_error ==
  /\ InRequest("connect") /\ ~connection
  /\ at' = "failed"
  /\ UNCHANGED <<sockVars, nginxVars, pcVars, taskVars, step, todo, reply>>

(* NGX_OK, from a connect that is done at once: no timer, no wakers.       *)
connect_ok ==
  /\ connect_peer("open")
  /\ edges' = {"write"}
  /\ at' = "call"
  /\ UNCHANGED <<inbox, room, timer, timedout, mem, rev, wev, taskVars,
                 step, todo, reply>>

(* Broken: no timer while connecting.                                      *)
ConnectWithoutTimer ==
  /\ connect_peer("connecting")
  /\ rev' = "request" /\ wev' = "request"
  /\ Pending({"connect"})
  /\ UNCHANGED <<inbox, room, edges, timer, timedout, mem, future, woken,
                 cancelled, hyperVars>>

(* NGX_AGAIN: the read timer is set and both wakers are the task's.        *)
connect_again ==
  /\ connect_peer("connecting")
  /\ timer' = TRUE
  /\ rev' = "request" /\ wev' = "request"
  /\ Pending({"connect"})
  /\ UNCHANGED <<inbox, room, edges, timedout, mem, future, woken,
                 cancelled, hyperVars>>

(* poll_connect's second call.  A connection that timed out is closed, but *)
(* pc.connection keeps pointing to it.                                     *)
connect_timedout ==
  /\ InRequest("connect") /\ connection /\ timedout
  /\ close
  /\ at' = "failed"
  /\ UNCHANGED <<pcVars, taskVars, step, todo, reply>>

(* test_connect: SO_ERROR tells whether connect() failed.                  *)
test_connect ==
  /\ InRequest("connect") /\ connection /\ ~timedout
  /\ at' = IF sock \in {"refused", "reset"} THEN "failed" ELSE "call"
  /\ UNCHANGED <<sockVars, nginxVars, pcVars, taskVars, step, todo, reply>>

(* hyper_client: the driver is spawned and detached, the HTTP request put  *)
(* into hyper's channel.                                                   *)
spawn_driver ==
  /\ InRequest("call")
  /\ future' = [future EXCEPT !["driver"] = "alive"]
  /\ woken' = woken \cup {"driver"}
  /\ at' = "reply"
  /\ UNCHANGED <<sockVars, nginxVars, pcVars, cancelled, cur, waits, step, todo,
                 reply>>

AwaitReply ==
  /\ InRequest("reply") /\ reply = "none"
  /\ Pending({"reply"})
  /\ UNCHANGED <<sockVars, nginxVars, pcVars, future, woken, cancelled, hyperVars>>

(* hyper_client returns, with an error or with the body.                   *)
Return ==
  /\ \/ InRequest("failed")
     \/ InRequest("reply") /\ reply # "none"
  /\ Finish("request")

-----------------------------------------------------------------------------
(* The driver: each poll reads as long as data comes, then writes what it  *)
(* can.  It ends when the response is complete, on an error, and when the  *)
(* request's task has gone.                                                *)
InDriver(s) == cur = "driver" /\ step = s

(* What recv sees: nginx reports NGX_AGAIN while epoll owes it an event.   *)
RecvAgain ==
  \/ sock = "open" /\ inbox = 0
  \/ sock \in {"open", "eof", "reset"} /\ "read" \in edges
RecvData == sock \in {"open", "eof"} /\ inbox > 0
RecvEof == sock = "eof" /\ inbox = 0
RecvError == sock = "reset"

poll_read(result) ==
  /\ InDriver("read") /\ connection /\ ~timedout
  /\ result
  /\ timer' = TRUE
  /\ UNCHANGED <<slot, timedout>>

(* Broken: a waker that is already stored is kept.                         *)
PollReadKeepsWaker ==
  /\ poll_read(RecvAgain)
  /\ rev' = IF rev = None THEN "driver" ELSE rev
  /\ waits' = [waits EXCEPT !["driver"] = {"read"}]
  /\ step' = "write"
  /\ UNCHANGED <<sockVars, mem, connection, wev, future, woken, cancelled, cur,
                 at, todo, reply>>

(* Broken: poll_read sets no timer.                                        *)
PollReadWithoutTimer ==
  /\ InDriver("read") /\ connection /\ ~timedout
  /\ RecvAgain
  /\ rev' = "driver"
  /\ waits' = [waits EXCEPT !["driver"] = {"read"}]
  /\ step' = "write"
  /\ UNCHANGED <<sockVars, nginxVars, mem, connection, wev, future, woken,
                 cancelled, cur, at, todo, reply>>

read_again ==
  /\ poll_read(RecvAgain)
  /\ rev' = "driver"
  /\ waits' = [waits EXCEPT !["driver"] = {"read"}]
  /\ step' = "write"
  /\ UNCHANGED <<sockVars, mem, connection, wev, future, woken, cancelled, cur,
                 at, todo, reply>>

(* A chunk is part of the response, or its end, or not HTTP.               *)
read_data ==
  /\ poll_read(RecvData)
  /\ inbox' = inbox - 1
  /\ \/ UNCHANGED <<step, reply, woken>>
     \/ step' = "shutdown" /\ reply' = "done" /\ Wake({"request"})
     \/ step' = "end" /\ reply' = "failed" /\ Wake({"request"})
  /\ UNCHANGED <<sock, room, edges, pcVars, future, cancelled, cur, waits,
                 at, todo>>

read_eof ==
  /\ poll_read(RecvEof)
  /\ step' = "shutdown"
  /\ reply' \in {"done", "failed"}
  /\ Wake({"request"})
  /\ UNCHANGED <<sockVars, pcVars, future, cancelled, cur, waits, at, todo>>

read_error ==
  /\ InDriver("read")
  /\ ~connection \/ timedout \/ RecvError
  /\ step' = "end"
  /\ UNCHANGED <<sockVars, nginxVars, pcVars, taskVars, at, todo, reply>>

(* hyper finds that nobody waits for the response any more.                *)
SenderGone ==
  /\ InDriver("read") /\ future["request"] = "dropped"
  /\ step' = "shutdown"
  /\ UNCHANGED <<sockVars, nginxVars, pcVars, taskVars, at, todo, reply>>

poll_write(result) ==
  /\ InDriver("write") /\ connection /\ todo > 0
  /\ result

write_done ==
  /\ poll_write(sock # "reset" /\ room)
  /\ todo' = todo - 1
  /\ room' \in BOOLEAN
  /\ UNCHANGED <<sock, inbox, edges, nginxVars, pcVars, taskVars, at,
                 step, reply>>

write_again ==
  /\ poll_write(sock # "reset" /\ ~room)
  /\ wev' = "driver"
  /\ Pending({"read", "write"})
  /\ UNCHANGED <<sockVars, nginxVars, mem, connection, rev, future, woken,
                 cancelled, hyperVars>>

write_error ==
  /\ poll_write(sock = "reset")
  /\ step' = "end"
  /\ UNCHANGED <<sockVars, nginxVars, pcVars, taskVars, at, todo, reply>>

NothingToWrite ==
  /\ InDriver("write") /\ todo = 0
  /\ Pending({"read"})
  /\ UNCHANGED <<sockVars, nginxVars, pcVars, future, woken, cancelled, hyperVars>>

poll_shutdown ==
  /\ InDriver("shutdown")
  /\ close_pc
  /\ step' = "end"
  /\ UNCHANGED <<mem, rev, wev, taskVars, at, todo, reply>>

DriverEnds == InDriver("end") /\ Finish("driver")

-----------------------------------------------------------------------------
Event == ReadEvent \/ WriteEvent \/ TimerFires

PollStep ==
  \/ new \/ get_nginx_io \/ connect_error \/ connect_ok \/ connect_again \/ connect_timedout
  \/ test_connect \/ spawn_driver \/ AwaitReply \/ Return
  \/ read_again \/ read_data \/ read_eof \/ read_error \/ SenderGone
  \/ write_done \/ write_again \/ write_error \/ NothingToWrite
  \/ poll_shutdown \/ DriverEnds

Next ==
  \/ PeerSends \/ Peer \/ Event \/ OtherConnection \/ Handler \/ Teardown
  \/ \E t \in Tasks : Run(t)
  \/ PollStep

Spec == Init /\ [][Next]_vars

(* The event loop reports readiness, lets timers expire and runs woken     *)
(* tasks; polls return.  The peer owes nothing, nor does nginx.            *)
Fairness ==
  /\ WF_vars(ReadEvent) /\ WF_vars(WriteEvent) /\ WF_vars(TimerFires)
  /\ \A t \in Tasks : WF_vars(Run(t))
  /\ WF_vars(PollStep)

FairSpec == Spec /\ Fairness

-----------------------------------------------------------------------------
(* Whenever nginx may hand connections out, a pc.connection that is set    *)
(* points to a connection of ours: the second close of a timed-out one     *)
(* (peer_conn.rs:187, then Drop, :261) comes before another socket can     *)
(* have the slot.                                                          *)
ConnectionOwned == InLoop /\ connection => slot = "ours"

(* An event handler never runs on a PeerConnection that is gone: its       *)
(* pointer is in c.data as long as the connection is open (:166, :336).    *)
HandlersOnLiveMemory ==
  slot = "ours" => mem = "alive" /\ connection

(* A task that waits for an event is in the slot the event's handler looks *)
(* at, though another task's waker was there before it (:66, :91, :219).   *)
WaiterRegistered ==
  \A t \in Tasks : future[t] = "alive" /\ t # cur /\ t \notin woken =>
    /\ "read" \in waits[t] => rev = t
    /\ "write" \in waits[t] => wev = t
    /\ "connect" \in waits[t] => rev = t /\ wev = t

(* Who waits for the socket waits no longer than 60 s: the read event's    *)
(* timer runs for him, also while he waits to write (:60, :91, :217).      *)
WaitsAreTimed ==
  \A t \in Tasks : future[t] = "alive" /\ t # cur /\ t \notin woken =>
    (waits[t] \cap {"connect", "read", "write"} # {} => timer)

(* The peer sends no more from some time on.                               *)
StopsSending == <>[][~PeerSends]_vars

(* Unless the peer sends for ever, both tasks come to their end, though it *)
(* stops reading, answers half or says nothing: only the read event has a  *)
(* timer (:60, :217; none at :91).  Every chunk starts the 60 s anew       *)
(* (:60), so a body that drips for ever keeps the request and its driver   *)
(* for ever.                                                               *)
TasksEnd ==
  StopsSending =>
    \A t \in Tasks : future[t] = "alive" ~> future[t] = "dropped"

(* The connection slot is a lease of the PeerConnection, with the detached *)
(* driver as with the request's task: taken once, closed at the latest     *)
(* with its memory, and not touched any more when another socket has it.   *)
(* The second close of a slot that nobody has (:187, then :261) is no step *)
(* of the lease; one of another's connection would be a wrong one.  It is  *)
(* closed some day, unless the peer sends for ever.                        *)
LeasedSlot == INSTANCE Lease WITH
  Owners <- {"pc"},
  owner <- [o \in {"pc"} |->
    CASE mem = "none" -> "absent" [] mem = "alive" -> "alive" [] OTHER -> "gone"],
  lease <- [o \in {"pc"} |->
    CASE slot = "unused" -> "free" [] slot = "ours" -> "held"
      [] slot = "free" -> "released" [] OTHER -> "reused"]

ImplementsLease ==
  LeasedSlot!Safety /\ (StopsSending => LeasedSlot!Fairness)
=============================================================================
