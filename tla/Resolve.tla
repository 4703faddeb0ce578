------------------------------- MODULE Resolve -------------------------------
(***************************************************************************)
(* The benchmark's name lookup without a future: resolve_sync and          *)
(* resolve_sync_done (examples/benchmark.rs:67-211).  The resolver's       *)
(* context is pointed to by a SyncResolve in the request pool and given    *)
(* back by whoever comes first: the resolver's callback, nginx when the    *)
(* lookup cannot start, or the pool's cleanup.                             *)
(*                                                                         *)
(* All of it runs on the nginx main thread.  nginx's resolver is modelled  *)
(* as this code uses it: it may answer from its cache, inside              *)
(* ngx_resolve_name, and an answer serves all contexts that wait for the   *)
(* name.  A location has a resolver directive.                             *)
(***************************************************************************)
EXTENDS Naturals, Sequences, SequencesExt

CONSTANTS
  Requests,
  None,      \* no request, no connection
  Dangling,  \* the connection read from a request that is gone
  RingSize   \* RESOLVE_NAME_RING_SIZE

ASSUME RequestsAssumption == 
  /\ IsFiniteSet(Requests) /\ None \notin Requests
  /\ Dangling \notin Requests \cup {None}
ASSUME RingAssumption == RingSize \in Nat \ {0}

Names == 0..(RingSize - 1)

VARIABLES
  pool,      \* the request and its pool
  counter,   \* COUNTER, the next name's number
  name,      \* the name a request looks up
  ctx,       \* the resolver context; "twice": it was given back twice
  state,     \* SyncResolve in the pool: its ctx is set, null, or none, or refused
  cached,    \* names in nginx's resolver cache
  terminal,  \* requests with a terminate handler in their posted_requests
  closing,   \* finalized requests whose response nginx still has to send
  hpc, hreq, \* resolve_sync: its place and request
  cpc, creq, \* resolve_sync_done: its place and request
  posted,    \* resolve_sync_done's local run_posted
  conn,      \* resolve_sync_done's local c, a connection by its request
  calls      \* contexts whose callback nginx is about to call

handlerVars == <<hpc, hreq>>
callbackVars == <<cpc, creq, posted, conn, calls>>
resolverVars == <<counter, name, cached>>
requestVars == <<pool, ctx, state, terminal, closing>>
vars == <<requestVars, resolverVars, handlerVars, callbackVars>>

TypeOK ==
  /\ pool \in [Requests -> {"new", "alive", "freed"}]
  /\ counter \in Names
  /\ name \in [Requests -> Names]
  /\ ctx \in [Requests -> {"none", "held", "waiting", "called", "freed", "twice"}]
  /\ state \in [Requests -> {"none", "set", "null", "refused"}]
  /\ cached \subseteq Names
  /\ terminal \subseteq Requests /\ closing \subseteq Requests
  /\ hpc \in {"none", "start", "allocate", "resolve", "failed", "called"}
  /\ hreq \in Requests \cup {None}
  /\ cpc \in {"none", "enter", "finalize", "run_posted"}
  /\ creq \in Requests \cup {None}
  /\ posted \in BOOLEAN
  /\ conn \in Requests \cup {None, Dangling}
  /\ calls \in Seq(Requests)

Init ==
  /\ pool = [r \in Requests |-> "new"]
  /\ counter = 0
  /\ name = [r \in Requests |-> 0]
  /\ ctx = [r \in Requests |-> "none"]
  /\ state = [r \in Requests |-> "none"]
  /\ cached = {} /\ terminal = {} /\ closing = {}
  /\ hpc = "none" /\ hreq = None
  /\ cpc = "none" /\ creq = None /\ posted = FALSE /\ conn = None
  /\ calls = <<>>

-----------------------------------------------------------------------------
InLoop == hpc = "none" /\ cpc = "none" /\ calls = <<>>

(* ngx_resolve_name_done: takes the context off the list of its name and   *)
(* frees it.                                                               *)
name_done(r) == ctx' = [ctx EXCEPT ![r] = IF @ = "freed" THEN "twice" ELSE "freed"]

(* Broken: SyncResolve has no Drop.                                        *)
DestroyPoolLeaks(r) ==
  /\ pool' = [pool EXCEPT ![r] = "freed"]
  /\ terminal' = terminal \ {r}
  /\ closing' = closing \ {r}
  /\ UNCHANGED <<ctx, state>>

(* ngx_destroy_pool; the cleanup of the SyncResolve gives the context back *)
(* if it still has one.                                                    *)
DestroyPool(r) ==
  /\ pool' = [pool EXCEPT ![r] = "freed"]
  /\ IF state[r] = "set" THEN name_done(r) ELSE UNCHANGED ctx
  /\ state' = [state EXCEPT ![r] = IF @ = "set" THEN "null" ELSE @]
  /\ terminal' = terminal \ {r}
  /\ closing' = closing \ {r}

-----------------------------------------------------------------------------
(* Broken: the counter wraps one number late.                              *)
NextNameLate(r) ==
  /\ name' = [name EXCEPT ![r] = counter]
  /\ counter' = (counter + 1) % (RingSize + 1)

(* get_random_name: the next number of the ring.                           *)
get_random_name(r) ==
  /\ name' = [name EXCEPT ![r] = counter]
  /\ counter' = (counter + 1) % RingSize

(* A request comes in; resolve_sync names its lookup.                      *)
resolve_sync(r) ==
  /\ InLoop /\ pool[r] = "new"
  /\ pool' = [pool EXCEPT ![r] = "alive"]
  /\ get_random_name(r)
  /\ hpc' = "start" /\ hreq' = r
  /\ UNCHANGED <<ctx, state, terminal, closing, cached, callbackVars>>

(* resolve_sync returns 500; nginx sends it and ends the request.          *)
ReturnError ==
  /\ closing' = closing \cup {hreq}
  /\ hpc' = "none" /\ hreq' = None

ResolveStart ==
  /\ hpc = "start"
  /\ \/ ReturnError /\ UNCHANGED ctx
     \/ /\ ctx' = [ctx EXCEPT ![hreq] = "held"]
        /\ hpc' = "allocate"
        /\ UNCHANGED <<closing, hreq>>
  /\ UNCHANGED <<pool, state, terminal, resolverVars, callbackVars>>

(* pool.allocate takes the SyncResolve by value.  When the pool refuses    *)
(* the cleanup, it drops the value, whose Drop gives the context back, and *)
(* returns null; then resolve_sync gives the context back once more.  What *)
(* a context freed twice does to the resolver's memory is undefined; here  *)
(* the program goes on.                                                    *)
AllocateRefused ==
  /\ hpc = "allocate"
  /\ ctx' = [ctx EXCEPT ![hreq] = "twice"]
  /\ state' = [state EXCEPT ![hreq] = "refused"]
  /\ ReturnError
  /\ UNCHANGED <<pool, terminal, resolverVars, callbackVars>>

(* The SyncResolve is in the pool, and the pool's cleanup will drop it.    *)
AllocateState ==
  /\ hpc = "allocate"
  /\ state' = [state EXCEPT ![hreq] = "set"]
  /\ hpc' = "resolve"
  /\ UNCHANGED <<pool, ctx, terminal, closing, hreq, resolverVars, callbackVars>>

(* ngx_resolve_name: it fails and frees the context, answers from the      *)
(* cache by calling back before it returns, or keeps the context.          *)
ResolveName ==
  /\ hpc = "resolve"
  /\ \/ /\ ctx' = [ctx EXCEPT ![hreq] = "freed"]
        /\ hpc' = "failed"
        /\ UNCHANGED <<hreq, callbackVars>>
     \/ /\ name[hreq] \in cached
        /\ cpc' = "enter" /\ creq' = hreq
        /\ hpc' = "called"
        /\ UNCHANGED <<ctx, hreq, posted, conn, calls>>
     \/ /\ name[hreq] \notin cached
        /\ ctx' = [ctx EXCEPT ![hreq] = "waiting"]
        /\ hpc' = "none" /\ hreq' = None
        /\ UNCHANGED callbackVars
  /\ UNCHANGED <<pool, state, terminal, closing, resolverVars>>

(* Broken: the context that nginx freed stays in the SyncResolve.          *)
FailedKeepsContext ==
  /\ hpc = "failed"
  /\ ReturnError
  /\ UNCHANGED <<pool, ctx, state, terminal, resolverVars, callbackVars>>

(* The lookup did not start: the SyncResolve forgets the context.          *)
ResolveFailed ==
  /\ hpc = "failed"
  /\ state' = [state EXCEPT ![hreq] = "null"]
  /\ ReturnError
  /\ UNCHANGED <<pool, ctx, terminal, resolverVars, callbackVars>>

(* resolve_sync returns NGX_AGAIN to nginx, which then runs the            *)
(* connection's posted requests itself.                                    *)
ReturnAgain ==
  /\ hpc = "called" /\ cpc = "none"
  /\ hpc' = "none" /\ hreq' = None
  /\ \/ hreq \in terminal /\ DestroyPool(hreq)
     \/ hreq \notin terminal /\ UNCHANGED requestVars
  /\ UNCHANGED <<resolverVars, callbackVars>>

-----------------------------------------------------------------------------
(* nginx calls back: on an answer, for every context that waits for the    *)
(* name, or on a context's timeout.                                        *)
Waiting(n) == {r \in Requests : ctx[r] = "waiting" /\ name[r] = n}

Answer(n) ==
  /\ InLoop /\ Waiting(n) # {}
  /\ calls' \in SetToSeqs(Waiting(n))
  /\ ctx' = [r \in Requests |-> IF r \in Waiting(n) THEN "called" ELSE ctx[r]]
  /\ cached' \in {cached, cached \cup {n}}
  /\ UNCHANGED <<pool, state, terminal, closing, counter, name, handlerVars, cpc,
                 creq, posted, conn>>

Expire(n) ==
  /\ InLoop /\ n \in cached
  /\ cached' = cached \ {n}
  /\ UNCHANGED <<requestVars, counter, name, handlerVars, callbackVars>>

Timeout(r) ==
  /\ InLoop /\ ctx[r] = "waiting"
  /\ calls' = <<r>>
  /\ UNCHANGED <<requestVars, resolverVars, handlerVars, cpc, creq, posted, conn>>

Call ==
  /\ cpc = "none" /\ calls # <<>>
  /\ cpc' = "enter" /\ creq' = Head(calls)
  /\ calls' = Tail(calls)
  /\ UNCHANGED <<requestVars, resolverVars, handlerVars, posted, conn>>

(* state.request->connection; what is read from a freed request dangles.   *)
Connection(r) == IF pool[r] = "alive" THEN r ELSE Dangling

(* Broken: the context stays in the SyncResolve when it is given back.     *)
DoneKeepsContext ==
  /\ cpc = "enter"
  /\ posted' = (hpc = "none") /\ conn' = Connection(creq)
  /\ name_done(creq)
  /\ cpc' = "finalize"
  /\ UNCHANGED <<pool, state, terminal, closing, resolverVars, handlerVars, creq,
                 calls>>

(* Broken: the callback clears the SyncResolve, and nobody gives the       *)
(* context back.                                                           *)
DoneWithoutRelease ==
  /\ cpc = "enter"
  /\ posted' = (hpc = "none") /\ conn' = Connection(creq)
  /\ state' = [state EXCEPT ![creq] = "null"]
  /\ cpc' = "finalize"
  /\ UNCHANGED <<pool, ctx, terminal, closing, resolverVars, handlerVars, creq,
                 calls>>

(* resolve_sync_done: run_posted is ctx->async, true unless the callback   *)
(* came from inside ngx_resolve_name; the connection is read while the     *)
(* request lives; the context goes back, out of the SyncResolve first.     *)
resolve_sync_done ==
  /\ cpc = "enter"
  /\ posted' = (hpc = "none") /\ conn' = Connection(creq)
  /\ state' = [state EXCEPT ![creq] = "null"]
  /\ name_done(creq)
  /\ cpc' = "finalize"
  /\ UNCHANGED <<pool, terminal, closing, resolverVars, handlerVars, creq, calls>>

(* Broken: the connection is read from the request only when it is needed, *)
(* after ngx_http_finalize_request.                                        *)
FinalizeThenConnection ==
  /\ cpc = "finalize"
  /\ \/ DestroyPool(creq)
     \/ terminal' = terminal \cup {creq} /\ UNCHANGED <<pool, ctx, state, closing>>
     \/ closing' = closing \cup {creq} /\ UNCHANGED <<pool, ctx, state, terminal>>
  /\ conn' = IF pool'[creq] = "alive" THEN creq ELSE Dangling
  /\ cpc' = "run_posted"
  /\ UNCHANGED <<resolverVars, handlerVars, creq, posted, calls>>

(* ngx_http_finalize_request frees the request at once, or posts the       *)
(* terminate handler that will, or leaves it until the response is out.    *)
Finalize ==
  /\ cpc = "finalize"
  /\ \/ DestroyPool(creq)
     \/ terminal' = terminal \cup {creq} /\ UNCHANGED <<pool, ctx, state, closing>>
     \/ closing' = closing \cup {creq} /\ UNCHANGED <<pool, ctx, state, terminal>>
  /\ cpc' = "run_posted"
  /\ UNCHANGED <<resolverVars, handlerVars, creq, posted, conn, calls>>

(* Broken: posted requests are never run.                                  *)
ReturnFromCallback ==
  /\ cpc = "run_posted"
  /\ cpc' = "none" /\ creq' = None /\ posted' = FALSE /\ conn' = None
  /\ UNCHANGED <<requestVars, resolverVars, handlerVars, calls>>

(* ngx_http_run_posted_requests(c), if ctx->async was set.                 *)
RunPosted ==
  /\ cpc = "run_posted"
  /\ cpc' = "none" /\ creq' = None /\ posted' = FALSE /\ conn' = None
  /\ \/ posted /\ conn \in terminal /\ DestroyPool(conn)
     \/ ~(posted /\ conn \in terminal) /\ UNCHANGED requestVars
  /\ UNCHANGED <<resolverVars, handlerVars, calls>>

-----------------------------------------------------------------------------
(* nginx ends a request by itself: the client is gone.                     *)
Teardown(r) ==
  /\ InLoop /\ pool[r] = "alive"
  /\ DestroyPool(r)
  /\ UNCHANGED <<resolverVars, handlerVars, callbackVars>>

ResponseSent(r) ==
  /\ InLoop /\ r \in closing
  /\ DestroyPool(r)
  /\ UNCHANGED <<resolverVars, handlerVars, callbackVars>>

HandlerStep ==
  ResolveStart \/ AllocateRefused \/ AllocateState \/ ResolveName \/ ResolveFailed
  \/ ReturnAgain

CallbackStep == Call \/ resolve_sync_done \/ Finalize \/ RunPosted

Next ==
  \/ HandlerStep \/ CallbackStep
  \/ \E r \in Requests :
       resolve_sync(r) \/ Timeout(r) \/ Teardown(r) \/ ResponseSent(r)
  \/ \E n \in Names : Answer(n) \/ Expire(n)

Spec == Init /\ [][Next]_vars

(* The main thread goes on; the resolver's timers expire (ctx->timeout,    *)
(* benchmark.rs:156) and responses get sent, both from the event loop, to  *)
(* which the main thread returns for ever.  No name server has to answer.  *)
Fairness ==
  /\ WF_vars(HandlerStep) /\ WF_vars(CallbackStep)
  /\ \A r \in Requests : SF_vars(Timeout(r)) /\ SF_vars(ResponseSent(r))

FairSpec == Spec /\ Fairness

-----------------------------------------------------------------------------
(* The context is given back once, though four places do it: the callback  *)
(* clears the SyncResolve before it finalizes the request, which may drop  *)
(* that SyncResolve (benchmark.rs:202-205), and so does resolve_sync when  *)
(* nginx has freed the context (:168).  The exception is the code's: when  *)
(* the pool refuses the SyncResolve, its Drop (:117) and resolve_sync      *)
(* (:145) both give the context back.                                      *)
ReleasedOnce == \A r \in Requests : ctx[r] = "twice" => state[r] = "refused"

(* The resolver calls back, and the callback finalizes, only requests that *)
(* are alive: a request that goes first takes its context with it          *)
(* (:114-121).  The connection whose posted requests the callback runs     *)
(* (:208) was read while its request lived (:200).                         *)
CallbackOnLiveRequest ==
  /\ \A i \in DOMAIN calls : pool[calls[i]] = "alive"
  /\ cpc \in {"enter", "finalize"} => pool[creq] = "alive"
  /\ hpc \in {"start", "allocate", "resolve", "failed"} => pool[hreq] = "alive"
  /\ conn # Dangling

(* No context is left with the resolver when its request is gone: it was   *)
(* given back by then, once or, after a refused allocation, twice.         *)
NoneLeaked ==
  \A r \in Requests : pool[r] = "freed" => ctx[r] \in {"none", "freed", "twice"}

(* A request that looks up a name comes to its end: when no name server    *)
(* answers, when the answer is there at once (:162, :199), when the lookup *)
(* cannot start (:165), whichever way nginx ends requests (:207).          *)
LookupEnds ==
  \A r \in Requests : pool[r] = "alive" ~> pool[r] = "freed"

(* The resolver context is a lease of the request pool, but for the double *)
(* release of a refused allocation, which is no step of a lease.           *)
LeasedContext == INSTANCE Lease WITH
  Owners <- Requests,
  owner <- [r \in Requests |->
    CASE pool[r] = "new" -> "absent" [] pool[r] = "alive" -> "alive" [] OTHER -> "gone"],
  lease <- [r \in Requests |->
    CASE ctx[r] = "none" -> "free" [] ctx[r] = "freed" -> "released"
      [] ctx[r] = "twice" -> "twice" [] OTHER -> "held"]

ImplementsLease ==
  /\ LeasedContext!Init
  /\ [][LeasedContext!Next \/ AllocateRefused]_(LeasedContext!vars)
  /\ LeasedContext!Fairness
=============================================================================
