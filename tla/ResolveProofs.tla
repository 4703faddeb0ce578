---------------------------- MODULE ResolveProofs ----------------------------
(***************************************************************************)
(* Proofs about Resolve for any number of requests and any ring of names:  *)
(* the resolver context is given back once, a refused allocation aside,    *)
(* callbacks meet a live request, nothing is left with the resolver, and   *)
(* the context is a lease of the request pool (module Lease).              *)
(***************************************************************************)
EXTENDS Resolve, FiniteSetTheorems, TLAPS

Held(r) == ctx[r] \in {"held", "waiting", "called"}

(* A context that is out belongs to a live request whose SyncResolve       *)
(* points to it, but between ngx_resolve_start and the allocation, and     *)
(* between a failed ngx_resolve_name and the code that looks at it.  Only  *)
(* a refused allocation frees a context twice.                             *)
ContextInv ==
  /\ \A r \in Requests :
       /\ ctx[r] = "twice" => state[r] = "refused"
       /\ pool[r] = "new" => ctx[r] = "none" /\ state[r] = "none"
       /\ Held(r) => /\ pool[r] = "alive"
                     /\ state[r] = "set" \/ (hpc = "allocate" /\ hreq = r)
       /\ state[r] = "set" => Held(r) \/ (hpc = "failed" /\ hreq = r)
  /\ \A r \in terminal \cup closing : pool[r] = "alive"

(* Where resolve_sync is, nothing else runs, but the callback it is        *)
(* waiting for.                                                            *)
HandlerInv ==
  /\ hpc # "none" => hreq \in Requests /\ calls = <<>>
  /\ hpc \in {"start", "allocate", "resolve", "failed"} =>
       pool[hreq] = "alive" /\ cpc = "none"
  /\ hpc = "start" => ctx[hreq] = "none" /\ state[hreq] = "none"
  /\ hpc = "allocate" => ctx[hreq] = "held" /\ state[hreq] = "none"
  /\ hpc = "resolve" => ctx[hreq] = "held"
  /\ hpc = "failed" => ctx[hreq] = "freed"

(* The callback has the context of a live request, gives it back before it *)
(* finalizes, and has read the request's connection by then.               *)
CallbackInv ==
  /\ cpc # "none" => creq \in Requests
  /\ cpc = "enter" => Held(creq)
  /\ cpc \in {"finalize", "run_posted"} => ctx[creq] = "freed"
  /\ cpc = "finalize" => pool[creq] = "alive"
  /\ cpc \in {"finalize", "run_posted"} => conn = creq
  /\ conn # Dangling

(* The callbacks nginx still owes are for different contexts, all of which *)
(* are out.                                                                *)
CallsInv ==
  /\ \A i \in 1..Len(calls) : Held(calls[i]) /\ (cpc # "none" => calls[i] # creq)
  /\ \A i, j \in 1..Len(calls) : i # j => calls[i] # calls[j]

ResolveInv == TypeOK /\ ContextInv /\ HandlerInv /\ CallbackInv /\ CallsInv

(* The invariant holds initially.                                          *)
LEMMA InitResolve == Init => ResolveInv
<1> SUFFICES ASSUME Init PROVE ResolveInv
  OBVIOUS
<1> USE DEF Init
<1>1. TypeOK
  <2>1. counter \in Names /\ name \in [Requests -> Names]
    BY RingAssumption DEF Names
  <2>2. calls = <<>> /\ posted \in BOOLEAN
    OBVIOUS
  <2> HIDE DEF Init
  <2>3. calls \in Seq(Requests)
    BY <2>2
  <2>4. QED
    BY <2>1, <2>2, <2>3 DEF TypeOK, Init
<1>2. ContextInv /\ HandlerInv /\ CallbackInv /\ CallsInv
  BY RequestsAssumption DEF ContextInv, HandlerInv, CallbackInv, CallsInv, Held
<1>3. QED
  BY <1>1, <1>2 DEF ResolveInv

(* name_done on a context that is out frees it, and only it.               *)
LEMMA NameDone ==
  ASSUME TypeOK, NEW r \in Requests, Held(r), name_done(r)
  PROVE  /\ ctx' \in [Requests -> {"none", "held", "waiting", "called", "freed", "twice"}]
         /\ ctx'[r] = "freed"
         /\ \A q \in Requests : q # r => ctx'[q] = ctx[q]
<1>1. ctx[r] # "freed"
  BY DEF Held
<1>2. ctx' = [ctx EXCEPT ![r] = "freed"]
  BY <1>1 DEF name_done, TypeOK
<1>3. QED
  BY <1>2 DEF TypeOK

(* The pool's cleanup never gives a context back twice, and leaves none    *)
(* out: unless resolve_sync is between nginx and the SyncResolve, a        *)
(* context is out exactly when the SyncResolve points to it.               *)
LEMMA DestroyPoolContext ==
  ASSUME TypeOK, ContextInv, NEW r \in Requests, DestroyPool(r),
         hpc \notin {"allocate", "failed"} \/ hreq # r
  PROVE  /\ pool' = [pool EXCEPT ![r] = "freed"]
         /\ ctx' \in [Requests -> {"none", "held", "waiting", "called", "freed", "twice"}]
         /\ ctx'[r] = IF Held(r) THEN "freed" ELSE ctx[r]
         /\ \A q \in Requests : q # r => ctx'[q] = ctx[q]
         /\ state' \in [Requests -> {"none", "set", "null", "refused"}]
         /\ state'[r] = IF state[r] = "set" THEN "null" ELSE state[r]
         /\ \A q \in Requests : q # r => state'[q] = state[q]
         /\ terminal' = terminal \ {r} /\ closing' = closing \ {r}
<1>1. state[r] = "set" <=> Held(r)
  BY DEF ContextInv
<1>2. state' = [state EXCEPT ![r] = IF @ = "set" THEN "null" ELSE @]
  BY DEF DestroyPool
<1>3. /\ state' \in [Requests -> {"none", "set", "null", "refused"}]
      /\ state'[r] = IF state[r] = "set" THEN "null" ELSE state[r]
      /\ \A q \in Requests : q # r => state'[q] = state[q]
  BY <1>2 DEF TypeOK
<1>4. CASE Held(r)
  <2>1. name_done(r)
    BY <1>1, <1>4 DEF DestroyPool
  <2>2. QED
    BY <1>3, <1>4, <2>1, NameDone DEF DestroyPool
<1>5. CASE ~Held(r)
  <2>1. UNCHANGED ctx
    BY <1>1, <1>5 DEF DestroyPool
  <2>2. QED
    BY <1>3, <1>5, <2>1 DEF DestroyPool, TypeOK
<1>6. QED
  BY <1>4, <1>5

(* Destroying a live pool outside of resolve_sync, for a request that no   *)
(* callback is owed to any more.                                           *)
LEMMA DestroyPoolStep ==
  ASSUME ResolveInv, NEW r \in Requests, DestroyPool(r), pool[r] = "alive",
         hpc \in {"none", "called"}, hpc' \in {hpc, "none"},
         hreq' \in Requests \cup {None}, hpc' = "called" => hreq' = hreq,
         cpc' \in {"none", "run_posted"}, creq' \in Requests \cup {None},
         cpc' = "run_posted" => creq' = r /\ conn' = r /\ ctx[r] = "freed",
         conn' \in Requests \cup {None},
         \A i \in 1..Len(calls) : calls[i] # r,
         posted' \in BOOLEAN, UNCHANGED <<counter, name, cached, calls>>
  PROVE  ResolveInv'
<1> USE DEF ResolveInv
<1>1. /\ pool' = [pool EXCEPT ![r] = "freed"]
      /\ ctx' \in [Requests -> {"none", "held", "waiting", "called", "freed", "twice"}]
      /\ ctx'[r] = IF Held(r) THEN "freed" ELSE ctx[r]
      /\ \A q \in Requests : q # r => ctx'[q] = ctx[q]
      /\ state' \in [Requests -> {"none", "set", "null", "refused"}]
      /\ state'[r] = IF state[r] = "set" THEN "null" ELSE state[r]
      /\ \A q \in Requests : q # r => state'[q] = state[q]
      /\ terminal' = terminal \ {r} /\ closing' = closing \ {r}
  BY DestroyPoolContext
<1>2. TypeOK'
  BY <1>1 DEF TypeOK
<1>3. ~Held(r)' /\ pool'[r] = "freed" /\ (ctx'[r] = "twice" => state'[r] = "refused")
      /\ \A q \in Requests : q # r => pool'[q] = pool[q] /\ (Held(q)' <=> Held(q))
  BY <1>1 DEF Held, TypeOK, ContextInv
<1>4. ContextInv'
  BY <1>1, <1>3 DEF ContextInv, TypeOK
<1>5. HandlerInv'
  BY DEF HandlerInv
<1>6. CallbackInv'
  BY <1>1, RequestsAssumption DEF CallbackInv, Held
<1>7. CallsInv'
  <2>1. calls \in Seq(Requests)
    BY DEF TypeOK
  <2>2. \A i \in 1..Len(calls) : calls[i] \in Requests
    BY <2>1
  <2>3. QED
    BY <1>3, <2>2 DEF CallsInv
<1>8. QED
  BY <1>2, <1>4, <1>5, <1>6, <1>7

(* A request comes in: nothing else runs, and nothing is known of it yet.  *)
LEMMA ArriveStep ==
  ASSUME ResolveInv, NEW r \in Requests, resolve_sync(r)
  PROVE  ResolveInv'
<1> USE DEF ResolveInv
<1>1. /\ InLoop /\ pool[r] = "new" /\ pool' = [pool EXCEPT ![r] = "alive"]
      /\ hpc' = "start" /\ hreq' = r
      /\ UNCHANGED <<ctx, state, terminal, closing, cached, callbackVars>>
  BY DEF resolve_sync
<1>2. counter' \in Names /\ name' \in [Requests -> Names]
  BY RingAssumption DEF resolve_sync, get_random_name, TypeOK, Names
<1>3. TypeOK'
  BY <1>1, <1>2 DEF TypeOK, callbackVars
<1>4. ContextInv'
  BY <1>1 DEF ContextInv, Held, TypeOK, InLoop
<1>5. HandlerInv'
  BY <1>1 DEF HandlerInv, ContextInv, TypeOK, InLoop, callbackVars
<1>6. CallbackInv' /\ CallsInv'
  BY <1>1 DEF CallbackInv, CallsInv, InLoop, callbackVars
<1>7. QED
  BY <1>3, <1>4, <1>5, <1>6

(* The steps of resolve_sync.                                              *)
LEMMA ResolveStartStep ==
  ASSUME ResolveInv, ResolveStart PROVE ResolveInv'
<1> USE DEF ResolveInv
<1>1. /\ hpc = "start" /\ hreq \in Requests /\ calls = <<>> /\ cpc = "none"
      /\ pool[hreq] = "alive" /\ ctx[hreq] = "none" /\ state[hreq] = "none"
  BY DEF ResolveStart, HandlerInv
<1>2. UNCHANGED <<pool, state, terminal, resolverVars, callbackVars>>
  BY DEF ResolveStart
<1>3. CASE ReturnError /\ UNCHANGED ctx
  <2>1. closing' = closing \cup {hreq} /\ hpc' = "none" /\ hreq' = None /\ UNCHANGED ctx
    BY <1>3 DEF ReturnError
  <2>2. TypeOK'
    BY <1>1, <1>2, <2>1 DEF TypeOK, resolverVars, callbackVars
  <2>3. ContextInv'
    BY <1>1, <1>2, <2>1 DEF ContextInv, Held
  <2>4. HandlerInv' /\ CallbackInv' /\ CallsInv'
    BY <1>1, <1>2, <2>1 DEF HandlerInv, CallbackInv, CallsInv, callbackVars
  <2>5. QED
    BY <2>2, <2>3, <2>4
<1>4. CASE ctx' = [ctx EXCEPT ![hreq] = "held"] /\ hpc' = "allocate" /\ UNCHANGED <<closing, hreq>>
  <2>1. TypeOK'
    BY <1>1, <1>2, <1>4 DEF TypeOK, resolverVars, callbackVars
  <2>2. ContextInv'
    BY <1>1, <1>2, <1>4 DEF ContextInv, Held, TypeOK
  <2>3. HandlerInv' /\ CallbackInv' /\ CallsInv'
    BY <1>1, <1>2, <1>4 DEF HandlerInv, CallbackInv, CallsInv, TypeOK, callbackVars
  <2>4. QED
    BY <2>1, <2>2, <2>3
<1>5. QED
  BY <1>3, <1>4 DEF ResolveStart

(* A refused SyncResolve gives the context back before resolve_sync does.  *)
LEMMA RefusedStep ==
  ASSUME ResolveInv, AllocateRefused PROVE ResolveInv'
<1> USE DEF ResolveInv
<1>1. /\ hpc = "allocate" /\ hreq \in Requests /\ calls = <<>> /\ cpc = "none"
      /\ pool[hreq] = "alive" /\ ctx[hreq] = "held" /\ state[hreq] = "none"
  BY DEF AllocateRefused, HandlerInv
<1>2. /\ ctx' = [ctx EXCEPT ![hreq] = "twice"]
      /\ state' = [state EXCEPT ![hreq] = "refused"]
      /\ closing' = closing \cup {hreq} /\ hpc' = "none" /\ hreq' = None
      /\ UNCHANGED <<pool, terminal, resolverVars, callbackVars>>
  BY DEF AllocateRefused, ReturnError
<1>3. TypeOK'
  BY <1>1, <1>2 DEF TypeOK, resolverVars, callbackVars
<1>4. ContextInv'
  BY <1>1, <1>2 DEF ContextInv, Held, TypeOK
<1>5. HandlerInv' /\ CallbackInv' /\ CallsInv'
  BY <1>1, <1>2 DEF HandlerInv, CallbackInv, CallsInv, callbackVars
<1>6. QED
  BY <1>3, <1>4, <1>5

(* The SyncResolve is allocated and owns the context.                      *)
LEMMA AllocateStep ==
  ASSUME ResolveInv, AllocateState PROVE ResolveInv'
<1> USE DEF ResolveInv
<1>1. /\ hpc = "allocate" /\ hreq \in Requests /\ calls = <<>> /\ cpc = "none"
      /\ pool[hreq] = "alive" /\ ctx[hreq] = "held" /\ state[hreq] = "none"
  BY DEF AllocateState, HandlerInv
<1>2. /\ state' = [state EXCEPT ![hreq] = "set"] /\ hpc' = "resolve"
      /\ UNCHANGED <<pool, ctx, terminal, closing, hreq, resolverVars, callbackVars>>
  BY DEF AllocateState
<1>3. TypeOK'
  BY <1>1, <1>2 DEF TypeOK, resolverVars, callbackVars
<1>4. ContextInv'
  BY <1>1, <1>2 DEF ContextInv, Held, TypeOK
<1>5. HandlerInv' /\ CallbackInv' /\ CallsInv'
  BY <1>1, <1>2 DEF HandlerInv, CallbackInv, CallsInv, callbackVars
<1>6. QED
  BY <1>3, <1>4, <1>5

(* ngx_resolve_name keeps the context, calls back at once, or fails.       *)
LEMMA ResolveNameStep ==
  ASSUME ResolveInv, ResolveName PROVE ResolveInv'
<1> USE DEF ResolveInv
<1>1. /\ hpc = "resolve" /\ hreq \in Requests /\ calls = <<>> /\ cpc = "none"
      /\ pool[hreq] = "alive" /\ ctx[hreq] = "held" /\ state[hreq] = "set"
  BY DEF ResolveName, HandlerInv, ContextInv, Held
<1>2. UNCHANGED <<pool, state, terminal, closing, resolverVars>>
  BY DEF ResolveName
<1>3. CASE ctx' = [ctx EXCEPT ![hreq] = "freed"] /\ hpc' = "failed" /\ UNCHANGED <<hreq, callbackVars>>
  <2>1. TypeOK'
    BY <1>1, <1>2, <1>3 DEF TypeOK, resolverVars, callbackVars
  <2>2. ContextInv'
    BY <1>1, <1>2, <1>3 DEF ContextInv, Held, TypeOK
  <2>3. HandlerInv' /\ CallbackInv' /\ CallsInv'
    BY <1>1, <1>2, <1>3 DEF HandlerInv, CallbackInv, CallsInv, TypeOK, callbackVars
  <2>4. QED
    BY <2>1, <2>2, <2>3
<1>4. CASE /\ cpc' = "enter" /\ creq' = hreq /\ hpc' = "called"
           /\ UNCHANGED <<ctx, hreq, posted, conn, calls>>
  <2>1. TypeOK'
    BY <1>1, <1>2, <1>4 DEF TypeOK, resolverVars
  <2>2. ContextInv'
    BY <1>1, <1>2, <1>4 DEF ContextInv, Held
  <2>3. HandlerInv' /\ CallbackInv' /\ CallsInv'
    BY <1>1, <1>2, <1>4 DEF HandlerInv, CallbackInv, CallsInv, Held
  <2>4. QED
    BY <2>1, <2>2, <2>3
<1>5. CASE /\ ctx' = [ctx EXCEPT ![hreq] = "waiting"] /\ hpc' = "none" /\ hreq' = None
           /\ UNCHANGED callbackVars
  <2>1. TypeOK'
    BY <1>1, <1>2, <1>5 DEF TypeOK, resolverVars, callbackVars
  <2>2. ContextInv'
    BY <1>1, <1>2, <1>5 DEF ContextInv, Held, TypeOK
  <2>3. HandlerInv' /\ CallbackInv' /\ CallsInv'
    BY <1>1, <1>2, <1>5 DEF HandlerInv, CallbackInv, CallsInv, callbackVars
  <2>4. QED
    BY <2>1, <2>2, <2>3
<1>6. QED
  BY <1>3, <1>4, <1>5 DEF ResolveName

(* resolve_sync clears the SyncResolve whose context nginx has freed.      *)
LEMMA FailedStep ==
  ASSUME ResolveInv, ResolveFailed PROVE ResolveInv'
<1> USE DEF ResolveInv
<1>1. /\ hpc = "failed" /\ hreq \in Requests /\ calls = <<>> /\ cpc = "none"
      /\ pool[hreq] = "alive" /\ ctx[hreq] = "freed"
  BY DEF ResolveFailed, HandlerInv
<1>2. /\ state' = [state EXCEPT ![hreq] = "null"]
      /\ closing' = closing \cup {hreq} /\ hpc' = "none" /\ hreq' = None
      /\ UNCHANGED <<pool, ctx, terminal, resolverVars, callbackVars>>
  BY DEF ResolveFailed, ReturnError
<1>3. TypeOK'
  BY <1>1, <1>2 DEF TypeOK, resolverVars, callbackVars
<1>4. ContextInv'
  BY <1>1, <1>2 DEF ContextInv, Held, TypeOK
<1>5. HandlerInv' /\ CallbackInv' /\ CallsInv'
  BY <1>1, <1>2 DEF HandlerInv, CallbackInv, CallsInv, callbackVars
<1>6. QED
  BY <1>3, <1>4, <1>5

(* resolve_sync returns NGX_AGAIN, and nginx runs posted requests.         *)
LEMMA ReturnAgainStep ==
  ASSUME ResolveInv, ReturnAgain PROVE ResolveInv'
<1> USE DEF ResolveInv
<1>1. /\ hpc = "called" /\ hreq \in Requests /\ calls = <<>> /\ cpc = "none"
      /\ hpc' = "none" /\ hreq' = None
      /\ UNCHANGED <<resolverVars, callbackVars>>
  BY DEF ReturnAgain, HandlerInv
<1>2. CASE hreq \in terminal /\ DestroyPool(hreq)
  <2>1. pool[hreq] = "alive"
    BY <1>2 DEF ContextInv
  <2>2. /\ cpc' = "none" /\ creq' \in Requests \cup {None} /\ posted' \in BOOLEAN
        /\ conn' \in Requests \cup {None}
        /\ UNCHANGED <<counter, name, cached, calls>>
    BY <1>1 DEF TypeOK, CallbackInv, resolverVars, callbackVars
  <2>3. QED
    BY <1>1, <1>2, <2>1, <2>2, DestroyPoolStep
<1>3. CASE UNCHANGED requestVars
  <2>1. TypeOK'
    BY <1>1, <1>3 DEF TypeOK, requestVars, resolverVars, callbackVars
  <2>2. ContextInv'
    BY <1>1, <1>3 DEF ContextInv, Held, requestVars
  <2>3. HandlerInv' /\ CallbackInv' /\ CallsInv'
    BY <1>1, <1>3 DEF HandlerInv, CallbackInv, CallsInv, callbackVars
  <2>4. QED
    BY <2>1, <2>2, <2>3
<1>4. QED
  BY <1>2, <1>3 DEF ReturnAgain

(* Callbacks that are owed are callbacks for requests.                     *)
LEMMA CallsTyped == TypeOK => \A i \in 1..Len(calls) : calls[i] \in Requests
BY DEF TypeOK

(* A sequence of SetToSeqs has each element of the set exactly once.       *)
LEMMA SequenceOfSet ==
  ASSUME NEW S, IsFiniteSet(S), NEW s \in SetToSeqs(S)
  PROVE  /\ s \in Seq(S)
         /\ \A i, j \in 1..Len(s) : i # j => s[i] # s[j]
         /\ \A e \in S : \E i \in 1..Len(s) : s[i] = e
<1> DEFINE D == 1..Cardinality(S)
<1>1. Cardinality(S) \in Nat
  BY FS_CardinalityType
<1>2. s \in [D -> S] /\ \A i, j \in D : i # j => s[i] # s[j]
  BY DEF SetToSeqs
<1>3. s \in Seq(S) /\ Len(s) = Cardinality(S)
  BY <1>1, <1>2
<1>4. s \in Injection(D, S)
  BY <1>2 DEF Injection, IsInjective
<1>5. IsFiniteSet(D) /\ Cardinality(D) = Cardinality(S)
  BY <1>1, FS_Interval
<1>6. s \in Surjection(D, S)
  <2> HIDE DEF D
  <2>1. QED
    BY <1>4, <1>5, FS_Injection
<1>7. QED
  BY <1>2, <1>3, <1>6 DEF Surjection

(* nginx owes a callback to everybody who waits for the name, once.        *)
LEMMA AnswerStep ==
  ASSUME ResolveInv, NEW n \in Names, Answer(n) PROVE ResolveInv'
<1> USE DEF ResolveInv
<1>1. /\ hpc = "none" /\ cpc = "none"
      /\ calls' \in SetToSeqs(Waiting(n))
      /\ ctx' = [r \in Requests |-> IF r \in Waiting(n) THEN "called" ELSE ctx[r]]
      /\ cached' \in {cached, cached \cup {n}}
      /\ UNCHANGED <<pool, state, terminal, closing, counter, name, handlerVars,
                     cpc, creq, posted, conn>>
  BY DEF Answer, InLoop
<1>2. Waiting(n) \subseteq Requests /\ \A r \in Waiting(n) : ctx[r] = "waiting"
  BY DEF Waiting
<1>3. /\ calls' \in Seq(Waiting(n))
      /\ \A i, j \in 1..Len(calls') : i # j => calls'[i] # calls'[j]
  <2>1. IsFiniteSet(Waiting(n))
    BY <1>2, RequestsAssumption, FS_Subset
  <2>2. QED
    BY <1>1, <2>1, SequenceOfSet
<1>4. \A i \in 1..Len(calls') : calls'[i] \in Waiting(n)
  BY <1>3
<1>5. calls' \in Seq(Requests)
  BY <1>2, <1>3
<1>6. ctx' \in [Requests -> {"none", "held", "waiting", "called", "freed", "twice"}]
      /\ \A r \in Requests : (Held(r)' <=> Held(r)) /\ ctx'[r] \in {"called", ctx[r]}
                             /\ (~Held(r) => ctx'[r] = ctx[r])
  BY <1>1, <1>2 DEF TypeOK, Held
<1>7. TypeOK'
  BY <1>1, <1>5, <1>6 DEF TypeOK, handlerVars
<1>8. ContextInv'
  BY <1>1, <1>6 DEF ContextInv, handlerVars, Held
<1>9. HandlerInv' /\ CallbackInv'
  BY <1>1, <1>6 DEF HandlerInv, CallbackInv, handlerVars
<1>10. CallsInv'
  BY <1>1, <1>2, <1>3, <1>4, <1>6 DEF CallsInv, Held
<1>11. QED
  BY <1>7, <1>8, <1>9, <1>10

(* A cached answer expires.                                                *)
LEMMA ExpireStep ==
  ASSUME ResolveInv, NEW n \in Names, Expire(n) PROVE ResolveInv'
<1> USE DEF ResolveInv
<1>1. /\ cached' = cached \ {n}
      /\ UNCHANGED <<requestVars, counter, name, handlerVars, callbackVars>>
  BY DEF Expire
<1>2. TypeOK'
  BY <1>1 DEF TypeOK, requestVars, handlerVars, callbackVars
<1>3. ContextInv' /\ HandlerInv'
  BY <1>1 DEF ContextInv, HandlerInv, Held, requestVars, handlerVars, callbackVars
<1>4. CallbackInv' /\ CallsInv'
  BY <1>1 DEF CallbackInv, CallsInv, Held, requestVars, callbackVars
<1>5. QED
  BY <1>2, <1>3, <1>4

(* A lookup times out: its callback is owed.                               *)
LEMMA TimeoutStep ==
  ASSUME ResolveInv, NEW r \in Requests, Timeout(r) PROVE ResolveInv'
<1> USE DEF ResolveInv
<1>1. /\ hpc = "none" /\ cpc = "none" /\ ctx[r] = "waiting" /\ calls' = <<r>>
      /\ UNCHANGED <<requestVars, resolverVars, handlerVars, cpc, creq, posted, conn>>
  BY DEF Timeout, InLoop
<1>2. calls' \in Seq(Requests) /\ Len(calls') = 1 /\ calls'[1] = r
  BY <1>1
<1>3. TypeOK'
  BY <1>1, <1>2 DEF TypeOK, requestVars, resolverVars, handlerVars
<1>4. ContextInv' /\ HandlerInv' /\ CallbackInv'
  BY <1>1 DEF ContextInv, HandlerInv, CallbackInv, Held, requestVars, handlerVars
<1>5. CallsInv'
  <2>1. Held(r)' /\ cpc' = "none"
    BY <1>1 DEF Held, requestVars
  <2>2. QED
    BY <1>2, <2>1 DEF CallsInv
<1>6. QED
  BY <1>3, <1>4, <1>5

(* The resolver makes the next callback it owes.                           *)
LEMMA CallStep ==
  ASSUME ResolveInv, Call PROVE ResolveInv'
<1> USE DEF ResolveInv
<1>1. /\ cpc = "none" /\ calls # <<>> /\ cpc' = "enter" /\ creq' = Head(calls)
      /\ calls' = Tail(calls)
      /\ UNCHANGED <<requestVars, resolverVars, handlerVars, posted, conn>>
  BY DEF Call
<1>2. hpc = "none"
  BY <1>1 DEF HandlerInv
<1>3. calls \in Seq(Requests)
  BY DEF TypeOK
<1>4. /\ calls' \in Seq(Requests) /\ Len(calls) >= 1 /\ Len(calls') = Len(calls) - 1
      /\ creq' = calls[1] /\ creq' \in Requests
      /\ \A i \in 1..Len(calls') : i + 1 \in 1..Len(calls) /\ calls'[i] = calls[i + 1]
  BY <1>1, <1>3
<1>5. TypeOK'
  BY <1>1, <1>4 DEF TypeOK, requestVars, resolverVars, handlerVars
<1>6. ContextInv' /\ HandlerInv'
  BY <1>1, <1>2 DEF ContextInv, HandlerInv, Held, requestVars, handlerVars
<1>7. ctx' = ctx /\ Held(creq')
  BY <1>1, <1>4 DEF requestVars, CallsInv
<1>8. CallbackInv'
  BY <1>1, <1>4, <1>7 DEF CallbackInv, Held
<1>9. CallsInv'
  <2>1. \A i \in 1..Len(calls') : Held(calls'[i])
    BY <1>4 DEF CallsInv
  <2>2. \A i \in 1..Len(calls') : calls'[i] # creq'
    BY <1>4 DEF CallsInv
  <2>3. \A i, j \in 1..Len(calls') : i # j => calls'[i] # calls'[j]
    BY <1>4 DEF CallsInv
  <2>4. QED
    BY <1>7, <2>1, <2>2, <2>3 DEF CallsInv, Held
<1>10. QED
  BY <1>5, <1>6, <1>8, <1>9

(* The callback gives its context back, out of the SyncResolve first.      *)
LEMMA DoneStep ==
  ASSUME ResolveInv, resolve_sync_done PROVE ResolveInv'
<1> USE DEF ResolveInv
<1>1. /\ cpc = "enter" /\ creq \in Requests /\ Held(creq) /\ pool[creq] = "alive"
  BY DEF resolve_sync_done, CallbackInv, ContextInv
<1>2. /\ posted' = (hpc = "none") /\ conn' = creq /\ name_done(creq)
      /\ state' = [state EXCEPT ![creq] = "null"] /\ cpc' = "finalize"
      /\ UNCHANGED <<pool, terminal, closing, resolverVars, handlerVars, creq, calls>>
  BY <1>1 DEF resolve_sync_done, Connection
<1>3. /\ ctx' \in [Requests -> {"none", "held", "waiting", "called", "freed", "twice"}]
      /\ ctx'[creq] = "freed"
      /\ \A q \in Requests : q # creq => ctx'[q] = ctx[q]
  BY <1>1, <1>2, NameDone
<1>4. posted' \in BOOLEAN
  BY <1>2
<1>5. TypeOK'
  BY <1>1, <1>2, <1>3, <1>4 DEF TypeOK, resolverVars, handlerVars
<1>6. ContextInv'
  BY <1>1, <1>2, <1>3 DEF ContextInv, Held, TypeOK, handlerVars
<1>7. hpc \in {"none", "called"}
  BY <1>1 DEF HandlerInv, TypeOK
<1>8. HandlerInv' /\ CallbackInv'
  BY <1>1, <1>2, <1>3, <1>7, RequestsAssumption DEF HandlerInv, CallbackInv, handlerVars
<1>9. CallsInv'
  BY <1>1, <1>2, <1>3, CallsTyped DEF CallsInv, Held
<1>10. QED
  BY <1>5, <1>6, <1>8, <1>9

(* The callback finalizes its request, which may free it.                  *)
LEMMA FinalizeStep ==
  ASSUME ResolveInv, Finalize PROVE ResolveInv'
<1> USE DEF ResolveInv
<1>1. /\ cpc = "finalize" /\ creq \in Requests /\ ctx[creq] = "freed"
      /\ pool[creq] = "alive" /\ cpc' = "run_posted" /\ conn = creq
      /\ UNCHANGED <<resolverVars, handlerVars, creq, posted, conn, calls>>
  BY DEF Finalize, CallbackInv
<1>2. hpc \in {"none", "called"}
  BY <1>1 DEF HandlerInv, TypeOK
<1>3. CASE DestroyPool(creq)
  <2>1. /\ hpc' = hpc /\ hreq' = hreq /\ hreq' \in Requests \cup {None}
        /\ creq' = creq /\ conn' = creq /\ posted' \in BOOLEAN
        /\ UNCHANGED <<counter, name, cached, calls>>
    BY <1>1 DEF TypeOK, resolverVars, handlerVars
  <2>2. \A i \in 1..Len(calls) : calls[i] # creq
    BY <1>1 DEF CallsInv
  <2>3. ~Held(creq)
    BY <1>1 DEF Held
  <2>4. QED
    BY <1>1, <1>2, <1>3, <2>1, <2>2, <2>3, DestroyPoolStep
<1>4. CASE terminal' = terminal \cup {creq} /\ UNCHANGED <<pool, ctx, state, closing>>
  <2>1. TypeOK'
    BY <1>1, <1>4 DEF TypeOK, resolverVars, handlerVars
  <2>2. ContextInv'
    BY <1>1, <1>4 DEF ContextInv, Held, handlerVars
  <2>3. HandlerInv' /\ CallbackInv' /\ CallsInv'
    BY <1>1, <1>2, <1>4 DEF HandlerInv, CallbackInv, CallsInv, Held, handlerVars
  <2>4. QED
    BY <2>1, <2>2, <2>3
<1>5. CASE closing' = closing \cup {creq} /\ UNCHANGED <<pool, ctx, state, terminal>>
  <2>1. TypeOK'
    BY <1>1, <1>5 DEF TypeOK, resolverVars, handlerVars
  <2>2. ContextInv'
    BY <1>1, <1>5 DEF ContextInv, Held, handlerVars
  <2>3. HandlerInv' /\ CallbackInv' /\ CallsInv'
    BY <1>1, <1>2, <1>5 DEF HandlerInv, CallbackInv, CallsInv, Held, handlerVars
  <2>4. QED
    BY <2>1, <2>2, <2>3
<1>6. QED
  BY <1>3, <1>4, <1>5 DEF Finalize

(* The callback runs the terminate handler, if nginx posted one.           *)
LEMMA RunPostedStep ==
  ASSUME ResolveInv, RunPosted PROVE ResolveInv'
<1> USE DEF ResolveInv
<1>1. /\ cpc = "run_posted" /\ creq \in Requests
      /\ conn = creq
      /\ cpc' = "none" /\ creq' = None /\ posted' = FALSE /\ conn' = None
      /\ UNCHANGED <<resolverVars, handlerVars, calls>>
  BY DEF RunPosted, CallbackInv
<1>2. hpc \in {"none", "called"}
  BY <1>1 DEF HandlerInv, TypeOK
<1>3. CASE creq \in terminal /\ DestroyPool(creq)
  <2>1. /\ hpc' = hpc /\ hreq' = hreq /\ hreq' \in Requests \cup {None}
        /\ posted' \in BOOLEAN /\ UNCHANGED <<counter, name, cached, calls>>
    BY <1>1 DEF TypeOK, resolverVars, handlerVars
  <2>2. \A i \in 1..Len(calls) : calls[i] # creq
    BY <1>1 DEF CallsInv
  <2>3. pool[creq] = "alive"
    BY <1>3 DEF ContextInv
  <2>4. QED
    BY <1>1, <1>2, <1>3, <2>1, <2>2, <2>3, DestroyPoolStep
<1>4. CASE UNCHANGED requestVars
  <2>1. TypeOK'
    BY <1>1, <1>4 DEF TypeOK, requestVars, resolverVars, handlerVars
  <2>2. ContextInv'
    BY <1>1, <1>4 DEF ContextInv, Held, requestVars, handlerVars
  <2>3. HandlerInv' /\ CallbackInv' /\ CallsInv'
    BY <1>1, <1>2, <1>4, RequestsAssumption
       DEF HandlerInv, CallbackInv, CallsInv, Held, requestVars, handlerVars
  <2>4. QED
    BY <2>1, <2>2, <2>3
<1>5. QED
  BY <1>1, <1>3, <1>4 DEF RunPosted

(* nginx ends the request itself, from the event loop.                     *)
LEMMA EndStep ==
  ASSUME ResolveInv, NEW r \in Requests, Teardown(r) \/ ResponseSent(r)
  PROVE  ResolveInv'
<1> USE DEF ResolveInv
<1>1. InLoop /\ DestroyPool(r) /\ UNCHANGED <<resolverVars, handlerVars, callbackVars>>
  BY DEF Teardown, ResponseSent
<1>2. pool[r] = "alive"
  BY DEF Teardown, ResponseSent, ContextInv
<1>3. /\ hpc = "none" /\ hpc' = "none" /\ cpc' = "none" /\ calls = <<>>
      /\ hreq' \in Requests \cup {None} /\ creq' \in Requests \cup {None}
      /\ posted' \in BOOLEAN /\ conn' \in Requests \cup {None}
      /\ UNCHANGED <<counter, name, cached, calls>>
  BY <1>1 DEF InLoop, TypeOK, CallbackInv, resolverVars, handlerVars, callbackVars
<1>4. \A i \in 1..Len(calls) : calls[i] # r
  BY <1>3
<1>5. QED
  BY <1>1, <1>2, <1>3, <1>4, DestroyPoolStep

(* Every step preserves the invariant.                                     *)
LEMMA StepResolve == ResolveInv /\ [Next]_vars => ResolveInv'
<1> SUFFICES ASSUME ResolveInv, [Next]_vars PROVE ResolveInv'
  OBVIOUS
<1>1. CASE UNCHANGED vars
  <2>1. UNCHANGED <<pool, counter, name, ctx, state, cached, terminal, closing,
                    hpc, hreq, cpc, creq, posted, conn, calls>>
    BY <1>1 DEF vars, requestVars, resolverVars, handlerVars, callbackVars
  <2>2. TypeOK' /\ ContextInv' /\ HandlerInv'
    BY <2>1 DEF ResolveInv, TypeOK, ContextInv, HandlerInv, Held
  <2>3. CallbackInv' /\ CallsInv'
    BY <2>1 DEF ResolveInv, CallbackInv, CallsInv, Held
  <2>4. QED
    BY <2>2, <2>3 DEF ResolveInv
<1>2. CASE HandlerStep
  BY <1>2, ResolveStartStep, RefusedStep, AllocateStep, ResolveNameStep, FailedStep,
     ReturnAgainStep DEF HandlerStep
<1>3. CASE CallbackStep
  BY <1>3, CallStep, DoneStep, FinalizeStep, RunPostedStep DEF CallbackStep
<1>4. ASSUME NEW r \in Requests,
             resolve_sync(r) \/ Timeout(r) \/ Teardown(r) \/ ResponseSent(r)
      PROVE  ResolveInv'
  BY <1>4, ArriveStep, TimeoutStep, EndStep
<1>5. ASSUME NEW n \in Names, Answer(n) \/ Expire(n) PROVE ResolveInv'
  BY <1>5, AnswerStep, ExpireStep
<1>6. QED
  BY <1>1, <1>2, <1>3, <1>4, <1>5 DEF Next

(* The invariant holds always.                                             *)
LEMMA ResolveInvariant == Spec => []ResolveInv
<1>1. QED
  BY InitResolve, StepResolve, PTL DEF Spec

(* Every variable of Resolve keeps its type; COUNTER stays in the ring.    *)
THEOREM ResolveTypeCorrect == Spec => []TypeOK
<1>1. ResolveInv => TypeOK
  BY DEF ResolveInv
<1>2. QED
  BY <1>1, ResolveInvariant, PTL

(* A context that was given back twice is one whose SyncResolve the pool   *)
(* refused (benchmark.rs:117, :145): the callback, the failed lookup and   *)
(* the pool's cleanup give none back twice, in any order (:202-205, :168,  *)
(* :114-121).                                                              *)
THEOREM ResolveReleasedOnce == Spec => []ReleasedOnce
<1>1. ResolveInv => ReleasedOnce
  BY DEF ResolveInv, ContextInv, ReleasedOnce
<1>2. QED
  BY <1>1, ResolveInvariant, PTL

(* The resolver calls back only for requests that are alive, in any order  *)
(* of answers, timeouts and ends of other requests.                        *)
THEOREM ResolveCallbackOnLiveRequest == Spec => []CallbackOnLiveRequest
<1>1. ResolveInv => CallbackOnLiveRequest
  <2> SUFFICES ASSUME ResolveInv PROVE CallbackOnLiveRequest
    OBVIOUS
  <2>1. \A i \in 1..Len(calls) : calls[i] \in Requests /\ Held(calls[i])
    BY CallsTyped DEF ResolveInv, CallsInv
  <2>2. DOMAIN calls = 1..Len(calls)
    BY DEF ResolveInv, TypeOK
  <2>3. \A i \in DOMAIN calls : pool[calls[i]] = "alive"
    BY <2>1, <2>2 DEF ResolveInv, ContextInv
  <2>4. cpc \in {"enter", "finalize"} => pool[creq] = "alive"
    BY DEF ResolveInv, CallbackInv, ContextInv
  <2>5. QED
    BY <2>3, <2>4 DEF ResolveInv, HandlerInv, CallbackInv, CallbackOnLiveRequest
<1>2. QED
  BY <1>1, ResolveInvariant, PTL

(* A request that is gone has left no context with the resolver.           *)
THEOREM ResolveNoneLeaked == Spec => []NoneLeaked
<1>1. ResolveInv => NoneLeaked
  <2> SUFFICES ASSUME ResolveInv, NEW r \in Requests, pool[r] = "freed"
               PROVE  ctx[r] \in {"none", "freed", "twice"}
    BY DEF NoneLeaked
  <2>1. ~Held(r)
    BY DEF ResolveInv, ContextInv
  <2>2. QED
    BY <2>1 DEF ResolveInv, TypeOK, Held
<1>2. QED
  BY <1>1, ResolveInvariant, PTL

-----------------------------------------------------------------------------
(* What Lease sees of one request: its memory, and the context.            *)
OwnerOf(p) ==
  CASE p = "new" -> "absent" [] p = "alive" -> "alive" [] OTHER -> "gone"

LeaseOf(c) ==
  CASE c = "none" -> "free" [] c = "freed" -> "released"
    [] c = "twice" -> "twice" [] OTHER -> "held"

(* A step that changes no pool and no context is a stutter of Lease.       *)
LEMMA LeaseStutters ==
  ASSUME pool' = pool, \A q \in Requests : LeaseOf(ctx'[q]) = LeaseOf(ctx[q])
  PROVE  [LeasedContext!Next]_(LeasedContext!vars)
BY DEF LeasedContext!vars, LeaseOf

(* A step on one request whose pool or context moves in one of four ways   *)
(* is a step of Lease.                                                     *)
LEMMA LeaseMoves ==
  ASSUME NEW r \in Requests, TypeOK,
         \A q \in Requests : q # r => pool'[q] = pool[q] /\ ctx'[q] = ctx[q],
         \/ pool[r] = "new" /\ pool'[r] = "alive" /\ ctx'[r] = ctx[r]
         \/ pool[r] = "alive" /\ pool' = pool /\ ctx[r] = "none" /\ ctx'[r] = "held"
         \/ pool' = pool /\ Held(r) /\ ctx'[r] = "freed"
         \/ /\ pool[r] = "alive" /\ pool'[r] = "freed"
            /\ ctx'[r] = IF Held(r) THEN "freed" ELSE ctx[r]
  PROVE  LeasedContext!Next
<1> DEFINE own == [q \in Requests |-> OwnerOf(pool[q])]
           lse == [q \in Requests |-> LeaseOf(ctx[q])]
<1>1. own' = [own EXCEPT ![r] = OwnerOf(pool'[r])]
  BY DEF OwnerOf
<1>2. lse' = [lse EXCEPT ![r] = LeaseOf(ctx'[r])]
  BY DEF LeaseOf
<1>3. own[r] = OwnerOf(pool[r]) /\ lse[r] = LeaseOf(ctx[r])
  OBVIOUS
<1>4. lse[r] = "held" <=> Held(r)
  BY <1>3 DEF TypeOK, Held, LeaseOf
<1>5. (pool' = pool => own' = own) /\ (ctx'[r] = ctx[r] => lse' = lse)
  BY <1>2, <1>3
<1>6. CASE pool[r] = "new" /\ pool'[r] = "alive" /\ ctx'[r] = ctx[r]
  <2>1. own[r] = "absent" /\ own' = [own EXCEPT ![r] = "alive"] /\ lse' = lse
    BY <1>1, <1>3, <1>5, <1>6 DEF OwnerOf
  <2>2. LeasedContext!Begin(r)
    BY <2>1 DEF LeasedContext!Begin, OwnerOf, LeaseOf
  <2>3. QED
    BY <2>2 DEF LeasedContext!Next
<1>7. CASE pool[r] = "alive" /\ pool' = pool /\ ctx[r] = "none" /\ ctx'[r] = "held"
  <2>1. /\ own[r] = "alive" /\ lse[r] = "free" /\ own' = own
        /\ lse' = [lse EXCEPT ![r] = "held"]
    BY <1>2, <1>3, <1>5, <1>7 DEF OwnerOf, LeaseOf
  <2>2. LeasedContext!Acquire(r)
    BY <2>1 DEF LeasedContext!Acquire, OwnerOf, LeaseOf
  <2>3. QED
    BY <2>2 DEF LeasedContext!Next
<1>8. CASE pool' = pool /\ Held(r) /\ ctx'[r] = "freed"
  <2>1. lse[r] = "held" /\ own' = own /\ lse' = [lse EXCEPT ![r] = "released"]
    BY <1>2, <1>4, <1>5, <1>8 DEF LeaseOf
  <2>2. LeasedContext!Release(r)
    BY <2>1 DEF LeasedContext!Release, OwnerOf, LeaseOf
  <2>3. QED
    BY <2>2 DEF LeasedContext!Next
<1>9. CASE /\ pool[r] = "alive" /\ pool'[r] = "freed"
           /\ ctx'[r] = IF Held(r) THEN "freed" ELSE ctx[r]
  <2>1. own[r] = "alive" /\ own' = [own EXCEPT ![r] = "gone"]
    BY <1>1, <1>3, <1>9 DEF OwnerOf
  <2>2. LeaseOf(ctx'[r]) = IF lse[r] = "held" THEN "released" ELSE lse[r]
    BY <1>3, <1>4, <1>9 DEF LeaseOf
  <2>3. lse' = [lse EXCEPT ![r] = IF @ = "held" THEN "released" ELSE @]
    BY <1>2, <2>2
  <2>4. LeasedContext!End(r)
    BY <2>1, <2>3 DEF LeasedContext!End, OwnerOf, LeaseOf
  <2>5. QED
    BY <2>4 DEF LeasedContext!Next
<1>10. QED
  BY <1>6, <1>7, <1>8, <1>9

(* A pool that goes ends the lease.                                        *)
LEMMA DestroyEndsLease ==
  ASSUME ResolveInv, NEW r \in Requests, DestroyPool(r), pool[r] = "alive",
         hpc \notin {"allocate", "failed"}
  PROVE  LeasedContext!Next
<1>1. /\ pool' = [pool EXCEPT ![r] = "freed"]
      /\ ctx'[r] = IF Held(r) THEN "freed" ELSE ctx[r]
      /\ \A q \in Requests : q # r => ctx'[q] = ctx[q]
  BY DestroyPoolContext DEF ResolveInv
<1>2. pool'[r] = "freed" /\ \A q \in Requests : q # r => pool'[q] = pool[q]
  BY <1>1 DEF ResolveInv, TypeOK
<1>3. QED
  BY <1>1, <1>2, LeaseMoves DEF ResolveInv

(* Every step of Resolve but a refused allocation is a step of Lease or a  *)
(* stutter.                                                                *)
LEMMA StepImplementsLease ==
  ASSUME ResolveInv, [Next]_vars, ~AllocateRefused
  PROVE  [LeasedContext!Next]_(LeasedContext!vars)
<1>1. CASE UNCHANGED vars
  BY <1>1, LeaseStutters DEF vars, requestVars
<1>2. CASE ResolveStart
  <2>1. hreq \in Requests /\ pool' = pool /\ pool[hreq] = "alive" /\ ctx[hreq] = "none"
    BY <1>2 DEF ResolveStart, ResolveInv, HandlerInv
  <2>2. CASE UNCHANGED ctx
    BY <2>1, <2>2, LeaseStutters
  <2>3. CASE ctx' = [ctx EXCEPT ![hreq] = "held"]
    BY <2>1, <2>3, LeaseMoves DEF ResolveInv, TypeOK
  <2>4. QED
    BY <1>2, <2>2, <2>3 DEF ResolveStart
<1>3. CASE AllocateState
  BY <1>3, LeaseStutters DEF AllocateState
<1>4. CASE ResolveName
  <2>1. hreq \in Requests /\ pool' = pool /\ ctx[hreq] = "held"
    BY <1>4 DEF ResolveName, ResolveInv, HandlerInv
  <2>2. CASE UNCHANGED ctx
    BY <2>1, <2>2, LeaseStutters
  <2>3. CASE ctx' = [ctx EXCEPT ![hreq] = "freed"]
    BY <2>1, <2>3, LeaseMoves DEF ResolveInv, TypeOK, Held
  <2>4. CASE ctx' = [ctx EXCEPT ![hreq] = "waiting"]
    <3>1. \A q \in Requests : LeaseOf(ctx'[q]) = LeaseOf(ctx[q])
      BY <2>1, <2>4 DEF ResolveInv, TypeOK, LeaseOf
    <3>2. QED
      BY <2>1, <3>1, LeaseStutters
  <2>5. QED
    BY <1>4, <2>2, <2>3, <2>4 DEF ResolveName
<1>5. CASE ResolveFailed \/ Call
  BY <1>5, LeaseStutters DEF ResolveFailed, Call, requestVars
<1>6. CASE ReturnAgain
  <2>1. hreq \in Requests /\ hpc = "called"
    BY <1>6 DEF ReturnAgain, ResolveInv, HandlerInv
  <2>2. CASE hreq \in terminal /\ DestroyPool(hreq)
    <3>1. pool[hreq] = "alive"
      BY <2>2 DEF ResolveInv, ContextInv
    <3>2. QED
      BY <2>1, <2>2, <3>1, DestroyEndsLease
  <2>3. CASE UNCHANGED requestVars
    BY <2>3, LeaseStutters DEF requestVars
  <2>4. QED
    BY <1>6, <2>2, <2>3 DEF ReturnAgain
<1>7. CASE resolve_sync_done
  <2>1. creq \in Requests /\ pool' = pool /\ Held(creq) /\ name_done(creq)
    BY <1>7 DEF resolve_sync_done, ResolveInv, CallbackInv
  <2>2. QED
    BY <2>1, NameDone, LeaseMoves DEF ResolveInv
<1>8. CASE Finalize
  <2>1. creq \in Requests /\ pool[creq] = "alive" /\ hpc \notin {"allocate", "failed"}
    BY <1>8 DEF Finalize, ResolveInv, CallbackInv, HandlerInv
  <2>2. CASE DestroyPool(creq)
    BY <2>1, <2>2, DestroyEndsLease
  <2>3. CASE UNCHANGED <<pool, ctx>>
    BY <2>3, LeaseStutters
  <2>4. QED
    BY <1>8, <2>2, <2>3 DEF Finalize
<1>9. CASE RunPosted
  <2>1. creq \in Requests /\ conn = creq /\ hpc \notin {"allocate", "failed"}
    BY <1>9 DEF RunPosted, ResolveInv, CallbackInv, HandlerInv
  <2>2. CASE creq \in terminal /\ DestroyPool(creq)
    <3>1. pool[creq] = "alive"
      BY <2>2 DEF ResolveInv, ContextInv
    <3>2. QED
      BY <2>1, <2>2, <3>1, DestroyEndsLease
  <2>3. CASE UNCHANGED requestVars
    BY <2>3, LeaseStutters DEF requestVars
  <2>4. QED
    BY <1>9, <2>1, <2>2, <2>3 DEF RunPosted
<1>10. ASSUME NEW r \in Requests, resolve_sync(r)
       PROVE  LeasedContext!Next
  <2>1. /\ pool[r] = "new" /\ pool' = [pool EXCEPT ![r] = "alive"] /\ ctx' = ctx
    BY <1>10 DEF resolve_sync
  <2>2. pool'[r] = "alive" /\ \A q \in Requests : q # r => pool'[q] = pool[q]
    BY <2>1 DEF ResolveInv, TypeOK
  <2>3. QED
    BY <2>1, <2>2, LeaseMoves DEF ResolveInv
<1>11. ASSUME NEW r \in Requests, Timeout(r)
       PROVE  [LeasedContext!Next]_(LeasedContext!vars)
  BY <1>11, LeaseStutters DEF Timeout, requestVars
<1>12. ASSUME NEW r \in Requests, Teardown(r) \/ ResponseSent(r)
       PROVE  LeasedContext!Next
  <2>1. DestroyPool(r) /\ hpc = "none" /\ pool[r] = "alive"
    BY <1>12 DEF Teardown, ResponseSent, InLoop, ResolveInv, ContextInv
  <2>2. QED
    BY <2>1, DestroyEndsLease
<1>13. ASSUME NEW n \in Names, Answer(n)
       PROVE  [LeasedContext!Next]_(LeasedContext!vars)
  <2>1. \A q \in Requests : LeaseOf(ctx'[q]) = LeaseOf(ctx[q])
    BY <1>13 DEF Answer, Waiting, LeaseOf
  <2>2. QED
    BY <1>13, <2>1, LeaseStutters DEF Answer
<1>14. ASSUME NEW n \in Names, Expire(n)
       PROVE  [LeasedContext!Next]_(LeasedContext!vars)
  BY <1>14, LeaseStutters DEF Expire, requestVars
<1>15. QED
  BY <1>1, <1>2, <1>3, <1>4, <1>5, <1>6, <1>7, <1>8, <1>9, <1>10, <1>11, <1>12,
     <1>13, <1>14 DEF Next, HandlerStep, CallbackStep

(* The resolver context is a lease of the request: taken once by a live    *)
(* request and given back once, at the latest with its pool.  The refused  *)
(* allocation, which frees it twice (benchmark.rs:117, :145), is the only  *)
(* step that is none of Lease.  (That what is held is given back some day  *)
(* is left to TLC: fairness.)                                              *)
THEOREM ResolveImplementsLease ==
  Spec => /\ LeasedContext!Init
          /\ [][LeasedContext!Next \/ AllocateRefused]_(LeasedContext!vars)
<1>1. Init => LeasedContext!Init
  BY DEF Init, LeasedContext!Init
<1>2. ResolveInv /\ [Next]_vars =>
        [LeasedContext!Next \/ AllocateRefused]_(LeasedContext!vars)
  BY StepImplementsLease
<1>3. QED
  BY <1>1, <1>2, ResolveInvariant, PTL DEF Spec

-----------------------------------------------------------------------------
(* The safety half of LookupEnds: no request is forgotten by the lookup.   *)
(* Until it is freed, the resolver has its context (and a timer for it),   *)
(* nginx is about to call back or does, resolve_sync is at work, or nginx  *)
(* still has a response to send; a terminate handler in posted_requests    *)
(* has somebody who will run it: the callback if nginx called it from its  *)
(* event loop, and nginx itself if it called from inside resolve_sync      *)
(* (benchmark.rs:199, :207).                                               *)
TerminateRuns(r) ==
  \/ cpc = "run_posted" /\ posted /\ creq = r
  \/ hpc = "called" /\ hreq = r

LookupInFlight ==
  \A r \in Requests : pool[r] = "alive" =>
    \/ ctx[r] = "waiting" \/ \E i \in 1..Len(calls) : calls[i] = r
    \/ hpc \in {"start", "allocate", "resolve", "failed"} /\ hreq = r
    \/ cpc \in {"enter", "finalize"} /\ creq = r
    \/ r \in closing
    \/ r \in terminal /\ TerminateRuns(r)

(* When the callback has finalized, posted says who called it: nginx from  *)
(* its event loop, or ngx_resolve_name for the request of resolve_sync.    *)
FlightInv ==
  /\ LookupInFlight
  /\ cpc \in {"finalize", "run_posted"} => posted = (hpc = "none")
  /\ hpc = "called" /\ cpc # "none" => creq = hreq

(* No request is in flight initially.                                      *)
LEMMA InitFlight == Init => FlightInv
BY DEF Init, FlightInv, LookupInFlight

(* Destroying one pool leaves all other requests in flight.                *)
LEMMA DestroyLeavesOthers ==
  ASSUME ResolveInv, FlightInv, NEW r \in Requests, DestroyPool(r),
         hpc \notin {"allocate", "failed"}, UNCHANGED <<hpc, hreq, calls>>,
         cpc' \in {cpc, "run_posted"}, cpc' # cpc => cpc = "finalize" /\ creq = r,
         UNCHANGED <<creq, posted>>
  PROVE  LookupInFlight'
<1>1. /\ \A q \in Requests : q # r => ctx'[q] = ctx[q]
      /\ terminal' = terminal \ {r} /\ closing' = closing \ {r}
      /\ pool' = [pool EXCEPT ![r] = "freed"]
  BY DestroyPoolContext DEF ResolveInv
<1>2. pool'[r] = "freed" /\ \A q \in Requests : q # r => pool'[q] = pool[q]
  BY <1>1 DEF ResolveInv, TypeOK
<1>3. QED
  BY <1>1, <1>2 DEF FlightInv, LookupInFlight, TerminateRuns

(* The steps of resolve_sync keep lookups in flight.                       *)
LEMMA HandlerFlight ==
  ASSUME ResolveInv, FlightInv, HandlerStep \/ \E r \in Requests : resolve_sync(r)
  PROVE  FlightInv'
<1> USE DEF ResolveInv, FlightInv
<1>1. CASE ResolveStart
  <2>1. /\ hpc = "start" /\ hreq \in Requests /\ cpc = "none" /\ hpc' # "called"
        /\ UNCHANGED <<pool, terminal, resolverVars, callbackVars>>
        /\ \/ closing' = closing \cup {hreq} /\ UNCHANGED ctx
           \/ /\ ctx' = [ctx EXCEPT ![hreq] = "held"] /\ hpc' = "allocate"
              /\ UNCHANGED <<closing, hreq>>
    BY <1>1 DEF ResolveStart, ReturnError, HandlerInv
  <2>2. QED
    BY <2>1 DEF LookupInFlight, TerminateRuns, TypeOK, callbackVars
<1>2. CASE AllocateRefused \/ AllocateState
  <2>1. /\ hpc = "allocate" /\ hreq \in Requests /\ cpc = "none" /\ hpc' # "called"
        /\ ctx[hreq] = "held" /\ UNCHANGED <<pool, terminal, callbackVars>>
        /\ \/ closing' = closing \cup {hreq} /\ ctx' = [ctx EXCEPT ![hreq] = "twice"]
           \/ hpc' = "resolve" /\ UNCHANGED <<ctx, closing, hreq>>
    BY <1>2 DEF AllocateRefused, AllocateState, ReturnError, HandlerInv
  <2>2. \A q \in Requests : q # hreq => ctx'[q] = ctx[q]
    BY <2>1 DEF TypeOK
  <2>3. QED
    BY <2>1, <2>2 DEF LookupInFlight, TerminateRuns, callbackVars
<1>3. CASE ResolveName
  <2>1. /\ hpc = "resolve" /\ hreq \in Requests /\ cpc = "none"
        /\ UNCHANGED <<pool, terminal, closing, calls>>
        /\ \/ /\ ctx' = [ctx EXCEPT ![hreq] = "freed"] /\ hpc' = "failed"
              /\ UNCHANGED <<hreq, callbackVars>>
           \/ /\ cpc' = "enter" /\ creq' = hreq /\ hpc' = "called"
              /\ UNCHANGED <<ctx, hreq>>
           \/ /\ ctx' = [ctx EXCEPT ![hreq] = "waiting"] /\ hpc' = "none"
              /\ UNCHANGED callbackVars
    BY <1>3 DEF ResolveName, HandlerInv, callbackVars
  <2>2. QED
    BY <2>1 DEF LookupInFlight, TerminateRuns, TypeOK, callbackVars
<1>4. CASE ResolveFailed
  <2>1. /\ hpc = "failed" /\ hreq \in Requests /\ cpc = "none" /\ hpc' = "none"
        /\ closing' = closing \cup {hreq}
        /\ UNCHANGED <<pool, ctx, terminal, callbackVars>>
    BY <1>4 DEF ResolveFailed, ReturnError, HandlerInv
  <2>2. QED
    BY <2>1 DEF LookupInFlight, TerminateRuns, callbackVars
<1>5. CASE ReturnAgain
  <2>1. /\ hpc = "called" /\ hreq \in Requests /\ cpc = "none" /\ hpc' = "none"
        /\ UNCHANGED <<cpc, creq, posted, calls>>
    BY <1>5 DEF ReturnAgain, HandlerInv, callbackVars
  <2>2. CASE hreq \in terminal /\ DestroyPool(hreq)
    <3>1. /\ \A q \in Requests : q # hreq => ctx'[q] = ctx[q]
          /\ terminal' = terminal \ {hreq} /\ closing' = closing \ {hreq}
          /\ pool' = [pool EXCEPT ![hreq] = "freed"]
      BY <2>1, <2>2, DestroyPoolContext
    <3>2. pool'[hreq] = "freed" /\ \A q \in Requests : q # hreq => pool'[q] = pool[q]
      BY <2>1, <3>1 DEF TypeOK
    <3>3. QED
      BY <2>1, <3>1, <3>2 DEF LookupInFlight, TerminateRuns
  <2>3. CASE hreq \notin terminal /\ UNCHANGED requestVars
    BY <2>1, <2>3 DEF LookupInFlight, TerminateRuns, requestVars
  <2>4. QED
    BY <1>5, <2>2, <2>3 DEF ReturnAgain
<1>6. ASSUME NEW r \in Requests, resolve_sync(r) PROVE FlightInv'
  <2>1. /\ hpc = "none" /\ cpc = "none" /\ calls = <<>> /\ hpc' = "start" /\ hreq' = r
        /\ pool' = [pool EXCEPT ![r] = "alive"]
        /\ UNCHANGED <<ctx, terminal, closing, callbackVars>>
    BY <1>6 DEF resolve_sync, InLoop
  <2>2. \A q \in Requests : q # r => pool'[q] = pool[q]
    BY <2>1 DEF TypeOK
  <2>3. QED
    BY <2>1, <2>2 DEF LookupInFlight, TerminateRuns, callbackVars
<1>7. QED
  BY <1>1, <1>2, <1>3, <1>4, <1>5, <1>6 DEF HandlerStep

(* So do those of the callback.                                            *)
LEMMA CallbackFlight ==
  ASSUME ResolveInv, FlightInv, CallbackStep
  PROVE  FlightInv'
<1> USE DEF ResolveInv, FlightInv
<1>1. CASE Call
  <2>1. /\ hpc = "none" /\ cpc = "none" /\ calls # <<>> /\ cpc' = "enter"
        /\ creq' = Head(calls) /\ calls' = Tail(calls)
        /\ UNCHANGED <<pool, ctx, terminal, closing, hpc, hreq>>
    BY <1>1 DEF Call, HandlerInv, requestVars, handlerVars
  <2>2. \A i \in 1..Len(calls) :
          calls[i] = creq' \/ \E j \in 1..Len(calls') : calls'[j] = calls[i]
    <3>1. calls \in Seq(Requests)
      BY DEF TypeOK
    <3>2. /\ Len(calls) \in Nat \ {0} /\ Len(calls') = Len(calls) - 1 /\ creq' = calls[1]
          /\ \A j \in 1..Len(calls') : calls'[j] = calls[j + 1]
      BY <2>1, <3>1
    <3>3. ASSUME NEW i \in 1..Len(calls), i # 1
          PROVE  i - 1 \in 1..Len(calls') /\ calls'[i - 1] = calls[i]
      BY <3>2, <3>3
    <3>4. QED
      BY <3>2, <3>3
  <2>3. QED
    BY <2>1, <2>2 DEF LookupInFlight, TerminateRuns
<1>2. CASE resolve_sync_done
  <2>1. /\ cpc = "enter" /\ creq \in Requests /\ Held(creq) /\ name_done(creq)
        /\ posted' = (hpc = "none") /\ cpc' = "finalize"
        /\ UNCHANGED <<pool, terminal, closing, hpc, hreq, creq, calls>>
    BY <1>2 DEF resolve_sync_done, CallbackInv, handlerVars
  <2>2. \A q \in Requests : q # creq => ctx'[q] = ctx[q]
    BY <2>1, NameDone
  <2>3. QED
    BY <2>1, <2>2 DEF LookupInFlight, TerminateRuns
<1>3. CASE Finalize
  <2>1. /\ cpc = "finalize" /\ creq \in Requests /\ cpc' = "run_posted"
        /\ UNCHANGED <<hpc, hreq, creq, posted, calls>>
    BY <1>3 DEF Finalize, CallbackInv, handlerVars
  <2>2. hpc \in {"none", "called"}
    BY <2>1 DEF HandlerInv, TypeOK
  <2>3. CASE DestroyPool(creq)
    <3>1. LookupInFlight'
      BY <2>1, <2>2, <2>3, DestroyLeavesOthers
    <3>2. QED
      BY <2>1, <3>1
  <2>4. CASE terminal' = terminal \cup {creq} /\ UNCHANGED <<pool, ctx, closing>>
    <3>1. TerminateRuns(creq)'
      BY <2>1, <2>2 DEF TerminateRuns, TypeOK
    <3>2. LookupInFlight'
      BY <2>1, <2>4, <3>1 DEF LookupInFlight, TerminateRuns
    <3>3. QED
      BY <2>1, <3>2
  <2>5. CASE closing' = closing \cup {creq} /\ UNCHANGED <<pool, ctx, terminal>>
    BY <2>1, <2>5 DEF LookupInFlight, TerminateRuns
  <2>6. QED
    BY <1>3, <2>3, <2>4, <2>5 DEF Finalize
<1>4. CASE RunPosted
  <2>1. /\ cpc = "run_posted" /\ creq \in Requests /\ conn = creq /\ cpc' = "none"
        /\ UNCHANGED <<hpc, hreq, calls>>
    BY <1>4 DEF RunPosted, CallbackInv, handlerVars
  <2>2. hpc \in {"none", "called"}
    BY <2>1 DEF HandlerInv, TypeOK
  <2>3. CASE posted /\ creq \in terminal /\ DestroyPool(creq)
    <3>1. /\ \A q \in Requests : q # creq => ctx'[q] = ctx[q]
          /\ terminal' = terminal \ {creq} /\ closing' = closing \ {creq}
          /\ pool' = [pool EXCEPT ![creq] = "freed"]
      BY <2>1, <2>2, <2>3, DestroyPoolContext
    <3>2. pool'[creq] = "freed" /\ \A q \in Requests : q # creq => pool'[q] = pool[q]
      BY <2>1, <3>1 DEF TypeOK
    <3>3. QED
      BY <2>1, <3>1, <3>2 DEF LookupInFlight, TerminateRuns
  <2>4. CASE ~(posted /\ creq \in terminal) /\ UNCHANGED requestVars
    <3>1. creq \in terminal => hpc' = "called" /\ hreq' = creq
      BY <2>1, <2>2, <2>4
    <3>2. QED
      BY <2>1, <2>4, <3>1 DEF LookupInFlight, TerminateRuns, requestVars
  <2>5. QED
    BY <1>4, <2>1, <2>3, <2>4 DEF RunPosted
<1>5. QED
  BY <1>1, <1>2, <1>3, <1>4 DEF CallbackStep

(* So does every step.                                                     *)
LEMMA StepFlight == ResolveInv /\ FlightInv /\ [Next]_vars => FlightInv'
<1> SUFFICES ASSUME ResolveInv, FlightInv, [Next]_vars PROVE FlightInv'
  OBVIOUS
<1>1. CASE UNCHANGED vars
  BY <1>1 DEF FlightInv, LookupInFlight, TerminateRuns, vars, requestVars,
              resolverVars, handlerVars, callbackVars
<1>2. CASE HandlerStep \/ \E r \in Requests : resolve_sync(r)
  BY <1>2, HandlerFlight
<1>3. CASE CallbackStep
  BY <1>3, CallbackFlight
<1>4. ASSUME NEW r \in Requests, Timeout(r) PROVE FlightInv'
  <2>1. /\ hpc = "none" /\ cpc = "none" /\ calls = <<>>
        /\ UNCHANGED <<pool, ctx, terminal, closing, hpc, hreq, cpc, creq, posted>>
    BY <1>4 DEF Timeout, InLoop, requestVars, handlerVars
  <2>2. QED
    BY <2>1 DEF FlightInv, LookupInFlight, TerminateRuns
<1>5. ASSUME NEW r \in Requests, Teardown(r) \/ ResponseSent(r) PROVE FlightInv'
  <2>1. /\ DestroyPool(r) /\ hpc = "none" /\ cpc = "none"
        /\ UNCHANGED <<hpc, hreq, cpc, creq, posted, calls>>
    BY <1>5 DEF Teardown, ResponseSent, InLoop, handlerVars, callbackVars
  <2>2. LookupInFlight'
    BY <2>1, DestroyLeavesOthers
  <2>3. QED
    BY <2>1, <2>2 DEF FlightInv
<1>6. ASSUME NEW n \in Names, Answer(n) PROVE FlightInv'
  <2>1. /\ hpc = "none" /\ cpc = "none" /\ calls = <<>>
        /\ calls' \in SetToSeqs(Waiting(n))
        /\ ctx' = [r \in Requests |-> IF r \in Waiting(n) THEN "called" ELSE ctx[r]]
        /\ UNCHANGED <<pool, terminal, closing, hpc, hreq, cpc, creq, posted>>
    BY <1>6 DEF Answer, InLoop, handlerVars
  <2>2. \A r \in Waiting(n) : \E i \in 1..Len(calls') : calls'[i] = r
    <3>1. IsFiniteSet(Waiting(n))
      BY RequestsAssumption, FS_Subset DEF Waiting
    <3>2. QED
      BY <2>1, <3>1, SequenceOfSet
  <2>3. QED
    BY <2>1, <2>2 DEF FlightInv, LookupInFlight, TerminateRuns
<1>7. ASSUME NEW n \in Names, Expire(n) PROVE FlightInv'
  BY <1>7 DEF Expire, FlightInv, LookupInFlight, TerminateRuns, requestVars,
              handlerVars, callbackVars
<1>8. QED
  BY <1>1, <1>2, <1>3, <1>4, <1>5, <1>6, <1>7 DEF Next

(* No lookup strands its request, in any order of answers, timeouts,       *)
(* failures and ends of requests: until it is freed somebody still has to  *)
(* act on it.                                                              *)
THEOREM ResolveLookupInFlight == Spec => []LookupInFlight
<1>1. FlightInv => LookupInFlight
  BY DEF FlightInv
<1>2. QED
  BY <1>1, InitFlight, StepFlight, ResolveInvariant, PTL DEF Spec
=============================================================================
