-------------------------------- MODULE Lease --------------------------------
(***************************************************************************)
(* What the example modules promise nginx about a resource that they hold  *)
(* by a raw pointer, in memory with a life of its own: it is acquired at   *)
(* most once, by a living owner, it never outlives its owner, it is given  *)
(* back once, and it is left alone when somebody else has it.  The pairs   *)
(* are the ngx_connection_t of a PeerConnection (module PeerConn) and the  *)
(* resolver context of a request (module Resolve).                         *)
(***************************************************************************)
CONSTANT Owners

VARIABLES
  owner,  \* the memory that holds the pointer: absent, alive, then gone
  lease   \* the resource: free, held, released, then reused by another

vars == <<owner, lease>>

Init ==
  /\ owner = [o \in Owners |-> "absent"]
  /\ lease = [o \in Owners |-> "free"]

Begin(o) ==
  /\ owner[o] = "absent"
  /\ owner' = [owner EXCEPT ![o] = "alive"]
  /\ UNCHANGED lease

Acquire(o) ==
  /\ owner[o] = "alive" /\ lease[o] = "free"
  /\ lease' = [lease EXCEPT ![o] = "held"]
  /\ UNCHANGED owner

Release(o) ==
  /\ lease[o] = "held"
  /\ lease' = [lease EXCEPT ![o] = "released"]
  /\ UNCHANGED owner

(* nginx hands the resource to somebody else; no step of the owner takes   *)
(* it from there.                                                          *)
Reuse(o) ==
  /\ lease[o] = "released"
  /\ lease' = [lease EXCEPT ![o] = "reused"]
  /\ UNCHANGED owner

(* The owner's memory goes, and gives back what it still holds.            *)
End(o) ==
  /\ owner[o] = "alive"
  /\ owner' = [owner EXCEPT ![o] = "gone"]
  /\ lease' = [lease EXCEPT ![o] = IF @ = "held" THEN "released" ELSE @]

Next ==
  \E o \in Owners : Begin(o) \/ Acquire(o) \/ Release(o) \/ Reuse(o) \/ End(o)

Safety == Init /\ [][Next]_vars

(* What is held is released some day, by itself or with its owner.         *)
Fairness == \A o \in Owners : WF_vars(Release(o))

Spec == Safety /\ Fairness
=============================================================================
