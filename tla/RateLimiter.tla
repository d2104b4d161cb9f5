------------------------------ MODULE RateLimiter ------------------------------
(***************************************************************************)
(* The in-memory rate limiter of the operator                              *)
(* (internal/ratelimiter/ratelimiter.go): one counter for the cluster and  *)
(* one per node, each bounded by a command-line flag.  A mutex makes every *)
(* method atomic, so a method is one action.                               *)
(*                                                                         *)
(* The Go map nodeCurrentPulls drops a key whose counter falls to zero and *)
(* reads a missing key as zero: it is a total function here.               *)
(***************************************************************************)
EXTENDS Integers, Functions

CONSTANTS
  Nodes,          \* the node names callers use
  maxConcurrent,  \* flag --max-concurrent-pulls
  maxPerNode      \* flag --max-pulls-per-node

ASSUME LimiterFlags == maxConcurrent \in Int /\ maxPerNode \in Int

VARIABLES
  currentPulls,     \* slots taken in the cluster
  nodeCurrentPulls  \* slots taken on each node

limiterVars == <<currentPulls, nodeCurrentPulls>>

-----------------------------------------------------------------------------
(* NewRateLimiter replaces a limit that is not positive by its default. *)
maxConcurrentPulls == IF maxConcurrent <= 0 THEN 10 ELSE maxConcurrent
maxPullsPerNode    == IF maxPerNode <= 0 THEN 2 ELSE maxPerNode

NewRateLimiter ==
  /\ currentPulls = 0
  /\ nodeCurrentPulls = [n \in Nodes |-> 0]

(* What TryAcquire tests before it counts the pull. *)
HasFreeSlot_OffByOne(n) ==
  /\ currentPulls <= maxConcurrentPulls
  /\ nodeCurrentPulls[n] < maxPullsPerNode

HasFreeSlot_AnyNode(n) == currentPulls < maxConcurrentPulls

HasFreeSlot(n) ==
  /\ currentPulls < maxConcurrentPulls
  /\ nodeCurrentPulls[n] < maxPullsPerNode

(* TryAcquire returns true; when it returns false it changes nothing. *)
TryAcquire(n) ==
  /\ HasFreeSlot(n)
  /\ currentPulls' = currentPulls + 1
  /\ nodeCurrentPulls' = [nodeCurrentPulls EXCEPT ![n] = @ + 1]

(* Release never takes a counter below zero, and it clamps each counter on
   its own: a release nobody acquired can lower one and not the other. *)
Decrement_Unclamped(c) == c - 1

Decrement(c) == IF c > 0 THEN c - 1 ELSE c

Release_ClusterNotCounted(n) ==
  /\ nodeCurrentPulls' = [nodeCurrentPulls EXCEPT ![n] = Decrement(@)]
  /\ currentPulls' = IF nodeCurrentPulls[n] > 0 THEN currentPulls
                                                ELSE Decrement(currentPulls)

Release(n) ==
  /\ currentPulls' = Decrement(currentPulls)
  /\ nodeCurrentPulls' = [nodeCurrentPulls EXCEPT ![n] = Decrement(@)]

-----------------------------------------------------------------------------
(* The limiter under arbitrary callers, unmatched releases included
   (TestRateLimiter_ReleaseNonExistent). *)
Next == \E n \in Nodes : TryAcquire(n) \/ Release(n)

Spec == NewRateLimiter /\ [][Next]_limiterVars

-----------------------------------------------------------------------------
(* Both counters are natural numbers: no release makes one negative. *)
TypeOK ==
  /\ currentPulls \in Nat
  /\ nodeCurrentPulls \in [Nodes -> Nat]

(* Whatever the callers do, the limiter never grants a slot beyond the
   cluster limit or beyond the limit of a node. *)
LimitsHold ==
  /\ currentPulls <= maxConcurrentPulls
  /\ \A n \in Nodes : nodeCurrentPulls[n] <= maxPullsPerNode

(* Unmatched releases make the two kinds of counter disagree in one direction
   only: the cluster counter never claims more pulls than the nodes account
   for, so it never refuses a pull on behalf of pulls no node has. *)
ClusterWithinNodes == currentPulls <= SumFunction(nodeCurrentPulls)
=============================================================================
