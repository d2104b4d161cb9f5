----------------------------- MODULE PullLifecycle -----------------------------
(***************************************************************************)
(* What the PrePullImage controller promises to somebody who only watches  *)
(* the objects in the API server: each one is started once, on nodes that  *)
(* are fixed from then on; the pull on a node only moves forward, except   *)
(* for at most MaxAttempts retries; and the phase turns terminal with the  *)
(* last node.  There are no caches, resource versions, jobs, limits or     *)
(* crashes here: module PrePullImage is shown to implement this one.       *)
(***************************************************************************)
EXTENDS Naturals, Sequences

CONSTANTS
  PPIs,         \* the objects
  Nodes,        \* what they pull images to
  MaxAttempts,  \* [PPIs -> Nat]
  Gone          \* the value of an object that does not exist

VARIABLE life   \* what a watcher sees of each object

-----------------------------------------------------------------------------
Init == life = [p \in PPIs |-> Gone]

Become(p, obj) == life' = [life EXCEPT ![p] = obj]

Create(p) ==
  /\ life[p] = Gone
  /\ Become(p, [phase |-> "Pending", ns |-> <<>>])

(* No node is found, and there is nothing to pull. *)
Skip(p) ==
  /\ life[p] # Gone /\ life[p].phase = "Pending"
  /\ Become(p, [phase |-> "Completed", ns |-> <<>>])

Waiting == [node : Nodes, status : {"Pending"}, retry : {0}]

Start(p) ==
  /\ life[p] # Gone /\ life[p].phase = "Pending"
  /\ life'[p] # Gone /\ life'[p].phase = "InProgress"
  /\ life'[p].ns # <<>>
  /\ \A i \in DOMAIN life'[p].ns : life'[p].ns[i] \in Waiting
  /\ Become(p, [phase |-> "InProgress", ns |-> life'[p].ns])

(* The pull on one node: started, succeeded, retried or given up. *)
NodeStep(p, old, new) ==
  \/ new = old
  \/ /\ old.status = "Pending"
     /\ new = [old EXCEPT !.status = "Pulling"]
  \/ /\ old.status = "Pulling"
     /\ \/ new = [old EXCEPT !.status = "Completed"]
        \/ /\ old.retry < MaxAttempts[p]
           /\ new = [old EXCEPT !.status = "Pending", !.retry = @ + 1]
        \/ /\ old.retry = MaxAttempts[p]
           /\ new = [old EXCEPT !.status = "Failed"]

Outcome(ns) ==
  IF \E i \in DOMAIN ns : ns[i].status \in {"Pending", "Pulling"}
  THEN "InProgress"
  ELSE IF \E i \in DOMAIN ns : ns[i].status = "Failed" THEN "Failed"
  ELSE "Completed"

(* Any number of nodes move at most one step each. *)
Advance(p) ==
  /\ life[p] # Gone /\ life[p].phase = "InProgress"
  /\ life'[p] # Gone
  /\ DOMAIN life'[p].ns = DOMAIN life[p].ns
  /\ \A i \in DOMAIN life[p].ns : NodeStep(p, life[p].ns[i], life'[p].ns[i])
  /\ Become(p, [phase |-> Outcome(life'[p].ns), ns |-> life'[p].ns])

Remove(p) ==
  /\ life[p] # Gone
  /\ Become(p, Gone)

Next == \E p \in PPIs :
          Create(p) \/ Skip(p) \/ Start(p) \/ Advance(p) \/ Remove(p)

Spec == Init /\ [][Next]_life
=============================================================================
