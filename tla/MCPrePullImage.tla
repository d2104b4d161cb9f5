---------------------------- MODULE MCPrePullImage ----------------------------
(* Small clusters for module PrePullImage. *)
EXTENDS PrePullImage

CONSTANTS a, b, n1, n2

Distinct == (a :> [stem |-> "a", len |-> 10]) @@ (b :> [stem |-> "b", len |-> 10])
(* metadata.name in two namespaces; with too little room for the node hash *)
SameName == [p \in PPIs |-> [stem |-> "same", len |-> 10]]
NoHashLeft == [p \in PPIs |-> [stem |-> "long", len |-> 53]]
DashLeft == [p \in PPIs |-> [stem |-> "long", len |-> 51]]

Hash == (n1 :> <<1, 0, 0, 0, 0, 0, 0, 0>>) @@ (n2 :> <<2, 0, 0, 0, 0, 0, 0, 0>>)

(* spec.nodes.names *)
OnBoth   == [p \in PPIs |-> <<n1, n2>>]
OnOne    == [p \in PPIs |-> <<n1>>]
Mixed    == [p \in PPIs |-> IF p = a THEN <<n1>> ELSE <<n1, n2>>]
Selected == [p \in PPIs |-> <<>>]
NoneMatch == [p \in PPIs |-> {}]
AllMatch  == [p \in PPIs |-> Nodes]

NoRetry  == [p \in PPIs |-> 0]
OneRetry == [p \in PPIs |-> 1]

(* What a run tells apart: not the ghost pulled where no property reads it, not
   the pulls of failed Jobs where only those of the others matter.  No action
   reads pulled, so nothing is lost. *)
SeenButPulled == <<store, jobs, aged, cache, jobCache, queueVars, limitVars, workVars, envVars>>
SeenSucceeded == <<SeenButPulled, {pull \in pulled : pull[3] = "Succeeded"}>>
=============================================================================
