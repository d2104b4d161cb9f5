-------------------------------- MODULE MCKwarm ---------------------------------
(* One Deployment, whose name is so long that the PrePullImages of all its images
   have the same, on one node. *)
EXTENDS Kwarm

CONSTANTS d, c1, x, y, pol, n1

AppNamespace == [e \in Deployments |-> "apps"]
AppLabels    == [e \in Deployments |-> {"enabled"}]
OnePolicy    == [p \in Policies |-> [namespaces |-> <<"apps">>, matchLabels |-> {"enabled"}]]
LongName     == [e \in Deployments |-> [stem |-> "web", len |-> 63]]
Keys         == [c \in Containers |-> "web"]
OfImage      == (x :> <<1, 0, 0, 0, 0, 0, 0, 0>>) @@ (y :> <<2, 0, 0, 0, 0, 0, 0, 0>>)
OneImage     == {c1 :> x, c1 :> y}

TheKey  == [ns |-> "apps", stem |-> "web", dash |-> FALSE, hash |-> <<>>]
Names   == [p \in {TheKey} |-> [stem |-> "web", len |-> 63]]
OfNode  == n1 :> <<1, 0, 0, 0, 0, 0, 0, 0>>
OnNode  == [p \in {TheKey} |-> <<n1>>]
NoMatch == [p \in {TheKey} |-> {}]
NoRetry == [p \in {TheKey} |-> 0]
TheKeys == {TheKey}

(* Safety only; the hashes of the images are cut off the names. *)
Symmetry == Permutations({x, y})

(* What the run tells apart: not the ghost pulled, which no action and no property
   of it reads; pulledImages says more. *)
SeenButPulled == <<store, jobs, aged, cache, jobCache, queueVars, limitVars, workVars, envVars,
                   rolloutVars, settled, pullVars>>
=============================================================================
