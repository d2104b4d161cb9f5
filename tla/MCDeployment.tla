------------------------------ MODULE MCDeployment ------------------------------
(* One Deployment and one policy for module DeploymentController. *)
EXTENDS DeploymentController, TLC

CONSTANTS d, c1, c2, x, y

AppNamespace == [e \in Deployments |-> "apps"]
AppLabels    == [e \in Deployments |-> {"enabled", "web"}]
OnePolicy    == [p \in Policies |-> [namespaces |-> <<"apps">>, matchLabels |-> {"enabled"}]]

ShortName == [e \in Deployments |-> [stem |-> "web", len |-> 10]]
LongName  == [e \in Deployments |-> [stem |-> "web", len |-> 63]]
Hash      == (x :> <<1, 0, 0, 0, 0, 0, 0, 0>>) @@ (y :> <<2, 0, 0, 0, 0, 0, 0, 0>>)

OwnKeys    == (c1 :> "web") @@ (c2 :> "init-db")
SharedKey  == (c1 :> "init-db") @@ (c2 :> "init-db")

(* Both containers; the same image twice; the init container removed. *)
Rollouts  == {(c1 :> x) @@ (c2 :> y), (c1 :> y) @@ (c2 :> y), c1 :> x}
OneImage  == {c1 :> x, c1 :> y}
=============================================================================
