-------------------------------- MODULE MCPolicy --------------------------------
(* One policy and two Deployments for module PrePullPolicy. *)
EXTENDS PrePullPolicy, TLC

CONSTANTS pol, other, d1, d2

Places == (d1 :> "apps") @@ (d2 :> "ops")
Labels == {{"enabled"}}

InBoth     == [namespaces |-> <<"apps", "ops">>, matchLabels |-> {"enabled"}]
InApps     == [namespaces |-> <<"apps">>, matchLabels |-> {"enabled"}]
(* A namespace listed twice; the empty name, which lists all namespaces. *)
Twice      == [namespaces |-> <<"apps", "apps">>, matchLabels |-> {"enabled"}]
EmptyName  == [namespaces |-> <<"">>, matchLabels |-> {"enabled"}]

Choices   == {InBoth, InApps}
Repeated  == {Twice}
WithEmpty == {EmptyName}
=============================================================================
