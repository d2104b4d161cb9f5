----------------------------- MODULE PolicySelector -----------------------------
(***************************************************************************)
(* Which Deployments a PrePullPolicy selects.  The repository decides this *)
(* twice: the Deployment controller for one Deployment at a time, the      *)
(* PrePullPolicy controller by listing Deployments and counting.  A label  *)
(* is a key with its value; a selector has the namespaces listed in the    *)
(* spec, in order and possibly repeated, and the labels to match.          *)
(***************************************************************************)
EXTENDS Functions

(* No labels to match: nothing is selected. *)
deploymentMatchesSelector(labels, sel) ==
  sel.matchLabels # {} /\ sel.matchLabels \subseteq labels

(* The Deployment controller; no namespaces: all of them. *)
deploymentMatchesPolicy(namespace, labels, sel) ==
  /\ sel.namespaces # <<>> => namespace \in Range(sel.namespaces)
  /\ deploymentMatchesSelector(labels, sel)
=============================================================================
