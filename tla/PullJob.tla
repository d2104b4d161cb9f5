-------------------------------- MODULE PullJob --------------------------------
(***************************************************************************)
(* The constant-level part of internal/puller/job.go: how a pull Job is    *)
(* named, what a new one looks like and how its status is read.            *)
(*                                                                         *)
(* A name is abstracted to what truncation at 63 characters tells apart: a *)
(* PrePullImage name is a record of its first 52 characters (stem) and its *)
(* length (len); a job name is the stem, whether the '-' in front of the   *)
(* node hash is still there, and the digits of the hash that are.          *)
(***************************************************************************)
EXTENDS Integers, Sequences

CONSTANTS
  NodeHash,  \* hashNodeName: the 8 hex digits of a node's SHA-256 (external)
  NoJob      \* what a lookup of an absent job returns

PrefixLen  == 11   \* "kwarm-pull-"
HashLen    == 8
MaxNameLen == 63   \* longer names are cut

PPIName == [stem : STRING, len : Nat]

-----------------------------------------------------------------------------
GenerateJobName_StemOnly(name, node) ==
  [stem |-> name.stem, dash |-> FALSE, hash |-> <<>>]

GenerateJobName(name, node) ==
  LET room == MaxNameLen - PrefixLen - name.len  \* left for "-" and the hash
      kept == IF room > HashLen THEN HashLen ELSE room - 1
  IN [stem |-> name.stem,
      dash |-> room > 0,
      hash |-> SubSeq(NodeHash[node], 1, kept)]

(* What the API server accepts: an object name does not end in '-', and a
   label value (LabelPrePullImage holds the whole name) fits 63 characters. *)
Accepted(name, jobName) ==
  /\ jobName.dash => jobName.hash # <<>>
  /\ name.len <= MaxNameLen

(* The Job CreatePullJob submits: the owner only lives in its labels, and the
   pod of a BackoffLimit 0 job has not started yet. *)
NewJob(ppi, node) ==
  [owner |-> ppi, node |-> node, active |-> 0, succeeded |-> 0, failed |-> 0]

Finished(job) == job.succeeded > 0 \/ job.failed > 0

JobStatus == {"Pending", "Running", "Succeeded", "Failed"}

GetJobStatus_ActiveIsDone(job) ==
  IF job.failed > 0 THEN "Failed"
  ELSE IF job.succeeded > 0 \/ job.active > 0 THEN "Succeeded"
  ELSE "Pending"

GetJobStatus(job) ==
  CASE job.succeeded > 0 -> "Succeeded"
    [] job.succeeded = 0 /\ job.failed > 0 -> "Failed"
    [] job.succeeded = 0 /\ job.failed = 0 /\ job.active > 0 -> "Running"
    [] OTHER -> "Pending"
=============================================================================
