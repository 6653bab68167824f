------------------------------- MODULE Job ---------------------------------
(***************************************************************************)
(* The job helpers of pkg/util/k8sutil/job.go: CreateAndWaitJob creates a  *)
(* job and polls it once a second, up to timeout/interval attempts, until  *)
(* it has one active pod; DeleteJob deletes the job and then the pods      *)
(* labelled job-name=<name>.  One caller uses the helpers for one job,     *)
(* one call at a time.                                                     *)
(*                                                                         *)
(* The platform is the environment: the job controller starts a pod for a  *)
(* job that has none running, a pod may fail, and deleting a job orphans *)
(* its pods, which keep running (the delete carries no propagation        *)
(* policy); the label stays on them.                                       *)
(***************************************************************************)
EXTENDS Naturals, FiniteSets

CONSTANTS
  MaxPods,    \* pod names the job controller may generate
  MaxPolls    \* attempts of the wait: int(timeout / interval)

ASSUME MaxPodsAssumption == MaxPods \in Nat
ASSUME MaxPollsAssumption == MaxPolls \in Nat \ {0}

Pids == 1..MaxPods

VARIABLES
  job,      \* the job object exists on the server
  pods,     \* pod name -> "none" | "active" | "orphan" | "failed" | "gone"
  pc,       \* caller: "idle" | "wait"
  polls,    \* attempts of the running wait
  op,       \* the helper that returned last: "none" | "create" | "delete"
  err       \* it returned an error

vars == <<job, pods, pc, polls, op, err>>

\* The pods the job counts in Status.Active, and all running labelled pods.
Active == {p \in Pids : pods[p] = "active"}
Running == {p \in Pids : pods[p] \in {"active", "orphan"}}

-----------------------------------------------------------------------------
(* The platform.                                                           *)

JobStartsPod(p) ==
  /\ job /\ Active = {}
  /\ pods[p] = "none"
  /\ \A q \in Pids : pods[q] = "none" => p <= q
  /\ pods' = [pods EXCEPT ![p] = "active"]
  /\ UNCHANGED <<job, pc, polls, op, err>>

PodFails(p) ==
  /\ pods[p] \in {"active", "orphan"}
  /\ pods' = [pods EXCEPT ![p] = "failed"]
  /\ UNCHANGED <<job, pc, polls, op, err>>

-----------------------------------------------------------------------------
(* The helpers.                                                            *)

Return(o, e) == pc' = "idle" /\ op' = o /\ err' = e

\* Create: an existing job is refused (AlreadyExists); a failed call may
\* still have created it.
CreateBegin ==
  /\ pc = "idle"
  /\ \/ /\ ~job /\ job' = TRUE
        /\ pc' = "wait" /\ polls' = 0 /\ UNCHANGED <<op, err>>
     \/ /\ job' \in {job, TRUE}
        /\ Return("create", TRUE) /\ UNCHANGED polls
  /\ UNCHANGED pods

\* Mutant: the wait never gives up.
WaitPollNoBound ==
  /\ pc = "wait"
  /\ \/ Return("create", TRUE) /\ UNCHANGED polls
     \/ job /\ Cardinality(Active) = 1 /\ Return("create", FALSE) /\ UNCHANGED polls
     \/ /\ ~job \/ Cardinality(Active) # 1
        /\ polls' = polls + 1 /\ UNCHANGED <<pc, op, err>>
  /\ UNCHANGED <<job, pods>>

\* One attempt of the wait: Get the job; an error of Get ends the retry; one
\* active pod ends it with success; otherwise retry until the attempts run
\* out.
WaitPoll ==
  /\ pc = "wait"
  /\ \/ Return("create", TRUE) /\ UNCHANGED polls               \* Get fails
     \/ job /\ Cardinality(Active) = 1 /\ Return("create", FALSE) /\ UNCHANGED polls
     \/ /\ ~job \/ Cardinality(Active) # 1
        /\ IF polls + 1 < MaxPolls
             THEN polls' = polls + 1 /\ UNCHANGED <<pc, op, err>>
             ELSE Return("create", TRUE) /\ UNCHANGED polls
  /\ UNCHANGED <<job, pods>>

\* Delete; unless its error is NotFound, return that error (nil when the
\* delete succeeded); else delete the labelled pods.
DeleteJob ==
  /\ pc = "idle"
  /\ \/ Return("delete", TRUE) /\ UNCHANGED <<job, pods>>    \* Delete fails
     \/ /\ job /\ job' = FALSE /\ Return("delete", FALSE)
        /\ pods' = [p \in Pids |-> IF pods[p] = "active" THEN "orphan" ELSE pods[p]]
     \/ /\ ~job /\ UNCHANGED job
        /\ \/ Return("delete", TRUE) /\ UNCHANGED pods
           \/ Return("delete", FALSE)
              /\ pods' = [p \in Pids |-> IF pods[p] = "none" THEN "none" ELSE "gone"]
  /\ UNCHANGED polls

-----------------------------------------------------------------------------
Init ==
  /\ job = FALSE
  /\ pods = [p \in Pids |-> "none"]
  /\ pc = "idle"
  /\ polls = 0
  /\ op = "none"
  /\ err = FALSE

Next ==
  \/ \E p \in Pids : JobStartsPod(p) \/ PodFails(p)
  \/ CreateBegin \/ WaitPoll \/ DeleteJob

Spec == Init /\ [][Next]_vars

-----------------------------------------------------------------------------
TypeOK ==
  /\ job \in BOOLEAN
  /\ pods \in [Pids -> {"none", "active", "orphan", "failed", "gone"}]
  /\ pc \in {"idle", "wait"}
  /\ polls \in 0..MaxPolls
  /\ op \in {"none", "create", "delete"}
  /\ err \in BOOLEAN

\* When DeleteJob returns without error, neither the job nor any pod it
\* started is left running (what the pod deletion at line 55 is for).
DeleteReclaimsPods ==
  (pc = "idle" /\ op = "delete" /\ ~err) => (~job /\ Running = {})

=============================================================================
