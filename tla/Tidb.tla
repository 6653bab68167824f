------------------------------- MODULE Tidb --------------------------------
(***************************************************************************)
(* The reconciler of a cluster's tidb role (the Tidb methods of            *)
(* operator/, part_001): install, the health gate waitForOk, upgrade,      *)
(* reconcileTidbs (scale, or checkStatus when the count is unchanged) and  *)
(* uninstall.  The operations of one cluster run one at a time.            *)
(*                                                                         *)
(* The platform is the environment: the replication controller creates    *)
(* pods (with fresh names) up to its replica count on its image version    *)
(* and removes extra ones, pods become ready and lose readiness.           *)
(***************************************************************************)
EXTENDS Integers, FiniteSets

CONSTANTS
  MaxReplicas,      \* md.Spec.Tidb.Max
  InstallReplicas,  \* replica counts a cluster is installed with
  Versions,         \* tidb versions (image tags)
  MaxPods,          \* pod names the replication controller may generate
  MaxPolls          \* attempts of waitForOk: timeout / 3s interval

ASSUME MaxReplicasAssumption == MaxReplicas \in Nat
ASSUME InstallReplicasAssumption == InstallReplicas \subseteq 2..MaxReplicas
ASSUME VersionsAssumption == Versions # {}
ASSUME MaxPodsAssumption == MaxPods \in Nat
ASSUME MaxPollsAssumption == MaxPolls \in Nat \ {0}

Pids == 1..MaxPods
PodStates == {"absent", "starting", "ready", "gone"}
Phases == {"None", "Pending", "Started", "StartFailed"}

\* The phase constants are not in the source tree.  Their order follows
\* spec 4.2: Started is the base from which upgrades run and StartFailed is
\* terminal, so upgrade's test Phase < PhaseTidbStarted refuses None,
\* Pending and StartFailed.
PhaseRank == [p \in Phases |-> CASE p = "None" -> 0 [] p = "Pending" -> 1
                                 [] p = "StartFailed" -> 2 [] p = "Started" -> 3]

VARIABLES
  phase,     \* td.Db.Status.Phase (tidb part)
  replicas,  \* td.Replicas, the desired count
  version,   \* td.Version
  svc,       \* the tidb service exists
  rc,        \* the replication controller: [exists, replicas, version]
  pods,      \* pod name -> [st, ver]
  members,   \* td.Members, pod names from the last syncMembers
  cur,       \* td.cur: the pod an upgrade replaced last, 0 = ""
  scaleErr,  \* the tidbScaleErr bit of Db.Status.ScaleState
  pc,        \* "idle" | "installSvc" | "installRc" | "gate" | "upgradeNext"
  caller,    \* operation that runs the health gate
  polls,     \* attempts of the running health gate
  todo       \* upgrade: the listed pods not yet visited, [id, ver] as listed

vars == <<phase, replicas, version, svc, rc, pods, members, cur, scaleErr,
          pc, caller, polls, todo>>

Live == {p \in Pids : pods[p].st \in {"starting", "ready"}}
Ready == {p \in Pids : pods[p].st = "ready"}

-----------------------------------------------------------------------------
(* The platform.                                                           *)

RcCreatePod(p) ==
  /\ rc.exists /\ Cardinality(Live) < rc.replicas
  /\ pods[p].st = "absent"
  /\ \A q \in Pids : pods[q].st = "absent" => p <= q
  /\ pods' = [pods EXCEPT ![p] = [st |-> "starting", ver |-> rc.version]]
  /\ UNCHANGED <<phase, replicas, version, svc, rc, members, cur, scaleErr,
                 pc, caller, polls, todo>>

RcDeletePod(p) ==
  /\ rc.exists /\ Cardinality(Live) > rc.replicas
  /\ p \in Live
  /\ pods' = [pods EXCEPT ![p].st = "gone"]
  /\ UNCHANGED <<phase, replicas, version, svc, rc, members, cur, scaleErr,
                 pc, caller, polls, todo>>

PodReadiness(p) ==
  /\ \/ pods[p].st = "starting" /\ pods' = [pods EXCEPT ![p].st = "ready"]
     \/ pods[p].st = "ready" /\ pods' = [pods EXCEPT ![p].st = "starting"]
  /\ UNCHANGED <<phase, replicas, version, svc, rc, members, cur, scaleErr,
                 pc, caller, polls, todo>>

-----------------------------------------------------------------------------
(* install: Pending is written and saved, then the service, the            *)
(* replication controller and the health gate; the deferred function sets  *)
(* Started or StartFailed.  A failed update returns before the defer.      *)

StartGate(c) == pc' = "gate" /\ caller' = c /\ polls' = 0

InstallBegin(r) ==
  /\ pc = "idle" /\ phase = "None"
  /\ phase' = "Pending"
  /\ replicas' = r
  /\ \/ pc' = "idle"             \* td.Db.update() fails
     \/ pc' = "installSvc"
  /\ UNCHANGED <<version, svc, rc, pods, members, cur, scaleErr, caller,
                 polls, todo>>

\* Mutant: the failure paths after the save leave the phase as it is.
InstallFailedNoDefer == phase' = phase /\ pc' = "idle"

InstallFailed == phase' = "StartFailed" /\ pc' = "idle"

\* createService: the platform refuses an existing service.
InstallSvc ==
  /\ pc = "installSvc"
  /\ \/ InstallFailed /\ UNCHANGED svc
     \/ ~svc /\ svc' = TRUE /\ pc' = "installRc" /\ UNCHANGED phase
  /\ UNCHANGED <<replicas, version, rc, pods, members, cur, scaleErr, caller,
                 polls, todo>>

\* createReplicationController: CreateRcByJSON may fail before or after the
\* controller is created (waiting for it to run), or succeed.
InstallRc ==
  /\ pc = "installRc"
  /\ LET new == [exists |-> TRUE, replicas |-> replicas, version |-> version]
     IN  \/ InstallFailed /\ UNCHANGED <<rc, caller, polls>>
         \/ ~rc.exists /\ rc' = new /\ InstallFailed /\ UNCHANGED <<caller, polls>>
         \/ ~rc.exists /\ rc' = new /\ StartGate("install") /\ UNCHANGED phase
  /\ UNCHANGED <<replicas, version, svc, pods, members, cur, scaleErr, todo>>

-----------------------------------------------------------------------------
(* waitForOk: every 3s, up to MaxPolls attempts, count the ready pods and  *)
(* ask the status port: of the service, or of pod td.cur during an        *)
(* upgrade; on success syncMembers.  An error of a platform call ends the  *)
(* retry at once.                                                          *)

StatusAnswers == IF cur = 0 THEN Ready # {} ELSE cur \in Ready

GateOk == Cardinality(Ready) = replicas /\ StatusAnswers

\* What the operation does when the gate returns, ok or not.
GateReturn(ok) ==
  \/ caller = "install" /\ phase' = (IF ok THEN "Started" ELSE "StartFailed")
     /\ pc' = "idle" /\ UNCHANGED <<scaleErr, cur>>
  \/ caller = "upgrade" /\ ok /\ pc' = "upgradeNext"
     /\ UNCHANGED <<phase, scaleErr, cur>>
  \/ caller = "upgrade" /\ ~ok /\ pc' = "idle" /\ cur' = 0
     /\ UNCHANGED <<phase, scaleErr>>
  \/ caller = "scale" /\ pc' = "idle" /\ scaleErr' = (scaleErr \/ ~ok)
     /\ UNCHANGED <<phase, cur>>

GatePass ==
  /\ pc = "gate" /\ GateOk
  /\ members' = Live
  /\ GateReturn(TRUE)
  /\ UNCHANGED <<replicas, version, svc, rc, pods, caller, polls, todo>>

\* Mutant of the retry loop: no bound on the attempts.
GateRetryUnbounded ==
  /\ pc = "gate" /\ ~GateOk
  /\ polls' = polls + 1
  /\ UNCHANGED <<phase, replicas, version, svc, rc, pods, members, cur,
                 scaleErr, pc, caller, todo>>

GateRetry ==
  /\ pc = "gate" /\ ~GateOk /\ polls + 1 < MaxPolls
  /\ polls' = polls + 1
  /\ UNCHANGED <<phase, replicas, version, svc, rc, pods, members, cur,
                 scaleErr, pc, caller, todo>>

\* Mutant: the last attempt is counted one too late.
GateTimeoutLate ==
  /\ pc = "gate" /\ ~GateOk /\ polls = MaxPolls
  /\ GateReturn(FALSE)
  /\ UNCHANGED <<replicas, version, svc, rc, pods, members, caller, polls, todo>>

GateTimeout ==
  /\ pc = "gate" /\ ~GateOk /\ polls + 1 = MaxPolls
  /\ GateReturn(FALSE)
  /\ UNCHANGED <<replicas, version, svc, rc, pods, members, caller, polls, todo>>

GateError ==
  /\ pc = "gate"
  /\ GateReturn(FALSE)
  /\ UNCHANGED <<replicas, version, svc, rc, pods, members, caller, polls, todo>>

-----------------------------------------------------------------------------
(* upgrade: refuse below Started; set the controller's image; list the     *)
(* pods; then, one pod at a time in list order, delete each pod not on the *)
(* new version, set td.cur to its name and run the health gate.  The       *)
(* deferred function clears td.cur.                                        *)

UpgradeBegin(v) ==
  /\ pc = "idle" /\ phase # "None"
  /\ version' = v
  /\ \/ PhaseRank[phase] < PhaseRank["Started"] /\ UNCHANGED <<rc, pc, todo>>
     \/ /\ PhaseRank[phase] >= PhaseRank["Started"]
        /\ UNCHANGED <<rc, pc, todo>>                \* upgradeRC fails
     \/ /\ PhaseRank[phase] >= PhaseRank["Started"]
        /\ rc.exists /\ rc' = [rc EXCEPT !.version = v]
        /\ \/ UNCHANGED <<pc, todo>>                  \* GetPods fails
           \/ /\ todo' = {[id |-> p, ver |-> pods[p].ver] : p \in Live}
              /\ pc' = "upgradeNext"
  /\ UNCHANGED <<phase, replicas, svc, pods, members, cur, scaleErr, caller,
                 polls>>

NextPod == CHOOSE t \in todo : \A u \in todo : t.id <= u.id

\* needUpgrade compares the listed pod's image with td.Version.
UpgradeNext ==
  /\ pc = "upgradeNext"
  /\ IF todo = {}
       THEN pc' = "idle" /\ cur' = 0 /\ UNCHANGED <<pods, todo, caller, polls>>
       ELSE LET t == NextPod IN
            \/ /\ t.ver = version
               /\ todo' = todo \ {t}
               /\ UNCHANGED <<pc, pods, cur, caller, polls>>
            \/ /\ t.ver # version                    \* DeletePods fails
               /\ pc' = "idle" /\ cur' = 0
               /\ UNCHANGED <<pods, todo, caller, polls>>
            \/ /\ t.ver # version /\ t.id \in Live
               /\ pods' = [pods EXCEPT ![t.id].st = "gone"]
               /\ cur' = t.id
               /\ todo' = todo \ {t}
               /\ StartGate("upgrade")
  /\ UNCHANGED <<phase, replicas, version, svc, rc, members, scaleErr>>

-----------------------------------------------------------------------------
(* reconcileTidbs(replica).                                                *)

\* Mutant: the check against the configured maximum is missing.
ScaleRejectedNoMax(r, current, max) ==
  \/ r < 2
  \/ r > current * 3
  \/ (current - r) * 3 > current

\* The four checks, in the code's order, that reject a scale request.
ScaleRejected(r, current, max) ==
  \/ r > max
  \/ r < 2
  \/ r > current * 3
  \/ (current - r) * 3 > current

ScaleRequests == 0..MaxReplicas + 1

\* replica < 1 or unchanged: checkStatus deletes every pod that is not ok;
\* an error of a platform call stops it part way.
ScaleCheckStatus(r) ==
  /\ pc = "idle" /\ phase # "None"
  /\ r < 1 \/ r = replicas
  /\ \E D \in SUBSET (Live \ Ready) :
        pods' = [p \in Pids |-> IF p \in D THEN [pods[p] EXCEPT !.st = "gone"]
                                           ELSE pods[p]]
  /\ UNCHANGED <<phase, replicas, version, svc, rc, members, cur, scaleErr,
                 pc, caller, polls, todo>>

\* A rejected request returns an error, and the deferred function sets the
\* scale-error bit.
ScaleReject(r) ==
  /\ pc = "idle" /\ phase # "None"
  /\ ~(r < 1 \/ r = replicas)
  /\ ScaleRejected(r, replicas, MaxReplicas)
  /\ scaleErr' = TRUE
  /\ UNCHANGED <<phase, replicas, version, svc, rc, pods, members, cur, pc,
                 caller, polls, todo>>

\* Mutant: a failed ScaleReplicationController does not set the bit.
ScaleAcceptNoFlag(r) ==
  /\ pc = "idle" /\ phase # "None"
  /\ ~(r < 1 \/ r = replicas)
  /\ ~ScaleRejected(r, replicas, MaxReplicas)
  /\ replicas' = r
  /\ \/ UNCHANGED <<rc, pc, caller, polls, scaleErr>>
     \/ /\ rc.exists /\ rc' = [rc EXCEPT !.replicas = r]
        /\ StartGate("scale") /\ UNCHANGED scaleErr
  /\ UNCHANGED <<phase, version, svc, pods, members, cur, todo>>

\* td.Replicas is set before the controller is scaled and is not restored
\* when scaling or the health gate fails.
ScaleAccept(r) ==
  /\ pc = "idle" /\ phase # "None"
  /\ ~(r < 1 \/ r = replicas)
  /\ ~ScaleRejected(r, replicas, MaxReplicas)
  /\ replicas' = r
  /\ \/ scaleErr' = TRUE /\ UNCHANGED <<rc, pc, caller, polls>>
     \/ /\ rc.exists /\ rc' = [rc EXCEPT !.replicas = r]
        /\ StartGate("scale") /\ UNCHANGED scaleErr
  /\ UNCHANGED <<phase, version, svc, pods, members, cur, todo>>

-----------------------------------------------------------------------------
(* uninstall: delete the controller (with its pods), then the service,     *)
(* then clear members, td.cur and the scale state.  A missing resource is  *)
(* not an error.                                                           *)

Uninstall ==
  /\ pc = "idle" /\ phase # "None"
  /\ \/ UNCHANGED <<rc, pods, svc, members, cur, scaleErr>>     \* DelRc fails
     \/ /\ rc' = [rc EXCEPT !.exists = FALSE]
        /\ pods' = [p \in Pids |-> IF p \in Live THEN [pods[p] EXCEPT !.st = "gone"]
                                                 ELSE pods[p]]
        /\ \/ UNCHANGED <<svc, members, cur, scaleErr>>          \* DelSrvs fails
           \/ /\ svc' = FALSE /\ members' = {} /\ cur' = 0
              /\ scaleErr' = FALSE
  /\ UNCHANGED <<phase, replicas, version, pc, caller, polls, todo>>

-----------------------------------------------------------------------------
Init ==
  /\ phase = "None"
  /\ replicas = 0
  /\ version \in Versions
  /\ svc = FALSE
  /\ rc = [exists |-> FALSE, replicas |-> 0, version |-> version]
  /\ pods = [p \in Pids |-> [st |-> "absent", ver |-> version]]
  /\ members = {}
  /\ cur = 0
  /\ scaleErr = FALSE
  /\ pc = "idle"
  /\ caller = "install"
  /\ polls = 0
  /\ todo = {}

Next ==
  \/ \E p \in Pids : RcCreatePod(p) \/ RcDeletePod(p) \/ PodReadiness(p)
  \/ \E r \in InstallReplicas : InstallBegin(r)
  \/ InstallSvc \/ InstallRc
  \/ GatePass \/ GateRetry \/ GateTimeout \/ GateError
  \/ \E v \in Versions : UpgradeBegin(v)
  \/ UpgradeNext
  \/ \E r \in ScaleRequests : ScaleCheckStatus(r) \/ ScaleReject(r) \/ ScaleAccept(r)
  \/ Uninstall

Spec == Init /\ [][Next]_vars

\* Fairness: the goroutine running an operation keeps taking its next
\* step.  Only the steps whose platform calls succeed are assumed: a call
\* failing is never something the operation can count on.
Fairness ==
  /\ WF_vars(InstallSvc /\ pc' # "idle") /\ WF_vars(InstallRc /\ pc' = "gate")
  /\ WF_vars(GatePass \/ GateRetry \/ GateTimeout)
  /\ WF_vars(UpgradeNext)

FairSpec == Spec /\ Fairness

-----------------------------------------------------------------------------
TypeOK ==
  /\ phase \in Phases
  /\ replicas \in ScaleRequests
  /\ version \in Versions
  /\ svc \in BOOLEAN
  /\ rc \in [exists : BOOLEAN, replicas : ScaleRequests, version : Versions]
  /\ pods \in [Pids -> [st : PodStates, ver : Versions]]
  /\ members \subseteq Pids
  /\ cur \in 0..MaxPods
  /\ scaleErr \in BOOLEAN
  /\ pc \in {"idle", "installSvc", "installRc", "gate", "upgradeNext"}
  /\ caller \in {"install", "upgrade", "scale"}
  /\ polls \in 0..MaxPolls
  /\ todo \subseteq [id : Pids, ver : Versions]

\* Once installation has begun, the desired tidb count stays within the
\* platform minimum of 2 and the configured maximum, whatever sequence of
\* scale requests reconcileTidbs accepts or refuses (spec 3).
ReplicasWithinBounds == phase # "None" => replicas \in 2..MaxReplicas

\* Between operations, a replication controller whose count differs from
\* td.Replicas is always flagged by the scale-error bit: reconcileTidbs
\* writes td.Replicas before scaling and never restores it (spec 4.2).
ReplicaDivergenceFlagged ==
  (pc = "idle" /\ rc.exists /\ rc.replicas # replicas) => scaleErr

\* A cluster found in Pending between operations has nothing deployed: once
\* install got past saving Pending, its deferred function replaces Pending
\* with Started or StartFailed on every path, so Pending is only left by a
\* failed save, before the service exists (install, part_001:73-88).
PendingOnlyBeforeDeploy ==
  (phase = "Pending" /\ pc = "idle") => (~svc /\ ~rc.exists)

\* The health gate times out only when the platform really lacks ready
\* pods: when every replica is ready at the last attempt, the gate passes
\* (spec 4.2: upgrade re-runs the gate on the replacement pod).
GateTimesOutOnlyWhenUnhealthy ==
  [][GateTimeout => Cardinality(Ready) # replicas]_vars

\* Every operation returns: install, upgrade and scale each come back to
\* idle, because waitForOk gives up after its bounded number of attempts
\* and upgrade visits each listed pod once (retryutil.Retry's bound,
\* upgrade's loop over the listed pods).
OperationsReturn == (pc # "idle") ~> (pc = "idle")

=============================================================================
