---------------------------- MODULE TidbProofs -----------------------------
(***************************************************************************)
(* Proofs about the tidb reconciler: the bounds on the desired count, the *)
(* flagging of a replication controller that disagrees with it, and       *)
(* Pending only before deployment, for every maximum, every set of        *)
(* versions and every bound on pods and gate attempts.                    *)
(***************************************************************************)
EXTENDS Tidb, TLAPS

(***************************************************************************)
(* The inductive invariant.  ReplicaDivergenceFlagged speaks of idle       *)
(* moments only; the flag in fact covers every moment, and a cluster not   *)
(* yet installed has no replication controller and runs no operation, so  *)
(* that the count chosen by install cannot disagree with a leftover one.   *)
(***************************************************************************)
IInv ==
  /\ TypeOK
  /\ phase = "None" => ~rc.exists
  /\ pc # "idle" => phase # "None"
  /\ phase # "None" => replicas \in 2..MaxReplicas
  /\ (rc.exists /\ rc.replicas # replicas) => scaleErr

USE MaxReplicasAssumption, InstallReplicasAssumption, VersionsAssumption,
    MaxPodsAssumption, MaxPollsAssumption

\* The records a pod may be.
PodType == [st : PodStates, ver : Versions]

\* A pod's state changed, its version kept.
LEMMA PodSetSt ==
  ASSUME NEW r \in PodType, NEW s \in PodStates
  PROVE  [r EXCEPT !.st = s] \in PodType
BY DEF PodType

\* One pod's state changed in the pod map.
LEMMA PodsSetSt ==
  ASSUME NEW f \in [Pids -> PodType], NEW p \in Pids, NEW s \in PodStates
  PROVE  [f EXCEPT ![p].st = s] \in [Pids -> PodType]
<1>1. [f[p] EXCEPT !.st = s] \in PodType
  BY PodSetSt
<1>. QED
  BY <1>1

LEMMA InitIInv == Init => IInv
<1> SUFFICES ASSUME Init PROVE IInv
  OBVIOUS
<1>1. pods \in [Pids -> [st : PodStates, ver : Versions]]
  BY DEF Init, PodStates
<1>2. rc \in [exists : BOOLEAN, replicas : ScaleRequests, version : Versions]
  BY DEF Init, ScaleRequests
<1>3. /\ replicas \in ScaleRequests /\ cur \in 0..MaxPods /\ polls \in 0..MaxPolls
  BY DEF Init, ScaleRequests
<1>. QED
  BY <1>1, <1>2, <1>3 DEF Init, IInv, TypeOK, Phases

\* What the operation does when the gate returns keeps the types, never
\* takes the phase back to None and never clears the scale-error bit.
LEMMA GateReturnIInv ==
  ASSUME TypeOK, NEW ok \in BOOLEAN, GateReturn(ok)
  PROVE  /\ phase' = phase \/ phase' \in {"Started", "StartFailed"}
         /\ scaleErr' \in BOOLEAN /\ (scaleErr => scaleErr')
         /\ cur' \in 0..MaxPods
         /\ pc' \in {"idle", "upgradeNext"}
<1>1. ASSUME phase' = (IF ok THEN "Started" ELSE "StartFailed"),
             pc' = "idle", UNCHANGED <<scaleErr, cur>>
      PROVE  /\ phase' = phase \/ phase' \in {"Started", "StartFailed"}
             /\ scaleErr' \in BOOLEAN /\ (scaleErr => scaleErr')
             /\ cur' \in 0..MaxPods
             /\ pc' \in {"idle", "upgradeNext"}
  BY <1>1 DEF TypeOK, Phases
<1>2. ASSUME pc' \in {"idle", "upgradeNext"}, UNCHANGED <<phase, scaleErr>>,
             cur' = cur \/ cur' = 0
      PROVE  /\ phase' = phase \/ phase' \in {"Started", "StartFailed"}
             /\ scaleErr' \in BOOLEAN /\ (scaleErr => scaleErr')
             /\ cur' \in 0..MaxPods
             /\ pc' \in {"idle", "upgradeNext"}
  BY <1>2 DEF TypeOK
<1>3. ASSUME pc' = "idle", scaleErr' = (scaleErr \/ ~ok), UNCHANGED <<phase, cur>>
      PROVE  /\ phase' = phase \/ phase' \in {"Started", "StartFailed"}
             /\ scaleErr' \in BOOLEAN /\ (scaleErr => scaleErr')
             /\ cur' \in 0..MaxPods
             /\ pc' \in {"idle", "upgradeNext"}
  BY <1>3 DEF TypeOK
<1>. QED
  BY <1>1, <1>2, <1>3 DEF GateReturn

\* The gate steps that end the gate change only what GateReturn changes,
\* and members.
LEMMA GateEndIInv ==
  ASSUME IInv, pc = "gate", NEW ok \in BOOLEAN, GateReturn(ok),
         members' \subseteq Pids,
         UNCHANGED <<replicas, version, svc, rc, pods, caller, polls, todo>>
  PROVE  IInv'
<1>1. /\ phase' = phase \/ phase' \in {"Started", "StartFailed"}
      /\ scaleErr' \in BOOLEAN /\ (scaleErr => scaleErr')
      /\ cur' \in 0..MaxPods
      /\ pc' \in {"idle", "upgradeNext"}
  BY GateReturnIInv DEF IInv
<1>2. phase' # "None" /\ phase' \in Phases
  BY <1>1 DEF IInv, TypeOK, Phases
<1>3. TypeOK'
  BY <1>1, <1>2 DEF IInv, TypeOK
<1>4. replicas \in 2..MaxReplicas
  BY DEF IInv, TypeOK
<1>. QED
  BY <1>1, <1>2, <1>3, <1>4 DEF IInv

\* Every step of the platform and of the operations keeps IInv.
LEMMA NextIInv == IInv /\ [Next]_vars => IInv'
<1> SUFFICES ASSUME IInv, [Next]_vars PROVE IInv'
  OBVIOUS
<1> USE DEF Phases, ScaleRequests, Pids, PodStates
<1>0. pods \in [Pids -> PodType]
  BY DEF IInv, TypeOK, PodType
<1>00. \A p \in Pids : /\ [pods[p] EXCEPT !.st = "gone"] \in PodType
                      /\ pods[p] \in PodType
  BY <1>0, PodSetSt DEF PodStates
<1>1. ASSUME NEW p \in Pids, RcCreatePod(p) PROVE IInv'
  <2>1. [st |-> "starting", ver |-> rc.version] \in PodType
    BY DEF IInv, TypeOK, PodType, PodStates
  <2>2. pods' \in [Pids -> PodType]
    BY <1>1, <1>0, <2>1 DEF RcCreatePod
  <2>. QED
    BY <1>1, <2>2 DEF RcCreatePod, IInv, TypeOK, PodType
<1>2. ASSUME NEW p \in Pids, RcDeletePod(p) PROVE IInv'
  <2>1. pods' \in [Pids -> PodType]
    BY <1>2, <1>0, PodsSetSt DEF RcDeletePod, PodStates
  <2>. QED
    BY <1>2, <2>1 DEF RcDeletePod, IInv, TypeOK, PodType
<1>3. ASSUME NEW p \in Pids, PodReadiness(p) PROVE IInv'
  <2>1. /\ [pods EXCEPT ![p].st = "ready"] \in [Pids -> PodType]
        /\ [pods EXCEPT ![p].st = "starting"] \in [Pids -> PodType]
    BY <1>0, PodsSetSt DEF PodStates
  <2>2. pods' \in [Pids -> PodType]
    BY <1>3, <2>1 DEF PodReadiness
  <2>. QED
    BY <1>3, <2>2 DEF PodReadiness, IInv, TypeOK, PodType
<1>4. ASSUME NEW r \in InstallReplicas, InstallBegin(r) PROVE IInv'
  BY <1>4 DEF InstallBegin, IInv, TypeOK, ScaleRequests, Phases
<1>5. CASE InstallSvc
  <2>1. phase # "None"
    BY <1>5 DEF InstallSvc, IInv
  <2>2. CASE InstallFailed /\ UNCHANGED svc
    BY <1>5, <2>1, <2>2 DEF InstallSvc, InstallFailed, IInv, TypeOK, Phases
  <2>3. CASE ~svc /\ svc' = TRUE /\ pc' = "installRc" /\ UNCHANGED phase
    BY <1>5, <2>1, <2>3 DEF InstallSvc, IInv, TypeOK
  <2>. QED
    BY <1>5, <2>2, <2>3 DEF InstallSvc
<1>6. CASE InstallRc
  <2>8. TypeOK
    BY DEF IInv
  <2>1. [exists |-> TRUE, replicas |-> replicas, version |-> version]
          \in [exists : BOOLEAN, replicas : ScaleRequests, version : Versions]
    BY DEF IInv, TypeOK
  <2>2. rc' = rc \/ rc' = [exists |-> TRUE, replicas |-> replicas, version |-> version]
    BY <1>6 DEF InstallRc
  <2>3. phase' \in Phases \ {"None"} \/ phase' = phase
    BY <1>6 DEF InstallRc, InstallFailed, Phases
  <2>4. phase # "None"
    BY <1>6 DEF InstallRc, IInv
  <2>5. UNCHANGED <<replicas, version, svc, pods, members, cur, scaleErr, todo>>
    BY <1>6 DEF InstallRc
  <2>6. /\ pc' \in {"idle", "gate"}
        /\ caller' \in {caller, "install"}
        /\ polls' \in {polls, 0}
    BY <1>6 DEF InstallRc, InstallFailed, StartGate
  <2>7. phase' \in Phases /\ phase' # "None"
    BY <2>3, <2>4, <2>8 DEF Phases, TypeOK
  <2>10. rc' \in [exists : BOOLEAN, replicas : ScaleRequests, version : Versions]
    BY <2>1, <2>2, <2>8 DEF TypeOK
  <2>9. TypeOK'
    BY <2>10, <2>5, <2>6, <2>7, <2>8 DEF TypeOK
  <2>. QED
    BY <2>2, <2>4, <2>5, <2>7, <2>9 DEF IInv
<1>7. CASE GatePass
  <2>1. members' \subseteq Pids
    BY <1>7 DEF GatePass, Live
  <2>. QED
    BY <1>7, <2>1, GateEndIInv DEF GatePass
<1>8. CASE GateRetry
  BY <1>8 DEF GateRetry, IInv, TypeOK
<1>9. CASE GateTimeout
  BY <1>9, GateEndIInv DEF GateTimeout, IInv, TypeOK
<1>10. CASE GateError
  BY <1>10, GateEndIInv DEF GateError, IInv, TypeOK
<1>11. ASSUME NEW v \in Versions, UpgradeBegin(v) PROVE IInv'
  <2>1. todo' \subseteq [id : Pids, ver : Versions] \/ todo' = todo
    BY <1>11, <1>0 DEF UpgradeBegin, Live, PodType
  <2>2. rc' \in [exists : BOOLEAN, replicas : ScaleRequests, version : Versions]
    BY <1>11 DEF UpgradeBegin, IInv, TypeOK
  <2>. QED
    BY <1>11, <2>1, <2>2 DEF UpgradeBegin, IInv, TypeOK
<1>12. CASE UpgradeNext
  <2>0. UNCHANGED <<phase, replicas, version, svc, rc, members, scaleErr>>
    BY <1>12 DEF UpgradeNext
  <2>1. CASE todo = {}
    <3>1. pc' = "idle" /\ cur' = 0 /\ UNCHANGED <<pods, todo, caller, polls>>
      BY <1>12, <2>1 DEF UpgradeNext
    <3>. QED
      BY <2>0, <3>1 DEF IInv, TypeOK
  <2>2. CASE todo # {}
    <3> DEFINE t == NextPod
    <3>1. \/ t.ver = version /\ todo' = todo \ {t}
             /\ UNCHANGED <<pc, pods, cur, caller, polls>>
          \/ pc' = "idle" /\ cur' = 0 /\ UNCHANGED <<pods, todo, caller, polls>>
          \/ /\ t.id \in Live
             /\ pods' = [pods EXCEPT ![t.id].st = "gone"]
             /\ cur' = t.id /\ todo' = todo \ {t} /\ StartGate("upgrade")
      BY <1>12, <2>2 DEF UpgradeNext
    <3>2. CASE t.ver = version /\ todo' = todo \ {t}
               /\ UNCHANGED <<pc, pods, cur, caller, polls>>
      BY <2>0, <3>2 DEF IInv, TypeOK
    <3>3. CASE pc' = "idle" /\ cur' = 0 /\ UNCHANGED <<pods, todo, caller, polls>>
      BY <2>0, <3>3 DEF IInv, TypeOK
    <3>4. CASE /\ t.id \in Live
               /\ pods' = [pods EXCEPT ![t.id].st = "gone"]
               /\ cur' = t.id /\ todo' = todo \ {t} /\ StartGate("upgrade")
      <4>1. t.id \in Pids
        BY <3>4 DEF Live
      <4>2. pods' \in [Pids -> PodType]
        BY <3>4, <4>1, <1>0, PodsSetSt DEF PodStates
      <4>3. /\ cur' \in 0..MaxPods /\ todo' \subseteq todo
            /\ pc' = "gate" /\ caller' = "upgrade" /\ polls' = 0
        BY <3>4, <4>1 DEF StartGate, Pids
      <4>4. pc # "idle"
        BY <1>12 DEF UpgradeNext
      <4>. QED
        BY <2>0, <4>2, <4>3, <4>4 DEF IInv, TypeOK, PodType
    <3>. QED
      BY <3>1, <3>2, <3>3, <3>4
  <2>. QED
    BY <2>1, <2>2
<1>13. ASSUME NEW r \in ScaleRequests, ScaleCheckStatus(r) PROVE IInv'
  <2>1. PICK D \in SUBSET (Live \ Ready) :
          pods' = [p \in Pids |-> IF p \in D THEN [pods[p] EXCEPT !.st = "gone"]
                                             ELSE pods[p]]
    BY <1>13 DEF ScaleCheckStatus
  <2>2. pods' \in [Pids -> PodType]
    BY <2>1, <1>00
  <2>. QED
    BY <1>13, <2>2 DEF ScaleCheckStatus, IInv, TypeOK, PodType
<1>14. ASSUME NEW r \in ScaleRequests, ScaleReject(r) PROVE IInv'
  BY <1>14 DEF ScaleReject, IInv, TypeOK
<1>15. ASSUME NEW r \in ScaleRequests, ScaleAccept(r) PROVE IInv'
  <2>1. r \in 2..MaxReplicas
    BY <1>15 DEF ScaleAccept, ScaleRejected, ScaleRequests
  <2>2. replicas' = r /\ UNCHANGED <<phase, version, svc, pods, members, cur, todo>>
    BY <1>15 DEF ScaleAccept
  <2>3. phase # "None"
    BY <1>15 DEF ScaleAccept
  <2>4. CASE scaleErr' = TRUE /\ UNCHANGED <<rc, pc, caller, polls>>
    BY <2>1, <2>2, <2>3, <2>4 DEF IInv, TypeOK, ScaleRequests
  <2>5. CASE rc.exists /\ rc' = [rc EXCEPT !.replicas = r]
             /\ StartGate("scale") /\ UNCHANGED scaleErr
    <3>1. rc' \in [exists : BOOLEAN, replicas : ScaleRequests, version : Versions]
          /\ rc'.replicas = r
      BY <2>5 DEF IInv, TypeOK
    <3>2. pc' = "gate" /\ caller' = "scale" /\ polls' = 0
      BY <2>5 DEF StartGate
    <3>. QED
      BY <2>1, <2>2, <2>3, <2>5, <3>1, <3>2 DEF IInv, TypeOK, ScaleRequests
  <2>. QED
    BY <1>15, <2>4, <2>5 DEF ScaleAccept
<1>16. CASE Uninstall
  <2>1. CASE UNCHANGED <<rc, pods, svc, members, cur, scaleErr>>
    BY <1>16, <2>1 DEF Uninstall, IInv, TypeOK
  <2>2. CASE ~UNCHANGED <<rc, pods, svc, members, cur, scaleErr>>
    <3>1. rc' = [rc EXCEPT !.exists = FALSE]
      BY <1>16, <2>2 DEF Uninstall
    <3>2. pods' = [p \in Pids |-> IF p \in Live THEN [pods[p] EXCEPT !.st = "gone"]
                                                ELSE pods[p]]
      BY <1>16, <2>2 DEF Uninstall
    <3>3. pods' \in [Pids -> PodType]
      BY <3>2, <1>00
    <3>4. rc' \in [exists : BOOLEAN, replicas : ScaleRequests, version : Versions]
          /\ ~rc'.exists
      BY <3>1 DEF IInv, TypeOK
    <3>5. /\ svc' = svc \/ svc' = FALSE
          /\ members' = members \/ members' = {}
          /\ cur' = cur \/ cur' = 0
          /\ scaleErr' = scaleErr \/ scaleErr' = FALSE
      BY <1>16, <2>2 DEF Uninstall
    <3>6. UNCHANGED <<phase, replicas, version, pc, caller, polls, todo>>
      BY <1>16 DEF Uninstall
    <3>7. TypeOK
      BY DEF IInv
    <3>81. svc' \in BOOLEAN /\ scaleErr' \in BOOLEAN
      BY <3>5, <3>7 DEF TypeOK
    <3>82. members' \subseteq Pids
      BY <3>5, <3>7 DEF TypeOK
    <3>83. cur' \in 0..MaxPods
      BY <3>5, <3>7 DEF TypeOK
    <3>8. TypeOK'
      BY <3>3, <3>4, <3>6, <3>7, <3>81, <3>82, <3>83 DEF TypeOK, PodType
    <3>9. ~rc'.exists
      BY <3>4
    <3>. QED
      BY <3>6, <3>8, <3>9 DEF IInv
  <2>. QED
    BY <2>1, <2>2
<1>17. CASE UNCHANGED vars
  BY <1>17 DEF vars, IInv, TypeOK
<1>. QED
  BY <1>1, <1>2, <1>3, <1>4, <1>5, <1>6, <1>7, <1>8, <1>9, <1>10, <1>11,
     <1>12, <1>13, <1>14, <1>15, <1>16, <1>17 DEF Next

(***************************************************************************)
(* A cluster in Pending between operations has nothing deployed.  The     *)
(* phase is Pending from the save in install until the deferred function  *)
(* of install replaces it; PInv says where install can be in that window  *)
(* and what exists at each point, and that no other operation can leave   *)
(* Pending behind after deploying something.                              *)
(***************************************************************************)
PInv ==
  /\ phase = "None" => ~svc
  /\ phase = "Pending" =>
       /\ pc \in {"idle", "installSvc"} => ~svc /\ ~rc.exists
       /\ pc = "installRc" => ~rc.exists
       /\ pc = "gate" => caller = "install"
       /\ pc # "upgradeNext"

LEMMA InitPInv == Init => PInv
BY DEF Init, PInv

\* The gate of install leaves Pending; the gates of the other callers keep
\* the phase.
LEMMA GateReturnPhase ==
  ASSUME NEW ok \in BOOLEAN, GateReturn(ok)
  PROVE  /\ caller = "install" => phase' \in {"Started", "StartFailed"}
         /\ caller # "install" => phase' = phase
BY DEF GateReturn

LEMMA NextPInv == IInv /\ PInv /\ [Next]_vars => PInv'
<1> SUFFICES ASSUME IInv, PInv, [Next]_vars PROVE PInv'
  OBVIOUS
<1>0. pc # "idle" => phase # "None"
  BY DEF IInv
<1>1. ASSUME NEW p \in Pids, RcCreatePod(p) \/ RcDeletePod(p) \/ PodReadiness(p)
      PROVE  PInv'
  <2>1. UNCHANGED <<phase, svc, rc, pc, caller>>
    BY <1>1 DEF RcCreatePod, RcDeletePod, PodReadiness
  <2>. QED
    BY <2>1 DEF PInv
<1>2. ASSUME NEW r \in InstallReplicas, InstallBegin(r) PROVE PInv'
  <2>1. ~svc /\ ~rc.exists
    BY <1>2 DEF InstallBegin, PInv, IInv
  <2>2. phase' = "Pending" /\ pc' \in {"idle", "installSvc"} /\ UNCHANGED <<svc, rc>>
    BY <1>2 DEF InstallBegin
  <2>. QED
    BY <2>1, <2>2 DEF PInv
<1>3. CASE InstallSvc
  <2>1. phase # "None" /\ pc = "installSvc"
    BY <1>3, <1>0 DEF InstallSvc
  <2>2. CASE InstallFailed /\ UNCHANGED svc
    BY <1>3, <2>1, <2>2 DEF InstallSvc, InstallFailed, PInv
  <2>3. CASE ~svc /\ svc' = TRUE /\ pc' = "installRc" /\ UNCHANGED phase
    <3>1. UNCHANGED rc
      BY <1>3 DEF InstallSvc
    <3>. QED
      BY <2>1, <2>3, <3>1 DEF PInv
  <2>. QED
    BY <1>3, <2>2, <2>3 DEF InstallSvc
<1>4. CASE InstallRc
  <2>1. phase # "None" /\ pc = "installRc" /\ UNCHANGED svc
    BY <1>4, <1>0 DEF InstallRc
  <2>2. \/ phase' = "StartFailed"
        \/ UNCHANGED phase /\ pc' = "gate" /\ caller' = "install"
    BY <1>4 DEF InstallRc, InstallFailed, StartGate
  <2>. QED
    BY <2>1, <2>2 DEF PInv
<1>5. ASSUME NEW ok \in BOOLEAN, pc = "gate", GateReturn(ok),
             UNCHANGED <<svc, rc, caller>>
      PROVE  PInv'
  <2>1. phase # "None"
    BY <1>5, <1>0
  <2>2. phase = "Pending" => caller = "install"
    BY <1>5 DEF PInv
  <2>3. phase' # "Pending" /\ phase' # "None"
    BY <1>5, <2>1, <2>2, GateReturnPhase
  <2>. QED
    BY <2>3 DEF PInv
<1>6. CASE GatePass
  BY <1>6, <1>5 DEF GatePass
<1>7. CASE GateTimeout
  BY <1>7, <1>5 DEF GateTimeout
<1>8. CASE GateError
  BY <1>8, <1>5 DEF GateError
<1>9. CASE GateRetry
  <2>1. UNCHANGED <<phase, svc, rc, pc, caller>>
    BY <1>9 DEF GateRetry
  <2>. QED
    BY <2>1 DEF PInv
<1>10. ASSUME NEW v \in Versions, UpgradeBegin(v) PROVE PInv'
  <2>1. UNCHANGED <<phase, svc, caller>> /\ phase # "None"
    BY <1>10 DEF UpgradeBegin
  <2>2. phase = "Pending" => UNCHANGED <<rc, pc>>
    <3>1. PhaseRank["Pending"] = 1 /\ PhaseRank["Started"] = 3
      BY DEF PhaseRank, Phases
    <3>2. phase = "Pending" => ~(PhaseRank[phase] >= PhaseRank["Started"])
      BY <3>1
    <3>. QED
      BY <1>10, <3>2, Zenon DEF UpgradeBegin
  <2>. QED
    BY <2>1, <2>2 DEF PInv
<1>11. CASE UpgradeNext
  <2>1. UNCHANGED <<phase, svc, rc>> /\ phase # "None" /\ phase # "Pending"
    BY <1>11, <1>0 DEF UpgradeNext, PInv
  <2>. QED
    BY <2>1 DEF PInv
<1>12. ASSUME NEW r \in ScaleRequests,
              ScaleCheckStatus(r) \/ ScaleReject(r)
       PROVE  PInv'
  <2>1. UNCHANGED <<phase, svc, rc, pc, caller>>
    BY <1>12 DEF ScaleCheckStatus, ScaleReject
  <2>. QED
    BY <2>1 DEF PInv
<1>13. ASSUME NEW r \in ScaleRequests, ScaleAccept(r) PROVE PInv'
  <2>1. UNCHANGED <<phase, svc>> /\ phase # "None" /\ pc = "idle"
    BY <1>13 DEF ScaleAccept
  <2>2. phase = "Pending" => ~rc.exists
    BY <2>1 DEF PInv
  <2>3. phase = "Pending" => UNCHANGED <<rc, pc>>
    BY <1>13, <2>2 DEF ScaleAccept
  <2>. QED
    BY <2>1, <2>3 DEF PInv
<1>14. CASE Uninstall
  <2>1. UNCHANGED <<phase, pc, caller>> /\ phase # "None"
    BY <1>14 DEF Uninstall
  <2>2. /\ svc' = svc \/ svc' = FALSE
        /\ rc'.exists = rc.exists \/ rc'.exists = FALSE
    <3>1. rc \in [exists : BOOLEAN, replicas : ScaleRequests, version : Versions]
      BY DEF IInv, TypeOK
    <3>. QED
      BY <1>14, <3>1 DEF Uninstall
  <2>. QED
    BY <2>1, <2>2 DEF PInv
<1>15. CASE UNCHANGED vars
  BY <1>15 DEF vars, PInv
<1>. QED
  BY <1>1, <1>2, <1>3, <1>4, <1>6, <1>7, <1>8, <1>9, <1>10, <1>11, <1>12,
     <1>13, <1>14, <1>15 DEF Next

THEOREM IInvariant == Spec => []IInv
BY InitIInv, NextIInv, PTL DEF Spec

\* The reconciler's state always has its type.
THEOREM TypeCorrect == Spec => []TypeOK
BY IInvariant, PTL DEF IInv

\* Once install has begun, td.Replicas stays within 2 and the configured
\* maximum under every sequence of scale requests (ReplicasWithinBounds,
\* checked by the tidb_safety run).
THEOREM ReplicasBounded == Spec => []ReplicasWithinBounds
BY IInvariant, PTL DEF IInv, ReplicasWithinBounds

\* Between operations, a replication controller whose count differs from
\* td.Replicas is flagged by the scale-error bit (ReplicaDivergenceFlagged,
\* checked by the tidb_safety run).
THEOREM DivergenceFlagged == Spec => []ReplicaDivergenceFlagged
BY IInvariant, PTL DEF IInv, ReplicaDivergenceFlagged

\* A cluster found in Pending between operations has neither service nor
\* replication controller: install's deferred function leaves Pending on
\* every path after the save (PendingOnlyBeforeDeploy, checked by the
\* tidb_safety run).
THEOREM PendingSafe == Spec => []PendingOnlyBeforeDeploy
<1>1. Init => IInv /\ PInv
  BY InitIInv, InitPInv
<1>2. IInv /\ PInv /\ [Next]_vars => (IInv /\ PInv)'
  BY NextIInv, NextPInv
<1>3. PInv => PendingOnlyBeforeDeploy
  BY DEF PInv, PendingOnlyBeforeDeploy
<1>. QED
  BY <1>1, <1>2, <1>3, PTL DEF Spec

=============================================================================
