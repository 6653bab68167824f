----------------------------- MODULE JobProofs ------------------------------
(***************************************************************************)
(* Proofs about the job helpers, for every number of pod names and every   *)
(* number of wait attempts.                                                *)
(***************************************************************************)
EXTENDS Job, TLAPS

USE MaxPodsAssumption, MaxPollsAssumption

PodStates == {"none", "active", "orphan", "failed", "gone"}

\* Init establishes the type invariant.
LEMMA InitTypeOK == Init => TypeOK
<1> SUFFICES ASSUME Init PROVE TypeOK
  OBVIOUS
<1>1. pods \in [Pids -> PodStates]
  BY DEF Init, PodStates
<1>2. polls \in 0..MaxPolls
  BY DEF Init
<1>3. job \in BOOLEAN /\ err \in BOOLEAN
  BY Zenon DEF Init
<1>4. pc \in {"idle", "wait"} /\ op \in {"none", "create", "delete"}
  BY DEF Init
<1>5. QED
  BY <1>1, <1>2, <1>3, <1>4 DEF TypeOK, PodStates

\* Every step keeps the type invariant; the wait's counter stays below its
\* bound because WaitPoll retries only while polls + 1 < MaxPolls.
LEMMA NextTypeOK == TypeOK /\ [Next]_vars => TypeOK'
<1> SUFFICES ASSUME TypeOK, [Next]_vars PROVE TypeOK'
  OBVIOUS
<1>1. ASSUME NEW p \in Pids, JobStartsPod(p) PROVE TypeOK'
  <2>1. pods' \in [Pids -> PodStates]
    BY <1>1 DEF JobStartsPod, TypeOK, PodStates
  <2>2. QED
    BY <1>1, <2>1, Zenon DEF JobStartsPod, TypeOK, PodStates
<1>2. ASSUME NEW p \in Pids, PodFails(p) PROVE TypeOK'
  <2>1. pods' \in [Pids -> PodStates]
    BY <1>2 DEF PodFails, TypeOK, PodStates
  <2>2. QED
    BY <1>2, <2>1, Zenon DEF PodFails, TypeOK, PodStates
<1>3. CASE CreateBegin
  <2>0. polls' = 0 \/ polls' = polls
    BY <1>3, Zenon DEF CreateBegin
  <2>1. polls' \in 0..MaxPolls
    BY <2>0 DEF TypeOK
  <2>2. QED
    BY <1>3, <2>1, Zenon DEF CreateBegin, Return, TypeOK
<1>4. CASE WaitPoll
  <2>1. polls' \in 0..MaxPolls
    BY <1>4 DEF WaitPoll, Return, TypeOK
  <2>2. pc' \in {"idle", "wait"} /\ op' \in {"none", "create", "delete"} /\ err' \in BOOLEAN
    BY <1>4, Zenon DEF WaitPoll, Return, TypeOK
  <2>3. QED
    BY <1>4, <2>1, <2>2, Zenon DEF WaitPoll, TypeOK
<1>5. CASE DeleteJob
  <2>1. [p \in Pids |-> IF pods[p] = "active" THEN "orphan" ELSE pods[p]] \in [Pids -> PodStates]
    BY DEF TypeOK, PodStates
  <2>2. [p \in Pids |-> IF pods[p] = "none" THEN "none" ELSE "gone"] \in [Pids -> PodStates]
    BY DEF PodStates
  <2>3. pods' \in [Pids -> PodStates]
    BY <1>5, <2>1, <2>2 DEF DeleteJob, TypeOK, PodStates
  <2>4. QED
    BY <1>5, <2>3 DEF DeleteJob, Return, TypeOK, PodStates
<1>6. CASE UNCHANGED vars
  BY <1>6 DEF vars, TypeOK
<1>7. QED
  BY <1>1, <1>2, <1>3, <1>4, <1>5, <1>6 DEF Next

\* The type invariant holds in every state of the helpers.
THEOREM TypeCorrect == Spec => []TypeOK
BY InitTypeOK, NextTypeOK, PTL DEF Spec

=============================================================================
