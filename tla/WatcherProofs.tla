--------------------------- MODULE WatcherProofs ---------------------------
(***************************************************************************)
(* Proofs about the watcher: the type invariant and the order in which the *)
(* dispatcher applies events, for every number of clusters and every bound *)
(* on the server's changes.                                                *)
(***************************************************************************)
EXTENDS Watcher, TLAPS

(***************************************************************************)
(* The inductive invariant.  Beyond the types it relates the three         *)
(* cursors: the watch goroutine's watchVersion wv, the version chanEv it   *)
(* offers on eventCh, and the version dEv the dispatcher holds, to the     *)
(* version applied that the cache reflects.  Start-up runs with idle       *)
(* goroutines, so that seeding applied and wv from the list is safe.       *)
(***************************************************************************)
IInv ==
  /\ TypeOK
  /\ wv <= Len(hist)
  /\ applied <= wv
  /\ proc \in {"main", "init", "recycle"} => dpc = "idle" /\ wpc = "watch"
  /\ wpc = "send" => chanEv = wv /\ applied < chanEv
  /\ dpc = "handle" => applied < dEv /\ dEv <= wv
  /\ (dpc = "handle" /\ wpc = "send") => dEv < wv

USE NamesAssumption, MaxRVAssumption, ProvisionerAssumption

\* The server's current state has the type of a cache.
LEMMA SrvType == TypeOK => Srv \in [Names -> RV]
<1> SUFFICES ASSUME TypeOK PROVE Srv \in [Names -> RV]
  OBVIOUS
<1>1. CASE Len(hist) = 0
  BY <1>1 DEF Srv, ServerAt, NoClusters, RV
<1>2. CASE Len(hist) # 0
  <2>1. hist[Len(hist)] \in Event
    BY <1>2 DEF TypeOK
  <2>. QED
    BY <1>2, <2>1 DEF Srv, ServerAt, Event
<1>. QED
  BY <1>1, <1>2

\* A message sent on the empty error channel.
LEMMA SendErrType ==
  ASSUME NEW e \in Errors, errCh \in Seq(Errors), SendErr(e)
  PROVE  errCh' \in Seq(Errors) /\ Len(errCh') <= 1
BY DEF SendErr

LEMMA InitIInv == Init => IInv
BY DEF Init, IInv, TypeOK, NoClusters, NoGc, RV

\* Every step of the platform, of start-up and of the goroutines keeps IInv.
LEMMA NextIInv == IInv /\ [Next]_vars => IInv'
<1> SUFFICES ASSUME IInv, [Next]_vars PROVE IInv'
  OBVIOUS
<1> USE DEF IInv, TypeOK, RV
<1>1. ASSUME NEW t \in EvTypes, NEW n \in Names, ServerChange(t, n)
      PROVE  IInv'
  <2>1. Srv \in [Names -> RV]
    BY SrvType
  <2>2. [Srv EXCEPT ![n] = IF t = "Deleted" THEN 0 ELSE Len(hist) + 1]
           \in [Names -> RV]
    BY <1>1, <2>1 DEF ServerChange
  <2>3. hist' \in Seq(Event) /\ Len(hist') = Len(hist) + 1
    BY <1>1, <2>2 DEF ServerChange, Event
  <2>. QED
    BY <1>1, <2>3 DEF ServerChange
<1>2. CASE Compact
  BY <1>2 DEF Compact
<1>3. ASSUME NEW n \in Names, VolumeCreated(n) PROVE IInv'
  BY <1>3 DEF VolumeCreated
<1>4. CASE InitResource
  <2>1. Srv \in [Names -> RV]
    BY SrvType
  <2>2. ListInto(dbs) \in [Names -> RV]
    BY <2>1 DEF ListInto
  <2>. QED
    BY <1>4, <2>2 DEF InitResource
<1>5. CASE Recycle
  BY <1>5 DEF Recycle, CleanVolumes
<1>6. CASE RecycleFails
  BY <1>6 DEF RecycleFails
<1>7. CASE WatchStart
  <2>1. CASE wpc' = "recv" /\ UNCHANGED errCh
    BY <1>7, <2>1 DEF WatchStart
  <2>2. CASE SendErr("watchErr") /\ wpc' = "done"
    BY <1>7, <2>2, SendErrType DEF WatchStart, Errors
  <2>. QED
    BY <1>7, <2>1, <2>2 DEF WatchStart
<1>8. CASE StreamEvent
  BY <1>8 DEF StreamEvent
<1>9. CASE Deliver
  BY <1>9 DEF Deliver
<1>10. CASE StreamGone
  <2>1. Len(hist) \in RV
    OBVIOUS
  <2>2. CASE SendErr("outdated") /\ wpc' = "done" /\ UNCHANGED <<proc, wv>>
    BY <1>10, <2>2, SendErrType DEF StreamGone, Errors
  <2>3. CASE ~(SendErr("outdated") /\ wpc' = "done" /\ UNCHANGED <<proc, wv>>)
    BY <1>10, <2>1, <2>3 DEF StreamGone
  <2>. QED
    BY <2>2, <2>3
<1>11. CASE StreamErrorStatus
  BY <1>11 DEF StreamErrorStatus
<1>12. CASE StreamClosed
  BY <1>12 DEF StreamClosed
<1>13. CASE SendClosed
  BY <1>13, SendErrType DEF SendClosed, Errors
<1>14. CASE HandleTidbEvent
  <2>1. dEv \in 1..Len(hist)
    BY <1>14 DEF HandleTidbEvent
  <2>2. hist[dEv] \in Event
    BY <2>1
  <2>3. hist[dEv].name \in Names
    BY <2>2 DEF Event
  <2> DEFINE n == hist[dEv].name
  <2>5. dEv \in RV /\ dbs \in [Names -> RV]
    BY <2>1
  <2>6. \/ dbs' = [dbs EXCEPT ![n] = dEv] /\ UNCHANGED lastGc
        \/ UNCHANGED <<dbs, lastGc>>
        \/ dbs' = [dbs EXCEPT ![n] = dEv]
           /\ lastGc' = [name |-> n, passed |-> dbs'[n], before |-> dbs[n]]
        \/ dbs' = [dbs EXCEPT ![n] = 0]
           /\ lastGc' = [name |-> n, passed |-> dbs'[n], before |-> dbs[n]]
    BY <1>14 DEF HandleTidbEvent
  <2>71. [dbs EXCEPT ![n] = dEv] \in [Names -> RV]
          /\ [dbs EXCEPT ![n] = 0] \in [Names -> RV]
    BY <2>3, <2>5
  <2>72. dbs' \in {dbs, [dbs EXCEPT ![n] = dEv], [dbs EXCEPT ![n] = 0]}
    BY <2>6
  <2>7. dbs' \in [Names -> RV]
    BY <2>5, <2>71, <2>72
  <2>8. lastGc' \in [name : Names \cup {"none"}, passed : RV, before : RV]
    <3>1. dbs[n] \in RV /\ dbs'[n] \in RV
      BY <2>3, <2>5, <2>7
    <3>2. lastGc = lastGc'
          \/ lastGc' = [name |-> n, passed |-> dbs'[n], before |-> dbs[n]]
      BY <2>6
    <3>. QED
      BY <2>3, <3>1, <3>2
  <2>4. dbs' \in [Names -> RV] /\ lastGc' \in [name : Names \cup {"none"}, passed : RV, before : RV]
    BY <2>7, <2>8
  <2>. QED
    BY <1>14, <2>4 DEF HandleTidbEvent
<1>15. CASE CleanBegin
  BY <1>15 DEF CleanBegin
<1>16. CASE CleanEnd
  BY <1>16 DEF CleanEnd, MapRace
<1>17. CASE RunReturns
  BY <1>17 DEF RunReturns
<1>18. CASE Restart
  BY <1>18 DEF Restart, NoClusters, NoGc
<1>19. CASE UNCHANGED vars
  BY <1>19 DEF vars
<1>20. CASE Main
  BY <1>20 DEF Main
<1>21. CASE Signal
  BY <1>21 DEF Signal
<1>. QED
  BY <1>1, <1>2, <1>3, <1>4, <1>5, <1>6, <1>7, <1>8, <1>9, <1>10, <1>11,
     <1>12, <1>13, <1>14, <1>15, <1>16, <1>17, <1>18, <1>19, <1>20, <1>21
  DEF Next

THEOREM IInvariant == Spec => []IInv
BY InitIInv, NextIInv, PTL DEF Spec

\* The watcher's state always has its type.
THEOREM TypeCorrect == Spec => []TypeOK
BY IInvariant, PTL DEF IInv

\* The dispatcher applies events in strictly increasing version order
\* (EventsHandledInOrder, checked by the watcher_safety run).
THEOREM HandledInOrder == Spec => EventsHandledInOrder
<1>1. IInv => [(proc = "running" /\ dpc = "handle" /\ dpc' = "idle")
                 => dEv > applied]_vars
  BY DEF IInv, TypeOK, RV
<1>. QED
  BY <1>1, IInvariant, PTL DEF EventsHandledInOrder

=============================================================================
