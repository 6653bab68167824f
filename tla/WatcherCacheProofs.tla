------------------------ MODULE WatcherCacheProofs -------------------------
(***************************************************************************)
(* Proofs that the watcher's cache covers the server: every cluster that   *)
(* exists at the version the dispatcher has reached is cached with that   *)
(* version (CacheCoversServer), a Modified or Deleted event always finds   *)
(* its cluster cached (NoUnsafeState), and the watcher implements the      *)
(* abstract WatchCache specification, for every set of names and every     *)
(* bound on the server's changes.                                          *)
(***************************************************************************)
EXTENDS WatcherProofs

(***************************************************************************)
(* The cache after handleTidbEvent has handled the event of version v.     *)
(***************************************************************************)
Apply(c, v) ==
  LET e == hist[v] IN
  IF e.type = "Added" THEN [c EXCEPT ![e.name] = v]
  ELSE IF c[e.name] = 0 THEN c
  ELSE [c EXCEPT ![e.name] = IF e.type = "Deleted" THEN 0 ELSE v]

\* The cache once the event the dispatcher holds has been handled.
Eff == IF dpc = "handle" THEN Apply(dbs, dEv) ELSE dbs

\* Cache c holds every cluster live at version v with its version there.
Covers(c, v) == \A n \in Names : ServerAt(v)[n] # 0 => c[n] = ServerAt(v)[n]

(***************************************************************************)
(* What the server's history is: each change alters one cluster, Added    *)
(* only an absent one and Modified or Deleted only a present one; a        *)
(* cluster's version is never newer than the history, and never older     *)
(* than an earlier change of that cluster.                                 *)
(***************************************************************************)
HInv ==
  /\ \A v \in 1..Len(hist) :
        /\ hist[v].after = [ServerAt(v - 1) EXCEPT ![hist[v].name] =
                              IF hist[v].type = "Deleted" THEN 0 ELSE v]
        /\ (hist[v].type = "Added") = (ServerAt(v - 1)[hist[v].name] = 0)
  /\ \A v \in 0..Len(hist), n \in Names : ServerAt(v)[n] <= v
  /\ \A v \in 0..Len(hist), n \in Names :
        \A j \in 1..v : (hist[j].name = n /\ ServerAt(v)[n] # 0)
                           => ServerAt(v)[n] >= j

(***************************************************************************)
(* What the cache holds.  Its versions are never newer than what it has   *)
(* seen.  While the process serves, it covers the server at applied; when *)
(* the dispatcher holds event dEv it covers the server just before it;    *)
(* and once the held event is handled it covers the server at the watch   *)
(* cursor wv, or just before it while the watch offers the event at wv.   *)
(***************************************************************************)
CInv ==
  /\ proc \in {"main", "init", "down"} => \A n \in Names : dbs[n] <= Len(hist)
  /\ proc \in {"recycle", "running"} =>
       /\ \A n \in Names : dbs[n] <= applied
       /\ Covers(dbs, applied)
       /\ dpc = "handle" => Covers(dbs, dEv - 1)
       /\ wpc = "send" => Covers(Eff, wv - 1)
       /\ wpc # "send" => Covers(Eff, wv)

-----------------------------------------------------------------------------
(* The history.                                                            *)

USE NamesAssumption, MaxRVAssumption, ProvisionerAssumption

LEMMA HInvInit == Init => HInv
BY DEF Init, HInv, ServerAt, NoClusters

\* Appending to the history keeps the state at every earlier version.
LEMMA ServerAtAppend ==
  ASSUME TypeOK, NEW e, hist' = Append(hist, e)
  PROVE  /\ \A v \in 1..Len(hist) : hist'[v] = hist[v]
         /\ \A v \in 0..Len(hist) : ServerAt(v)' = ServerAt(v)
<1>1. \A v \in 1..Len(hist) : hist'[v] = hist[v]
  BY DEF TypeOK
<1>2. \A v \in 0..Len(hist) : ServerAt(v)' = ServerAt(v)
  BY <1>1 DEF ServerAt, NoClusters
<1>. QED
  BY <1>1, <1>2

\* The state at a version of the history is a cache-shaped function.
LEMMA ServerAtType ==
  ASSUME TypeOK, NEW v \in 0..Len(hist)
  PROVE  ServerAt(v) \in [Names -> RV]
<1>1. CASE v = 0
  BY <1>1 DEF ServerAt, NoClusters, RV
<1>2. CASE v # 0
  <2>1. hist[v] \in Event
    BY <1>2 DEF TypeOK
  <2>. QED
    BY <1>2, <2>1 DEF ServerAt, Event
<1>. QED
  BY <1>1, <1>2

\* A step that leaves the history alone keeps HInv.
LEMMA HInvUnchanged ==
  ASSUME HInv, hist' = hist
  PROVE  HInv'
BY DEF HInv, ServerAt, NoClusters

\* A server change appends an event that is consistent with the history.
LEMMA HInvChange ==
  ASSUME TypeOK, HInv, NEW t \in EvTypes, NEW n \in Names, ServerChange(t, n)
  PROVE  HInv'
<1> DEFINE L == Len(hist)
           new == [Srv EXCEPT ![n] = IF t = "Deleted" THEN 0 ELSE L + 1]
<1>1. hist' = Append(hist, [type |-> t, name |-> n, after |-> new])
      /\ L < MaxRV /\ (IF t = "Added" THEN Srv[n] = 0 ELSE Srv[n] # 0)
  BY DEF ServerChange
<1>2. Srv \in [Names -> RV] /\ hist \in Seq(Event) /\ L \in Nat
  BY SrvType DEF TypeOK
<1>3. /\ Len(hist') = L + 1
      /\ hist'[L + 1] = [type |-> t, name |-> n, after |-> new]
      /\ \A v \in 1..L : hist'[v] = hist[v]
      /\ \A v \in 0..L : ServerAt(v)' = ServerAt(v)
  BY <1>1, <1>2, ServerAtAppend
<1>4. (\A v \in {L + 1} : ServerAt(v)' = new) /\ ServerAt(L) = Srv
  <2>1. \A v \in {L + 1} : ServerAt(v)' = hist'[L + 1].after
    BY <1>2 DEF ServerAt
  <2>2. ServerAt(L) = Srv
    BY DEF Srv
  <2>. QED
    BY <2>1, <2>2, <1>3
<1>8. \A m \in Names : new[m] = IF m = n THEN (IF t = "Deleted" THEN 0 ELSE L + 1)
                                ELSE Srv[m]
  BY <1>2
<1>5. \A v \in 1..Len(hist') :
        /\ hist'[v].after = [ServerAt(v - 1)' EXCEPT ![hist'[v].name] =
                              IF hist'[v].type = "Deleted" THEN 0 ELSE v]
        /\ (hist'[v].type = "Added") = (ServerAt(v - 1)'[hist'[v].name] = 0)
  <2> SUFFICES ASSUME NEW v \in 1..Len(hist')
               PROVE  /\ hist'[v].after = [ServerAt(v - 1)' EXCEPT ![hist'[v].name] =
                              IF hist'[v].type = "Deleted" THEN 0 ELSE v]
                      /\ (hist'[v].type = "Added") = (ServerAt(v - 1)'[hist'[v].name] = 0)
    OBVIOUS
  <2>1. CASE v \in 1..L
    <3>1. hist'[v] = hist[v] /\ ServerAt(v - 1)' = ServerAt(v - 1)
      BY <2>1, <1>3, <1>2
    <3>2. /\ hist[v].after = [ServerAt(v - 1) EXCEPT ![hist[v].name] =
                              IF hist[v].type = "Deleted" THEN 0 ELSE v]
          /\ (hist[v].type = "Added") = (ServerAt(v - 1)[hist[v].name] = 0)
      BY <2>1 DEF HInv
    <3>. QED
      BY <3>1, <3>2, Zenon
  <2>2. CASE v = L + 1
    <3>1. (t = "Added") = (Srv[n] = 0)
      BY <1>1, Zenon
    <3>2. ServerAt(v - 1)' = Srv
      BY <2>2, <1>3, <1>4, <1>2
    <3>3. hist'[v] = [type |-> t, name |-> n, after |-> new]
      BY <2>2, <1>3
    <3>. QED
      BY <2>2, <3>1, <3>2, <3>3
  <2>. QED
    BY <2>1, <2>2, <1>3, <1>2
<1>6. \A v \in 0..Len(hist'), m \in Names : ServerAt(v)'[m] <= v
  <2> SUFFICES ASSUME NEW v \in 0..Len(hist'), NEW m \in Names
               PROVE  ServerAt(v)'[m] <= v
    OBVIOUS
  <2>1. CASE v \in 0..L
    BY <2>1, <1>3 DEF HInv
  <2>2. CASE v = L + 1
    <3>1. Srv[m] <= L
      BY <1>2 DEF HInv, Srv
    <3>2. ServerAt(v)' = new
      BY <2>2, <1>4
    <3>3. new[m] <= L + 1
      BY <3>1, <1>2, <1>8 DEF RV
    <3>. QED
      BY <2>2, <3>2, <3>3
  <2>. QED
    BY <2>1, <2>2, <1>3, <1>2
<1>7. \A v \in 0..Len(hist'), m \in Names :
        \A j \in 1..v : (hist'[j].name = m /\ ServerAt(v)'[m] # 0)
                           => ServerAt(v)'[m] >= j
  <2> SUFFICES ASSUME NEW v \in 0..Len(hist'), NEW m \in Names,
                      NEW j \in 1..v, hist'[j].name = m, ServerAt(v)'[m] # 0
               PROVE  ServerAt(v)'[m] >= j
    OBVIOUS
  <2>1. CASE v \in 0..L
    BY <2>1, <1>3 DEF HInv
  <2>2. CASE v = L + 1 /\ m = n
    <3>1. ServerAt(v)' = new
      BY <2>2, <1>4
    <3>2. new[n] # 0 => new[n] = L + 1
      BY <1>8
    <3>3. ServerAt(v)'[m] = new[n]
      BY <2>2, <3>1
    <3>. QED
      BY <2>2, <3>2, <3>3, <1>2
  <2>3. CASE v = L + 1 /\ m # n /\ j = L + 1
    BY <2>3, <1>3
  <2>4. CASE v = L + 1 /\ m # n /\ j \in 1..L
    <3>0. ServerAt(v)' = new
      BY <2>4, <1>4
    <3>1. ServerAt(v)'[m] = Srv[m] /\ hist[j].name = m
      BY <2>4, <3>0, <1>3, <1>2
    <3>2. Srv[m] # 0 => Srv[m] >= j
      BY <2>4, <3>1, <1>2 DEF HInv, Srv
    <3>. QED
      BY <3>1, <3>2
  <2>. QED
    BY <2>1, <2>2, <2>3, <2>4, <1>3, <1>2
<1>. QED
  BY <1>5, <1>6, <1>7 DEF HInv

\* Every step keeps the history consistent.
LEMMA HInvNext ==
  ASSUME TypeOK, HInv, [Next]_vars
  PROVE  HInv'
<1>1. CASE \E t \in EvTypes, n \in Names : ServerChange(t, n)
  BY <1>1, HInvChange
<1>2. CASE ~\E t \in EvTypes, n \in Names : ServerChange(t, n)
  <2>1. hist' = hist
    BY <1>2 DEF Next, vars, Main, Signal, Compact, VolumeCreated, InitResource, Recycle,
       RecycleFails, WatchStart, StreamEvent, Deliver, StreamGone,
       StreamErrorStatus, StreamClosed, SendClosed, HandleTidbEvent,
       CleanBegin, CleanEnd, RunReturns, Restart
  <2>. QED
    BY <2>1, HInvUnchanged
<1>. QED
  BY <1>1, <1>2

-----------------------------------------------------------------------------
(* Handling one event.                                                     *)

\* Handling an event of the history keeps the cache's type.
LEMMA ApplyType ==
  ASSUME TypeOK, NEW v \in 1..Len(hist), NEW c \in [Names -> RV]
  PROVE  Apply(c, v) \in [Names -> RV]
<1>1. hist[v] \in Event /\ v \in RV /\ 0 \in RV
  BY DEF TypeOK, RV
<1>2. hist[v].name \in Names
  BY <1>1 DEF Event
<1>3. /\ [c EXCEPT ![hist[v].name] = v] \in [Names -> RV]
      /\ [c EXCEPT ![hist[v].name] = 0] \in [Names -> RV]
  BY <1>1, <1>2
<1>. QED
  BY <1>3 DEF Apply

(***************************************************************************)
(* The step argument of the dispatcher: a cache that covers the server     *)
(* just before the event of version v finds the event's cluster cached     *)
(* when the event is not an Added one, and covers the server at v once    *)
(* the event is handled.                                                   *)
(***************************************************************************)
LEMMA CovApply ==
  ASSUME TypeOK, HInv, NEW v \in 1..Len(hist), NEW c \in [Names -> RV],
         Covers(c, v - 1)
  PROVE  /\ hist[v].type # "Added" => c[hist[v].name] # 0
         /\ Covers(Apply(c, v), v)
<1> DEFINE e == hist[v]
           pre == ServerAt(v - 1)
           val == IF e.type = "Deleted" THEN 0 ELSE v
<1>1. e \in Event /\ pre \in [Names -> RV]
  BY ServerAtType DEF TypeOK
<1>2. ServerAt(v) = [pre EXCEPT ![e.name] = val]
      /\ (e.type = "Added") = (pre[e.name] = 0)
  <2>1. ServerAt(v) = e.after
    BY DEF ServerAt
  <2>2. /\ e.after = [pre EXCEPT ![e.name] = val]
        /\ (e.type = "Added") = (pre[e.name] = 0)
    BY DEF HInv
  <2>. QED
    BY <2>1, <2>2
<1>3. e.type # "Added" => c[e.name] # 0
  BY <1>1, <1>2 DEF Covers, Event
<1>4. Apply(c, v) = [c EXCEPT ![e.name] = val]
  BY <1>1, <1>3 DEF Apply, Event
<1>5. Covers(Apply(c, v), v)
  <2> SUFFICES ASSUME NEW n \in Names, ServerAt(v)[n] # 0
               PROVE  Apply(c, v)[n] = ServerAt(v)[n]
    BY DEF Covers
  <2>1. CASE n = e.name
    BY <2>1, <1>1, <1>2, <1>4 DEF Event
  <2>2. CASE n # e.name
    BY <2>2, <1>1, <1>2, <1>4 DEF Covers, Event
  <2>. QED
    BY <2>1, <2>2
<1>. QED
  BY <1>3, <1>5

\* handleTidbEvent writes the held event into the cache.
LEMMA HandleApply ==
  ASSUME TypeOK, HandleTidbEvent
  PROVE  dbs' = Apply(dbs, dEv)
BY Zenon DEF HandleTidbEvent, Apply

\* Handling an event leaves every other cluster's entry alone.
LEMMA ApplyOther ==
  ASSUME TypeOK, NEW v \in 1..Len(hist), NEW c \in [Names -> RV],
         NEW n \in Names, n # hist[v].name
  PROVE  Apply(c, v)[n] = c[n]
BY DEF Apply

(***************************************************************************)
(* The relist after 410 Gone found the cache stable while the dispatcher  *)
(* still holds event k, newer than everything cached.  The event's        *)
(* cluster cannot exist on the server now: it would have a version at     *)
(* least k there, and so in the stable cache.  Hence handling the event    *)
(* later leaves the cache covering the server's current state.            *)
(***************************************************************************)
LEMMA StableCov ==
  ASSUME TypeOK, HInv, ~DbsCacheUnstable(dbs), NEW k \in 1..Len(hist),
         \A n \in Names : dbs[n] < k
  PROVE  Covers(Apply(dbs, k), Len(hist))
<1> DEFINE nm == hist[k].name
<1>1. nm \in Names /\ Srv \in [Names -> RV] /\ dbs \in [Names -> RV]
  <2>1. hist[k] \in Event
    BY DEF TypeOK
  <2>. QED
    BY <2>1, SrvType DEF TypeOK, Event
<1>2. \A n \in Names : Srv[n] # 0 => dbs[n] = Srv[n]
  BY DEF DbsCacheUnstable, Live
<1>3. Srv[nm] # 0 => Srv[nm] >= k
  BY <1>1 DEF HInv, Srv
<1>4. Srv[nm] = 0
  BY <1>1, <1>2, <1>3 DEF RV
<1> SUFFICES ASSUME NEW n \in Names, Srv[n] # 0
             PROVE  Apply(dbs, k)[n] = Srv[n]
  BY DEF Covers, Srv
<1>5. n # nm
  BY <1>4
<1>. QED
  BY <1>1, <1>2, <1>5, ApplyOther

-----------------------------------------------------------------------------
(* The cache invariant.                                                    *)

LEMMA CInvInit == Init => CInv
BY DEF Init, CInv, NoClusters

\* A step that changes none of what CInv reads, and does not start or end
\* an offer on eventCh, keeps CInv.
LEMMA CInvFrame ==
  ASSUME CInv,
         hist' = hist, dbs' = dbs, applied' = applied,
         (proc' \in {"main", "init", "down"}) = (proc \in {"main", "init", "down"}),
         (proc' \in {"recycle", "running"}) = (proc \in {"recycle", "running"}),
         wv' = wv, dpc' = dpc, dEv' = dEv, (wpc' = "send") = (wpc = "send")
  PROVE  CInv'
BY DEF CInv, Covers, Eff, Apply, ServerAt, NoClusters

\* The process stops with its cache, which is never newer than the history.
LEMMA CInvDown ==
  ASSUME IInv, CInv, proc' = "down", hist' = hist, dbs' = dbs
  PROVE  CInv'
<1>1. \A n \in Names : dbs[n] <= Len(hist)
  <2>1. CASE proc \in {"main", "init", "down"}
    BY <2>1 DEF CInv
  <2>2. CASE proc \in {"recycle", "running"}
    BY <2>2 DEF CInv, IInv, TypeOK, RV
  <2>. QED
    BY <2>1, <2>2 DEF IInv, TypeOK
<1>. QED
  BY <1>1 DEF CInv

\* A change on the server leaves every version the cursors have reached
\* as it was.
LEMMA CInvChange ==
  ASSUME IInv, CInv, NEW t \in EvTypes, NEW n \in Names, ServerChange(t, n)
  PROVE  CInv'
<1> DEFINE L == Len(hist)
<1>1. PICK e : hist' = Append(hist, e)
  BY DEF ServerChange
<1>2. /\ Len(hist') = L + 1
      /\ \A v \in 1..L : hist'[v] = hist[v]
      /\ \A v \in 0..L : ServerAt(v)' = ServerAt(v)
  BY <1>1, ServerAtAppend DEF IInv, TypeOK
<1>3. /\ proc' = proc /\ dbs' = dbs /\ applied' = applied /\ wv' = wv
      /\ wpc' = wpc /\ dpc' = dpc /\ dEv' = dEv
  BY DEF ServerChange
<1>4. \A v \in 0..L : Covers(dbs, v)' = Covers(dbs, v)
  BY <1>2, <1>3 DEF Covers
<1>5. Eff' = Eff
  <2>1. CASE dpc = "handle"
    <3>1. dEv \in 1..L
      BY <2>1 DEF IInv, TypeOK, RV
    <3>. QED
      BY <1>2, <1>3, <2>1, <3>1 DEF Eff, Apply
  <2>2. CASE dpc # "handle"
    BY <1>3, <2>2 DEF Eff
  <2>. QED
    BY <2>1, <2>2
<1>6. \A v \in 0..L : Covers(Eff, v)' = Covers(Eff, v)
  BY <1>2, <1>5 DEF Covers
<1>7. /\ applied \in 0..L /\ wv \in 0..L
      /\ dpc = "handle" => dEv - 1 \in 0..L
      /\ wpc = "send" => wv - 1 \in 0..L
  BY DEF IInv, TypeOK, RV
<1>8. /\ Covers(dbs, applied)' = Covers(dbs, applied)
      /\ dpc = "handle" => Covers(dbs, dEv - 1)' = Covers(dbs, dEv - 1)
      /\ wpc = "send" => Covers(Eff, wv - 1)' = Covers(Eff, wv - 1)
      /\ Covers(Eff, wv)' = Covers(Eff, wv)
  BY <1>2, <1>3, <1>5, <1>7 DEF Covers
<1>9. (\A m \in Names : dbs[m] <= Len(hist)) => \A m \in Names : dbs'[m] <= Len(hist')
  BY <1>2, <1>3 DEF IInv, TypeOK, RV
<1>. QED
  BY <1>3, <1>8, <1>9, Zenon DEF CInv

\* initResource: the list seeds the cache; on success the process serves
\* from the list's version with idle goroutines.
LEMMA CInvInitResource ==
  ASSUME IInv, HInv, CInv, InitResource
  PROVE  CInv'
<1>1. Srv \in [Names -> RV] /\ dbs \in [Names -> RV] /\ Len(hist) \in Nat
  BY SrvType DEF IInv, TypeOK
<1>2. \A n \in Names : dbs[n] <= Len(hist)
  BY DEF InitResource, CInv
<1>3. \A n \in Names : ListInto(dbs)[n] <= Len(hist)
  <2>1. \A n \in Names : Srv[n] <= Len(hist)
    BY <1>1 DEF HInv, Srv
  <2>. QED
    BY <1>1, <1>2, <2>1 DEF ListInto, RV
<1>4. Covers(ListInto(dbs), Len(hist))
  BY DEF Covers, ListInto, Srv
<1>5. dpc = "idle" /\ wpc = "watch"
  BY DEF InitResource, IInv
<1>a. CASE UNCHANGED <<proc, dbs, applied, wv>>
  BY <1>a, CInvFrame DEF InitResource
<1>b. CASE Provisioner = "hostpath" /\ dbs' = ListInto(dbs)
             /\ UNCHANGED <<proc, applied, wv>>
  BY <1>b, <1>3 DEF InitResource, CInv
<1>c. CASE dbs' = ListInto(dbs) /\ applied' = Len(hist) /\ wv' = Len(hist)
             /\ proc' = "recycle"
  <2>1. hist' = hist /\ dpc' = "idle" /\ wpc' = "watch"
    BY <1>5 DEF InitResource
  <2>2. Covers(dbs, applied)' /\ Covers(Eff, wv)'
    BY <1>c, <1>4, <2>1 DEF Covers, Eff, ServerAt, NoClusters
  <2>. QED
    BY <1>c, <1>3, <2>1, <2>2 DEF CInv
<1>. QED
  BY <1>a, <1>b, <1>c DEF InitResource

\* The watch goroutine takes the next event: what it will offer is what the
\* cache will have reached once the held event is handled.
LEMMA CInvStreamEvent ==
  ASSUME IInv, CInv, StreamEvent
  PROVE  CInv'
<1>1. wpc = "recv" /\ wpc' = "send" /\ wv' = wv + 1 /\ wv \in Nat
  BY DEF StreamEvent, IInv, TypeOK, RV
<1>2. UNCHANGED <<hist, proc, dbs, applied, dpc, dEv>>
  BY DEF StreamEvent
<1>3. Covers(Eff, wv - 1)' = Covers(Eff, wv)
  <2>1. wv' - 1 = wv
    BY <1>1
  <2>. QED
    BY <2>1, <1>2 DEF Covers, Eff, Apply, ServerAt, NoClusters
<1>. QED
  BY <1>1, <1>2, <1>3 DEF CInv, Covers, ServerAt, NoClusters

\* The hand-over on eventCh: the dispatcher now holds the event at wv.
LEMMA CInvDeliver ==
  ASSUME IInv, HInv, CInv, Deliver
  PROVE  CInv'
<1>1. /\ proc = "running" /\ wpc = "send" /\ dpc = "idle"
      /\ dpc' = "handle" /\ dEv' = wv /\ wpc' = "recv"
      /\ UNCHANGED <<hist, proc, dbs, applied, wv>>
  BY DEF Deliver, IInv
<1>2. wv \in 1..Len(hist) /\ dbs \in [Names -> RV] /\ TypeOK
  BY <1>1 DEF IInv, TypeOK, RV
<1>3. Covers(dbs, wv - 1)
  BY <1>1 DEF CInv, Eff
<1>4. Covers(Apply(dbs, wv), wv)
  BY <1>2, <1>3, CovApply
<1>5. /\ Covers(dbs, dEv - 1)'
      /\ Covers(Eff, wv)'
      /\ Covers(dbs, applied)'
  BY <1>1, <1>3, <1>4 DEF Covers, Eff, Apply, ServerAt, NoClusters, CInv
<1>. QED
  BY <1>1, <1>5 DEF CInv

\* 410 Gone: a race ends the process, an unstable relist sends the error,
\* and a stable one moves the cursor to the server's current version.
LEMMA CInvStreamGone ==
  ASSUME IInv, HInv, CInv, StreamGone
  PROVE  CInv'
<1>1. proc = "running" /\ wpc = "recv"
      /\ UNCHANGED <<hist, dbs, applied, dpc, dEv>>
  BY DEF StreamGone
<1>a. CASE MapRace /\ proc' = "down"
  BY <1>a, <1>1, CInvDown
<1>b. CASE ~DbsCacheUnstable(dbs) /\ wv' = Len(hist) /\ wpc' = "closed"
             /\ UNCHANGED <<proc, errCh>>
  <2>1. Covers(Eff, Len(hist))
    <3>1. CASE dpc = "handle"
      <4>1. dEv \in 1..Len(hist) /\ \A n \in Names : dbs[n] < dEv
        BY <1>1, <3>1 DEF CInv, IInv, TypeOK, RV
      <4>. QED
        BY <1>b, <3>1, <4>1, StableCov DEF IInv, Eff
    <3>2. CASE dpc # "handle"
      <4>1. \A n \in Names : Srv[n] # 0 => dbs[n] = Srv[n]
        BY <1>b DEF DbsCacheUnstable, Live
      <4>. QED
        BY <3>2, <4>1 DEF Eff, Covers, Srv
    <3>. QED
      BY <3>1, <3>2
  <2>2. Covers(Eff, wv)'
    BY <1>b, <1>1, <2>1 DEF Covers, Eff, Apply, ServerAt, NoClusters
  <2>3. /\ Covers(dbs, applied)' = Covers(dbs, applied)
        /\ Covers(dbs, dEv - 1)' = Covers(dbs, dEv - 1)
    BY <1>1 DEF Covers, ServerAt, NoClusters
  <2>. QED
    BY <1>b, <1>1, <2>2, <2>3 DEF CInv
<1>c. CASE SendErr("outdated") /\ wpc' = "done" /\ UNCHANGED <<proc, wv>>
  BY <1>c, <1>1, CInvFrame
<1>. QED
  BY <1>a, <1>b, <1>c DEF StreamGone

\* handleTidbEvent: the cache moves from just before the held event to it.
LEMMA CInvHandle ==
  ASSUME IInv, HInv, CInv, HandleTidbEvent
  PROVE  CInv'
<1>1. /\ proc = "running" /\ dpc = "handle"
      /\ dbs' = Apply(dbs, dEv) /\ applied' = dEv /\ dpc' = "idle"
      /\ UNCHANGED <<hist, proc, wv, wpc, dEv>>
  BY HandleApply DEF HandleTidbEvent, IInv
<1>2. dEv \in 1..Len(hist) /\ dbs \in [Names -> RV] /\ TypeOK
  BY <1>1 DEF IInv, TypeOK, RV
<1>3. Covers(dbs, dEv - 1) /\ \A n \in Names : dbs[n] <= applied
  BY <1>1 DEF CInv
<1>4. Covers(Apply(dbs, dEv), dEv)
  BY <1>2, <1>3, CovApply
<1>5. \A n \in Names : Apply(dbs, dEv)[n] <= dEv
  <2>1. applied < dEv
    BY <1>1 DEF IInv
  <2>2. hist[dEv] \in Event
    BY <1>2 DEF TypeOK
  <2>3. \A n \in Names : \/ Apply(dbs, dEv)[n] = dbs[n]
                          \/ Apply(dbs, dEv)[n] = dEv
                          \/ Apply(dbs, dEv)[n] = 0
    BY <1>2, <2>2 DEF Apply, Event
  <2>4. applied \in Nat /\ dEv \in Nat /\ \A n \in Names : dbs[n] \in Nat
    BY <1>2 DEF IInv, TypeOK, RV
  <2>. SUFFICES ASSUME NEW n \in Names PROVE Apply(dbs, dEv)[n] <= dEv
    OBVIOUS
  <2>. QED
    BY <1>3, <2>1, <2>3, <2>4
<1>6. /\ Covers(dbs, applied)'
      /\ Eff' = Eff
  BY <1>1, <1>4 DEF Covers, Eff, ServerAt, NoClusters, Apply
<1>7. /\ Covers(Eff, wv - 1)' = Covers(Eff, wv - 1)
      /\ Covers(Eff, wv)' = Covers(Eff, wv)
  BY <1>1, <1>6 DEF Covers, ServerAt, NoClusters
<1>. QED
  BY <1>1, <1>5, <1>6, <1>7 DEF CInv

\* Every step keeps the cache invariant.
LEMMA NextCInv ==
  ASSUME IInv, HInv, CInv, [Next]_vars
  PROVE  CInv'
<1>1. CASE \E t \in EvTypes, n \in Names : ServerChange(t, n)
  BY <1>1, CInvChange
<1>2. CASE Compact
  BY <1>2, CInvFrame DEF Compact
<1>3. CASE \E n \in Names : VolumeCreated(n)
  BY <1>3, CInvFrame DEF VolumeCreated
<1>4. CASE InitResource
  BY <1>4, CInvInitResource
<1>5. CASE Recycle
  <2>1. proc = "recycle" /\ proc' = "running" /\ wpc = "watch" /\ wpc' = "watch"
    BY <1>5 DEF Recycle, IInv
  <2>. QED
    BY <1>5, <2>1, CInvFrame DEF Recycle
<1>6. CASE RecycleFails
  BY <1>6, CInvDown DEF RecycleFails
<1>7. CASE WatchStart
  BY <1>7, CInvFrame DEF WatchStart
<1>8. CASE StreamEvent
  BY <1>8, CInvStreamEvent
<1>9. CASE Deliver
  BY <1>9, CInvDeliver
<1>10. CASE StreamGone
  BY <1>10, CInvStreamGone
<1>11. CASE StreamErrorStatus
  BY <1>11, CInvDown DEF StreamErrorStatus
<1>12. CASE StreamClosed
  BY <1>12, CInvFrame DEF StreamClosed
<1>13. CASE SendClosed
  BY <1>13, CInvFrame DEF SendClosed
<1>14. CASE HandleTidbEvent
  BY <1>14, CInvHandle
<1>15. CASE CleanBegin
  BY <1>15, CInvFrame DEF CleanBegin
<1>16. CASE CleanEnd
  <2>1. CASE proc' = "down"
    BY <1>16, <2>1, CInvDown DEF CleanEnd
  <2>2. CASE proc' # "down"
    BY <1>16, <2>2, CInvFrame DEF CleanEnd
  <2>. QED
    BY <2>1, <2>2
<1>17. CASE RunReturns
  BY <1>17, CInvDown DEF RunReturns
<1>18. CASE Restart
  BY <1>18 DEF Restart, CInv, NoClusters
<1>19. CASE UNCHANGED vars
  BY <1>19, CInvFrame DEF vars
<1>20. CASE Main
  BY <1>20, CInvFrame DEF Main
<1>21. CASE Signal
  BY <1>21, CInvDown DEF Signal
<1>. QED
  BY <1>1, <1>2, <1>3, <1>4, <1>5, <1>6, <1>7, <1>8, <1>9, <1>10, <1>11,
     <1>12, <1>13, <1>14, <1>15, <1>16, <1>17, <1>18, <1>19, <1>20, <1>21
  DEF Next

\* The cache and history invariants hold in every reachable state.
THEOREM CacheInvariant == Spec => [](IInv /\ HInv /\ CInv)
<1>1. Init => IInv /\ HInv /\ CInv
  BY InitIInv, HInvInit, CInvInit
<1>2. (IInv /\ HInv /\ CInv) /\ [Next]_vars => (IInv /\ HInv /\ CInv)'
  BY NextIInv, HInvNext, NextCInv DEF IInv
<1>. QED
  BY <1>1, <1>2, PTL DEF Spec

\* CacheCoversServer, checked by the watcher_safety run: while the process
\* serves, findAllDbs's seeding and handleTidbEvent's updates keep every
\* cluster that exists at the dispatcher's version cached at that version.
THEOREM CacheCovered == Spec => []CacheCoversServer
<1>1. CInv => CacheCoversServer
  BY DEF CInv, Covers, CacheCoversServer, Live
<1>. QED
  BY <1>1, CacheInvariant, PTL

\* NoUnsafeState, checked by the watcher_safety run: handleTidbEvent never
\* takes its "unsafe state" branch, since the list and the watch from the
\* list's version leave no gap before the event the dispatcher holds.
THEOREM NoUnsafe == Spec => []NoUnsafeState
<1>1. IInv /\ HInv /\ CInv => NoUnsafeState
  <2> SUFFICES ASSUME IInv, HInv, CInv, proc = "running", dpc = "handle",
                      hist[dEv].type # "Added"
               PROVE  dbs[hist[dEv].name] # 0
    BY DEF NoUnsafeState
  <2>1. dEv \in 1..Len(hist) /\ dbs \in [Names -> RV] /\ TypeOK
    BY DEF IInv, TypeOK, RV
  <2>2. Covers(dbs, dEv - 1)
    BY DEF CInv
  <2>. QED
    BY <2>1, <2>2, CovApply
<1>. QED
  BY <1>1, CacheInvariant, PTL

-----------------------------------------------------------------------------
(* The refinement of WatchCache.                                           *)

\* The abstract cache of the refinement mapping.
CacheMap == [n \in Live(ServerAt(CacheView)) |-> dbs[n]]

\* The abstract state at a version is the watcher's.
LEMMA CoveredIsServer ==
  ASSUME NEW v
  PROVE  Cache!Covered(v) = [n \in Live(ServerAt(v)) |-> ServerAt(v)[n]]
BY DEF Cache!Covered, Cache!ServerAt, ServerAt, NoClusters, Live

\* The mapped cache is always what WatchCache's view entitles to: at the
\* dispatcher's version while the process serves, empty otherwise.
LEMMA MapCovered ==
  ASSUME IInv, CInv
  PROVE  CacheMap = Cache!Covered(CacheView)
<1>1. CASE proc \in {"recycle", "running"}
  <2>1. Covers(dbs, CacheView)
    BY <1>1 DEF CInv, CacheView
  <2>. QED
    BY <2>1, CoveredIsServer DEF CacheMap, Covers, Live
<1>2. CASE proc \notin {"recycle", "running"}
  BY <1>2, CoveredIsServer DEF CacheMap, CacheView, ServerAt, NoClusters, Live
<1>. QED
  BY <1>1, <1>2

\* How a step moves the view: it keeps it, drops it to nothing, moves it
\* forward within the history, or the history grows behind it.
LEMMA ViewStep ==
  ASSUME IInv, [Next]_vars
  PROVE  \/ hist' = hist /\ CacheView' = CacheView
         \/ hist' = hist /\ CacheView' = 0
         \/ hist' = hist /\ CacheView' \in CacheView + 1 .. Len(hist)
         \/ /\ Len(hist) < MaxRV /\ \E e \in Event : hist' = Append(hist, e)
            /\ CacheView' = CacheView /\ CacheView \in 0..Len(hist)
<1>1. CacheView \in 0..Len(hist)
  BY DEF CacheView, IInv, TypeOK, RV
<1>2. CASE \E t \in EvTypes, n \in Names : ServerChange(t, n)
  <2>1. PICK t \in EvTypes, n \in Names : ServerChange(t, n)
    BY <1>2
  <2>2. Srv \in [Names -> RV]
    BY SrvType DEF IInv
  <2>3. [type |-> t, name |-> n,
         after |-> [Srv EXCEPT ![n] = IF t = "Deleted" THEN 0 ELSE Len(hist) + 1]]
          \in Event
    <3>1. Len(hist) + 1 \in RV /\ 0 \in RV
      BY <2>1 DEF ServerChange, RV, IInv, TypeOK
    <3>2. [Srv EXCEPT ![n] = IF t = "Deleted" THEN 0 ELSE Len(hist) + 1] \in [Names -> RV]
      BY <2>2, <3>1
    <3>. QED
      BY <3>2 DEF Event
  <2>. QED
    BY <1>1, <2>1, <2>3 DEF ServerChange, CacheView
<1>3. CASE InitResource
  BY <1>3 DEF InitResource, CacheView, IInv, TypeOK, RV
<1>4. CASE HandleTidbEvent
  BY <1>4 DEF HandleTidbEvent, CacheView, IInv, TypeOK, RV
<1>5. CASE ~(\E t \in EvTypes, n \in Names : ServerChange(t, n))
           /\ ~InitResource /\ ~HandleTidbEvent
  BY <1>5 DEF Next, vars, CacheView, Main, Signal, Compact, VolumeCreated, Recycle,
     RecycleFails, WatchStart, StreamEvent, Deliver, StreamGone,
     StreamErrorStatus, StreamClosed, SendClosed, CleanBegin, CleanEnd,
     RunReturns, Restart
<1>. QED
  BY <1>2, <1>3, <1>4, <1>5

\* The refinement mapping's cache is the one its view entitles to.
MapEq == CacheMap = Cache!Covered(CacheView)

\* Every step of the watcher is a step of WatchCache or leaves the mapped
\* state alone.
LEMMA RefineStep ==
  ASSUME IInv, MapEq, MapEq', [Next]_vars
  PROVE  [Cache!Next]_<<hist, CacheView, CacheMap>>
<1>1. CacheMap' = Cache!Covered(CacheView)' /\ CacheMap = Cache!Covered(CacheView)
  BY DEF MapEq
<1>2. CASE hist' = hist /\ CacheView' = CacheView
  <2>1. Cache!Covered(CacheView)' = Cache!Covered(CacheView)
    BY <1>2 DEF Cache!Covered, Cache!ServerAt
  <2>. QED
    BY <1>1, <1>2, <2>1
<1>3. CASE hist' = hist /\ CacheView' = 0
  <2>1. Cache!Covered(CacheView)' = Cache!Covered(0)
    BY <1>3 DEF Cache!Covered, Cache!ServerAt
  <2>. QED
    BY <1>1, <1>3, <2>1 DEF Cache!Next, Cache!Reset, CacheMap
<1>4. CASE hist' = hist /\ CacheView' \in CacheView + 1 .. Len(hist)
  <2>1. Cache!Covered(CacheView)' = Cache!Covered(CacheView')
    BY <1>4 DEF Cache!Covered, Cache!ServerAt
  <2>2. Cache!Advance
    BY <1>1, <1>4, <2>1 DEF Cache!Advance, CacheMap
  <2>. QED
    BY <2>2 DEF Cache!Next
<1>5. CASE /\ Len(hist) < MaxRV /\ \E e \in Event : hist' = Append(hist, e)
           /\ CacheView' = CacheView /\ CacheView \in 0..Len(hist)
  <2>1. PICK e \in Event : hist' = Append(hist, e)
    BY <1>5
  <2>2. \A v \in 0..Len(hist) : ServerAt(v)' = ServerAt(v)
    BY <2>1, ServerAtAppend DEF IInv
  <2>3. Cache!Covered(CacheView)' = Cache!Covered(CacheView)
    <3>1. ServerAt(CacheView)' = ServerAt(CacheView)
      BY <1>5, <2>2
    <3>. QED
      BY <3>1 DEF Cache!Covered, Cache!ServerAt, ServerAt, NoClusters
  <2>4. Cache!Change
    BY <1>1, <1>5, <2>1, <2>3 DEF Cache!Change, Cache!Event, Cache!RV, Event, EvTypes, RV, CacheMap
  <2>. QED
    BY <2>4 DEF Cache!Next
<1>. QED
  BY <1>2, <1>3, <1>4, <1>5, ViewStep

\* CacheRefinement, checked by the watcher_safety run: the watcher's cache
\* behaves as WatchCache allows.  findAllDbs seeds it at the list's version,
\* each handleTidbEvent moves it forward to the event's version with every
\* live cluster cached there, and only a stop of the process resets it.
THEOREM Refinement == Spec => CacheRefinement
<1>1. Init => Cache!Init
  BY DEF Init, Cache!Init, Cache!Covered, Cache!ServerAt, CacheView,
     ServerAt, NoClusters, Live
<1>2. IInv /\ HInv /\ CInv => IInv /\ MapEq
  BY MapCovered DEF MapEq
<1>3. Spec => [](IInv /\ MapEq)
  BY <1>2, CacheInvariant, PTL
<1>4. (IInv /\ MapEq) /\ (IInv /\ MapEq)' /\ [Next]_vars
        => [Cache!Next]_<<hist, CacheView, CacheMap>>
  BY RefineStep
<1>. QED
  BY <1>1, <1>3, <1>4, PTL DEF Spec, CacheRefinement, Cache!Spec, CacheMap

=============================================================================
