------------------------------ MODULE Watcher ------------------------------
(***************************************************************************)
(* The garbage-collection watcher of garbagecollection/watcher.go and its  *)
(* main: the process start (main, with a signal ending it at any moment), *)
(* the start-up (initResource with its retry loop, recycle), the watch     *)
(* goroutine (watch), the event dispatcher (handleTidbEvent), the periodic *)
(* cleaner (cleanClusters), Run returning on the error channel, and the    *)
(* process being restarted by the platform after it exits.                 *)
(*                                                                         *)
(* The API server is the environment: a history of events whose version   *)
(* is the event's index (every change of a cluster gets the next resource  *)
(* version), compaction of that history, and the host-path volume of a    *)
(* live cluster appearing on this node.  A cluster is a name; its store    *)
(* volume on this node is keyed by that name.                              *)
(***************************************************************************)
EXTENDS Naturals, Sequences

CONSTANTS
  Names,        \* cluster names (model values)
  MaxRV,        \* bound on the number of server-side changes
  Provisioner   \* the configured PV provisioner, "hostpath" or "none"

ASSUME NamesAssumption == Names # {}
ASSUME MaxRVAssumption == MaxRV \in Nat
ASSUME ProvisionerAssumption == Provisioner \in {"hostpath", "none"}

EvTypes == {"Added", "Modified", "Deleted"}
RV == 0..MaxRV            \* 0 stands for "no such cluster"
Event == [type : EvTypes, name : Names, after : [Names -> RV]]
Errors == {"watchErr", "outdated", "closed"}
NoGc == [name |-> "none", passed |-> 0, before |-> 0]

VARIABLES
  hist,       \* the API server's event history; event i has version i
  compacted,  \* versions <= compacted are no longer served by a watch
  disk,       \* cluster names whose host-path volume exists on this node
  proc,       \* "main" | "init" | "recycle" | "running" | "down"
  dbs,        \* w.dbs / w.dbRVs: cached version of each cluster, 0 = absent
  applied,    \* version up to which the dispatcher's cache reflects the server
  wv,         \* watchVersion of the watch goroutine
  wpc,        \* watch goroutine: "watch" | "recv" | "send" | "closed" | "done"
  chanEv,     \* version of the event the watch goroutine offers on eventCh
  dpc,        \* dispatcher: "idle" | "handle"
  dEv,        \* version of the event the dispatcher is handling
  cpc,        \* cleaner goroutine: "sleep" | "iter"
  errCh,      \* the error channel, capacity 1
  lastGc      \* arguments of the last gc call, with the cache entry before it

vars == <<hist, compacted, disk, proc, dbs, applied, wv, wpc, chanEv,
          dpc, dEv, cpc, errCh, lastGc>>

(***************************************************************************)
(* The server's view: each event records the versions of all clusters     *)
(* after it (0 when a cluster does not exist); the state at version v.     *)
(***************************************************************************)
NoClusters == [n \in Names |-> 0]

ServerAt(v) == IF v = 0 THEN NoClusters ELSE hist[v].after

Srv == ServerAt(Len(hist))

Live(f) == {n \in Names : f[n] # 0}

-----------------------------------------------------------------------------
(* The platform: cluster changes, history compaction, volumes.             *)

ServerChange(t, n) ==
  /\ Len(hist) < MaxRV
  /\ IF t = "Added" THEN Srv[n] = 0 ELSE Srv[n] # 0
  /\ hist' = Append(hist, [type |-> t, name |-> n,
                            after |-> [Srv EXCEPT ![n] =
                                         IF t = "Deleted" THEN 0 ELSE Len(hist) + 1]])
  /\ UNCHANGED <<compacted, disk, proc, dbs, applied, wv, wpc, chanEv,
                 dpc, dEv, cpc, errCh, lastGc>>

Compact ==
  /\ compacted < Len(hist)
  /\ compacted' = Len(hist)
  /\ UNCHANGED <<hist, disk, proc, dbs, applied, wv, wpc, chanEv,
                 dpc, dEv, cpc, errCh, lastGc>>

VolumeCreated(n) ==
  /\ Srv[n] # 0
  /\ n \notin disk
  /\ disk' = disk \cup {n}
  /\ UNCHANGED <<hist, compacted, proc, dbs, applied, wv, wpc, chanEv,
                 dpc, dEv, cpc, errCh, lastGc>>

-----------------------------------------------------------------------------
(* The process: main builds the client and the config and panics on an    *)
(* error; the signal goroutine exits the process whenever a signal comes. *)

\* Config.Validate: the provisioner is one of supportedPVProvisioners.
SupportedPVProvisioners == {"hostpath", "none"}

\* main up to w.Run(): the node name and the TPR client, each of which
\* panics on an error, then Validate (main passes the host-path provisioner,
\* so it cannot fail) and NewWatcher's empty maps.
Main ==
  /\ proc = "main"
  /\ \/ Provisioner \in SupportedPVProvisioners /\ proc' = "init"
     \/ proc' = "down"                    \* os.Hostname or the TPR client fails
  /\ UNCHANGED <<hist, compacted, disk, dbs, applied, wv, wpc, chanEv, dpc,
                 dEv, cpc, errCh, lastGc>>

\* SIGHUP, SIGINT, SIGTERM or SIGQUIT: os.Exit, whatever the goroutines are
\* doing (before signal.Notify the default disposition also terminates).
Signal ==
  /\ proc # "down"
  /\ proc' = "down"
  /\ UNCHANGED <<hist, compacted, disk, dbs, applied, wv, wpc, chanEv, dpc,
                 dEv, cpc, errCh, lastGc>>

-----------------------------------------------------------------------------
(* Start-up: Run's retry loop around initResource, then recycle.           *)

\* Mutants of findAllDbs: the listed clusters are not written into the
\* maps; entries already cached are not overwritten.
ListIntoNothing(cache) == cache
ListIntoStale(cache) == [n \in Names |-> IF cache[n] # 0 THEN cache[n] ELSE Srv[n]]

\* findAllDbs writes every listed cluster into the maps, which are never
\* cleared: entries from an earlier failed attempt stay.
ListInto(cache) == [n \in Names |-> IF Srv[n] # 0 THEN Srv[n] ELSE cache[n]]

\* Mutant: the watch starts from the initial watchVersion "0" instead of
\* the list's version.
InitResourceFromZero ==
  /\ proc = "init"
  /\ \/ /\ UNCHANGED <<proc, dbs, applied, wv>>
     \/ /\ Provisioner = "hostpath"
        /\ dbs' = ListInto(dbs)
        /\ UNCHANGED <<proc, applied, wv>>
     \/ /\ dbs' = ListInto(dbs)
        /\ applied' = Len(hist)
        /\ wv' = 0
        /\ proc' = "recycle"
  /\ UNCHANGED <<hist, compacted, disk, wpc, chanEv, dpc, dEv, cpc, errCh,
                 lastGc>>

\* initResource: CreateTPR, findAllDbs, then the provisioner switch, where
\* only the host-path branch can still fail (GetMetadata).
InitResource ==
  /\ proc = "init"
  /\ \/ /\ UNCHANGED <<proc, dbs, applied, wv>>            \* CreateTPR or list fails
     \/ /\ Provisioner = "hostpath"                        \* GetMetadata fails
        /\ dbs' = ListInto(dbs)
        /\ UNCHANGED <<proc, applied, wv>>
     \/ /\ dbs' = ListInto(dbs)                            \* success
        /\ applied' = Len(hist)
        /\ wv' = Len(hist)
        /\ proc' = "recycle"
  /\ UNCHANGED <<hist, compacted, disk, wpc, chanEv, dpc, dEv, cpc, errCh,
                 lastGc>>

\* Mutant: the host-path configuration ends up with the nil provisioner.
CleanVolumesNil(live) == disk

\* pvProvisioner.Clean(all stores of w.dbs): the host-path provisioner
\* removes every volume that is not in the list; the nil one does nothing.
CleanVolumes(live) == IF Provisioner = "hostpath" THEN disk \cap live ELSE disk

Recycle ==
  /\ proc = "recycle"
  /\ disk' = CleanVolumes(Live(dbs))
  /\ proc' = "running"
  /\ wpc' = "watch"
  /\ UNCHANGED <<hist, compacted, dbs, applied, wv, chanEv, dpc, dEv, cpc,
                 errCh, lastGc>>

RecycleFails ==
  /\ proc = "recycle"
  /\ proc' = "down"
  /\ UNCHANGED <<hist, compacted, disk, dbs, applied, wv, wpc, chanEv, dpc,
                 dEv, cpc, errCh, lastGc>>

-----------------------------------------------------------------------------
(* The watch goroutine.                                                    *)

\* Mutant: a send that does not respect the channel's capacity of 1.
SendErrUncapped(e) == errCh' = Append(errCh, e)

SendErr(e) ==
  /\ Len(errCh) = 0
  /\ errCh' = <<e>>

\* k8sutil.WatchTidbs: on error the goroutine sends it and returns.
WatchStart ==
  /\ proc = "running" /\ wpc = "watch"
  /\ \/ wpc' = "recv" /\ UNCHANGED errCh
     \/ SendErr("watchErr") /\ wpc' = "done"
  /\ UNCHANGED <<hist, compacted, disk, proc, dbs, applied, wv, chanEv, dpc,
                 dEv, cpc, lastGc>>

\* A normal event: the cursor advances to its version, then eventCh <- ev.
StreamEvent ==
  /\ proc = "running" /\ wpc = "recv"
  /\ compacted <= wv /\ wv < Len(hist)
  /\ wv' = wv + 1
  /\ chanEv' = wv + 1
  /\ wpc' = "send"
  /\ UNCHANGED <<hist, compacted, disk, proc, dbs, applied, dpc, dEv, cpc,
                 errCh, lastGc>>

\* The unbuffered eventCh: the hand-over to the dispatcher.
Deliver ==
  /\ proc = "running" /\ wpc = "send" /\ dpc = "idle"
  /\ dpc' = "handle"
  /\ dEv' = chanEv
  /\ wpc' = "recv"
  /\ UNCHANGED <<hist, compacted, disk, proc, dbs, applied, wv, chanEv, cpc,
                 errCh, lastGc>>

\* isDbsCacheUnstable: the relisted set differs from the cached versions.
DbsCacheUnstable(cache) ==
  \/ Live(cache) # Live(Srv)
  \/ \E n \in Live(Srv) : cache[n] # Srv[n]

\* A read of the maps while the dispatcher holds an event it has not yet
\* written is a data race: the Go runtime may stop the process.
MapRace == dpc = "handle"

\* 410 Gone: relist; if stable resume from the list version and leave the
\* inner loop, otherwise (or when the relist fails) send ErrVersionOutdated.
StreamGone ==
  /\ proc = "running" /\ wpc = "recv"
  /\ wv < compacted
  /\ \/ /\ MapRace                                    \* fatal map race
        /\ proc' = "down"
        /\ UNCHANGED <<wv, wpc, errCh>>
     \/ /\ ~DbsCacheUnstable(dbs)
        /\ wv' = Len(hist)
        /\ wpc' = "closed"
        /\ UNCHANGED <<proc, errCh>>
     \/ /\ SendErr("outdated")
        /\ wpc' = "done"
        /\ UNCHANGED <<proc, wv>>
  /\ UNCHANGED <<hist, compacted, disk, dbs, applied, chanEv, dpc, dEv, cpc,
                 lastGc>>

\* Any other error status: parse returns no event, and after logging the
\* status the loop dereferences ev.Object (watcher.go:303): a nil pointer
\* panic that ends the process.
StreamErrorStatus ==
  /\ proc = "running" /\ wpc = "recv"
  /\ proc' = "down"
  /\ UNCHANGED <<hist, compacted, disk, dbs, applied, wv, wpc, chanEv, dpc,
                 dEv, cpc, errCh, lastGc>>

\* The server closes the stream (watch timeout).
StreamClosed ==
  /\ proc = "running" /\ wpc = "recv"
  /\ wpc' = "closed"
  /\ UNCHANGED <<hist, compacted, disk, proc, dbs, applied, wv, chanEv, dpc,
                 dEv, cpc, errCh, lastGc>>

\* After the inner loop: errCh <- errors.New("test"), then watch again.
SendClosed ==
  /\ proc = "running" /\ wpc = "closed"
  /\ SendErr("closed")
  /\ wpc' = "watch"
  /\ UNCHANGED <<hist, compacted, disk, proc, dbs, applied, wv, chanEv, dpc,
                 dEv, cpc, lastGc>>

-----------------------------------------------------------------------------
(* The dispatcher: handleTidbEvent.                                        *)

\* Mutant: Modified stores the object but leaves w.dbRVs at the old version.
HandleTidbEventStaleRV ==
  /\ proc = "running" /\ dpc = "handle"
  /\ LET e == hist[dEv]
         n == e.name
     IN  \/ /\ e.type = "Added"
            /\ dbs' = [dbs EXCEPT ![n] = dEv]
            /\ UNCHANGED lastGc
         \/ /\ e.type # "Added"
            /\ dbs[n] = 0
            /\ UNCHANGED <<dbs, lastGc>>
         \/ /\ e.type = "Modified"
            /\ dbs[n] # 0
            /\ UNCHANGED dbs
            /\ lastGc' = [name |-> n, passed |-> dbs'[n], before |-> dbs[n]]
         \/ /\ e.type = "Deleted"
            /\ dbs[n] # 0
            /\ dbs' = [dbs EXCEPT ![n] = 0]
            /\ lastGc' = [name |-> n, passed |-> dbs'[n], before |-> dbs[n]]
  /\ applied' = dEv
  /\ dpc' = "idle"
  /\ UNCHANGED <<hist, compacted, disk, proc, wv, wpc, chanEv, dEv, cpc, errCh>>

\* Added and Modified store the object; Modified and Deleted on a name not
\* in the cache return "unsafe state" and change nothing.  gc is called
\* with w.dbs[name] read after the cache has been written.
HandleTidbEvent ==
  /\ proc = "running" /\ dpc = "handle"
  /\ LET e == hist[dEv]
         n == e.name
     IN  \/ /\ e.type = "Added"
            /\ dbs' = [dbs EXCEPT ![n] = dEv]
            /\ UNCHANGED lastGc
         \/ /\ e.type # "Added"
            /\ dbs[n] = 0
            /\ UNCHANGED <<dbs, lastGc>>
         \/ /\ e.type = "Modified"
            /\ dbs[n] # 0
            /\ dbs' = [dbs EXCEPT ![n] = dEv]
            /\ lastGc' = [name |-> n, passed |-> dbs'[n], before |-> dbs[n]]
         \/ /\ e.type = "Deleted"
            /\ dbs[n] # 0
            /\ dbs' = [dbs EXCEPT ![n] = 0]
            /\ lastGc' = [name |-> n, passed |-> dbs'[n], before |-> dbs[n]]
  /\ applied' = dEv
  /\ dpc' = "idle"
  /\ UNCHANGED <<hist, compacted, disk, proc, wv, wpc, chanEv, dEv, cpc, errCh>>

-----------------------------------------------------------------------------
(* The cleaner goroutine: every 30s, range over w.dbs and delete each      *)
(* cluster's buried stores.  Writing the map while it ranges is a race.    *)

CleanBegin ==
  /\ proc = "running" /\ cpc = "sleep"
  /\ cpc' = "iter"
  /\ UNCHANGED <<hist, compacted, disk, proc, dbs, applied, wv, wpc, chanEv,
                 dpc, dEv, errCh, lastGc>>

CleanEnd ==
  /\ proc = "running" /\ cpc = "iter"
  /\ \/ cpc' = "sleep" /\ UNCHANGED proc
     \/ MapRace /\ proc' = "down" /\ UNCHANGED cpc   \* fatal map race
  /\ UNCHANGED <<hist, compacted, disk, dbs, applied, wv, wpc, chanEv, dpc,
                 dEv, errCh, lastGc>>

-----------------------------------------------------------------------------
(* Run returns the first error; main panics; the platform restarts the     *)
(* process with empty maps (disk volumes survive).                         *)

RunReturns ==
  /\ proc = "running" /\ errCh # <<>>
  /\ proc' = "down"
  /\ UNCHANGED <<hist, compacted, disk, dbs, applied, wv, wpc, chanEv, dpc,
                 dEv, cpc, errCh, lastGc>>

Restart ==
  /\ proc = "down"
  /\ proc' = "main"
  /\ dbs' = NoClusters
  /\ applied' = 0
  /\ wv' = 0
  /\ wpc' = "watch"
  /\ chanEv' = 0
  /\ dpc' = "idle"
  /\ dEv' = 0
  /\ cpc' = "sleep"
  /\ errCh' = <<>>
  /\ lastGc' = NoGc
  /\ UNCHANGED <<hist, compacted, disk>>

-----------------------------------------------------------------------------
Init ==
  /\ hist = <<>>
  /\ compacted = 0
  /\ disk = {}
  /\ proc = "main"
  /\ dbs = NoClusters
  /\ applied = 0
  /\ wv = 0
  /\ wpc = "watch"
  /\ chanEv = 0
  /\ dpc = "idle"
  /\ dEv = 0
  /\ cpc = "sleep"
  /\ errCh = <<>>
  /\ lastGc = NoGc

Next ==
  \/ \E t \in EvTypes, n \in Names : ServerChange(t, n)
  \/ Compact
  \/ \E n \in Names : VolumeCreated(n)
  \/ Main \/ Signal
  \/ InitResource \/ Recycle \/ RecycleFails
  \/ WatchStart \/ StreamEvent \/ Deliver \/ StreamGone
  \/ StreamErrorStatus \/ StreamClosed \/ SendClosed
  \/ HandleTidbEvent
  \/ CleanBegin \/ CleanEnd
  \/ RunReturns \/ Restart

Spec == Init /\ [][Next]_vars

-----------------------------------------------------------------------------
TypeOK ==
  /\ hist \in Seq(Event) /\ Len(hist) <= MaxRV
  /\ compacted \in 0..Len(hist)
  /\ disk \subseteq Names
  /\ proc \in {"main", "init", "recycle", "running", "down"}
  /\ dbs \in [Names -> RV]
  /\ applied \in RV /\ wv \in RV /\ chanEv \in RV /\ dEv \in RV
  /\ wpc \in {"watch", "recv", "send", "closed", "done"}
  /\ dpc \in {"idle", "handle"}
  /\ cpc \in {"sleep", "iter"}
  /\ errCh \in Seq(Errors) /\ Len(errCh) <= 1
  /\ lastGc \in [name : Names \cup {"none"}, passed : RV, before : RV]

-----------------------------------------------------------------------------
(* Properties.                                                             *)

\* The dispatcher never meets a Modified or Deleted event for a cluster its
\* cache does not hold (the "unsafe state" error of handleTidbEvent): the
\* list at start-up and the watch from the list's version leave no gap.
NoUnsafeState ==
  (proc = "running" /\ dpc = "handle" /\ hist[dEv].type # "Added")
     => dbs[hist[dEv].name] # 0

\* Every cluster that exists on the server at the version the dispatcher
\* has reached is cached with exactly that version (findAllDbs seeding,
\* handleTidbEvent updating); the cache may hold more names than that.
CacheCoversServer ==
  proc \in {"recycle", "running"} =>
     \A n \in Live(ServerAt(applied)) : dbs[n] = ServerAt(applied)[n]

\* The cache is exactly the server's state at the version the dispatcher has
\* reached (spec 4.1: start-up seeds the cluster store from the list).
CacheMatchesServer ==
  proc \in {"recycle", "running"} => dbs = ServerAt(applied)

\* The dispatcher applies events in strictly increasing version order and
\* never one its cache already reflects (watch cursor and eventCh order).
EventsHandledInOrder ==
  [][(proc = "running" /\ dpc = "handle" /\ dpc' = "idle") => dEv > applied]_vars

\* When a 410 Gone relist is judged stable and the watch resumes from the
\* list's version, the events skipped over changed no cluster
\* (isDbsCacheUnstable compares count and every name/version pair).
StableVerdictSound ==
  [][(wpc = "recv" /\ wpc' = "closed" /\ proc' = "running")
        => ServerAt(wv) = ServerAt(wv')]_vars

\* Run returns only an unrecoverable error: a failed watch request or
\* ErrVersionOutdated (spec 4.1); a closed stream or a stable relist resumes.
RunErrorIsFatal ==
  errCh # <<>> => errCh[1] \in {"watchErr", "outdated"}

\* A host-path volume is only ever removed when its cluster does not exist
\* on the server (recycle's Clean works from the start-up list).
NoLiveVolumeDeleted ==
  [][\A n \in disk \ disk' : Srv[n] = 0]_vars

\* gc is handed the cluster's cache entry as it was before the event, so it
\* can compare old and new (Modified) or know what was orphaned (Deleted).
GcSeesPrevious == lastGc.passed = lastGc.before

\* The cleaner never ranges over w.dbs while the dispatcher is about to write
\* it (spec 5: the cache is owned by the dispatch goroutine).
MapsNotShared == proc = "running" => ~(cpc = "iter" /\ dpc = "handle")

\* A volume whose cluster no longer exists is eventually removed, unless the
\* cluster is created again.
OrphanVolumeReclaimed ==
  \A n \in Names : (n \in disk /\ Srv[n] = 0) ~> (n \notin disk \/ Srv[n] # 0)

-----------------------------------------------------------------------------
(* Refinement: the cache implements WatchCache.  The view is the version  *)
(* the dispatcher has reached while the process serves (from the end of   *)
(* initResource on), and nothing while it starts or is down; the abstract *)
(* cache is w.dbs on the clusters live at that view.                      *)

CacheView == IF proc \in {"recycle", "running"} THEN applied ELSE 0

Cache == INSTANCE WatchCache WITH
           view <- CacheView,
           cache <- [n \in Live(ServerAt(CacheView)) |-> dbs[n]]

\* The watcher's cache behaves as WatchCache allows: start-up seeds it at
\* the list's version, each handled event moves it forward to that event's
\* version with every live cluster cached at its version, and only a stop
\* of the process takes it back (findAllDbs, handleTidbEvent, Run/main).
CacheRefinement == Cache!Spec

-----------------------------------------------------------------------------
(* Fairness: the goroutines run; the platform restarts an exited process;  *)
(* main, initialisation and Clean eventually succeed when retried, however *)
(* often a signal or an error cut earlier attempts short; the server       *)
(* eventually closes every watch stream (its watch timeout).               *)

Fairness ==
  /\ SF_vars(Main /\ proc' = "init") /\ SF_vars(InitResource /\ proc' = "recycle")
  /\ SF_vars(Recycle)
  /\ WF_vars(WatchStart) /\ WF_vars(Deliver) /\ WF_vars(HandleTidbEvent)
  /\ WF_vars(StreamGone) /\ SF_vars(StreamClosed) /\ WF_vars(SendClosed)
  /\ WF_vars(RunReturns) /\ WF_vars(Restart)

FairSpec == Spec /\ Fairness

=============================================================================
