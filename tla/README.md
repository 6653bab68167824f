# Formal models of tidb-operator

These are TLA+ models of the tidb-operator repository, checked with TLC and
partly proved with TLAPS. Source paths below are relative to the repository
root (`src/...`).

## 1. The system and its parts

| Part | Source | Module | Status |
|---|---|---|---|
| Watch controller (garbage-collection watcher) | `src/garbagecollection/watcher.go`, `src/unnamed/part_000` (main) | `Watcher`, abstract `WatchCache` | modelled |
| Garbage collector (recycle, cleanClusters, gc, provisioner Clean) | `src/garbagecollection/watcher.go` | `Watcher` | partly |
| Tidb reconciler (install, waitForOk, upgrade, scale, uninstall) | `src/unnamed/part_001` | `Tidb` | modelled |
| Process entry and signals | `src/unnamed/part_000` | `Watcher` (`Main`, `Signal`, panic and restart; not the flag parsing) | partly |
| Job helper (CreateAndWaitJob, DeleteJob) | `src/pkg/util/k8sutil/job.go` | `Job` | modelled |
| Manifest templates | `src/operator/template.go` | none | not modelled: YAML text |
| Migration test | `src/operator/db_test.go` | none | not modelled: a test |

**How the parts interact.** `main` builds a `Watcher` and calls `Run`. It
panics if it cannot get the node name or the TPR client. A signal goroutine
calls `os.Exit` as soon as any of four signals arrives. If `Run` returns an
error, `main` panics. In every case the platform restarts the process.
The new process starts with empty maps, but the host-path volumes on disk
survive.

`Run` works in this order:

1. It retries `initResource` every 30 s until it succeeds. `initResource`
   runs CreateTPR, then `findAllDbs` (which fills `w.dbs` and `w.dbRVs`),
   then GetMetadata for the host-path provisioner.
2. It runs `recycle`, which calls `Clean` with the stores of the listed
   clusters.
3. It starts three goroutines:
   - the cleaner, which every 30 s ranges over `w.dbs`;
   - the watch goroutine;
   - the dispatcher, which reads the unbuffered `eventCh` and calls
     `handleTidbEvent`.
4. It blocks on `errCh`, which has capacity 1.

The watch goroutine opens a watch from `watchVersion` and forwards each event.
On 410 Gone it relists and compares the list with `w.dbRVs`
(`isDbsCacheUnstable`). Every exit of its receive loop sends an error.

The Tidb reconciler drives a replication controller, its pods and a service.
Every operation ends in the health gate `waitForOk`, which counts ready pods
and probes a status URL with a bounded number of retries.

**Hard behaviours that a test would hardly reach:**
- three goroutines share the two maps without a lock;
- the watch and the dispatcher hand events over a rendezvous channel;
- watch history is compacted (410 Gone), streams close, and the process
  crashes (a panic, or a signal at any step) and restarts;
- start-up is retried after a partial success;
- a scale operation fails after `td.Replicas` has already been written;
- the upgrade probes the pod it just deleted.

## 2. Modules

### `Watcher` (watcher.go, main)

**The API server.** The server is the history `hist` of cluster events. The
index of an event is its resource version. Each event also records `after`,
the version of every cluster after the event, so `ServerAt(v)` is the
server's state at version v.

The environment can:
- add, modify or delete a cluster (`ServerChange`, at most `MaxRV` changes);
- compact the history (`Compact`);
- make a live cluster's host-path volume appear on this node (`VolumeCreated`).

**The process.** `proc` is `"main"` before `Run`, then `"init"` in the
retry loop, `"recycle"`, `"running"`, and `"down"` after an exit. `dbs` abstracts `w.dbs` and `w.dbRVs` together: it maps each
name to its cached resource version, with 0 meaning absent. Each goroutine has
a program counter: `proc` for Run, `wpc` for watch, `dpc` for the dispatcher
and `cpc` for the cleaner. `errCh` is a sequence of length at most 1.

| Action | Code |
|---|---|
| `Main` | `main` up to `NewWatcher`: the panics on the node name and the TPR client, `Validate` |
| `Signal` | the signal goroutine's `os.Exit`, at any step |
| `InitResource` | `initResource` with `findAllDbs` (`ListInto`), including the failure after the list |
| `Recycle`, `RecycleFails` | `recycle` and `Clean` |
| `WatchStart` | `WatchTidbs`, or its error |
| `StreamEvent` | the cursor update at 303 |
| `Deliver` | the rendezvous on `eventCh` |
| `StreamGone` | 410 Gone: relist with `DbsCacheUnstable` |
| `StreamErrorStatus` | any other status: the nil dereference at 303 panics |
| `StreamClosed`, `SendClosed` | the closed result channel, then line 306 |
| `HandleTidbEvent` | `handleTidbEvent`, including the unsafe-state returns and the arguments of `gc` |
| `CleanBegin`, `CleanEnd` | the `cleanClusters` loop |
| `RunReturns`, `Restart` | `return <-errCh`, then the panic in main and the restart |

**Data races.** A Go map written while it is ranged over is undefined
behaviour. The runtime detects it and aborts, so it is modelled as a
nondeterministic crash (`MapRace`). It can happen when the cleaner finishes or
when the relist reads `dbRVs` while the dispatcher is writing.

### `WatchCache` (the promise of the watcher's cache)

`WatchCache` is the abstract specification of what the cache gives the
rest of the operator. The server is a history of versioned changes. The
cache has a `view`, the version of that history it has reached. Three
actions change the state:
- `Change`: the server records a change;
- `Advance`: the view moves forward to a later version of the history, and
  the cache becomes exactly the clusters live there, at their versions;
- `Reset`: the process stops and the cache is gone.

`Watcher` defines the refinement mapping and checks it as the property
`CacheRefinement == Cache!Spec`:
- `view` is `CacheView`: `applied` while the process is in recycle or
  running, and 0 otherwise;
- `cache` is `dbs` restricted to the clusters live at that view.

Names the server has deleted may stay in `dbs`, so the mapping restricts
the cache to live names. The abstract spec promises coverage, not
forgetting.

### `Tidb` (part_001)

**Environment.** The replication controller `rc` creates pods under fresh
names (the smallest unused id) up to its count, and removes extra pods. Pods
become ready and lose readiness.

**Operations.** One operation runs at a time, and `pc` is its step. Every
platform call that can fail is a disjunct that ends the operation with the
code's error path. The operations are:
- `InstallBegin`, `InstallSvc`, `InstallRc`, together with the deferred phase
  update;
- the gate steps `GatePass`, `GateRetry`, `GateTimeout` and `GateError`;
  `GateReturn` holds what each caller does when the gate returns;
- `UpgradeBegin` and `UpgradeNext`, which handle one pod at a time in list
  order;
- `ScaleCheckStatus`, `ScaleReject` and `ScaleAccept`, for `reconcileTidbs`;
- `Uninstall`.

`cur` is `td.cur`, with 0 meaning "".

**Phase ordering.** The ordering of phases is not in the source tree, so
`PhaseRank` follows spec 4.2: Started is the phase upgrades run from and
StartFailed is terminal, so StartFailed ranks below Started. `UpgradeBegin`
returns early, doing nothing, while the phase ranks below Started
(part_001:39), that is in None, Pending and StartFailed. Only the other
branches call `upgradeRC` and `GetPods`.

### `Job` (job.go)

**Environment.** The job controller starts a pod (the smallest unused name)
when the job exists and has no active pod, and a pod can fail. A job
deletion without a propagation policy orphans the job's running pods: they
keep running and keep the `job-name` label.

**Helpers.** One caller uses the helpers for one job, one call at a time. `pc`
is `"wait"` while `CreateAndWaitJob` polls, and `op`/`err` record what the last
helper returned.

| Action | Code |
|---|---|
| `CreateBegin` | `CreateAndWaitJobByJSON` and `Create` (26-30); AlreadyExists, or a failed call that may still have created the job |
| `WaitPoll` | one attempt of the retry at 33-46: a Get error ends the wait, `Status.Active == 1` ends it with success, otherwise retry until `int(timeout/interval)` attempts are used |
| `DeleteJob` | `Delete`, the `IsNotFound` test at 52, then `DeletePodsByLabel` |

The contract of `retryutil.Retry` is not in the source tree. It is taken from
the spec: an error from the function stops the retry, and running out of
attempts is an error.

## 3. Runs

| Run | Expect | Shows |
|---|---|---|
| watcher_safety | pass | `TypeOK`. `CacheCoversServer`: every cluster that exists at the dispatcher's version is cached with that version, across retries, relists, closes, signals and restarts. `NoUnsafeState`: the unsafe-state error never happens. `EventsHandledInOrder`: events are applied in strictly increasing version order. `CacheRefinement`: the watcher implements `WatchCache`. |
| watcher_liveness | pass | `OrphanVolumeReclaimed`: an orphaned host-path volume is eventually removed by the recycle of a later start, even when signals and errors cut some starts short. |
| watcher_stable_gone | violation | `StableVerdictSound`: the relist compares against a cache that still misses the event the dispatcher holds. An Added-then-Deleted window is judged stable, which leaves a ghost cluster. |
| watcher_init_ghost | violation | `CacheMatchesServer`: a retried start-up keeps entries from the earlier list. |
| watcher_run_returns | violation | `RunErrorIsFatal`: a closed stream or a stable relist sends `errors.New("test")`, so Run returns. |
| watcher_recycle_race | violation | `NoLiveVolumeDeleted`: recycle deletes the volume of a cluster created after the list. |
| watcher_gc_args | violation | `GcSeesPrevious`: gc gets (new, new) on Modified and (nil, nil) on Deleted. |
| watcher_map_race | violation | `MapsNotShared`: the cleaner ranges over `w.dbs` while the dispatcher writes it. |
| tidb_safety | pass | `TypeOK` and `ReplicasWithinBounds`. `ReplicaDivergenceFlagged`: a controller count that differs from `td.Replicas` is flagged. `PendingOnlyBeforeDeploy`: a cluster idle in Pending has neither service nor controller, because install's deferred function leaves Pending on every path after the save. `OperationsReturn`: every operation, including the bounded retry of `waitForOk`, returns. |
| job_wait | pass | `TypeOK`, across creates, deletes, failed pods and failed calls: in particular the wait's attempt counter never passes its bound. |
| job_delete | violation | `DeleteReclaimsPods`: after a successful delete, `DeleteJob` returns nil at line 53 and never deletes the labelled pods, which keep running as orphans. |
| tidb_upgrade_probe | violation | `GateTimesOutOnlyWhenUnhealthy`: starting from a Started cluster, the upgrade gate probes the deleted pod's name and times out although every replica is ready. |

Every property of a passing run has a mutant: a plausible bug in the mapped
code that TLC finds. The mutants are listed in `PROJECT.json`.

**Bounds.**

*Watcher:* two cluster names, up to 4 server changes (3 in the violation and
liveness runs), and symmetry on the names in the safety runs. With these
bounds:
- a cluster can be added and deleted between two compactions;
- a Gone relist can race a held event;
- a restart can happen after any step.

The two names are interchangeable, so the symmetry is sound.

*Tidb:* at most 3 replicas, install with 2, 3 pod names, 2 versions and 2 gate
attempts. With these bounds:
- a scale-out to 3 and back is possible, the maximum check rejects 4 and
  the minimum check rejects 1 (the scale-down bound of a third of the count
  and the scale-out bound of triple the count never bite at these sizes);
- a failed scale is possible;
- an upgrade replaces a pod;
- the gate both retries and times out.

*Job:* 3 pod names and 3 wait attempts. With these bounds a pod can fail and
be replaced while the wait retries, the wait can run out of attempts, and an
orphaned pod can run beside the pod of a re-created job.

**Fairness in watcher_liveness:**
- The goroutines' steps are weakly fair, because the Go scheduler runs
  runnable goroutines.
- `Restart` is weakly fair, because the platform restarts the pod.
- The successful branches of `Main` and `InitResource` are strongly fair,
  and so are `Recycle` and `StreamClosed`. These are assumptions about the
  platform: a start attempted again and again eventually gets through,
  however often a signal or an API error cut an earlier attempt short. The
  API server eventually closes every watch (its watch timeout).
- `Signal` has no fairness. A signal may arrive at any step, but nothing
  forces one.

**Fairness in tidb_safety** (`FairSpec`):
- One step of each operation is weakly fair, because the operation's
  goroutine keeps running. The fair steps are the service and controller
  creation, the gate's pass, retry or timeout, and any branch of the
  upgrade's next-pod step.
- For install, only the branches whose platform call succeeds are assumed
  fair. Fairness on a failing call would hide the error paths. The gate's
  own `GateError` is not fair.
- The platform's pod steps are not fair, so the gate may time out.

## 4. Proofs (TLAPS)

`WatcherProofs` proves the following for every set of names and every
`MaxRV`:
- `IInvariant`: `Spec => []IInv`.
- `TypeCorrect`: `Spec => []TypeOK`.
- `HandledInOrder`: `Spec => EventsHandledInOrder`.

`EventsHandledInOrder` is not inductive by itself. The inductive invariant
`IInv` strengthens it with these facts about the watch cursor `wv`:
- `wv` is at most `Len(hist)`;
- `applied` is at most `wv`;
- an event on offer has the cursor's version and is newer than `applied`;
- an event being handled is newer than `applied` and no newer than `wv`;
- if an event is handled while another is on offer, the handled one is older;
- in main, during start-up and during recycle, both goroutines are idle.

With these facts, every step either keeps the order or is a restart that
resets it. `IInv` was checked with TLC before it was proved.

The proof has three parts:
- `InitIInv` shows that `Init` implies `IInv`;
- `NextIInv` shows that every step preserves `IInv`, with one case per action;
- a PTL step concludes the temporal theorems.

Two lemmas support it: `SrvType`, the type of the server state, and
`SendErrType`, the type of `errCh` after a send.

`WatcherCacheProofs` proves the following for every set of names and every
`MaxRV`:
- `CacheCovered`: `Spec => []CacheCoversServer`.
- `NoUnsafe`: `Spec => []NoUnsafeState`.
- `Refinement`: `Spec => CacheRefinement`, that is, the watcher implements
  `WatchCache`.

Neither invariant is inductive. The proof adds two invariants to `IInv`.

`HInv` is about the server's history:
- each event changes one cluster;
- Added applies only to an absent cluster, and Modified and Deleted only to
  a present one;
- no version is newer than the history;
- a live cluster's version is never older than an earlier change of it.

`CInv` is about the cache:
- no cached version is newer than what the process has seen;
- while the process serves, `dbs` covers the server at `applied`;
- while the dispatcher holds event `dEv`, `dbs` covers the server at
  `dEv - 1`;
- once the held event is applied, the cache covers the server at the watch
  cursor `wv`. While an event is on offer on `eventCh`, it covers the
  server at `wv - 1` instead.

The lemma `CovApply` carries one step of the argument. A cache that covers
the server just before event v has the event's cluster cached unless the
event is Added. Once the event is handled, the cache covers the server at
v. That gives `NoUnsafeState`.

The subtle case is `StableCov`. A 410 relist can find the cache stable
while the dispatcher still holds an event newer than everything cached.
The last fact of `HInv` shows that the event's cluster cannot be live on
the server then. So handling the event later keeps the cache covering the
server at the version the cursor jumped to.

For the refinement:
- `MapCovered` shows that the mapped cache is always `Covered(view)`;
- `ViewStep` shows that every step keeps the view, resets it, advances it
  within the history, or appends to the history behind it;
- so every step is a `WatchCache` step or a stutter.

`HInv` and `CInv` were checked with TLC on the safety instance before they
were proved.

`TidbProofs` proves the following for every maximum, every set of versions
and every bound on pods and gate attempts:
- `TypeCorrect`: `Spec => []TypeOK`.
- `ReplicasBounded`: `Spec => []ReplicasWithinBounds`.
- `DivergenceFlagged`: `Spec => []ReplicaDivergenceFlagged`.

Its inductive invariant adds three facts to `TypeOK`:
- a cluster whose phase is None has no replication controller and runs no
  operation;
- once the phase has left None, the count is in 2..Max;
- a controller whose count differs from `td.Replicas` implies the scale-error
  bit at every moment, not only between operations.

Without the first fact, install could create a controller that disagrees
with a leftover one.

`PendingSafe`: `Spec => []PendingOnlyBeforeDeploy`. The invariant `PInv`
follows a cluster in Pending through install's steps:
- a cluster in None has no service;
- before the service is created there is neither service nor controller;
- before the controller is created there is no controller;
- a gate run in Pending belongs to install;
- upgrade never runs in Pending, because `UpgradeBegin` returns early below
  Started.

Each exit of install sets Started or StartFailed through its deferred
function, so an idle Pending cluster is one whose first save failed. The count bound is preserved because `reconcileTidbs`
refuses every request outside 2..Max before it writes `td.Replicas`. The flag
is preserved because `ScaleReplicationController` failing sets the bit, and
only a successful uninstall clears it, at the same time as it removes the
controller.

`JobProofs` proves the following for every number of pod names and every
number of wait attempts:
- `TypeCorrect`: `Spec => []TypeOK`. `TypeOK` is inductive by itself. The
  attempt counter stays in range because `WaitPoll` retries only while
  `polls + 1 < MaxPolls`.

**Only model-checked:**
- the liveness properties `OrphanVolumeReclaimed` and `OperationsReturn`,
  because the provers do not handle fairness or ENABLED;
- the violation runs. They show counterexamples, and a counterexample
  needs no proof.

## 5. Not modelled

- The bodies of `gc`, `DeleteBuriedTikv` and `parse`, which are not in the
  source tree. gc is modelled only by the arguments it receives, and `Clean`
  is taken from the spec.
- The pd and tikv roles, which are not in the source tree.
- Flag parsing and logger set-up in `init()`, and the templates, which have
  no state that matters here. The exit code of the signal handler (0 for
  SIGTERM, 1 otherwise) is not modelled; the platform restarts the process
  either way.
- The callers of the job helper, which are not in the source tree.

## 6. Plan for the next sittings

1. A property for `checkStatus` deleting starting pods (part_001:295). One
   way is a liveness property that a cluster with a constant desired count
   eventually has all its pods ready. It is expected to fail, and needs a
   violation run.
2. Upgrade progress (part_001:58), once the probe bug of
   tidb_upgrade_probe is separated out.
