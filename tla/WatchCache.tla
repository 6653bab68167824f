----------------------------- MODULE WatchCache -----------------------------
(***************************************************************************)
(* What the watcher's cluster cache (w.dbs / w.dbRVs) promises to the rest *)
(* of the operator.  The server is a history of versioned changes; the     *)
(* cache has a view, a version of that history it has reached.  The view   *)
(* only moves forward, never past the server, and at every view the cache  *)
(* holds each cluster that exists at that version with exactly that        *)
(* version.  A process that stops loses its cache and starts from nothing. *)
(* Names the server no longer has are not constrained: the promise is     *)
(* about what the cache covers, not what it forgets.                       *)
(***************************************************************************)
EXTENDS Naturals, Sequences

CONSTANTS Names, MaxRV

RV == 0..MaxRV
Event == [type : {"Added", "Modified", "Deleted"}, name : Names,
          after : [Names -> RV]]

VARIABLES
  hist,   \* the server's history; change i has version i
  view,   \* the version the cache reflects, 0 when it has none
  cache   \* live cluster name -> cached version

ServerAt(v) == IF v = 0 THEN [n \in Names |-> 0] ELSE hist[v].after

\* The cache a view entitles to: every cluster live at v, at its version.
Covered(v) == [n \in {m \in Names : ServerAt(v)[m] # 0} |-> ServerAt(v)[n]]

Init == hist = <<>> /\ view = 0 /\ cache = Covered(0)

\* The server records a change.
Change ==
  /\ Len(hist) < MaxRV
  /\ \E e \in Event : hist' = Append(hist, e)
  /\ UNCHANGED <<view, cache>>

\* The cache moves to a later version of the server's history.
Advance ==
  /\ \E v \in view + 1 .. Len(hist) : view' = v /\ cache' = Covered(v)
  /\ UNCHANGED hist

\* The process stops and its cache is gone.
Reset ==
  /\ view' = 0 /\ cache' = Covered(0)
  /\ UNCHANGED hist

Next == Change \/ Advance \/ Reset

Spec == Init /\ [][Next]_<<hist, view, cache>>

=============================================================================
