---------------------------- MODULE SnapshotStore ----------------------------
(***************************************************************************)
(* The snapshot in the app: SnapshotStore takes what the daemon pushes and *)
(* what is in its snapshot.json, and WidgetReloader asks WidgetKit for new *)
(* timelines, at most once a minute but for changes of a status.  Pushes   *)
(* come in order over a connection that may break; which one, and that it  *)
(* comes back, is AppConnection's.                                         *)
(***************************************************************************)
EXTENDS AppConnection

CONSTANTS
    NoSnapshot,
    MaxSnapshots,  \* bound: changes of the daemon's data
    MaxJoins       \* bound: subscriptions

VARIABLES
    store,      \* SnapshotStore.snapshot
    policy,     \* WidgetReloadPolicy: its last signature, whether a reload is recent, trailingPending
    trailing,   \* whether a trailingTask sleeps
    pushes,     \* snapshots on their way to the main actor
    \* the environment
    reloading,  \* whether WidgetKit was asked for new timelines
    widget,     \* the snapshot the widget shows
    data, file, \* the daemon's state as a snapshot, and its snapshot.json
    joined,     \* whether the app is subscribed
    joins       \* for the bound

viewVars == <<store, policy, trailing, reloading>>
storeVars == <<viewVars, pushes, widget, data, file, joined, joins>>

\* Which data, the signature of its statuses, and whether it was built for a new subscriber, which
\* gives it a `generated_at` that is not the file's.
Signatures == {"ok", "paused"}
Snapshots == [n : 0..MaxSnapshots, sig : Signatures, own : BOOLEAN]
Policies == [sig : Signatures \cup {"none"}, recent : BOOLEAN, pending : BOOLEAN]

StoreTypeOK ==
    /\ {store, widget, file} \subseteq Snapshots \cup {NoSnapshot} /\ data \in Snapshots
    /\ policy \in Policies /\ pushes \in Seq(Snapshots)
    /\ {trailing, reloading, joined} \subseteq BOOLEAN /\ joins \in Nat

StoreInit ==
    /\ store = NoSnapshot /\ widget = NoSnapshot /\ file = NoSnapshot
    /\ policy = [sig |-> "none", recent |-> FALSE, pending |-> FALSE]
    /\ trailing = FALSE /\ reloading = FALSE
    /\ data = [n |-> 0, sig |-> "ok", own |-> FALSE]
    /\ pushes = <<>> /\ joined = FALSE /\ joins = 0

-----------------------------------------------------------------------------
(* The app. *)

(* WidgetReloadPolicy.reload, and what WidgetReloader.apply makes of it.   *)
\* (`ReloadedPending`: a bug that the runs must find, the cancelled trailing reload still counts.)
ReloadedPending(sig) == [policy EXCEPT !.sig = sig, !.recent = TRUE]
Reloaded(sig) == [sig |-> sig, recent |-> TRUE, pending |-> FALSE]
ReloadNow(sig) == policy' = Reloaded(sig) /\ trailing' = FALSE /\ reloading' = TRUE

(* WidgetReloadPolicy.onSnapshot: a change of a status reloads at once,    *)
(* another one at once or, once for all of them, when the minute is over.  *)
OnSnapshot(sig) ==
    IF sig # policy.sig \/ ~policy.recent THEN ReloadNow(sig)
    ELSE /\ policy' = [policy EXCEPT !.pending = TRUE]
         /\ trailing' = (trailing \/ ~policy.pending)
         /\ UNCHANGED reloading

(* SnapshotStore.apply: what it shows already changes nothing.             *)
Apply(snapshot) ==
    IF snapshot = store THEN UNCHANGED viewVars ELSE store' = snapshot /\ OnSnapshot(snapshot.sig)

(* SnapshotStore.reload: from the directory's watcher, the timer of 30 s   *)
(* or the menu, at any time.                                               *)
Reload ==
    /\ file \notin {NoSnapshot, store} /\ Apply(file)
    /\ UNCHANGED <<pushes, widget, data, file, joined, joins>>

(* AppModel.handle(.snapshot)                                              *)
HandlePush ==
    /\ pushes # <<>> /\ pushes' = Tail(pushes) /\ Apply(Head(pushes))
    /\ UNCHANGED <<widget, data, file, joined, joins>>

(* WidgetReloadPolicy.onTrailingFired, when the task has slept.            *)
TrailingFires ==
    /\ trailing /\ ~policy.recent
    /\ IF policy.pending THEN ReloadNow(policy.sig) ELSE trailing' = FALSE /\ UNCHANGED <<policy, reloading>>
    /\ UNCHANGED <<store, pushes, widget, data, file, joined, joins>>

MinutePasses ==
    /\ policy.recent /\ policy' = [policy EXCEPT !.recent = FALSE]
    /\ UNCHANGED <<store, trailing, reloading, pushes, widget, data, file, joined, joins>>

(* UsageTimelineProvider.timeline: WidgetKit lets the widget read the file.*)
WidgetReads ==
    /\ reloading /\ reloading' = FALSE /\ widget' = file
    /\ UNCHANGED <<store, policy, trailing, pushes, data, file, joined, joins>>

-----------------------------------------------------------------------------
(* The daemon. *)

DataChanges ==
    /\ data.n < MaxSnapshots
    /\ \E sig \in Signatures : data' = [data EXCEPT !.n = @ + 1, !.sig = sig]
    /\ UNCHANGED <<viewVars, pushes, widget, file, joined, joins>>

(* write_snapshot_now: the file, then the subscribers.                     *)
WriteSnapshot ==
    /\ file # data /\ file' = data
    /\ pushes' = IF joined THEN Append(pushes, data) ELSE pushes
    /\ UNCHANGED <<viewVars, widget, data, joined, joins>>

(* _op_subscribe: builds one for the subscriber alone.                     *)
Subscribe ==
    /\ ~joined /\ joined' = TRUE /\ joins < MaxJoins /\ joins' = joins + 1
    /\ pushes' = Append(pushes, [data EXCEPT !.own = TRUE])
    /\ UNCHANGED <<viewVars, widget, data, file>>

\* The connection ends, with any of the last pushes.
Leaves ==
    /\ joined /\ joined' = FALSE
    /\ \E k \in 0..Len(pushes) : pushes' = SubSeq(pushes, 1, k)
    /\ UNCHANGED <<viewVars, widget, data, file, joins>>

StoreNext ==
    \/ Reload \/ HandlePush \/ TrailingFires \/ MinutePasses \/ WidgetReads
    \/ DataChanges \/ WriteSnapshot \/ Subscribe \/ Leaves

StoreSpec == StoreInit /\ [][StoreNext]_storeVars
\* The main actor runs, its timers fire and WidgetKit reloads; that the daemon writes is not assumed.
StoreFairness ==
    /\ WF_storeVars(Reload) /\ WF_storeVars(HandlePush) /\ WF_storeVars(TrailingFires)
    /\ WF_storeVars(MinutePasses) /\ WF_storeVars(WidgetReads)
StoreFairSpec == StoreSpec /\ StoreFairness

-----------------------------------------------------------------------------
(* In the end the app and the widget show the data that is in the file,    *)
(* whichever snapshots were pushed late, lost with the connection, newer   *)
(* than the file, or held back and merged by the throttle.                 *)
ShowsFile ==
    <>[](file # NoSnapshot =>
            store # NoSnapshot /\ widget # NoSnapshot /\ store.n = file.n /\ widget.n = file.n)

(* The app catches up with the daemon: with whether it is there, and with  *)
(* its last snapshot.                                                      *)
CatchesUp == ShowsDaemon /\ ShowsFile
=============================================================================
