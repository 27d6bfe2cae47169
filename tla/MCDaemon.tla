------------------------------ MODULE MCDaemon ------------------------------
(* What waits for the daemon, in one run: the daemon's start and its lock, *)
(* the poller, signing in, the app's connection and its snapshot.  They    *)
(* share nothing: `part` says which of them a behaviour shows, and the     *)
(* others stay in an initial state, in which nothing of their own is due.  *)
EXTENDS DaemonLock, Poller, SignIn, SnapshotStore

CONSTANTS c1, c2, l1, l2

VARIABLE part

daemonPartVars == <<lockVars, pollVars, signVars, appVars, storeVars, part>>

DaemonInit ==
    /\ part \in {"lock", "poller", "signin", "app", "store"}
    /\ LockInit /\ loaded = (part = "lock")
    /\ PollInit /\ (part # "poller" => dir = [p \in Profile |-> 0])
    /\ SignInit /\ (part # "signin" => signedIn = FALSE)
    /\ AppInit /\ (part # "app" => ~serverUp)
    /\ StoreInit

DaemonNext ==
    /\ UNCHANGED part
    /\ \/ part = "lock" /\ LockNext /\ UNCHANGED <<pollVars, signVars, appVars, storeVars>>
       \/ part = "poller" /\ PollNext /\ UNCHANGED <<lockVars, signVars, appVars, storeVars>>
       \/ part = "signin" /\ SignNext /\ UNCHANGED <<lockVars, pollVars, appVars, storeVars>>
       \/ part = "app" /\ AppNext /\ UNCHANGED <<lockVars, pollVars, signVars, storeVars>>
       \/ part = "store" /\ StoreNext /\ UNCHANGED <<lockVars, pollVars, signVars, appVars>>

DaemonSpec ==
    /\ DaemonInit /\ [][DaemonNext]_daemonPartVars
    /\ LockFairness /\ PollFairness /\ SignFairness /\ AppFairness /\ StoreFairness
=============================================================================
