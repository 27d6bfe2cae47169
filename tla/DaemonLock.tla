----------------------------- MODULE DaemonLock -----------------------------
(***************************************************************************)
(* Daemons that want to be the only one (daemon/server.py, fsio.py): the   *)
(* lock file, the socket, start, stop and take-over.  Agent is launchd's   *)
(* job, which waits for the lock and is started again whenever it ends;    *)
(* the others are run by hand and give up.                                 *)
(*                                                                         *)
(* A file is its inode, and 0 is no file.  flock and the check that the    *)
(* path still names the locked file are one step: a removal between them   *)
(* has the effect of one before them.                                      *)
(***************************************************************************)
EXTENDS Integers, FiniteSets

CONSTANTS
    Daemon,
    Agent,           \* the daemon that launchd runs
    DeletesAnytime,   \* whether daemon.lock may be deleted during or just before a start or stop
    MaxRemovals,     \* bound: removals of the lock file
    MaxCrashes,      \* bound: daemons killed
    MaxOps           \* bound: launchctl calls, and runs and stops by hand

ASSUME DaemonLockAssumption ==
    /\ Agent \in Daemon
    /\ DeletesAnytime \in BOOLEAN
    /\ {MaxRemovals, MaxCrashes, MaxOps} \subseteq Nat

VARIABLES
    at,         \* where each daemon is
    stopping,   \* daemons with `_stop` set
    fd,         \* the lock file a daemon opened and has not locked yet
    lock,       \* the lock file a daemon has locked
    listens,    \* the socket a daemon listens on
    sockId,     \* `_sock_id`: the socket it takes for its own
    lockFile,   \* what daemon.lock names
    sockFile,   \* what daemon.sock names
    inode,      \* the last inode given out
    loaded,     \* whether launchd has the job
    budget      \* what is left of the bounds

lockVars == <<at, stopping, fd, lock, listens, sockId, lockFile, sockFile, inode, loaded, budget>>

\* Writing state files: from the claim until the server is closed.
Writing == {"start", "bind", "bound", "serve", "relock", "stop"}
Place == {"off", "claim", "probe", "wait", "closed", "unlink", "release"} \cup Writing

LockInit ==
    /\ at = [d \in Daemon |-> "off"]
    /\ stopping = {}
    /\ fd = [d \in Daemon |-> 0]
    /\ lock = [d \in Daemon |-> 0]
    /\ listens = [d \in Daemon |-> 0]
    /\ sockId = [d \in Daemon |-> 0]
    /\ lockFile = 0 /\ sockFile = 0 /\ inode = 0
    /\ loaded \in BOOLEAN
    /\ budget = [removals |-> MaxRemovals, crashes |-> MaxCrashes, ops |-> MaxOps]

LockTypeOK ==
    /\ at \in [Daemon -> Place]
    /\ stopping \subseteq Daemon
    /\ {fd, lock, listens, sockId} \subseteq [Daemon -> 0 .. inode]
    /\ lockFile \in 0 .. inode /\ sockFile \in 0 .. inode /\ inode \in Nat
    /\ loaded \in BOOLEAN
    /\ budget \in [removals : 0 .. MaxRemovals, crashes : 0 .. MaxCrashes, ops : 0 .. MaxOps]

Goes(d, place) == at' = [at EXCEPT ![d] = place]
Sets(f, d, v) == [f EXCEPT ![d] = v]

-----------------------------------------------------------------------------
(* Taking the lock. *)

\* Asked to stop: `wait_for_lock` and `_stop.wait()` return.
Stopped(d) == d \in stopping

\* Where a daemon goes that cannot have the lock: launchd's waits, another one gives up.
WithoutLock(d) == IF d = Agent THEN "wait" ELSE "off"
StaysOut(d) ==
    /\ Goes(d, WithoutLock(d))
    /\ stopping' = IF d = Agent THEN stopping ELSE stopping \ {d}

\* FileLock.acquire opens the file, creating it.
OpenLock(d) ==
    /\ at[d] \in {"claim", "relock"} /\ fd[d] = 0
    /\ inode' = IF lockFile = 0 THEN inode + 1 ELSE inode
    /\ lockFile' = IF lockFile = 0 THEN inode' ELSE lockFile
    /\ fd' = Sets(fd, d, lockFile')
    /\ UNCHANGED <<at, stopping, lock, listens, sockId, sockFile, loaded, budget>>

\* Mutant: the locked file need not be the one at the path.
NamesAny(d) == TRUE
\* `_same_file`: the path still names the file that was opened.
Names(d) == fd[d] = lockFile
Held(d) == \E e \in Daemon : lock[e] = fd[d]

\* `_owns_socket`.
OwnsSocket(d) == sockId[d] # 0 /\ sockFile = sockId[d]

\* flock, and what `_claim_lock` and `check_lock` do with a lock they cannot have.
LockFails(d) ==
    /\ fd[d] # 0 /\ Held(d)
    /\ fd' = Sets(fd, d, 0)
    /\ IF at[d] = "claim"
       THEN StaysOut(d)
       ELSE /\ Goes(d, "serve")
            /\ stopping' = IF OwnsSocket(d) THEN stopping ELSE stopping \cup {d}
    /\ UNCHANGED <<lock, listens, sockId, lockFile, sockFile, inode, loaded, budget>>

\* The lock is taken, in `check_lock` instead of the old one; an orphan is closed and left.
LockTaken(d) ==
    /\ fd[d] # 0 /\ ~Held(d)
    /\ fd' = Sets(fd, d, 0)
    /\ IF Names(d)
       THEN /\ lock' = Sets(lock, d, fd[d])
            /\ Goes(d, IF at[d] = "claim" THEN "probe" ELSE "serve")
       ELSE UNCHANGED <<lock, at>>
    /\ UNCHANGED <<stopping, listens, sockId, lockFile, sockFile, inode, loaded, budget>>

\* Mutant: a lock is enough to start.
SocketNeverInUse == FALSE
\* `socket_in_use`: somebody answers a connect.
SocketInUse == sockFile # 0 /\ \E d \in Daemon : listens[d] = sockFile

\* `_claim_lock` looks whether a daemon without its lock file still serves the socket.
Probe(d) ==
    /\ at[d] = "probe"
    /\ IF SocketInUse
       THEN StaysOut(d) /\ lock' = Sets(lock, d, 0)
       ELSE Goes(d, "start") /\ UNCHANGED <<lock, stopping>>
    /\ UNCHANGED <<fd, listens, sockId, lockFile, sockFile, inode, loaded, budget>>

\* `wait_for_lock` tries again, or returns because of a stop.
Retry(d) ==
    /\ at[d] = "wait"
    /\ Goes(d, IF Stopped(d) THEN "off" ELSE "claim")
    /\ stopping' = stopping \ {d}
    /\ UNCHANGED <<fd, lock, listens, sockId, lockFile, sockFile, inode, loaded, budget>>

-----------------------------------------------------------------------------
(* `start`. *)

UnlinkStale(d) ==
    /\ at[d] = "start"
    /\ sockFile' = 0
    /\ Goes(d, "bind")
    /\ UNCHANGED <<stopping, fd, lock, listens, sockId, lockFile, inode, loaded, budget>>

\* start_unix_server replaces a socket at its path.
Bind(d) ==
    /\ at[d] = "bind"
    /\ inode' = inode + 1 /\ sockFile' = inode'
    /\ listens' = Sets(listens, d, inode')
    /\ Goes(d, "bound")
    /\ UNCHANGED <<stopping, fd, lock, sockId, lockFile, loaded, budget>>

\* `_sock_id` is read from the path after the bind.
Identify(d) ==
    /\ at[d] = "bound"
    /\ sockId' = Sets(sockId, d, sockFile)
    /\ Goes(d, "serve")
    /\ UNCHANGED <<stopping, fd, lock, listens, lockFile, sockFile, inode, loaded, budget>>

\* `check_lock` finds that its lock is not the file at the path.
CheckLock(d) ==
    /\ at[d] = "serve" /\ ~Stopped(d)
    /\ lock[d] # lockFile
    /\ Goes(d, "relock")
    /\ UNCHANGED <<stopping, fd, lock, listens, sockId, lockFile, sockFile, inode, loaded, budget>>

-----------------------------------------------------------------------------
(* `stop`: the poller, the server, the socket file, the lock. *)

BeginStop(d) ==
    /\ at[d] = "serve" /\ Stopped(d)
    /\ Goes(d, "stop")
    /\ UNCHANGED <<stopping, fd, lock, listens, sockId, lockFile, sockFile, inode, loaded, budget>>

CloseServer(d) ==
    /\ at[d] = "stop"
    /\ listens' = Sets(listens, d, 0)
    /\ Goes(d, "closed")
    /\ UNCHANGED <<stopping, fd, lock, sockId, lockFile, sockFile, inode, loaded, budget>>

LooksAtSocket(d) ==
    /\ at[d] = "closed"
    /\ Goes(d, IF OwnsSocket(d) THEN "unlink" ELSE "release")
    /\ UNCHANGED <<stopping, fd, lock, listens, sockId, lockFile, sockFile, inode, loaded, budget>>

UnlinkSocket(d) ==
    /\ at[d] = "unlink"
    /\ sockFile' = 0
    /\ Goes(d, "release")
    /\ UNCHANGED <<stopping, fd, lock, listens, sockId, lockFile, inode, loaded, budget>>

Ended(d) ==
    /\ Goes(d, "off")
    /\ lock' = Sets(lock, d, 0)
    /\ sockId' = Sets(sockId, d, 0)
    /\ stopping' = stopping \ {d}

ReleaseLock(d) ==
    /\ at[d] = "release"
    /\ Ended(d)
    /\ UNCHANGED <<fd, listens, lockFile, sockFile, inode, loaded, budget>>

-----------------------------------------------------------------------------
(* launchd, the user, and what goes wrong. *)

\* KeepAlive: launchd starts the job whenever it does not run.
KeepAlive ==
    /\ loaded /\ at[Agent] = "off"
    /\ Goes(Agent, "claim")
    /\ UNCHANGED <<stopping, fd, lock, listens, sockId, lockFile, sockFile, inode, loaded, budget>>

Op == budget.ops > 0 /\ budget' = [budget EXCEPT !.ops = @ - 1]

\* A deleted lock file was locked again: it takes a serving daemon one tick.
LockBack == DeletesAnytime \/ \A d \in Daemon : at[d] \in {"serve", "relock"} => lock[d] = lockFile

\* `ccs daemon run` by hand.
RunByHand(d) ==
    /\ Op /\ d # Agent /\ at[d] = "off"
    /\ Goes(d, "claim")
    /\ UNCHANGED <<stopping, fd, lock, listens, sockId, lockFile, sockFile, inode, loaded>>

\* SIGTERM: Ctrl-C, or launchctl's kickstart -k of `ccs daemon restart`.
Terminate(d) ==
    /\ Op /\ at[d] # "off" /\ d \notin stopping /\ LockBack
    /\ stopping' = stopping \cup {d}
    /\ UNCHANGED <<at, fd, lock, listens, sockId, lockFile, sockFile, inode, loaded>>

\* launchctl bootout of `ccs daemon stop` and `uninstall`.
Bootout ==
    /\ Op /\ loaded /\ LockBack
    /\ loaded' = FALSE
    /\ stopping' = IF at[Agent] = "off" THEN stopping ELSE stopping \cup {Agent}
    /\ UNCHANGED <<at, fd, lock, listens, sockId, lockFile, sockFile, inode>>

\* launchctl bootstrap of `ccs daemon start` and `install`: it fails, and is retried, until
\* the old job is gone.
Bootstrap ==
    /\ Op /\ ~loaded /\ at[Agent] = "off"
    /\ loaded' = TRUE
    /\ UNCHANGED <<at, stopping, fd, lock, listens, sockId, lockFile, sockFile, inode>>

\* A daemon dies; the socket file stays.
Crash(d) ==
    /\ budget.crashes > 0 /\ budget' = [budget EXCEPT !.crashes = @ - 1]
    /\ at[d] # "off"
    /\ Ended(d)
    /\ fd' = Sets(fd, d, 0)
    /\ listens' = Sets(listens, d, 0)
    /\ UNCHANGED <<lockFile, sockFile, inode, loaded>>

\* Starting or stopping: the lock file is all that keeps others away, or soon will be.
Passing(d) == at[d] \in Place \ {"off", "claim", "wait", "serve", "relock"} \/ Stopped(d)

\* Somebody deletes daemon.lock.
DeleteLock ==
    /\ budget.removals > 0 /\ budget' = [budget EXCEPT !.removals = @ - 1]
    /\ lockFile # 0
    /\ DeletesAnytime \/ ~\E d \in Daemon : Passing(d)
    /\ lockFile' = 0
    /\ UNCHANGED <<at, stopping, fd, lock, listens, sockId, sockFile, inode, loaded>>

Runs(d) ==
    \/ OpenLock(d) \/ LockFails(d) \/ LockTaken(d) \/ Probe(d) \/ Retry(d)
    \/ UnlinkStale(d) \/ Bind(d) \/ Identify(d) \/ CheckLock(d)
    \/ BeginStop(d) \/ CloseServer(d) \/ LooksAtSocket(d) \/ UnlinkSocket(d) \/ ReleaseLock(d)

LockNext ==
    \/ \E d \in Daemon : Runs(d) \/ RunByHand(d) \/ Terminate(d) \/ Crash(d)
    \/ KeepAlive \/ Bootout \/ Bootstrap \/ DeleteLock

LockSpec == LockInit /\ [][LockNext]_lockVars

\* A daemon's own steps, its timers included, and launchd's KeepAlive.
LockFairness == (\A d \in Daemon : WF_lockVars(Runs(d))) /\ WF_lockVars(KeepAlive)
LockFairSpec == LockSpec /\ LockFairness

-----------------------------------------------------------------------------
(* Properties. *)

\* ADR-0006, "a flock on daemon.lock guarantees a single instance": at most one daemon is
\* between its claim and the end of its service, also when daemon.lock is deleted while it serves.
OneDaemon == \A d, e \in Daemon : at[d] \in Writing /\ at[e] \in Writing => d = e

\* While launchd has the job, in the end a daemon answers at the socket for good, whatever
\* crashed, was stopped or was deleted before.
Reachable(d) == listens[d] # 0 /\ sockFile = listens[d]
StaysUp == <>[]loaded => <>[](\E d \in Daemon : Reachable(d))

=============================================================================
