--------------------------- MODULE Daemon_proofs ---------------------------
(***************************************************************************)
(* Proofs about what waits for the daemon, for any bounds: DaemonLock for  *)
(* any daemons, AppConnection for any connections, Poller for any profiles *)
(* and requests.                                                           *)
(***************************************************************************)
EXTENDS DaemonLock, AppConnection, Poller, TLAPS

-----------------------------------------------------------------------------
(* The lock.                                                               *)

\* Without the lock, and past the look at the socket.
Outside == {"off", "claim", "wait"}
Inside == Place \ (Outside \cup {"probe"})

\* Its lock is the file at the path; or it was deleted while the daemon serves, which nobody asked
\* to stop before the lock is back.
Keeps(d) == lockFile # 0 /\ lock[d] = lockFile
Astray(d) == at[d] \in {"serve", "relock"} /\ d \notin stopping
Serving(d) == listens[d] # 0 /\ listens[d] = sockFile

LockTyped ==
    /\ at \in [Daemon -> Place] /\ stopping \subseteq Daemon
    /\ inode \in Nat /\ lockFile \in 0 .. inode /\ sockFile \in 0 .. inode
    /\ fd \in [Daemon -> 0 .. inode] /\ lock \in [Daemon -> 0 .. inode]
    /\ listens \in [Daemon -> 0 .. inode] /\ sockId \in [Daemon -> 0 .. inode]

\* What holds of a daemon where it is.
Placed(d) ==
    /\ fd[d] # 0 => at[d] \in {"claim", "relock"}
    /\ at[d] \in Outside <=> lock[d] = 0
    /\ at[d] \notin Outside => Keeps(d) \/ Astray(d)
    /\ at[d] \in {"bound", "serve", "relock"} => Serving(d)
    /\ at[d] \in {"serve", "relock"} => sockId[d] = sockFile
    /\ at[d] = "off" => d \notin stopping

\* A lock file has one holder, and one daemon is past its look at the socket.
Exclusive ==
    \A d, e \in Daemon : /\ lock[d] = lock[e] /\ lock[d] # 0 => d = e
                         /\ at[d] \in Inside /\ at[e] \in Inside => d = e

LockInv == LockTyped /\ (\A d \in Daemon : Placed(d)) /\ Exclusive

LEMMA OpenLockLocks ==
    ASSUME LockInv, ~DeletesAnytime, NEW d \in Daemon, OpenLock(d)
    PROVE  LockInv'
<1> USE DEF OpenLock, Sets, Place, Outside, Inside, Writing
<1>1. LockTyped'
  BY DEF LockInv, LockTyped, Placed, Astray
<1>2. \A e \in Daemon : Placed(e)'
  BY DEF LockInv, LockTyped, Placed, Keeps, Astray, Serving, Exclusive
<1>3. Exclusive'
  BY DEF LockInv, LockTyped, Placed, Keeps, Astray, Serving, Exclusive
<1> QED
  BY <1>1, <1>2, <1>3 DEF LockInv

LEMMA LockFailsLocks ==
    ASSUME LockInv, ~DeletesAnytime, NEW d \in Daemon, LockFails(d)
    PROVE  LockInv'
<1> USE DEF LockFails, Sets, Goes, StaysOut, WithoutLock, OwnsSocket, Held, Place, Outside, Inside, Writing
<1>1. LockTyped'
  BY DEF LockInv, LockTyped, Placed, Astray
<1>2. \A e \in Daemon : Placed(e)'
  BY DEF LockInv, LockTyped, Placed, Keeps, Astray, Serving, Exclusive
<1>3. Exclusive'
  BY DEF LockInv, LockTyped, Placed, Keeps, Astray, Serving, Exclusive
<1> QED
  BY <1>1, <1>2, <1>3 DEF LockInv

LEMMA LockTakenLocks ==
    ASSUME LockInv, ~DeletesAnytime, NEW d \in Daemon, LockTaken(d)
    PROVE  LockInv'
<1> USE DEF LockTaken, Sets, Goes, Names, Held, Place, Outside, Inside, Writing
<1>1. LockTyped'
  BY DEF LockInv, LockTyped, Placed, Astray
<1>2. \A e \in Daemon : Placed(e)'
  BY DEF LockInv, LockTyped, Placed, Keeps, Astray, Serving, Exclusive
<1>3. Exclusive'
  BY DEF LockInv, LockTyped, Placed, Keeps, Astray, Serving, Exclusive
<1> QED
  BY <1>1, <1>2, <1>3 DEF LockInv

LEMMA ProbeLocks ==
    ASSUME LockInv, ~DeletesAnytime, NEW d \in Daemon, Probe(d)
    PROVE  LockInv'
<1> USE DEF Probe, Sets, Goes, StaysOut, WithoutLock, SocketInUse, Place, Outside, Inside, Writing
<1>1. LockTyped'
  BY DEF LockInv, LockTyped, Placed, Astray
<1>2. \A e \in Daemon : Placed(e)'
  BY DEF LockInv, LockTyped, Placed, Keeps, Astray, Serving, Exclusive
<1>3. Exclusive'
  BY DEF LockInv, LockTyped, Placed, Keeps, Astray, Serving, Exclusive
<1> QED
  BY <1>1, <1>2, <1>3 DEF LockInv

LEMMA RetryLocks ==
    ASSUME LockInv, ~DeletesAnytime, NEW d \in Daemon, Retry(d)
    PROVE  LockInv'
<1> USE DEF Retry, Goes, Stopped, Place, Outside, Inside, Writing
<1>1. LockTyped'
  BY DEF LockInv, LockTyped, Placed, Astray
<1>2. \A e \in Daemon : Placed(e)'
  BY DEF LockInv, LockTyped, Placed, Keeps, Astray, Serving, Exclusive
<1>3. Exclusive'
  BY DEF LockInv, LockTyped, Placed, Keeps, Astray, Serving, Exclusive
<1> QED
  BY <1>1, <1>2, <1>3 DEF LockInv

LEMMA UnlinkStaleLocks ==
    ASSUME LockInv, ~DeletesAnytime, NEW d \in Daemon, UnlinkStale(d)
    PROVE  LockInv'
<1> USE DEF UnlinkStale, Goes, Place, Outside, Inside, Writing
<1>1. LockTyped'
  BY DEF LockInv, LockTyped, Placed, Astray
<1>2. \A e \in Daemon : Placed(e)'
  BY DEF LockInv, LockTyped, Placed, Keeps, Astray, Serving, Exclusive
<1>3. Exclusive'
  BY DEF LockInv, LockTyped, Placed, Keeps, Astray, Serving, Exclusive
<1> QED
  BY <1>1, <1>2, <1>3 DEF LockInv

LEMMA BindLocks ==
    ASSUME LockInv, ~DeletesAnytime, NEW d \in Daemon, Bind(d)
    PROVE  LockInv'
<1> USE DEF Bind, Goes, Sets, Place, Outside, Inside, Writing
<1>1. LockTyped'
  BY DEF LockInv, LockTyped, Placed, Astray
<1>2. \A e \in Daemon : Placed(e)'
  BY DEF LockInv, LockTyped, Placed, Keeps, Astray, Serving, Exclusive
<1>3. Exclusive'
  BY DEF LockInv, LockTyped, Placed, Keeps, Astray, Serving, Exclusive
<1> QED
  BY <1>1, <1>2, <1>3 DEF LockInv

LEMMA IdentifyLocks ==
    ASSUME LockInv, ~DeletesAnytime, NEW d \in Daemon, Identify(d)
    PROVE  LockInv'
<1> USE DEF Identify, Goes, Sets, Place, Outside, Inside, Writing
<1>1. LockTyped'
  BY DEF LockInv, LockTyped, Placed, Astray
<1>2. \A e \in Daemon : Placed(e)'
  BY DEF LockInv, LockTyped, Placed, Keeps, Astray, Serving, Exclusive
<1>3. Exclusive'
  BY DEF LockInv, LockTyped, Placed, Keeps, Astray, Serving, Exclusive
<1> QED
  BY <1>1, <1>2, <1>3 DEF LockInv

LEMMA CheckLockLocks ==
    ASSUME LockInv, ~DeletesAnytime, NEW d \in Daemon, CheckLock(d)
    PROVE  LockInv'
<1> USE DEF CheckLock, Goes, Stopped, Place, Outside, Inside, Writing
<1>1. LockTyped'
  BY DEF LockInv, LockTyped, Placed, Astray
<1>2. \A e \in Daemon : Placed(e)'
  BY DEF LockInv, LockTyped, Placed, Keeps, Astray, Serving, Exclusive
<1>3. Exclusive'
  BY DEF LockInv, LockTyped, Placed, Keeps, Astray, Serving, Exclusive
<1> QED
  BY <1>1, <1>2, <1>3 DEF LockInv

LEMMA BeginStopLocks ==
    ASSUME LockInv, ~DeletesAnytime, NEW d \in Daemon, BeginStop(d)
    PROVE  LockInv'
<1> USE DEF BeginStop, Goes, Stopped, Place, Outside, Inside, Writing
<1>1. LockTyped'
  BY DEF LockInv, LockTyped, Placed, Astray
<1>2. \A e \in Daemon : Placed(e)'
  BY DEF LockInv, LockTyped, Placed, Keeps, Astray, Serving, Exclusive
<1>3. Exclusive'
  BY DEF LockInv, LockTyped, Placed, Keeps, Astray, Serving, Exclusive
<1> QED
  BY <1>1, <1>2, <1>3 DEF LockInv

LEMMA CloseServerLocks ==
    ASSUME LockInv, ~DeletesAnytime, NEW d \in Daemon, CloseServer(d)
    PROVE  LockInv'
<1> USE DEF CloseServer, Goes, Sets, Place, Outside, Inside, Writing
<1>1. LockTyped'
  BY DEF LockInv, LockTyped, Placed, Astray
<1>2. \A e \in Daemon : Placed(e)'
  BY DEF LockInv, LockTyped, Placed, Keeps, Astray, Serving, Exclusive
<1>3. Exclusive'
  BY DEF LockInv, LockTyped, Placed, Keeps, Astray, Serving, Exclusive
<1> QED
  BY <1>1, <1>2, <1>3 DEF LockInv

LEMMA LooksAtSocketLocks ==
    ASSUME LockInv, ~DeletesAnytime, NEW d \in Daemon, LooksAtSocket(d)
    PROVE  LockInv'
<1> USE DEF LooksAtSocket, Goes, OwnsSocket, Place, Outside, Inside, Writing
<1>1. LockTyped'
  BY DEF LockInv, LockTyped, Placed, Astray
<1>2. \A e \in Daemon : Placed(e)'
  BY DEF LockInv, LockTyped, Placed, Keeps, Astray, Serving, Exclusive
<1>3. Exclusive'
  BY DEF LockInv, LockTyped, Placed, Keeps, Astray, Serving, Exclusive
<1> QED
  BY <1>1, <1>2, <1>3 DEF LockInv

LEMMA UnlinkSocketLocks ==
    ASSUME LockInv, ~DeletesAnytime, NEW d \in Daemon, UnlinkSocket(d)
    PROVE  LockInv'
<1> USE DEF UnlinkSocket, Goes, Place, Outside, Inside, Writing
<1>1. LockTyped'
  BY DEF LockInv, LockTyped, Placed, Astray
<1>2. \A e \in Daemon : Placed(e)'
  BY DEF LockInv, LockTyped, Placed, Keeps, Astray, Serving, Exclusive
<1>3. Exclusive'
  BY DEF LockInv, LockTyped, Placed, Keeps, Astray, Serving, Exclusive
<1> QED
  BY <1>1, <1>2, <1>3 DEF LockInv

LEMMA ReleaseLockLocks ==
    ASSUME LockInv, ~DeletesAnytime, NEW d \in Daemon, ReleaseLock(d)
    PROVE  LockInv'
<1> USE DEF ReleaseLock, Ended, Goes, Sets, Place, Outside, Inside, Writing
<1>1. LockTyped'
  BY DEF LockInv, LockTyped, Placed, Astray
<1>2. \A e \in Daemon : Placed(e)'
  BY DEF LockInv, LockTyped, Placed, Keeps, Astray, Serving, Exclusive
<1>3. Exclusive'
  BY DEF LockInv, LockTyped, Placed, Keeps, Astray, Serving, Exclusive
<1> QED
  BY <1>1, <1>2, <1>3 DEF LockInv

LEMMA TerminateLocks ==
    ASSUME LockInv, ~DeletesAnytime, NEW d \in Daemon, Terminate(d)
    PROVE  LockInv'
<1> USE DEF Terminate, Op, LockBack, Place, Outside, Inside, Writing
<1>1. LockTyped'
  BY DEF LockInv, LockTyped, Placed, Astray
<1>2. \A e \in Daemon : Placed(e)'
  BY DEF LockInv, LockTyped, Placed, Keeps, Astray, Serving, Exclusive
<1>3. Exclusive'
  BY DEF LockInv, LockTyped, Placed, Keeps, Astray, Serving, Exclusive
<1> QED
  BY <1>1, <1>2, <1>3 DEF LockInv

LEMMA RunByHandLocks ==
    ASSUME LockInv, ~DeletesAnytime, NEW d \in Daemon, RunByHand(d)
    PROVE  LockInv'
<1> USE DEF RunByHand, Op, Goes, Place, Outside, Inside, Writing
<1>1. LockTyped'
  BY DEF LockInv, LockTyped, Placed, Astray
<1>2. \A e \in Daemon : Placed(e)'
  BY DEF LockInv, LockTyped, Placed, Keeps, Astray, Serving, Exclusive
<1>3. Exclusive'
  BY DEF LockInv, LockTyped, Placed, Keeps, Astray, Serving, Exclusive
<1> QED
  BY <1>1, <1>2, <1>3 DEF LockInv

LEMMA CrashLocks ==
    ASSUME LockInv, ~DeletesAnytime, NEW d \in Daemon, Crash(d)
    PROVE  LockInv'
<1> USE DEF Crash, Ended, Goes, Sets, Place, Outside, Inside, Writing
<1>1. LockTyped'
  BY DEF LockInv, LockTyped, Placed, Astray
<1>2. \A e \in Daemon : Placed(e)'
  BY DEF LockInv, LockTyped, Placed, Keeps, Astray, Serving, Exclusive
<1>3. Exclusive'
  BY DEF LockInv, LockTyped, Placed, Keeps, Astray, Serving, Exclusive
<1> QED
  BY <1>1, <1>2, <1>3 DEF LockInv

LEMMA KeepAliveLocks ==
    ASSUME LockInv, ~DeletesAnytime, KeepAlive
    PROVE  LockInv'
<1> USE DEF KeepAlive, Goes, Place, Outside, Inside, Writing
<1>1. LockTyped'
  BY DaemonLockAssumption DEF LockInv, LockTyped, Placed, Astray
<1>2. \A e \in Daemon : Placed(e)'
  BY DaemonLockAssumption DEF LockInv, LockTyped, Placed, Keeps, Astray, Serving, Exclusive
<1>3. Exclusive'
  BY DaemonLockAssumption DEF LockInv, LockTyped, Placed, Keeps, Astray, Serving, Exclusive
<1> QED
  BY <1>1, <1>2, <1>3 DEF LockInv

LEMMA BootoutLocks ==
    ASSUME LockInv, ~DeletesAnytime, Bootout
    PROVE  LockInv'
<1> USE DEF Bootout, Op, LockBack, Place, Outside, Inside, Writing
<1>1. LockTyped'
  BY DaemonLockAssumption DEF LockInv, LockTyped, Placed, Astray
<1>2. \A e \in Daemon : Placed(e)'
  BY DaemonLockAssumption DEF LockInv, LockTyped, Placed, Keeps, Astray, Serving, Exclusive
<1>3. Exclusive'
  BY DaemonLockAssumption DEF LockInv, LockTyped, Placed, Keeps, Astray, Serving, Exclusive
<1> QED
  BY <1>1, <1>2, <1>3 DEF LockInv

LEMMA BootstrapLocks ==
    ASSUME LockInv, ~DeletesAnytime, Bootstrap
    PROVE  LockInv'
<1> USE DEF Bootstrap, Op, Place, Outside, Inside, Writing
<1>1. LockTyped'
  BY DaemonLockAssumption DEF LockInv, LockTyped, Placed, Astray
<1>2. \A e \in Daemon : Placed(e)'
  BY DaemonLockAssumption DEF LockInv, LockTyped, Placed, Keeps, Astray, Serving, Exclusive
<1>3. Exclusive'
  BY DaemonLockAssumption DEF LockInv, LockTyped, Placed, Keeps, Astray, Serving, Exclusive
<1> QED
  BY <1>1, <1>2, <1>3 DEF LockInv

LEMMA DeleteLockLocks ==
    ASSUME LockInv, ~DeletesAnytime, DeleteLock
    PROVE  LockInv'
<1> USE DEF DeleteLock, Passing, Stopped, Place, Outside, Inside, Writing
<1>1. LockTyped'
  BY DaemonLockAssumption DEF LockInv, LockTyped, Placed, Astray
<1>2. \A e \in Daemon : Placed(e)'
  BY DaemonLockAssumption DEF LockInv, LockTyped, Placed, Keeps, Astray, Serving, Exclusive
<1>3. Exclusive'
  BY DaemonLockAssumption DEF LockInv, LockTyped, Placed, Keeps, Astray, Serving, Exclusive
<1> QED
  BY <1>1, <1>2, <1>3 DEF LockInv

LEMMA LockStep ==
    ASSUME LockInv, ~DeletesAnytime, [LockNext]_lockVars
    PROVE  LockInv'
<1>1. ASSUME NEW d \in Daemon, Runs(d) \/ RunByHand(d) \/ Terminate(d) \/ Crash(d)
      PROVE  LockInv'
  BY <1>1, OpenLockLocks, LockFailsLocks, LockTakenLocks, ProbeLocks, RetryLocks, UnlinkStaleLocks,
     BindLocks, IdentifyLocks, CheckLockLocks, BeginStopLocks, CloseServerLocks, LooksAtSocketLocks,
     UnlinkSocketLocks, ReleaseLockLocks, RunByHandLocks, TerminateLocks, CrashLocks, Zenon DEF Runs
<1>2. CASE UNCHANGED lockVars
  BY <1>2 DEF lockVars, LockInv, LockTyped, Placed, Keeps, Astray, Serving, Exclusive
<1> QED
  BY <1>1, <1>2, KeepAliveLocks, BootoutLocks, BootstrapLocks, DeleteLockLocks, Zenon DEF LockNext

(* At most one daemon is between its claim and the end of its service,     *)
(* whichever crash, stop, take-over or deletion of daemon.lock came before,*)
(* as long as the file is not deleted under a start or a stop.             *)
THEOREM LockExcludes ==
    ASSUME ~DeletesAnytime
    PROVE  LockSpec => []OneDaemon
<1>1. LockInit => LockInv
  BY DEF LockInit, LockInv, LockTyped, Placed, Exclusive, Place, Outside, Inside, Writing
<1>2. LockInv /\ [LockNext]_lockVars => LockInv'
  BY LockStep
<1>3. LockInv => OneDaemon
  BY DEF LockInv, Exclusive, OneDaemon, Inside, Outside, Place, Writing
<1> QED
  BY <1>1, <1>2, <1>3, PTL DEF LockSpec

-----------------------------------------------------------------------------
(* The app's connection.                                                   *)

Known == {"served", "ended"}   \* connections that the daemon has answered or ended

\* Nothing has happened before the app starts, and nothing is to be received but over such a
\* connection.
LinkInv ==
    /\ link \in [Link -> {"free", "starting", "ready", "served", "ended"}]
    /\ DOMAIN inbox = Link /\ inbox = [c \in Link |-> inbox[c]]
    /\ current \in Link \cup {NoLink}
    /\ asking \in Nat /\ nows \in Nat
    /\ stopped => /\ current = NoLink /\ ~isOnline /\ switches = <<>>
                  /\ asking = 0 /\ nows = 0 /\ ~scheduled
    /\ \A c \in Link : inbox[c] # <<>> => link[c] \in Known

ConnInv == LinkInv /\ OneConnection

LEMMA StartConnects ==
    ASSUME ConnInv, Start
    PROVE  ConnInv'
  BY AppConnectionAssumption DEF ConnInv, LinkInv, OneConnection, Known, Start, Connect, Drops, SetOnline

LEMMA ReconnectConnects ==
    ASSUME ConnInv, Reconnect
    PROVE  ConnInv'
<1>1. ~stopped /\ ~stopped' /\ ~isOnline /\ scheduled
  BY DEF ConnInv, LinkInv, OneConnection, Reconnect
<1>2. inbox' = inbox /\ asking' = asking /\ nows' = nows
  BY DEF Reconnect, modelVars
<1>3. CASE Fault /\ Drops /\ UNCHANGED link
  BY <1>1, <1>2, <1>3 DEF ConnInv, LinkInv, OneConnection, Known, Drops, SetOnline
<1>4. ASSUME NEW c \in Link, link[c] = "free", link' = [link EXCEPT ![c] = "starting"],
             current' = c, scheduled' = FALSE, UNCHANGED <<isOnline, switches, faults>>
      PROVE  ConnInv'
  BY <1>1, <1>2, <1>4, AppConnectionAssumption DEF ConnInv, LinkInv, OneConnection, Known
<1> QED
  BY <1>3, <1>4 DEF Reconnect, Connect

LEMMA NowConnects ==
    ASSUME ConnInv, ReconnectNow
    PROVE  ConnInv'
  BY AppConnectionAssumption DEF ConnInv, LinkInv, OneConnection, Known, ReconnectNow, ItemLeft, Connect, Drops, SetOnline, modelVars, queueVars

LEMMA StaleConnects ==
    ASSUME ConnInv, NEW c \in Link, Stale(c)
    PROVE  ConnInv'
  BY AppConnectionAssumption DEF ConnInv, LinkInv, OneConnection, Known, Stale, Concerns, modelVars

LEMMA StateConnects ==
    ASSUME ConnInv, NEW c \in Link, StateChanges(c)
    PROVE  ConnInv'
<1>1. ~stopped /\ ~stopped' /\ ~isOnline /\ ~scheduled /\ link[c] = "starting" /\ c = current
  BY AppConnectionAssumption DEF ConnInv, LinkInv, OneConnection, Known, StateChanges, Concerns
<1>2. inbox' = inbox /\ asking' = asking /\ nows' = nows
  BY DEF StateChanges, modelVars
<1>3. CASE Drops /\ UNCHANGED link
  BY <1>1, <1>2, <1>3 DEF ConnInv, LinkInv, OneConnection, Known, Drops, SetOnline
<1>4. CASE link' = [link EXCEPT ![c] = "ready"] /\ UNCHANGED <<current, scheduled, isOnline, switches, faults>>
  BY <1>1, <1>2, <1>4 DEF ConnInv, LinkInv, OneConnection, Known
<1> QED
  BY <1>3, <1>4 DEF StateChanges

LEMMA ReceiveConnects ==
    ASSUME ConnInv, NEW c \in Link, Receive(c)
    PROVE  ConnInv'
  BY AppConnectionAssumption DEF ConnInv, LinkInv, OneConnection, Known, Receive, Concerns, Drops, SetOnline, modelVars

LEMMA HandleConnects ==
    ASSUME ConnInv, Handle
    PROVE  ConnInv'
  BY AppConnectionAssumption DEF ConnInv, LinkInv, OneConnection, Known, Handle

LEMMA BannerConnects ==
    ASSUME ConnInv, BannerRefreshed
    PROVE  ConnInv'
  BY AppConnectionAssumption DEF ConnInv, LinkInv, OneConnection, Known, BannerRefreshed, queueVars

LEMMA MenuConnects ==
    ASSUME ConnInv, MenuOpened
    PROVE  ConnInv'
<1>1. ~stopped /\ ~stopped'
  BY DEF MenuOpened
<1>2. UNCHANGED queueVars /\ asking' \in {asking, asking + 1} /\ nows' \in {nows, nows + 1}
  BY DEF MenuOpened
<1> QED
  BY <1>1, <1>2 DEF ConnInv, LinkInv, OneConnection, Known, queueVars

LEMMA ServeConnects ==
    ASSUME ConnInv, NEW c \in Link, Serve(c)
    PROVE  ConnInv'
  BY AppConnectionAssumption DEF ConnInv, LinkInv, OneConnection, Known, Serve, Sends, modelVars

LEMMA CutOffConnects ==
    ASSUME ConnInv, NEW c \in Link, CutOff(c)
    PROVE  ConnInv'
  BY AppConnectionAssumption DEF ConnInv, LinkInv, OneConnection, Known, CutOff, Sends, modelVars

LEMMA DiesConnects ==
    ASSUME ConnInv, DaemonDies
    PROVE  ConnInv'
  BY AppConnectionAssumption DEF ConnInv, LinkInv, OneConnection, Known, DaemonDies, modelVars

LEMMA UpConnects ==
    ASSUME ConnInv, ComesUp
    PROVE  ConnInv'
  BY AppConnectionAssumption DEF ConnInv, LinkInv, OneConnection, Known, ComesUp, modelVars, queueVars

LEMMA ConnStep ==
    ASSUME ConnInv, [AppNext]_appVars
    PROVE  ConnInv'
<1>1. CASE UNCHANGED appVars
  BY <1>1 DEF appVars, queueVars, modelVars, ConnInv, LinkInv, OneConnection
<1> QED
  BY <1>1, StartConnects, ReconnectConnects, NowConnects, StaleConnects, StateConnects, ReceiveConnects,
     HandleConnects, BannerConnects, MenuConnects, ServeConnects, CutOffConnects, DiesConnects, UpConnects,
     Zenon DEF AppNext

(* A running app always has one connection or one reconnect to come, and   *)
(* is online only on the connection it has, for any number of connections, *)
(* faults and callbacks that come late.                                    *)
THEOREM OneConversation == AppSpec => []OneConnection
<1>1. AppInit => ConnInv
  BY DEF AppInit, ConnInv, LinkInv, OneConnection
<1>2. ConnInv /\ [AppNext]_appVars => ConnInv'
  BY ConnStep
<1>3. ConnInv => OneConnection
  BY DEF ConnInv
<1> QED
  BY <1>1, <1>2, <1>3, PTL DEF AppSpec

-----------------------------------------------------------------------------
(* The poller.                                                             *)

\* What a request is, whatever the values of its fields.
IsRequest(q) ==
    q \in [phase : {q.phase}, profile : {q.profile}, probed : {q.probed}, answer : {q.answer}]

\* What a probe has taken, and what it answered with usage, was asked for before it began.
FreshRequest(q) ==
    /\ IsRequest(q)
    /\ q.phase = "batch" => q.probed
    /\ q.answer = "usage" => q.probed

FreshInv == req = [r \in Request |-> req[r]] /\ \A r \in Request : FreshRequest(req[r])

Phased(q, phase) == [q EXCEPT !.phase = phase]
Taken(q) == [q EXCEPT !.phase = "batch", !.probed = TRUE]
Probed(q) == [q EXCEPT !.probed = TRUE]
Answered(q, a) == [q EXCEPT !.phase = "answered", !.answer = a]

-----------------------------------------------------------------------------
(* Each change of a request keeps it fresh. *)

LEMMA PhasedFresh ==
    ASSUME NEW q, FreshRequest(q), NEW phase, phase # "batch"
    PROVE  FreshRequest(Phased(q, phase))
<1> DEFINE n == Phased(q, phase)
<1>1. /\ n.phase = phase /\ n.profile = q.profile /\ n.probed = q.probed /\ n.answer = q.answer
      /\ n \in [phase : {phase}, profile : {q.profile}, probed : {q.probed}, answer : {q.answer}]
  BY DEF Phased, FreshRequest, IsRequest
<1> HIDE DEF n
<1>2. FreshRequest(n)
  BY <1>1 DEF FreshRequest, IsRequest
<1> QED
  BY <1>2 DEF n

LEMMA ProbedFresh ==
    ASSUME NEW q, FreshRequest(q)
    PROVE  FreshRequest(Taken(q)) /\ FreshRequest(Probed(q))
<1> DEFINE t == Taken(q)
           n == Probed(q)
<1>1. /\ t.phase = "batch" /\ t.profile = q.profile /\ t.probed = TRUE /\ t.answer = q.answer
      /\ t \in [phase : {"batch"}, profile : {q.profile}, probed : {TRUE}, answer : {q.answer}]
  BY DEF Taken, FreshRequest, IsRequest
<1>2. /\ n.phase = q.phase /\ n.profile = q.profile /\ n.probed = TRUE /\ n.answer = q.answer
      /\ n \in [phase : {q.phase}, profile : {q.profile}, probed : {TRUE}, answer : {q.answer}]
  BY DEF Probed, FreshRequest, IsRequest
<1> HIDE DEF t, n
<1>3. FreshRequest(t) /\ FreshRequest(n)
  BY <1>1, <1>2 DEF FreshRequest, IsRequest
<1> QED
  BY <1>3 DEF t, n

LEMMA AnsweredFresh ==
    ASSUME NEW q, FreshRequest(q), NEW a, a = "usage" => q.probed
    PROVE  FreshRequest(Answered(q, a))
<1> DEFINE n == Answered(q, a)
<1>1. /\ n.phase = "answered" /\ n.profile = q.profile /\ n.probed = q.probed /\ n.answer = a
      /\ n \in [phase : {"answered"}, profile : {q.profile}, probed : {q.probed}, answer : {a}]
  BY DEF Answered, FreshRequest, IsRequest
<1> HIDE DEF n
<1>2. FreshRequest(n)
  BY <1>1 DEF FreshRequest, IsRequest
<1> QED
  BY <1>2 DEF n

-----------------------------------------------------------------------------
(* The steps. *)

\* `none` or the usage for requests that a probe took.
LEMMA ResolveKeeps ==
    ASSUME FreshInv, NEW set, NEW a, req' = Resolve(set, a),
           a # "usage" \/ \A r \in set : r \in Request => req[r].probed
    PROVE  FreshInv'
<1> DEFINE F(r) == IF r \in set THEN Answered(req[r], a) ELSE req[r]
<1>1. req' = [r \in Request |-> F(r)]
  BY DEF Resolve, Answered
<1>2. \A r \in Request : FreshRequest(F(r))
  <2> TAKE r \in Request
  <2>1. FreshRequest(req[r])
    BY DEF FreshInv
  <2>2. CASE r \in set
    <3>1. a = "usage" => req[r].probed
      BY <2>2
    <3>2. FreshRequest(Answered(req[r], a))
      BY <2>1, <3>1, AnsweredFresh
    <3> QED
      BY <2>2, <3>2
  <2>3. CASE r \notin set
    BY <2>1, <2>3
  <2> QED
    BY <2>2, <2>3
<1> HIDE DEF F
<1> QED
  BY <1>1, <1>2 DEF FreshInv

LEMMA StoppedKeeps ==
    ASSUME FreshInv, NEW set, req' = StoppedOf(set)
    PROVE  FreshInv'
<1> DEFINE F(r) ==
        CASE req[r].profile \in set /\ req[r].phase = "batch" -> Phased(req[r], "cancelled")
          [] req[r].profile \in set /\ req[r].phase \in {"later", "waits"} -> Answered(req[r], "none")
          [] OTHER -> req[r]
<1>1. req' = [r \in Request |-> F(r)]
  BY DEF StoppedOf, Phased, Answered
<1>2. \A r \in Request : FreshRequest(F(r))
  <2> TAKE r \in Request
  <2>1. FreshRequest(req[r])
    BY DEF FreshInv
  <2>2. FreshRequest(Phased(req[r], "cancelled")) /\ FreshRequest(Answered(req[r], "none"))
    BY <2>1, PhasedFresh, AnsweredFresh
  <2> QED
    BY <2>1, <2>2
<1> HIDE DEF F
<1> QED
  BY <1>1, <1>2 DEF FreshInv

LEMMA PhaseKeeps ==
    ASSUME FreshInv, NEW r \in Request, NEW phase, phase # "batch", req' = [req EXCEPT ![r].phase = phase]
    PROVE  FreshInv'
<1> DEFINE n == Phased(req[r], phase)
<1>1. req' = [req EXCEPT ![r] = n]
  BY DEF Phased
<1>2. FreshRequest(n)
  BY PhasedFresh DEF FreshInv
<1> HIDE DEF n
<1> QED
  BY <1>1, <1>2 DEF FreshInv

LEMMA BeginKeeps ==
    ASSUME FreshInv, NEW p \in Profile, Begin(p)
    PROVE  FreshInv'
<1> DEFINE F(r) == CASE r \in Of(p, {"waits"}) -> Taken(req[r])
                     [] r \in Of(p, {"later"}) -> Probed(req[r])
                     [] OTHER -> req[r]
<1>1. req' = [r \in Request |-> F(r)]
  BY DEF Begin, Taken, Probed
<1>2. \A r \in Request : FreshRequest(F(r))
  <2> TAKE r \in Request
  <2>1. FreshRequest(req[r])
    BY DEF FreshInv
  <2>2. FreshRequest(Taken(req[r])) /\ FreshRequest(Probed(req[r]))
    BY <2>1, ProbedFresh
  <2> QED
    BY <2>1, <2>2
<1> HIDE DEF F
<1> QED
  BY <1>1, <1>2 DEF FreshInv

LEMMA RequestSteps ==
    ASSUME FreshInv, NEW r \in Request, Ask(r) \/ TimeComes(r) \/ CancelledEnds(r)
    PROVE  FreshInv'
<1>1. CASE req' = Resolve({r}, "none")
  BY <1>1, ResolveKeeps
<1>2. CASE \E phase \in {"later", "waits"} : req' = [req EXCEPT ![r].phase = phase]
  BY <1>2, PhaseKeeps
<1> QED
  BY <1>1, <1>2 DEF Ask, TimeComes, CancelledEnds

LEMMA LoopSteps ==
    ASSUME FreshInv, NEW p \in Profile, LoopStep(p) \/ PollFails(p) \/ StepFails(p) \/ Dies(p)
    PROVE  FreshInv'
<1>1. CASE Begin(p)
  BY <1>1, BeginKeeps
<1>2. CASE Answer(p)
  <2>1. req' = Resolve(Of(p, {"batch"}), "usage")
    BY <1>2 DEF Answer
  <2>2. \A r \in Of(p, {"batch"}) : r \in Request => req[r].probed
    BY DEF Of, FreshInv, FreshRequest
  <2> QED
    BY <2>1, <2>2, ResolveKeeps
<1>3. CASE PollFails(p) \/ StepFails(p) \/ Dies(p)
  <2>1. \E set : req' = Resolve(set, "none")
    BY <1>3 DEF PollFails, StepFails, Dies
  <2> QED
    BY <2>1, ResolveKeeps
<1>4. CASE IntervalOver(p) \/ Store(p) \/ BackoffOver(p) \/ Restart(p) \/ LoopEnds(p)
  BY <1>4 DEF IntervalOver, Store, BackoffOver, Restart, LoopEnds, FreshInv
<1> QED
  BY <1>1, <1>2, <1>3, <1>4 DEF LoopStep

LEMMA FreshStep ==
    ASSUME FreshInv, [PollNext]_pollVars
    PROVE  FreshInv'
<1>1. CASE \E r \in Request : Ask(r) \/ TimeComes(r) \/ CancelledEnds(r)
  BY <1>1, RequestSteps
<1>2. CASE \E p \in Profile : LoopStep(p) \/ PollFails(p) \/ StepFails(p) \/ Dies(p)
  BY <1>2, LoopSteps
<1>3. CASE \E p \in Profile : \E d \in 0 .. dir[p] + 1 : SetConfig(p, d)
  <2>1. (\E set : req' = StoppedOf(set)) \/ req' = req
    BY <1>3, Zenon DEF SetConfig
  <2> QED
    BY <2>1, StoppedKeeps DEF FreshInv
<1>4. CASE BeginShutdown \/ UNCHANGED pollVars
  BY <1>4 DEF BeginShutdown, pollVars, FreshInv
<1>5. CASE EndShutdown
  BY <1>5, StoppedKeeps DEF EndShutdown
<1> QED
  BY <1>1, <1>2, <1>3, <1>4, <1>5, Zenon DEF PollNext

(* `request_poll` never gets the result of a probe that had begun before   *)
(* it was called, whatever fails and whatever the config becomes.          *)
THEOREM AnswersFresh == PollSpec => []FreshAnswer
<1>1. PollInit => FreshInv
  BY DEF PollInit, FreshInv, FreshRequest, IsRequest
<1>2. FreshInv /\ [PollNext]_pollVars => FreshInv'
  BY FreshStep
<1>3. FreshInv => FreshAnswer
  BY DEF FreshInv, FreshRequest, FreshAnswer
<1> QED
  BY <1>1, <1>2, <1>3, PTL DEF PollSpec
=============================================================================
