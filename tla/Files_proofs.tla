---------------------------- MODULE Files_proofs ----------------------------
(***************************************************************************)
(* Proofs about the files that several processes read and write:           *)
(* ConfigStore (no change is lost; the daemon runs with the file's         *)
(* config), LiveReports (the usage follows the reports),                   *)
(* StatuslineSetting (nothing of the user's is lost; a revert brings the   *)
(* user's statusLine back) and EventLog (an event repeats within the       *)
(* horizon only for a reason; what can be read of the log is its newest    *)
(* part, whole and in order), for any processes, profiles, fields,         *)
(* reports, directories, keys, horizons and bounds.                        *)
(***************************************************************************)
EXTENDS ConfigStore, LiveReports, StatuslineSetting, EventLog, FiniteSetTheorems, NaturalsInduction,
        SequenceTheorems, WellFoundedInduction, TLAPS

-----------------------------------------------------------------------------
(* No change is lost. *)

LockedBy(c) == cli[c].step = "locked"

\* What a ccs process is, whatever the values of its fields.
IsCli(m) == m \in [step : {m.step}, change : {m.change}, id : {m.id}, read : {m.read}, disk : {m.disk}]

Reads(m, stage, read) == [m EXCEPT !.step = stage, !.read = read]
Locks(m, disk) == [m EXCEPT !.step = "locked", !.disk = disk]

LEMMA CliReads ==
    ASSUME NEW m, IsCli(m), NEW stage, NEW read
    PROVE  IsCli(Reads(m, stage, read)) /\ Reads(m, stage, read).step = stage
<1> DEFINE n == Reads(m, stage, read)
<1> USE DEF Reads
<1>1. /\ n.step = stage /\ n.read = read
      /\ n.change = m.change /\ n.id = m.id /\ n.disk = m.disk
  BY DEF IsCli
<1>2. n \in [step : {m.step, stage}, change : {m.change}, id : {m.id}, read : {m.read, read}, disk : {m.disk}]
  BY DEF IsCli
<1> HIDE DEF n
<1>3. IsCli(n)
  BY <1>1, <1>2 DEF IsCli
<1> QED
  BY <1>1, <1>3 DEF n

LEMMA CliLocks ==
    ASSUME NEW m, IsCli(m), NEW disk
    PROVE  IsCli(Locks(m, disk)) /\ Locks(m, disk).step = "locked" /\ Locks(m, disk).disk = disk
<1> DEFINE n == Locks(m, disk)
<1> USE DEF Locks
<1>1. /\ n.step = "locked" /\ n.disk = disk
      /\ n.change = m.change /\ n.id = m.id /\ n.read = m.read
  BY DEF IsCli
<1>2. n \in [step : {m.step, "locked"}, change : {m.change}, id : {m.id}, read : {m.read}, disk : {m.disk, disk}]
  BY DEF IsCli
<1> HIDE DEF n
<1>3. IsCli(n)
  BY <1>1, <1>2 DEF IsCli
<1> QED
  BY <1>1, <1>3 DEF n

\* The lock has one holder, and the document it will change is still the file's.
LockInv ==
    /\ cli = [c \in Cli |-> cli[c]] /\ \A c \in Cli : IsCli(cli[c])
    /\ \A c, d \in Cli : LockedBy(c) /\ LockedBy(d) => c = d
    /\ \A c \in Cli : LockedBy(c) => cli[c].disk = doc

StoreInv == ChangesKept /\ LockInv

\* A step in which one process goes on without the lock.
LEMMA CliGoesOn ==
    ASSUME StoreInv, NEW c \in Cli, NEW m, IsCli(m), m.step # "locked",
           cli' = [cli EXCEPT ![c] = m], UNCHANGED <<doc, result>>
    PROVE  StoreInv'
<1>1. \A d \in Cli : cli'[d] = IF d = c THEN m ELSE cli[d]
  BY DEF StoreInv, LockInv
<1>2. cli' = [d \in Cli |-> cli'[d]]
  BY DEF StoreInv, LockInv
<1>3. \A d \in Cli : IsCli(cli'[d])
  BY <1>1 DEF StoreInv, LockInv
<1>4. \A d \in Cli : LockedBy(d)' => LockedBy(d) /\ cli'[d].disk = cli[d].disk
  BY <1>1 DEF LockedBy
<1>5. \A d, e \in Cli : LockedBy(d)' /\ LockedBy(e)' => d = e
  BY <1>4 DEF StoreInv, LockInv
<1>6. \A d \in Cli : LockedBy(d)' => cli'[d].disk = doc'
  BY <1>4 DEF StoreInv, LockInv
<1> QED
  BY <1>2, <1>3, <1>5, <1>6 DEF StoreInv, LockInv, ChangesKept

\* A step that leaves the processes alone, and the file or the lock free.
LEMMA OthersWrite ==
    ASSUME StoreInv, UNCHANGED cli, UNCHANGED doc \/ ~Locked, ChangesKept'
    PROVE  StoreInv'
BY DEF StoreInv, LockInv, LockedBy, Locked, IsCli

\* The two steps of `save`.
LEMMA LockKeeps ==
    ASSUME StoreInv, NEW c \in Cli, Lock(c)
    PROVE  StoreInv'
<1>1. CASE Loads
  <2> DEFINE m == Locks(cli[c], doc)
  <2>1. cli' = [cli EXCEPT ![c] = m]
    BY <1>1 DEF Lock, Locks
  <2>2. IsCli(m) /\ m.step = "locked" /\ m.disk = doc
    <3>1. IsCli(cli[c])
      BY DEF StoreInv, LockInv
    <3> QED
      BY <3>1, CliLocks
  <2> HIDE DEF m
  <2>3. \A d \in Cli : cli'[d] = IF d = c THEN m ELSE cli[d]
    BY <2>1 DEF StoreInv, LockInv
  <2>4. cli' = [d \in Cli |-> cli'[d]]
    BY <2>1 DEF StoreInv, LockInv
  <2>5. \A d \in Cli : cli'[d].step = "locked" => d = c
    BY <2>3, Zenon DEF Lock, Locked
  <2> QED
    BY <2>2, <2>3, <2>4, <2>5 DEF StoreInv, LockInv, LockedBy, IsCli, ChangesKept, Lock
<1>2. CASE ~Loads
  <2>1. IsCli(NoCli) /\ NoCli.step # "locked"
    BY DEF NoCli, IsCli
  <2> QED
    BY <1>2, <2>1, CliGoesOn DEF Lock, Fails
<1> QED
  BY <1>1, <1>2

LEMMA SaveKeeps ==
    ASSUME StoreInv, NEW c \in Cli, Save(c)
    PROVE  StoreInv'
<1>1. LockedBy(c) /\ cli[c].disk = doc /\ doc = result
  BY DEF Save, StoreInv, LockInv, LockedBy, ChangesKept
<1>2. doc' = result'
  BY <1>1 DEF Save, Writes
<1>3. cli' = [cli EXCEPT ![c] = NoCli]
  BY DEF Save, Fails
<1>4. \A d \in Cli : cli'[d] = IF d = c THEN NoCli ELSE cli[d]
  BY <1>3 DEF StoreInv, LockInv
<1>5. \A d \in Cli : IsCli(cli'[d]) /\ cli'[d].step # "locked"
  <2>1. IsCli(NoCli) /\ NoCli.step # "locked"
    BY DEF NoCli, IsCli
  <2> QED
    BY <1>1, <1>4, <2>1 DEF StoreInv, LockInv, LockedBy
<1>6. cli' = [d \in Cli |-> cli'[d]]
  BY <1>3 DEF StoreInv, LockInv
<1> QED
  BY <1>2, <1>5, <1>6 DEF StoreInv, LockInv, LockedBy, ChangesKept, IsCli

LEMMA CreateSeedKeeps ==
    ASSUME StoreInv, NEW c \in Cli, CreateSeed(c)
    PROVE  StoreInv'
<1> DEFINE m == Reads(cli[c], "read", NoDoc)
<1>1. doc' = result'
  BY DEF CreateSeed, Writes, StoreInv, ChangesKept
<1>2. cli' = [cli EXCEPT ![c] = m]
  BY DEF CreateSeed, Cmd, Reads
<1>3. IsCli(m) /\ m.step # "locked"
  <2>1. IsCli(cli[c])
    BY DEF StoreInv, LockInv
  <2> QED
    BY <2>1, CliReads
<1> HIDE DEF m
<1>4. \A d \in Cli : cli'[d] = IF d = c THEN m ELSE cli[d]
  BY <1>2 DEF StoreInv, LockInv
<1>5. cli' = [d \in Cli |-> cli'[d]]
  BY <1>2 DEF StoreInv, LockInv
<1>6. \A d \in Cli : IsCli(cli'[d]) /\ cli'[d].step # "locked"
  BY <1>3, <1>4 DEF StoreInv, LockInv, CreateSeed, Locked
<1> QED
  BY <1>1, <1>5, <1>6 DEF StoreInv, LockInv, LockedBy, ChangesKept, IsCli

LEMMA CommandKeeps ==
    ASSUME StoreInv, NEW c \in Cli, (\E change \in Change : BeginCommand(c, change)) \/ Read(c) \/ CliKilled(c)
    PROVE  StoreInv'
<1>0. IsCli(NoCli) /\ NoCli.step # "locked"
  BY DEF NoCli, IsCli
<1>1. CASE \E change \in Change : BeginCommand(c, change)
  <2>1. PICK change \in Change : BeginCommand(c, change)
    BY <1>1
  <2> DEFINE m == [step |-> IF doc = NoDoc THEN "seed" ELSE "read", change |-> change,
                   id |-> configSpent.edits + 1, read |-> NoDoc, disk |-> NoDoc]
  <2>2. cli' = [cli EXCEPT ![c] = m] /\ UNCHANGED <<doc, result>>
    BY <2>1 DEF BeginCommand
  <2>3. IsCli(m) /\ m.step # "locked"
    BY DEF IsCli
  <2> HIDE DEF m
  <2> QED
    BY <2>2, <2>3, CliGoesOn
<1>2. CASE Read(c)
  <2> DEFINE m == Reads(cli[c], "save", doc)
  <2>1. IsCli(m) /\ m.step # "locked"
    <3>1. IsCli(cli[c])
      BY DEF StoreInv, LockInv
    <3> QED
      BY <3>1, CliReads
  <2>2. cli' = [cli EXCEPT ![c] = m] \/ cli' = [cli EXCEPT ![c] = NoCli]
    BY <1>2 DEF Read, Cmd, Fails, Reads
  <2>3. UNCHANGED <<doc, result>>
    BY <1>2 DEF Read
  <2> HIDE DEF m
  <2> QED
    BY <1>0, <2>1, <2>2, <2>3, CliGoesOn
<1>3. CASE CliKilled(c)
  BY <1>0, <1>3, CliGoesOn DEF CliKilled, Fails
<1> QED
  BY <1>1, <1>2, <1>3

LEMMA AppSavesKeeps ==
    ASSUME StoreInv, NEW resolution, AppSaves(resolution)
    PROVE  StoreInv'
<1>1. doc = result
  BY DEF StoreInv, ChangesKept
<1>2. doc' = result'
  BY <1>1 DEF AppSaves, Writes
<1>3. UNCHANGED cli /\ ~Locked
  BY DEF AppSaves
<1> QED
  BY <1>2, <1>3, OthersWrite DEF ChangesKept

LEMMA StoreStep ==
    ASSUME StoreInv, [ConfigNext]_configVars
    PROVE  StoreInv'
<1>1. CASE \E c \in Cli : (\E change \in Change : BeginCommand(c, change)) \/ Read(c) \/ CliKilled(c)
  BY <1>1, CommandKeeps
<1>2. CASE \E c \in Cli : CreateSeed(c) \/ Lock(c) \/ Save(c)
  BY <1>2, CreateSeedKeeps, LockKeeps, SaveKeeps
<1>3. CASE AppReloads \/ \E f \in Field : AppEdits(f)
  BY <1>3, OthersWrite DEF AppReloads, AppEdits, StoreInv, ChangesKept
<1>4. CASE \E resolution \in {"none", "keepMine", "takeTheirs"} : AppSaves(resolution)
  BY <1>4, AppSavesKeeps
<1>5. CASE Breaks \/ Repairs
  BY <1>5, OthersWrite DEF Breaks, Repairs, Writes, StoreInv, ChangesKept
<1>6. CASE DaemonLoads
  BY <1>6, OthersWrite DEF DaemonLoads, StoreInv, ChangesKept
<1>7. CASE MarkSeen \/ (\E force \in BOOLEAN : Check(force)) \/ Reload \/ DaemonKilled
  BY <1>7, OthersWrite DEF MarkSeen, Check, Reload, DaemonKilled, StoreInv, ChangesKept
<1>8. CASE UNCHANGED configVars
  BY <1>8, OthersWrite DEF configVars, StoreInv, ChangesKept
<1> QED
  BY <1>1, <1>2, <1>3, <1>4, <1>5, <1>6, <1>7, <1>8, Zenon DEF ConfigNext

(* No writer's change is lost, whoever else of the command line, the app   *)
(* and the user writes between its read and its write.                     *)
THEOREM NoChangeLost == ConfigSpec => []ChangesKept
<1>1. ConfigInit => StoreInv
  <2> SUFFICES ASSUME ConfigInit PROVE StoreInv
    OBVIOUS
  <2>1. \A c \in Cli : cli[c] = NoCli
    BY DEF ConfigInit
  <2>2. IsCli(NoCli) /\ NoCli.step # "locked"
    BY DEF NoCli, IsCli
  <2> QED
    BY <2>1, <2>2 DEF ConfigInit, StoreInv, ChangesKept, LockInv, LockedBy
<1>2. StoreInv /\ [ConfigNext]_configVars => StoreInv'
  BY StoreStep
<1>3. StoreInv => ChangesKept
  BY DEF StoreInv
<1> QED
  BY <1>1, <1>2, <1>3, PTL DEF ConfigSpec

-----------------------------------------------------------------------------
(* The daemon follows the file. *)

\* What a daemon is, whatever its config.
IsDaemon(d) == d \in [at : {"off", "loaded", "up", "load"}, config : {d.config}, seen : Nat]

\* A daemon has no stat of the future.  The config it has loaded and its first stat are of one
\* file, and so is what it runs with while the stat is still the file's.
FollowInv ==
    /\ stamp \in Nat /\ IsDaemon(daemon) /\ daemon.seen <= stamp
    /\ broken => doc # NoDoc
    /\ daemon.at = "loaded" /\ Loads => daemon.config = doc
    /\ DaemonFollows

\* The daemon's fields after the two halves of a reload.
LEMMA Halves ==
    ASSUME FollowInv
    PROVE  LET s == Half(daemon, TRUE)
               l == Half(daemon, FALSE)
               up == [l EXCEPT !.at = "up"]
               load == [s EXCEPT !.at = "load"]
           IN  /\ IsDaemon(up) /\ up.seen = daemon.seen
               /\ Loads => up.config = doc
               /\ IsDaemon(load) /\ load.at = "load" /\ load.seen = stamp
<1> DEFINE l == Loaded(daemon)
           s == Stated(daemon)
<1>1. /\ l \in [at : {daemon.at}, config : {l.config}, seen : {daemon.seen}]
      /\ Loads => l.config = doc
  BY DEF Loaded, FollowInv, IsDaemon
<1>2. s \in [at : {daemon.at}, config : {daemon.config}, seen : {stamp}]
  BY DEF Stated, FollowInv, IsDaemon
<1> HIDE DEF l, s
<1> DEFINE up == [l EXCEPT !.at = "up"]
           load == [s EXCEPT !.at = "load"]
<1>3. /\ up.at = "up" /\ up.seen = daemon.seen /\ up.config = l.config
      /\ up \in [at : {"up"}, config : {l.config}, seen : {daemon.seen}]
  BY <1>1
<1>4. /\ load.at = "load" /\ load.seen = stamp /\ load.config = daemon.config
      /\ load \in [at : {"load"}, config : {daemon.config}, seen : {stamp}]
  BY <1>2
<1> HIDE DEF up, load
<1>5. daemon.seen \in Nat /\ stamp \in Nat
  BY DEF FollowInv, IsDaemon
<1>6. IsDaemon(up) /\ IsDaemon(load)
  BY <1>3, <1>4, <1>5 DEF IsDaemon
<1> QED
  BY <1>1, <1>3, <1>4, <1>6 DEF up, load, l, s, Half

\* A write is a stat that the daemon has not seen, and none happens while it starts.
LEMMA WriteFollows ==
    ASSUME FollowInv, ~WritesAtStart, NEW d, Writes(d), UNCHANGED daemon
    PROVE  FollowInv'
<1>1. daemon.seen \in Nat /\ daemon.seen <= stamp /\ stamp \in Nat /\ stamp' = stamp + 1
  BY DEF FollowInv, Writes, IsDaemon
<1>2. daemon.seen # stamp' /\ daemon.seen <= stamp' /\ stamp' \in Nat
  BY <1>1
<1> QED
  BY <1>2 DEF FollowInv, Writes, DaemonFollows, IsDaemon

LEMMA FileUntouched ==
    ASSUME FollowInv, UNCHANGED <<doc, broken, stamp, daemon>>
    PROVE  FollowInv'
BY DEF FollowInv, DaemonFollows, Loads, IsDaemon

\* The daemon starts, stops, and looks at the file.
LEMMA DaemonSteps ==
    ASSUME FollowInv,
           DaemonLoads \/ MarkSeen \/ (\E force \in BOOLEAN : Check(force)) \/ Reload \/ DaemonKilled
    PROVE  FollowInv'
<1>0. stamp \in Nat /\ daemon.seen \in Nat /\ daemon.seen <= stamp
  BY DEF FollowInv, IsDaemon
<1>1. CASE DaemonLoads
  <2> DEFINE new == IF broken THEN NoDoc ELSE doc'
  <2>1. daemon' = [at |-> "loaded", config |-> new, seen |-> 0]
    BY <1>1 DEF DaemonLoads
  <2>2. stamp' \in Nat /\ (broken' => doc' # NoDoc) /\ (Loads' => new = doc')
    BY <1>0, <1>1 DEF DaemonLoads, FollowInv, Loads
  <2> HIDE DEF new
  <2>3. IsDaemon(daemon') /\ daemon'.at = "loaded" /\ daemon'.config = new /\ daemon'.seen = 0
    BY <2>1 DEF IsDaemon
  <2> QED
    BY <2>2, <2>3 DEF FollowInv, DaemonFollows, IsDaemon
<1>2. CASE MarkSeen
  <2>1. daemon' = [daemon EXCEPT !.at = "up", !.seen = stamp] /\ daemon.at = "loaded"
    BY <1>2 DEF MarkSeen
  <2>2. daemon \in [at : {"off", "loaded", "up", "load"}, config : {daemon.config}, seen : Nat]
    BY DEF FollowInv, IsDaemon
  <2>3. /\ daemon'.at = "up" /\ daemon'.seen = stamp /\ daemon'.config = daemon.config
        /\ daemon' \in [at : {"up"}, config : {daemon.config}, seen : {stamp}]
    BY <2>1, <2>2
  <2>4. IsDaemon(daemon')
    BY <1>0, <2>3 DEF IsDaemon
  <2> QED
    BY <1>0, <1>2, <2>1, <2>3, <2>4 DEF MarkSeen, FollowInv, DaemonFollows, Loads, IsDaemon
<1>3. CASE \E force \in BOOLEAN : Check(force)
  <2>1. daemon' = [Half(daemon, TRUE) EXCEPT !.at = "load"]
    BY <1>3 DEF Check
  <2>2. IsDaemon(daemon') /\ daemon'.at = "load" /\ daemon'.seen = stamp
    BY <2>1, Halves
  <2>3. UNCHANGED <<doc, broken, stamp>>
    BY <1>3 DEF Check
  <2> QED
    BY <1>0, <2>2, <2>3 DEF FollowInv, DaemonFollows, IsDaemon
<1>4. CASE Reload
  <2>1. daemon' = [Half(daemon, FALSE) EXCEPT !.at = "up"] /\ UNCHANGED <<doc, broken, stamp>>
    BY <1>4 DEF Reload
  <2>2. IsDaemon(daemon') /\ daemon'.seen = daemon.seen /\ (Loads => daemon'.config = doc)
    BY <2>1, Halves
  <2> QED
    BY <1>0, <2>1, <2>2 DEF FollowInv, DaemonFollows, Loads, IsDaemon
<1>5. CASE DaemonKilled
  <2>1. daemon' = [at |-> "off", config |-> NoDoc, seen |-> 0] /\ UNCHANGED <<doc, broken, stamp>>
    BY <1>5 DEF DaemonKilled
  <2>2. IsDaemon(daemon') /\ daemon'.at = "off" /\ daemon'.seen = 0
    BY <2>1 DEF IsDaemon
  <2> QED
    BY <1>0, <2>1, <2>2 DEF FollowInv, DaemonFollows, IsDaemon
<1> QED
  BY <1>1, <1>2, <1>3, <1>4, <1>5

\* Everyone else only writes the file, or leaves it alone.
LEMMA OthersFollow ==
    ASSUME FollowInv, ~WritesAtStart, UNCHANGED daemon,
           \/ UNCHANGED <<doc, broken, stamp>>
           \/ \E d : Writes(d)
           \/ Breaks
    PROVE  FollowInv'
<1>1. CASE UNCHANGED <<doc, broken, stamp>>
  BY <1>1, FileUntouched
<1>2. CASE \E d : Writes(d)
  BY <1>2, WriteFollows
<1>3. CASE Breaks
  <2>1. daemon.seen \in Nat /\ daemon.seen <= stamp /\ stamp \in Nat /\ stamp' = stamp + 1
    BY <1>3 DEF FollowInv, Breaks, IsDaemon
  <2>2. daemon.seen <= stamp' /\ stamp' \in Nat
    BY <2>1
  <2> QED
    BY <1>3, <2>2 DEF FollowInv, Breaks, Loads, DaemonFollows, IsDaemon
<1> QED
  BY <1>1, <1>2, <1>3

LEMMA FollowStep ==
    ASSUME FollowInv, ~WritesAtStart, [ConfigNext]_configVars
    PROVE  FollowInv'
<1>1. CASE \E c \in Cli : (\E change \in Change : BeginCommand(c, change))
                          \/ Read(c) \/ Lock(c) \/ CliKilled(c)
  BY <1>1, OthersFollow DEF BeginCommand, Read, Lock, CliKilled
<1>2. CASE \E c \in Cli : CreateSeed(c) \/ Save(c)
  BY <1>2, OthersFollow DEF CreateSeed, Save
<1>3. CASE AppReloads \/ \E f \in Field : AppEdits(f)
  BY <1>3, OthersFollow DEF AppReloads, AppEdits
<1>4. CASE \E resolution \in {"none", "keepMine", "takeTheirs"} : AppSaves(resolution)
  BY <1>4, OthersFollow DEF AppSaves
<1>5. CASE Breaks \/ Repairs
  BY <1>5, OthersFollow DEF Breaks, Repairs
<1>6. CASE DaemonLoads \/ MarkSeen \/ (\E force \in BOOLEAN : Check(force)) \/ Reload \/ DaemonKilled
  BY <1>6, DaemonSteps
<1>7. CASE UNCHANGED configVars
  BY <1>7, FileUntouched DEF configVars
<1> QED
  BY <1>1, <1>2, <1>3, <1>4, <1>5, <1>6, <1>7, Zenon DEF ConfigNext

(* A daemon that nobody wrote the file under while it started runs with    *)
(* the file's config whenever it sees no change to it: the watcher's       *)
(* remembering the stat before it reads misses no write.                   *)
THEOREM WatcherMissesNothing ==
    ASSUME ~WritesAtStart
    PROVE  ConfigSpec => []DaemonFollows
<1>1. ConfigInit => FollowInv
  BY DEF ConfigInit, FollowInv, DaemonFollows, IsDaemon
<1>2. FollowInv /\ [ConfigNext]_configVars => FollowInv'
  BY FollowStep
<1>3. FollowInv => DaemonFollows
  BY DEF FollowInv
<1> QED
  BY <1>1, <1>2, <1>3, PTL DEF ConfigSpec

-----------------------------------------------------------------------------
(* The live reports.                                                       *)

ScanPlace == {"idle", "stat", "read", "unlink", "apply"}
FileThere == [report : Report \cup {NoReport}, stamp : Nat, age : Age]
Writing == [on : {TRUE}, name : Name, report : Report, stamp : Nat]
Scanning == [at : ScanPlace, on : SUBSET Name, todo : SUBSET Name, present : SUBSET Name,
             affected : SUBSET Account]

LiveTyped ==
    /\ live \in [Name -> FileThere]
    /\ writer \in [Statusline -> {NoWriter} \cup Writing]
    /\ stamps \in Nat /\ stats \in [Name -> Nat]
    /\ scan \in Scanning
    /\ taken \in [Name -> Report \cup {NoReport}]
    /\ polled \subseteq Account
    /\ usage = [a \in Account |-> usage[a]]

\* What a statusline is about to write has a stamp of its own, which nobody has seen.
NewStamp(s) ==
    writer[s].on =>
        /\ writer[s].stamp \in 1 .. stamps
        /\ \A n \in Name : live[n].stamp # writer[s].stamp /\ stats[n] # writer[s].stamp
        /\ \A t \in Statusline : writer[t].on /\ writer[t].stamp = writer[s].stamp => t = s

StampsKnown == \A n \in Name : live[n].stamp <= stamps /\ stats[n] <= stamps

\* A file whose stamp the watcher has noted was read, or is about to be.
ReadAsNoted == \A n \in Name :
    live[n].stamp # 0 /\ stats[n] = live[n].stamp /\ n \notin scan.on => taken[n] = live[n].report

\* The watcher works on one file at a time.
OneAtWork ==
    /\ scan.at \in {"idle", "stat", "apply"} => scan.on = {}
    /\ \A n, m \in scan.on : n = m

\* A polled profile's usage is its reports, until the scan that noted a change has applied it.
Merged ==
    /\ \A a \in polled : usage[a] = ReportsOf(a) \/ a \in scan.affected
    /\ scan.at = "idle" => scan.affected = {}

LiveInv == LiveTyped /\ StampsKnown /\ (\A s \in Statusline : NewStamp(s)) /\ OneAtWork /\ ReadAsNoted /\ Merged

LEMMA MergedKept ==
    ASSUME LiveInv, UNCHANGED <<scan, taken, polled, usage>>
    PROVE  Merged'
  BY DEF LiveInv, Merged, ReportsOf

\* Nothing but an IF tells a record that nobody writes from one that is written.
LEMMA WriterRecord ==
    ASSUME NEW n \in Name, NEW r \in Report, NEW t \in Nat
    PROVE  LET w == [on |-> TRUE, name |-> n, report |-> r, stamp |-> t]
           IN  w \in Writing /\ w.on /\ w.stamp = t
  BY DEF Writing

LEMMA StartReportLive ==
    ASSUME LiveInv, NEW s \in Statusline, StartReport(s)
    PROVE  LiveInv'
<1>1. PICK n \in Name, r \in Report :
        writer' = [writer EXCEPT ![s] = [on |-> TRUE, name |-> n, report |-> r, stamp |-> stamps + 1]]
  BY DEF StartReport
<1> DEFINE w == [on |-> TRUE, name |-> n, report |-> r, stamp |-> stamps + 1]
<1>2. stamps' = stamps + 1 /\ stamps \in Nat /\ UNCHANGED <<live, scan, stats, taken, polled, usage>>
  BY DEF StartReport, LiveInv, LiveTyped
<1>3. w \in Writing /\ w.on /\ w.stamp = stamps + 1 /\ writer' = [writer EXCEPT ![s] = w]
  BY <1>1, <1>2, WriterRecord
<1> HIDE DEF w
<1>4. LiveTyped'
  BY <1>2, <1>3 DEF LiveInv, LiveTyped
<1>5. StampsKnown'
  BY <1>2 DEF LiveInv, LiveTyped, StampsKnown, FileThere
<1>6. \A t \in Statusline : NewStamp(t)'
  BY <1>2, <1>3 DEF LiveInv, LiveTyped, StampsKnown, NewStamp, FileThere
<1>7. ReadAsNoted'
  BY <1>2 DEF LiveInv, ReadAsNoted
<1> QED
  BY <1>2, <1>4, <1>5, <1>6, <1>7, MergedKept DEF LiveInv, OneAtWork

\* What a statusline writes is a report, and it wrote nothing before.
LEMMA WriterFields ==
    ASSUME LiveTyped, NEW s \in Statusline, writer[s].on
    PROVE  /\ writer[s].name \in Name /\ writer[s].report \in Report /\ writer[s].stamp \in Nat
           /\ ~NoWriter.on
<1>1. ~NoWriter.on
  BY DEF NoWriter
<1>2. writer[s] \in Writing
  BY <1>1 DEF LiveTyped
<1> QED
  BY <1>1, <1>2 DEF Writing

LEMMA EndReportLive ==
    ASSUME LiveInv, NEW s \in Statusline, EndReport(s)
    PROVE  LiveInv'
<1> DEFINE n == writer[s].name
           f == [report |-> writer[s].report, stamp |-> writer[s].stamp, age |-> 0]
<1>1. n \in Name /\ f \in FileThere /\ f.stamp = writer[s].stamp
  BY WriterFields DEF LiveInv, EndReport, FileThere, Age
<1>2. /\ live' = [live EXCEPT ![n] = f] /\ writer[s].on /\ writer' = [writer EXCEPT ![s] = NoWriter]
      /\ UNCHANGED <<stamps, scan, stats, taken, polled, usage>> /\ ~NoWriter.on
  BY WriterFields DEF EndReport, LiveInv
<1> HIDE DEF n, f
<1>3. LiveTyped'
  BY <1>1, <1>2 DEF LiveInv, LiveTyped
<1>4. StampsKnown'
  BY <1>1, <1>2 DEF LiveInv, LiveTyped, StampsKnown, NewStamp, FileThere
<1>5. \A t \in Statusline : NewStamp(t)'
  BY <1>1, <1>2 DEF LiveInv, LiveTyped, StampsKnown, NewStamp, FileThere
<1>6. ReadAsNoted'
  BY <1>1, <1>2 DEF LiveInv, LiveTyped, ReadAsNoted, NewStamp, FileThere
<1> QED
  BY <1>2, <1>3, <1>4, <1>5, <1>6, MergedKept DEF LiveInv, OneAtWork

\* A file that changes in place: it keeps its report and stamp, or comes to have none, or a new
\* stamp.
LEMMA FileChanges ==
    ASSUME LiveInv, NEW n \in Name, NEW f \in FileThere, live' = [live EXCEPT ![n] = f],
           \/ f.report = live[n].report /\ f.stamp = live[n].stamp /\ UNCHANGED stamps
           \/ f.stamp = 0 /\ UNCHANGED stamps
           \/ f.stamp = stamps + 1 /\ stamps' = stamps + 1,
           UNCHANGED <<writer, scan, stats, taken, polled, usage>>
    PROVE  LiveInv'
<1>1. LiveTyped'
  BY DEF LiveInv, LiveTyped
<1>2. StampsKnown'
  BY DEF LiveInv, LiveTyped, StampsKnown, FileThere
<1>3. \A t \in Statusline : NewStamp(t)'
  BY DEF LiveInv, LiveTyped, StampsKnown, NewStamp, FileThere
<1>4. ReadAsNoted'
  BY DEF LiveInv, LiveTyped, StampsKnown, ReadAsNoted, FileThere
<1> QED
  BY <1>1, <1>2, <1>3, <1>4, MergedKept DEF LiveInv, OneAtWork

LEMMA AgesLive ==
    ASSUME LiveInv, NEW n \in Name, Ages(n)
    PROVE  LiveInv'
<1> DEFINE f == [live[n] EXCEPT !.age = @ + 1]
<1>1. f \in FileThere /\ f.report = live[n].report /\ f.stamp = live[n].stamp
  BY DEF Ages, LiveInv, LiveTyped, FileThere, Age
<1>2. live' = [live EXCEPT ![n] = f] /\ UNCHANGED <<writer, stamps, scan, stats, taken, polled, usage>>
  BY DEF Ages
<1> HIDE DEF f
<1> QED
  BY <1>1, <1>2, FileChanges

LEMMA NoFileTyped == NoFileThere \in FileThere /\ NoFileThere.stamp = 0
  BY DEF NoFileThere, FileThere, Age

LEMMA SpoiledLive ==
    ASSUME LiveInv, NEW n \in Name, Spoiled(n)
    PROVE  LiveInv'
<1>1. UNCHANGED <<writer, scan, stats, taken, polled, usage>>
  BY DEF Spoiled
<1>2. CASE live' = [live EXCEPT ![n] = NoFileThere] /\ UNCHANGED stamps
  BY <1>1, <1>2, NoFileTyped, FileChanges
<1>3. CASE live' = [live EXCEPT ![n] = [report |-> NoReport, stamp |-> stamps + 1, age |-> 0]] /\ stamps' = stamps + 1
  <2> DEFINE f == [report |-> NoReport, stamp |-> stamps + 1, age |-> 0]
  <2>1. f \in FileThere /\ f.stamp = stamps + 1
    BY DEF LiveInv, LiveTyped, FileThere, Age
  <2> HIDE DEF f
  <2>2. live' = [live EXCEPT ![n] = f]
    BY <1>3 DEF f
  <2> QED
    BY <1>1, <1>3, <2>1, <2>2, FileChanges
<1> QED
  BY <1>2, <1>3 DEF Spoiled

\* A step of the scan.
Scans(new, at, on, affected) == new \in Scanning /\ new.at = at /\ new.on = on /\ new.affected = affected

\* A step of the watcher that takes nothing.
LEMMA ScanGoesOn ==
    ASSUME LiveInv, scan.on = {}, UNCHANGED <<live, writer, stamps, stats, taken, polled, usage>>,
           \/ Scans(scan', "stat", {}, scan.affected)
           \/ \E n \in Name : Scans(scan', "unlink", {n}, scan.affected)
    PROVE  LiveInv'
<1>1. LiveTyped' /\ StampsKnown' /\ \A s \in Statusline : NewStamp(s)'
  BY DEF Scans, LiveInv, LiveTyped, StampsKnown, NewStamp
<1>2. OneAtWork' /\ ReadAsNoted' /\ Merged'
  BY DEF Scans, LiveInv, OneAtWork, ReadAsNoted, Merged, ReportsOf
<1> QED
  BY <1>1, <1>2 DEF LiveInv

LEMMA StartScanLive ==
    ASSUME LiveInv, StartScan
    PROVE  LiveInv'
<1> DEFINE todo == {n \in Name : live[n].stamp # 0}
           new == [IdleScan EXCEPT !.at = "stat", !.todo = todo]
<1>1. todo \subseteq Name
  OBVIOUS
<1> HIDE DEF todo
<1>2. Scans(new, "stat", {}, {})
  BY <1>1 DEF Scans, Scanning, ScanPlace, IdleScan
<1>3. scan' = new
  BY DEF StartScan, todo
<1> HIDE DEF new
<1>4. scan.affected = {} /\ UNCHANGED <<live, writer, stamps, stats, taken, polled, usage>>
  BY DEF StartScan, LiveInv, Merged
<1>5. scan.on = {}
  BY DEF StartScan, LiveInv, OneAtWork
<1> QED
  BY <1>2, <1>3, <1>4, <1>5, ScanGoesOn

\* What StatReport makes of a scan, and the steps after it.
LEMMA ScanValues ==
    ASSUME NEW s \in Scanning, NEW n \in Name, NEW more \in SUBSET Account
    PROVE  LET done == [s EXCEPT !.todo = @ \ {n}]
               found == [done EXCEPT !.present = @ \cup {n}]
           IN  /\ Scans(done, s.at, s.on, s.affected)
               /\ Scans([done EXCEPT !.at = "unlink", !.on = {n}], "unlink", {n}, s.affected)
               /\ Scans(found, s.at, s.on, s.affected)
               /\ Scans([found EXCEPT !.at = "read", !.on = {n}], "read", {n}, s.affected)
               /\ Scans([s EXCEPT !.at = "stat", !.on = {}], "stat", {}, s.affected)
               /\ Scans([s EXCEPT !.at = "stat", !.on = {}, !.affected = @ \cup more], "stat", {}, s.affected \cup more)
  BY DEF Scans, Scanning, ScanPlace

LEMMA ScanStops ==
    ASSUME NEW s \in Scanning, NEW more \in SUBSET Account
    PROVE  Scans([s EXCEPT !.at = "apply", !.affected = @ \cup more], "apply", s.on, s.affected \cup more)
  BY DEF Scans, Scanning, ScanPlace

LEMMA ScanEnds ==
    ASSUME NEW s \in Scanning, NEW a \in Account
    PROVE  /\ Scans([s EXCEPT !.affected = @ \ {a}], s.at, s.on, s.affected \ {a})
           /\ Scans(IdleScan, "idle", {}, {})
  BY DEF Scans, Scanning, ScanPlace, IdleScan

LEMMA StatLive ==
    ASSUME LiveInv, NEW n \in Name, StatReport(n)
    PROVE  LiveInv'
<1>1. /\ scan.at = "stat" /\ scan.on = {} /\ scan \in Scanning
      /\ UNCHANGED <<live, writer, stamps, taken, polled, usage>>
  BY DEF StatReport, LiveInv, LiveTyped, OneAtWork
<1> DEFINE done == [scan EXCEPT !.todo = @ \ {n}]
           found == [done EXCEPT !.present = @ \cup {n}]
           unlinks == [done EXCEPT !.at = "unlink", !.on = {n}]
           reads == [found EXCEPT !.at = "read", !.on = {n}]
<1>2. /\ Scans(done, "stat", {}, scan.affected) /\ Scans(found, "stat", {}, scan.affected)
      /\ Scans(unlinks, "unlink", {n}, scan.affected) /\ Scans(reads, "read", {n}, scan.affected)
  BY <1>1, ScanValues
<1>3. \/ UNCHANGED stats /\ scan' \in {done, found, unlinks}
      \/ scan' = reads /\ stats' = [stats EXCEPT ![n] = live[n].stamp]
  BY DEF StatReport
<1> HIDE DEF done, found, unlinks, reads
<1>4. CASE UNCHANGED stats /\ scan' \in {done, found, unlinks}
  <2>1. \/ Scans(scan', "stat", {}, scan.affected)
        \/ Scans(scan', "unlink", {n}, scan.affected)
    BY <1>2, <1>4
  <2> QED
    BY <1>1, <1>4, <2>1, ScanGoesOn
<1>5. CASE scan' = reads /\ stats' = [stats EXCEPT ![n] = live[n].stamp]
  <2>1. Scans(scan', "read", {n}, scan.affected)
    BY <1>2, <1>5
  <2>2. LiveTyped' /\ StampsKnown'
    BY <1>1, <1>5, <2>1 DEF LiveInv, LiveTyped, StampsKnown, FileThere, Scans
  <2>3. \A s \in Statusline : NewStamp(s)'
    BY <1>1, <1>5 DEF LiveInv, LiveTyped, NewStamp
  <2>4. OneAtWork' /\ ReadAsNoted'
    BY <1>1, <1>5, <2>1 DEF LiveInv, LiveTyped, OneAtWork, ReadAsNoted, Scans
  <2>5. Merged'
    BY <1>1, <1>5, <2>1 DEF LiveInv, Merged, ReportsOf, Scans
  <2> QED
    BY <2>2, <2>3, <2>4, <2>5 DEF LiveInv
<1> QED
  BY <1>3, <1>4, <1>5

LEMMA UnlinkLive ==
    ASSUME LiveInv, NEW n \in Name, UnlinkReport(n)
    PROVE  LiveInv'
<1>1. /\ live' = [live EXCEPT ![n] = NoFileThere] /\ n \in scan.on /\ scan \in Scanning
      /\ UNCHANGED <<writer, stamps, stats, taken, polled, usage>>
  BY DEF UnlinkReport, LiveInv, LiveTyped
<1>2. Scans(scan', "stat", {}, scan.affected)
  BY <1>1, ScanValues DEF UnlinkReport
<1>3. LiveTyped' /\ StampsKnown'
  BY <1>1, <1>2, NoFileTyped DEF LiveInv, LiveTyped, StampsKnown, Scans
<1>4. \A s \in Statusline : NewStamp(s)'
  BY <1>1, NoFileTyped DEF LiveInv, LiveTyped, NewStamp
<1>5. OneAtWork' /\ ReadAsNoted'
  BY <1>1, <1>2, NoFileTyped DEF LiveInv, LiveTyped, OneAtWork, ReadAsNoted, Scans
<1>6. scan.at # "idle"
  BY DEF UnlinkReport
<1>7. Merged'
  BY <1>1, <1>2, <1>6 DEF LiveInv, Merged, ReportsOf, Scans
<1> QED
  BY <1>3, <1>4, <1>5, <1>7 DEF LiveInv

\* Another report for a file changes the reports of the profiles it concerns, and of no other.
LEMMA ReportsOfOthers ==
    ASSUME LiveTyped, LiveTyped', NEW set \in SUBSET Account,
           \A n \in Name : taken'[n] # taken[n] => Affected(taken'[n], taken[n]) \subseteq set
    PROVE  \A a \in Account \ set : ReportsOf(a)' = ReportsOf(a)
<1> TAKE a \in Account \ set
<1>1. \A n \in Name : (taken'[n] # NoReport /\ taken'[n].account = a)
                  <=> (taken[n] # NoReport /\ taken[n].account = a)
  BY DEF Affected, AccountOf
<1>2. \A n \in Name : taken[n] # NoReport /\ taken[n].account = a => taken'[n] = taken[n]
  BY DEF Affected, AccountOf
<1> QED
  BY <1>1, <1>2 DEF ReportsOf

LEMMA AffectedTyped ==
    ASSUME NEW r \in Report \cup {NoReport}, NEW q \in Report \cup {NoReport}
    PROVE  Affected(r, q) \in SUBSET Account
  BY DEF Affected, AccountOf, Report

LEMMA ReadLive ==
    ASSUME LiveInv, NEW n \in Name, ReadReport(n)
    PROVE  LiveInv'
<1> DEFINE new == live[n].report
           more == Affected(new, taken[n])
<1>1. /\ taken' = [taken EXCEPT ![n] = new] /\ n \in scan.on /\ scan.at = "read" /\ scan \in Scanning
      /\ UNCHANGED <<live, writer, stamps, stats, polled, usage>>
      /\ scan' = [scan EXCEPT !.at = "stat", !.on = {}, !.affected = @ \cup more]
  BY DEF ReadReport, LiveInv, LiveTyped
<1>2. new \in Report \cup {NoReport} /\ taken[n] \in Report \cup {NoReport}
  BY DEF LiveInv, LiveTyped, FileThere
<1>3. more \in SUBSET Account
  BY <1>2, AffectedTyped
<1>4. new = live[n].report /\ more = Affected(new, taken[n])
  OBVIOUS
<1> HIDE DEF new, more
<1>5. Scans(scan', "stat", {}, scan.affected \cup more)
  BY <1>1, <1>3, ScanValues
<1>6. LiveTyped' /\ StampsKnown'
  BY <1>1, <1>2, <1>5 DEF LiveInv, LiveTyped, StampsKnown, Scans
<1>7. \A s \in Statusline : NewStamp(s)'
  BY <1>1 DEF LiveInv, LiveTyped, NewStamp
<1>8. OneAtWork' /\ ReadAsNoted'
  BY <1>1, <1>4, <1>5 DEF LiveInv, LiveTyped, OneAtWork, ReadAsNoted, Scans
<1>9. \A a \in Account \ more : ReportsOf(a)' = ReportsOf(a)
  <2>1. \A m \in Name : taken'[m] # taken[m] => Affected(taken'[m], taken[m]) \subseteq more
    BY <1>1, <1>4 DEF LiveInv, LiveTyped
  <2> QED
    BY <1>3, <1>6, <2>1, ReportsOfOthers DEF LiveInv
<1>10. polled' = polled /\ usage' = usage /\ polled \subseteq Account
  BY <1>1 DEF LiveInv, LiveTyped
<1>11. Merged'
  BY <1>5, <1>9, <1>10 DEF LiveInv, Merged, Scans
<1> QED
  BY <1>6, <1>7, <1>8, <1>11 DEF LiveInv

LEMMA ForgetLive ==
    ASSUME LiveInv, ForgetGone
    PROVE  LiveInv'
<1> DEFINE gone == {n \in Name \ scan.present : stats[n] # 0}
           more == UNION {AccountOf(taken[n]) : n \in gone}
<1>1. /\ stats' = [n \in Name |-> IF n \in gone THEN 0 ELSE stats[n]]
      /\ taken' = [n \in Name |-> IF n \in gone THEN NoReport ELSE taken[n]]
      /\ scan.at = "stat" /\ scan.on = {} /\ scan \in Scanning
      /\ scan' = [scan EXCEPT !.at = "apply", !.affected = @ \cup more]
      /\ UNCHANGED <<live, writer, stamps, polled, usage>>
  BY DEF ForgetGone, LiveInv, LiveTyped, OneAtWork
<1>2. \A n \in gone : AccountOf(taken[n]) \subseteq Account
  BY DEF LiveInv, LiveTyped, AccountOf, Report
<1>3. more \in SUBSET Account
  BY <1>2
<1>4. \A n \in gone : n \in Name /\ AccountOf(taken[n]) \subseteq more
  OBVIOUS
<1> HIDE DEF gone, more
<1>5. Scans(scan', "apply", {}, scan.affected \cup more)
  <2>1. Scans([scan EXCEPT !.at = "apply", !.affected = @ \cup more], "apply", scan.on, scan.affected \cup more)
    BY <1>1, <1>3, ScanStops
  <2> QED
    BY <1>1, <2>1
<1>6. LiveTyped' /\ StampsKnown'
  BY <1>1, <1>5 DEF LiveInv, LiveTyped, StampsKnown, Scans
<1>7. \A s \in Statusline : NewStamp(s)'
  BY <1>1, WriterFields DEF LiveInv, LiveTyped, NewStamp
<1>8. OneAtWork' /\ ReadAsNoted'
  BY <1>1, <1>5 DEF LiveInv, LiveTyped, OneAtWork, ReadAsNoted, Scans
<1>9. \A a \in Account \ more : ReportsOf(a)' = ReportsOf(a)
  <2>1. \A m \in Name : taken'[m] # taken[m] => Affected(taken'[m], taken[m]) \subseteq more
    BY <1>1, <1>4 DEF Affected, AccountOf
  <2> QED
    BY <1>3, <1>6, <2>1, ReportsOfOthers DEF LiveInv
<1>10. polled' = polled /\ usage' = usage /\ polled \subseteq Account
  BY <1>1 DEF LiveInv, LiveTyped
<1>11. Merged'
  BY <1>5, <1>9, <1>10 DEF LiveInv, Merged, Scans
<1> QED
  BY <1>6, <1>7, <1>8, <1>11 DEF LiveInv

\* A profile's usage becomes its reports, if it is polled.
LEMMA Applied ==
    ASSUME LiveTyped, NEW a \in Account, ApplyUsage(a), taken' = taken
    PROVE  /\ usage' = [b \in Account |-> usage'[b]]
           /\ \A b \in Account : ReportsOf(b)' = ReportsOf(b) /\ (b # a => usage'[b] = usage[b])
           /\ a \in polled' => usage'[a] = ReportsOf(a)
<1> DEFINE R == ReportsOf(a)
<1>1. \A b \in Account : ReportsOf(b)' = ReportsOf(b)
  BY DEF ReportsOf
<1>2. usage = [b \in Account |-> usage[b]]
  BY DEF LiveTyped
<1>3. usage' = IF R = {} /\ a \notin polled' THEN usage ELSE [usage EXCEPT ![a] = R]
  BY DEF ApplyUsage
<1> HIDE DEF R
<1>4. /\ usage' = [b \in Account |-> usage'[b]]
      /\ \A b \in Account : b # a => usage'[b] = usage[b]
      /\ a \in polled' => usage'[a] = R
  BY <1>2, <1>3
<1> QED
  BY <1>1, <1>4 DEF R

LEMMA ApplyLive ==
    ASSUME LiveInv, ApplyAffected
    PROVE  LiveInv'
<1>1. /\ scan.at = "apply" /\ scan.on = {} /\ scan \in Scanning /\ scan.affected \subseteq Account
      /\ UNCHANGED <<live, writer, stamps, stats, taken, polled>>
  BY DEF ApplyAffected, LiveInv, LiveTyped, OneAtWork, Scanning
<1>2. ASSUME NEW at \in {"idle", "apply"}, NEW affected, Scans(scan', at, {}, affected),
             usage' = [b \in Account |-> usage'[b]], Merged'
      PROVE  LiveInv'
  <2>1. LiveTyped' /\ StampsKnown' /\ \A s \in Statusline : NewStamp(s)'
    BY <1>1, <1>2 DEF LiveInv, LiveTyped, StampsKnown, NewStamp, Scans
  <2>2. OneAtWork' /\ ReadAsNoted'
    BY <1>1, <1>2 DEF LiveInv, LiveTyped, OneAtWork, ReadAsNoted, Scans
  <2> QED
    BY <1>2, <2>1, <2>2 DEF LiveInv
<1>3. ASSUME NEW a \in scan.affected, scan' = [scan EXCEPT !.affected = @ \ {a}], ApplyUsage(a)
      PROVE  LiveInv'
  <2>1. Scans(scan', "apply", {}, scan.affected \ {a})
    BY <1>1, <1>3, ScanEnds
  <2>2. /\ usage' = [b \in Account |-> usage'[b]]
        /\ \A b \in Account : ReportsOf(b)' = ReportsOf(b) /\ (b # a => usage'[b] = usage[b])
        /\ a \in polled' => usage'[a] = ReportsOf(a)
    BY <1>1, <1>3, Applied DEF LiveInv
  <2>3. polled' = polled /\ polled \subseteq Account
    BY <1>1 DEF LiveInv, LiveTyped
  <2>4. Merged'
    BY <1>1, <2>1, <2>2, <2>3 DEF LiveInv, Merged, Scans
  <2> QED
    BY <1>2, <2>1, <2>2, <2>4
<1>4. CASE scan.affected = {} /\ scan' = IdleScan /\ UNCHANGED usage
  <2>1. Scans(scan', "idle", {}, {})
    BY <1>4 DEF Scans, Scanning, ScanPlace, IdleScan
  <2>2. usage' = [b \in Account |-> usage'[b]]
    BY <1>4 DEF LiveInv, LiveTyped
  <2>3. Merged'
    BY <1>1, <1>4, <2>1 DEF LiveInv, Merged, ReportsOf, Scans
  <2> QED
    BY <1>2, <2>1, <2>2, <2>3
<1> QED
  BY <1>3, <1>4 DEF ApplyAffected

LEMMA PolledLive ==
    ASSUME LiveInv, NEW a \in Account, Polled(a)
    PROVE  LiveInv'
<1>1. /\ polled' = polled \cup {a} /\ ApplyUsage(a) /\ polled \subseteq Account
      /\ UNCHANGED <<live, writer, stamps, scan, stats, taken>>
  BY DEF Polled, LiveInv, LiveTyped
<1>2. /\ usage' = [b \in Account |-> usage'[b]]
      /\ \A b \in Account : ReportsOf(b)' = ReportsOf(b) /\ (b # a => usage'[b] = usage[b])
      /\ a \in polled' => usage'[a] = ReportsOf(a)
  BY <1>1, Applied DEF LiveInv
<1>3. LiveTyped' /\ StampsKnown' /\ \A s \in Statusline : NewStamp(s)'
  BY <1>1, <1>2 DEF LiveInv, LiveTyped, StampsKnown, NewStamp
<1>4. OneAtWork' /\ ReadAsNoted'
  BY <1>1 DEF LiveInv, OneAtWork, ReadAsNoted
<1>5. Merged'
  BY <1>1, <1>2 DEF LiveInv, Merged
<1> QED
  BY <1>3, <1>4, <1>5 DEF LiveInv

LEMMA LiveStep ==
    ASSUME LiveInv, [LiveNext]_liveVars
    PROVE  LiveInv'
<1>1. CASE UNCHANGED liveVars
  <2>1. LiveTyped' /\ StampsKnown' /\ \A s \in Statusline : NewStamp(s)'
    BY <1>1 DEF liveVars, LiveInv, LiveTyped, StampsKnown, NewStamp
  <2>2. OneAtWork' /\ ReadAsNoted' /\ Merged'
    BY <1>1 DEF liveVars, LiveInv, OneAtWork, ReadAsNoted, Merged, ReportsOf
  <2> QED
    BY <2>1, <2>2 DEF LiveInv
<1> QED
  BY <1>1, StartReportLive, EndReportLive, AgesLive, SpoiledLive, StartScanLive, StatLive, UnlinkLive,
     ReadLive, ForgetLive, ApplyLive, PolledLive, Zenon DEF LiveNext

(* The watcher never takes a report for read that it has not read, and     *)
(* between two scans a polled profile's usage holds exactly the reports    *)
(* last read for it, for any number of statuslines and files.              *)
THEOREM UsageFollowsReports == LiveSpec => []Followed
<1>1. LiveInit => LiveInv
  <2> SUFFICES ASSUME LiveInit
               PROVE  LiveInv
    OBVIOUS
  <2>1. ~NoWriter.on /\ NoFileThere \in FileThere /\ NoFileThere.stamp = 0 /\ Scans(IdleScan, "idle", {}, {})
    BY NoFileTyped DEF NoWriter, Scans, Scanning, ScanPlace, IdleScan
  <2> QED
    BY <2>1 DEF LiveInit, LiveInv, LiveTyped, StampsKnown, NewStamp, OneAtWork, ReadAsNoted, Merged, Scans
<1>2. LiveInv /\ [LiveNext]_liveVars => LiveInv'
  BY LiveStep
<1>3. LiveInv => Followed
  BY DEF LiveInv, LiveTyped, Merged, ReadAsNoted, Followed, Unseen
<1> QED
  BY <1>1, <1>2, <1>3, PTL DEF LiveSpec

-----------------------------------------------------------------------------
(* The statusline setting: nothing is lost.                                *)

Ops == 0 .. MaxOps
RunSteps == {"idle", "undo", "undoing", "undone", "do", "doing", "record", "note"}
Run == [op : {"none", "apply", "revert"}, step : RunSteps, path : Dir \cup {NoFile}, at : Dir \cup {NoFile},
        book : Book \cup {NoBook}, by : 0 .. MaxWrites, seen : File \cup {NoFile}, previous : Line,
        conflict : BOOLEAN, tries : Nat, id : Ops]
Backup == [id : Ops, at : Dir, line : Line]
Spent == [ops : Ops, writes : 0 .. MaxWrites, faults : 0 .. MaxFaults]

Busy(c) == run[c].op # "none"

\* A process that runs knows its directories, and one that undoes has a record.
RunTyped(r) ==
    /\ r \in Run
    /\ r.op = "none" <=> r.step = "idle"
    /\ r.op # "none" => r.path \in Dir /\ r.at \in Dir
    /\ r.step \in {"undo", "undoing", "undone"} => r.book \in Book

LineTyped ==
    /\ settings \in [Dir -> File \cup {NoFile}] /\ others \in [Dir -> 0 .. MaxWrites]
    /\ users \in [Dir -> UserLine \cup {NoLine}] /\ unsaved \subseteq Dir
    /\ book \in Book \cup {NoBook} /\ backups \subseteq Backup
    /\ dir \in Dir /\ python \in 0 .. lineSpent.writes /\ lineSpent \in Spent
    /\ run = [c \in Proc |-> run[c]] /\ \A c \in Proc : RunTyped(run[c])

\* A line of ccs's own.
OurLine(l) == l \notin UserLine \cup {NoLine}

\* What a process has read, and the number of what it does.
ReadsKnown ==
    /\ \A c \in Proc : run[c].step = "undoing" => OurLine(LineOf(run[c].seen))
    /\ \A c \in Proc : run[c].op # "none" => run[c].id <= lineSpent.ops
    /\ \A c, e \in Proc : run[c].op # "none" /\ run[e].op # "none" /\ run[c].id = run[e].id => c = e
    /\ \A b \in backups : b.id <= lineSpent.ops

\* The only copy of a user's line that a process may take away is the one it made in this attempt.
CopiesOwn ==
    /\ \A c \in Proc : run[c].step = "doing" => Copy(run[c]) \subseteq backups
    /\ \A c \in Proc, b \in backups :
        run[c].op # "none" /\ b.id = run[c].id /\ b.line \in UserLine =>
            \/ run[c].step = "doing" /\ b \in Copy(run[c])
            \/ run[c].step \in {"record", "note"}

\* No process will take the copy away.
Settled(b) == \A c \in Proc : run[c].step = "doing" => run[c].id # b.id

\* The user's line is in the file or in a backup that stays, but for an interrupt that took it.
LineFound(d) ==
    \/ d \in unsaved
    \/ users[d] \in {NoLine, LineOf(settings[d])}
    \/ \E b \in backups : b.line = users[d] /\ Settled(b)

KeptInv == LineTyped /\ OthersKept /\ ReadsKnown /\ CopiesOwn /\ \A d \in Dir : LineFound(d)

-----------------------------------------------------------------------------
(* What a process becomes. *)

\* A process that goes on with its operation.
Becomes(n, r, stage) ==
    RunTyped(n) /\ n.step = stage /\ n.op = r.op /\ n.id = r.id /\ n.at = r.at /\ n.path = r.path

LEMMA IdleTyped == RunTyped(Idle) /\ Idle.op = "none" /\ Idle.step = "idle"
<1>1. Idle.op = "none" /\ Idle.step = "idle"
  BY DEF Idle
<1>2. NoLine \in Line /\ 0 \in Ops /\ 0 \in 0 .. MaxWrites
  BY StatuslineAssumption DEF Line, Ops
<1>3. Idle \in Run
  BY <1>2 DEF Idle, Run, RunSteps
<1> QED
  BY <1>1, <1>3 DEF RunTyped

LEMMA FileFields ==
    ASSUME NEW f \in File \cup {NoFile}
    PROVE  /\ LineOf(f) \in Line /\ OtherOf(f) \in 0 .. MaxWrites
           /\ f # NoFile => f.line = LineOf(f) /\ f \in File
  BY StatuslineAssumption DEF LineOf, OtherOf, File, Line

LEMMA WithLineFields ==
    ASSUME NEW f \in File \cup {NoFile}, NEW l \in Line
    PROVE  /\ WithLine(f, l) \in File /\ WithLine(f, l) # NoFile
           /\ LineOf(WithLine(f, l)) = l /\ OtherOf(WithLine(f, l)) = OtherOf(f)
<1>1. OtherOf(f) \in 0 .. MaxWrites
  BY FileFields
<1>2. WithLine(f, l) \in File /\ WithLine(f, l).line = l /\ WithLine(f, l).other = OtherOf(f)
  BY <1>1 DEF WithLine, File
<1> HIDE DEF WithLine
<1>3. WithLine(f, l) # NoFile
  BY <1>2, StatuslineAssumption
<1> QED
  BY <1>2, <1>3 DEF LineOf, OtherOf

LEMMA OursFields ==
    ASSUME NEW d \in Dir, NEW by \in 0 .. MaxWrites
    PROVE  Ours(d, by) \in Line /\ OurLine(Ours(d, by)) /\ Ours(d, by).script = d
<1>1. Ours(d, by) \in [script : Dir, python : 0 .. MaxWrites] /\ Ours(d, by).script = d
  BY DEF Ours
<1> HIDE DEF Ours
<1> QED
  BY <1>1, StatuslineAssumption DEF Line, OurLine

LEMMA CopyFields ==
    ASSUME NEW r, RunTyped(r), r.op # "none", NEW b \in Copy(r)
    PROVE  b \in Backup /\ b.id = r.id /\ b.line = LineOf(r.seen)
<1>1. /\ r.seen # NoFile /\ r.seen \in File \cup {NoFile} /\ r.id \in Ops /\ r.at \in Dir
      /\ b = [id |-> r.id, at |-> r.at, line |-> r.seen.line]
  BY DEF Copy, RunTyped, Run
<1>2. r.seen.line = LineOf(r.seen) /\ LineOf(r.seen) \in Line
  BY <1>1, FileFields
<1> QED
  BY <1>1, <1>2 DEF Backup

\* The copy of what was read is of that reading.
LEMMA CopyOf ==
    ASSUME NEW r, r.seen # NoFile, r.seen \in File
    PROVE  Copy(r) # {} /\ \A b \in Copy(r) : b.id = r.id /\ b.line = LineOf(r.seen)
<1> DEFINE b == [id |-> r.id, at |-> r.at, line |-> r.seen.line]
<1>1. Copy(r) = {b} /\ LineOf(r.seen) = r.seen.line
  BY DEF Copy, LineOf
<1>2. b.id = r.id /\ b.line = r.seen.line
  OBVIOUS
<1> HIDE DEF b
<1> QED
  BY <1>1, <1>2

-----------------------------------------------------------------------------
(* The parts of the invariant. *)

\* A user's line is found where it was, as long as the file's line stays or was ccs's own.
LEMMA FoundStays ==
    ASSUME KeptInv, NEW d \in Dir, users'[d] = users[d], unsaved \subseteq unsaved',
           LineOf(settings'[d]) = LineOf(settings[d]) \/ OurLine(LineOf(settings[d])),
           \A b \in backups : b.line \in UserLine /\ Settled(b) => b \in backups' /\ Settled(b)'
    PROVE  LineFound(d)'
<1>1. users[d] \in UserLine \cup {NoLine} /\ LineFound(d)
  BY DEF KeptInv, LineTyped
<1>2. CASE users[d] \in {NoLine, LineOf(settings[d])}
  BY <1>1, <1>2 DEF LineFound, OurLine
<1>3. CASE \E b \in backups : b.line = users[d] /\ Settled(b)
  BY <1>1, <1>3 DEF LineFound
<1>4. CASE d \in unsaved
  BY <1>4 DEF LineFound
<1> QED
  BY <1>1, <1>2, <1>3, <1>4 DEF LineFound

\* A copy that stays, whatever one process does next but to begin to replace a file.
LEMMA SettledStays ==
    ASSUME LineTyped, NEW c \in Proc, NEW n, run' = [run EXCEPT ![c] = n],
           n.step # "doing", NEW b, Settled(b)
    PROVE  Settled(b)'
  BY DEF LineTyped, Settled

\* One process changes; nothing of the others does.
LEMMA ProcTyped ==
    ASSUME LineTyped, NEW c \in Proc, NEW n, RunTyped(n), run' = [run EXCEPT ![c] = n]
    PROVE  run' = [e \in Proc |-> run'[e]] /\ \A e \in Proc : RunTyped(run'[e])
  BY DEF LineTyped

\* The operation of one process goes on, or ends, and takes away no user's copy that stays.
LEMMA KnownStays ==
    ASSUME LineTyped, ReadsKnown, NEW c \in Proc, NEW n, RunTyped(n), run' = [run EXCEPT ![c] = n],
           n.op = "none" \/ (n.id = run[c].id /\ run[c].op # "none"),
           n.step = "undoing" => OurLine(LineOf(n.seen)),
           lineSpent'.ops = lineSpent.ops,
           \A b \in backups' : b \notin backups => b.id = run[c].id /\ run[c].op # "none"
    PROVE  ReadsKnown'
<1>1. /\ \A e \in Proc : run'[e].step = "undoing" => OurLine(LineOf(run'[e].seen))
      /\ \A e \in Proc : run'[e].op # "none" => run'[e].id <= lineSpent.ops
      /\ \A b \in backups' : b.id <= lineSpent.ops
  BY DEF LineTyped, ReadsKnown
<1>2. \A e, g \in Proc : run'[e].op # "none" /\ run'[g].op # "none" /\ run'[e].id = run'[g].id => e = g
  BY DEF LineTyped, ReadsKnown
<1> QED
  BY <1>1, <1>2 DEF ReadsKnown

\* What one process makes of the copies leaves those of the others alone.
LEMMA CopiesStay ==
    ASSUME LineTyped, ReadsKnown, CopiesOwn, NEW c \in Proc, NEW n, RunTyped(n), run' = [run EXCEPT ![c] = n],
           n.op = "none" \/ (n.id = run[c].id /\ run[c].op # "none"),
           \A b \in backups : b \notin backups' => run[c].op # "none" /\ b.id = run[c].id,
           \A b \in backups' : b \notin backups => run[c].op # "none" /\ b.id = run[c].id,
           n.step = "doing" => Copy(n) \subseteq backups',
           n.op # "none" => \A b \in backups' : b.id = n.id /\ b.line \in UserLine =>
               \/ n.step = "doing" /\ b \in Copy(n)
               \/ n.step \in {"record", "note"}
    PROVE  CopiesOwn'
<1>1. \A e \in Proc : e # c => run'[e] = run[e]
  BY DEF LineTyped
<1>2. run'[c] = n
  BY DEF LineTyped
<1>3. \A e \in Proc : RunTyped(run[e])
  BY DEF LineTyped
<1>4. ASSUME NEW e \in Proc, run'[e].step = "doing"
      PROVE  Copy(run'[e]) \subseteq backups'
  <2>1. CASE e = c
    BY <1>2, <1>4, <2>1
  <2>2. CASE e # c
    <3>1. run[e].op # "none" /\ Copy(run[e]) \subseteq backups
      BY <1>1, <1>3, <1>4, <2>2 DEF CopiesOwn, RunTyped
    <3>2. \A b \in Copy(run[e]) : b.id = run[e].id
      BY <1>3, <3>1, CopyFields
    <3>3. run[c].op # "none" => run[e].id # run[c].id
      BY <2>2, <3>1 DEF ReadsKnown
    <3>4. ASSUME NEW b \in Copy(run[e])
          PROVE  b \in backups'
      BY <3>1, <3>2, <3>3, <3>4
    <3> QED
      BY <1>1, <2>2, <3>4
  <2> QED
    BY <2>1, <2>2
<1>5. ASSUME NEW e \in Proc, NEW b \in backups', run'[e].op # "none", b.id = run'[e].id, b.line \in UserLine
      PROVE  \/ run'[e].step = "doing" /\ b \in Copy(run'[e])
             \/ run'[e].step \in {"record", "note"}
  <2>1. CASE e = c
    BY <1>2, <1>5, <2>1
  <2>2. CASE e # c
    <3>1. run'[e] = run[e] /\ (run[c].op # "none" => run[e].id # run[c].id)
      BY <1>1, <1>5, <2>2 DEF ReadsKnown
    <3>2. b \in backups
      BY <1>5, <3>1
    <3> QED
      BY <1>5, <3>1, <3>2 DEF CopiesOwn
  <2> QED
    BY <2>1, <2>2
<1> QED
  BY <1>4, <1>5 DEF CopiesOwn

-----------------------------------------------------------------------------
(* The steps of a process. *)

\* An operation ends, with or without its record.
LEMMA EndsKept ==
    ASSUME KeptInv, NEW c \in Proc, Done(c), run[c].op # "none",
           backups' = backups \/ (run[c].step \in {"undoing", "doing"} /\ backups' = backups \ Copy(run[c])),
           book' \in Book \cup {NoBook}, lineSpent' \in Spent, lineSpent'.ops = lineSpent.ops,
           lineSpent'.writes = lineSpent.writes, UNCHANGED <<settings, dir, python, others, users, unsaved>>
    PROVE  KeptInv'
<1>1. run' = [run EXCEPT ![c] = Idle] /\ RunTyped(Idle) /\ Idle.op = "none" /\ Idle.step = "idle"
  BY IdleTyped DEF Done, Does
<1>2. backups' \subseteq backups /\ \A b \in backups : b \notin backups' => b.id = run[c].id
  BY CopyFields DEF KeptInv, LineTyped
<1>3. LineTyped'
  BY <1>1, <1>2, ProcTyped DEF KeptInv, LineTyped
<1>4. ReadsKnown'
  BY <1>1, <1>2, KnownStays DEF KeptInv
<1>5. CopiesOwn'
  BY <1>1, <1>2, CopiesStay DEF KeptInv
<1>6. ASSUME NEW b \in backups, b.line \in UserLine, Settled(b)
      PROVE  b \in backups' /\ Settled(b)'
  <2>1. Settled(b)'
    BY <1>1, <1>6, SettledStays DEF KeptInv
  <2>2. b \in backups'
    <3>1. CASE run[c].step = "doing"
      BY <1>2, <1>6, <3>1 DEF Settled
    <3>2. CASE run[c].step = "undoing"
      BY <1>6, <3>2, CopyFields DEF KeptInv, LineTyped, ReadsKnown, OurLine
    <3> QED
      BY <3>1, <3>2
  <2> QED
    BY <2>1, <2>2
<1>7. \A d \in Dir : LineFound(d)'
  BY <1>6, FoundStays
<1>8. OthersKept'
  BY DEF KeptInv, OthersKept
<1> QED
  BY <1>3, <1>4, <1>5, <1>7, <1>8 DEF KeptInv

\* An operation goes on where it neither replaces a file nor has replaced one.
LEMMA GoesOnKept ==
    ASSUME KeptInv, NEW c \in Proc, NEW n, NEW stage \in {"do", "undo", "note"}, Becomes(n, run[c], stage), Does(c, n),
           run[c].op # "none", run[c].step \in {"undo", "undone", "do"},
           book' \in Book \cup {NoBook}, UNCHANGED <<backups, settings, dir, python, others, users, unsaved, lineSpent>>
    PROVE  KeptInv'
<1>1. /\ run' = [run EXCEPT ![c] = n] /\ RunTyped(n) /\ n.id = run[c].id /\ n.op = run[c].op /\ n.step = stage
  BY DEF Does, Becomes
<1>2. LineTyped'
  BY <1>1, ProcTyped DEF KeptInv, LineTyped
<1>3. ReadsKnown'
  BY <1>1, KnownStays DEF KeptInv
<1>4. \A b \in backups : ~(b.id = n.id /\ b.line \in UserLine)
  BY <1>1 DEF KeptInv, CopiesOwn
<1>5. CopiesOwn'
  BY <1>1, <1>4, CopiesStay DEF KeptInv
<1>6. \A b \in backups : Settled(b) => Settled(b)'
  BY <1>1, SettledStays DEF KeptInv
<1>7. \A d \in Dir : LineFound(d)'
  BY <1>6, FoundStays
<1>8. OthersKept'
  BY DEF KeptInv, OthersKept
<1> QED
  BY <1>2, <1>3, <1>5, <1>7, <1>8 DEF KeptInv

\* A file is read to be replaced, and copied.
LEMMA ReadKept ==
    ASSUME KeptInv, NEW c \in Proc, NEW n, NEW stage \in {"undoing", "doing"}, Becomes(n, run[c], stage), Does(c, n),
           stage = "undoing" => OurLine(LineOf(n.seen)),
           run[c].op # "none", run[c].step \in {"undo", "do"},
           backups' = backups \cup Copy(n), UNCHANGED <<book, settings, dir, python, others, users, unsaved, lineSpent>>
    PROVE  KeptInv'
<1>1. /\ run' = [run EXCEPT ![c] = n] /\ RunTyped(n) /\ n.id = run[c].id /\ n.op = run[c].op /\ n.step = stage
  BY DEF Does, Becomes
<1>2. \A b \in Copy(n) : b \in Backup /\ b.id = n.id /\ b.line = LineOf(n.seen)
  BY <1>1, CopyFields
<1>3. LineTyped'
  BY <1>1, <1>2, ProcTyped DEF KeptInv, LineTyped
<1>4. ReadsKnown'
  BY <1>1, <1>2, KnownStays DEF KeptInv
<1>5. \A b \in backups : ~(b.id = n.id /\ b.line \in UserLine)
  BY <1>1 DEF KeptInv, CopiesOwn
<1>6. CopiesOwn'
  <2>1. \A b \in backups' : b.id = n.id /\ b.line \in UserLine => n.step = "doing" /\ b \in Copy(n)
    BY <1>1, <1>2, <1>5 DEF OurLine
  <2> QED
    BY <1>1, <1>2, <2>1, CopiesStay DEF KeptInv
<1>7. ASSUME NEW b \in backups, b.line \in UserLine, Settled(b)
      PROVE  b \in backups' /\ Settled(b)'
  <2>1. b.id # n.id
    BY <1>5, <1>7
  <2> QED
    BY <1>1, <1>7, <2>1 DEF Settled, KeptInv, LineTyped
<1>8. \A d \in Dir : LineFound(d)'
  BY <1>7, FoundStays
<1>9. OthersKept'
  BY DEF KeptInv, OthersKept
<1> QED
  BY <1>3, <1>4, <1>6, <1>8, <1>9 DEF KeptInv

\* The file is replaced: nothing else changed since it was read.
LEMMA WrittenKept ==
    ASSUME KeptInv, NEW c \in Proc, NEW n, NEW stage \in {"undone", "record"}, Becomes(n, run[c], stage), Does(c, n),
           NEW d \in Dir, NEW line \in Line, settings[d] = run[c].seen,
           settings' = [settings EXCEPT ![d] = WithLine(run[c].seen, line)],
           \/ run[c].step = "undoing" /\ stage = "undone"
           \/ run[c].step = "doing" /\ stage = "record",
           UNCHANGED <<backups, book, dir, python, others, users, unsaved, lineSpent>>
    PROVE  KeptInv'
<1>1. /\ run' = [run EXCEPT ![c] = n] /\ RunTyped(n) /\ n.id = run[c].id /\ n.op = run[c].op /\ n.step = stage
      /\ run[c].op # "none"
  BY DEF Does, Becomes, KeptInv, LineTyped, RunTyped
<1>2. settings[d] \in File \cup {NoFile} /\ run[c].seen \in File \cup {NoFile}
  BY DEF KeptInv, LineTyped
<1> DEFINE f == WithLine(run[c].seen, line)
<1>3. f \in File /\ LineOf(f) = line /\ OtherOf(f) = OtherOf(settings[d])
  BY <1>2, WithLineFields
<1>4. settings' = [settings EXCEPT ![d] = f]
  OBVIOUS
<1> HIDE DEF f
<1>5. LineTyped'
  BY <1>1, <1>3, <1>4, ProcTyped DEF KeptInv, LineTyped
<1>6. ReadsKnown'
  BY <1>1, KnownStays DEF KeptInv
<1>7. CopiesOwn'
  <2>1. run[c].step = "undoing" => \A b \in backups : ~(b.id = n.id /\ b.line \in UserLine)
    BY <1>1 DEF KeptInv, CopiesOwn
  <2> QED
    BY <1>1, <2>1, CopiesStay DEF KeptInv
<1>8. \A b \in backups : Settled(b) => Settled(b)'
  BY <1>1, SettledStays DEF KeptInv
<1>9. OthersKept'
  BY <1>3, <1>4 DEF KeptInv, LineTyped, OthersKept
<1>10. ASSUME NEW e \in Dir
       PROVE  LineFound(e)'
  <2>1. CASE e # d
    <3>1. settings'[e] = settings[e]
      BY <1>4, <2>1 DEF KeptInv, LineTyped
    <3> QED
      BY <1>8, <3>1, FoundStays
  <2>2. CASE OurLine(LineOf(settings[e]))
    BY <1>8, <2>2, FoundStays
  <2>3. CASE e = d /\ users[e] \in {NoLine, LineOf(settings[e])} /\ run[c].step = "doing"
    <3>1. CASE settings[d] = NoFile
      BY <2>3, <3>1 DEF LineFound, LineOf
    <3>2. CASE settings[d] # NoFile
      <4>1. PICK b \in Copy(run[c]) : b.id = run[c].id /\ b.line = LineOf(run[c].seen)
        BY <1>2, <3>2, CopyOf
      <4>2. b \in backups
        BY <2>3, <4>1 DEF KeptInv, CopiesOwn
      <4>3. Settled(b)'
        <5>1. ASSUME NEW g \in Proc, run'[g].step = "doing"
              PROVE  run'[g].id # b.id
          <6>1. g # c /\ run'[g] = run[g]
            BY <1>1, <5>1 DEF KeptInv, LineTyped
          <6>2. run[g].op # "none"
            BY <5>1, <6>1 DEF KeptInv, LineTyped, RunTyped
          <6> QED
            BY <1>1, <4>1, <6>1, <6>2 DEF KeptInv, ReadsKnown
        <5> QED
          BY <5>1 DEF Settled
      <4> QED
        BY <2>3, <4>1, <4>2, <4>3 DEF LineFound
    <3> QED
      BY <3>1, <3>2
  <2>4. CASE \E b \in backups : b.line = users[e] /\ Settled(b)
    BY <1>8, <2>4 DEF LineFound
  <2>5. run[c].step = "undoing" => OurLine(LineOf(settings[d]))
    BY DEF KeptInv, ReadsKnown
  <2>6. LineFound(e)
    BY DEF KeptInv
  <2>7. CASE e \in unsaved
    BY <2>7 DEF LineFound
  <2> QED
    BY <2>1, <2>2, <2>3, <2>4, <2>5, <2>6, <2>7 DEF LineFound
<1> QED
  BY <1>5, <1>6, <1>7, <1>9, <1>10 DEF KeptInv

\* The file was written meanwhile: the copy goes, and it is read again.
LEMMA AgainKept ==
    ASSUME KeptInv, NEW c \in Proc, NEW n, NEW stage \in {"undo", "do"}, Becomes(n, run[c], stage), Does(c, n),
           run[c].step \in {"undoing", "doing"}, backups' = backups \ Copy(run[c]),
           UNCHANGED <<settings, book, dir, python, others, users, unsaved, lineSpent>>
    PROVE  KeptInv'
<1>1. /\ run' = [run EXCEPT ![c] = n] /\ RunTyped(n) /\ n.id = run[c].id /\ n.op = run[c].op /\ n.step = stage
      /\ run[c].op # "none"
  BY DEF Does, Becomes, KeptInv, LineTyped, RunTyped
<1>2. \A b \in Copy(run[c]) : b.id = run[c].id /\ b.line = LineOf(run[c].seen)
  BY <1>1, CopyFields DEF KeptInv, LineTyped
<1>3. LineTyped'
  BY <1>1, ProcTyped DEF KeptInv, LineTyped
<1>4. ReadsKnown'
  BY <1>1, KnownStays DEF KeptInv
<1>5. CopiesOwn'
  <2>1. \A b \in backups' : ~(b.id = n.id /\ b.line \in UserLine)
    BY <1>1 DEF KeptInv, CopiesOwn
  <2> QED
    BY <1>1, <1>2, <2>1, CopiesStay DEF KeptInv
<1>6. ASSUME NEW b \in backups, b.line \in UserLine, Settled(b)
      PROVE  b \in backups' /\ Settled(b)'
  <2>1. Settled(b)'
    BY <1>1, <1>6, SettledStays DEF KeptInv
  <2>2. CASE run[c].step = "doing"
    BY <1>2, <1>6, <2>1, <2>2 DEF Settled
  <2>3. CASE run[c].step = "undoing"
    BY <1>2, <1>6, <2>1, <2>3 DEF KeptInv, ReadsKnown, OurLine
  <2> QED
    BY <2>2, <2>3
<1>7. \A d \in Dir : LineFound(d)'
  BY <1>6, FoundStays
<1>8. OthersKept'
  BY DEF KeptInv, OthersKept
<1> QED
  BY <1>3, <1>4, <1>5, <1>7, <1>8 DEF KeptInv

\* What a process becomes when it begins, reads a file, goes on without a record, or after it replaced
\* a file or found it changed.
Applies(id, at, stage) ==
    [Idle EXCEPT !.op = "apply", !.path = dir, !.book = book, !.by = python, !.id = id, !.at = at, !.step = stage]
Reverts(id, at) ==
    [Idle EXCEPT !.op = "revert", !.path = dir, !.book = book, !.id = id, !.at = at, !.step = "undo"]
ReadsUndo(r, f) == [r EXCEPT !.seen = f, !.step = "undoing"]
ReadsApply(r, f, l) == [r EXCEPT !.seen = f, !.previous = l, !.step = "doing"]
Notes(r) == [r EXCEPT !.previous = NoLine, !.step = "note"]
Conflicts(r) == [r EXCEPT !.conflict = TRUE, !.step = "do", !.tries = 0]
Unbooked(r) == [r EXCEPT !.book = NoBook, !.step = "do"]
Written(r, stage) == [r EXCEPT !.step = stage, !.tries = 0]
Again(r, stage) == [r EXCEPT !.step = stage, !.tries = @ + 1]

\* An operation begins with a number of its own.
LEMMA BeginKept ==
    ASSUME KeptInv, NEW c \in Proc, NEW n, Begin(c, n), RunTyped(n), n.step \in {"undo", "do"},
           n.id = lineSpent.ops + 1
    PROVE  KeptInv'
<1>1. /\ run[c].op = "none" /\ run' = [run EXCEPT ![c] = n] /\ n.op # "none"
      /\ UNCHANGED <<settings, book, backups, dir, python, others, users, unsaved>>
  BY DEF Begin, Does, RunTyped
<1>2. lineSpent' \in Spent /\ lineSpent'.ops = lineSpent.ops + 1 /\ lineSpent'.writes = lineSpent.writes
  BY StatuslineAssumption DEF Begin, LineSpends, KeptInv, LineTyped, Spent, Ops
<1>3. lineSpent.ops \in Nat
  BY StatuslineAssumption DEF KeptInv, LineTyped, Spent, Ops
<1>4. LineTyped'
  BY <1>1, <1>2, ProcTyped DEF KeptInv, LineTyped
<1>5. \A e \in Proc : run[e].op # "none" => run[e].id \in Nat /\ run[e].id <= lineSpent.ops
  BY StatuslineAssumption DEF KeptInv, LineTyped, RunTyped, Run, Ops, ReadsKnown
<1>6. \A b \in backups : b.id \in Nat /\ b.id <= lineSpent.ops
  BY StatuslineAssumption DEF KeptInv, LineTyped, Backup, Ops, ReadsKnown
<1>7. \A e \in Proc : run'[e] = IF e = c THEN n ELSE run[e]
  BY <1>1 DEF KeptInv, LineTyped
<1>8. ReadsKnown'
  <2>1. /\ \A e \in Proc : run'[e].step = "undoing" => OurLine(LineOf(run'[e].seen))
        /\ \A e \in Proc : run'[e].op # "none" => run'[e].id <= lineSpent'.ops
        /\ \A b \in backups' : b.id <= lineSpent'.ops
    BY <1>1, <1>2, <1>3, <1>5, <1>6, <1>7 DEF KeptInv, ReadsKnown
  <2>2. \A e, g \in Proc : run'[e].op # "none" /\ run'[g].op # "none" /\ run'[e].id = run'[g].id => e = g
    BY <1>3, <1>5, <1>7 DEF KeptInv, ReadsKnown
  <2> QED
    BY <2>1, <2>2 DEF ReadsKnown
<1>9. CopiesOwn'
  BY <1>1, <1>3, <1>6, <1>7 DEF KeptInv, CopiesOwn
<1>10. \A b \in backups : Settled(b) => Settled(b)'
  BY <1>1, SettledStays DEF KeptInv
<1>11. \A d \in Dir : LineFound(d)'
  BY <1>1, <1>10, FoundStays
<1>12. OthersKept'
  BY <1>1 DEF KeptInv, OthersKept
<1> QED
  BY <1>4, <1>8, <1>9, <1>11, <1>12 DEF KeptInv

\* What an apply and a revert begin with.
Starts(n, id, at, stage) ==
    /\ RunTyped(n) /\ n.path = dir /\ n.book = book /\ n.id = id /\ n.at = at /\ n.step = stage
    /\ n.conflict = FALSE

LEMMA BeginTyped ==
    ASSUME LineTyped, NEW at \in Dir, NEW id \in Ops, NEW stage \in {"undo", "do"}, stage = "undo" => book # NoBook
    PROVE  Starts(Applies(id, at, stage), id, at, stage)
<1>1. Idle \in Run /\ Idle.conflict = FALSE
  BY IdleTyped DEF RunTyped, Idle
<1>2. dir \in Dir /\ book \in Book \cup {NoBook} /\ python \in 0 .. MaxWrites
  BY StatuslineAssumption DEF LineTyped, Spent
<1> HIDE DEF Idle
<1> QED
  BY <1>1, <1>2 DEF Applies, Starts, RunTyped, Run, RunSteps

LEMMA RevertTyped ==
    ASSUME LineTyped, NEW at \in Dir, NEW id \in Ops, book # NoBook
    PROVE  Starts(Reverts(id, at), id, at, "undo")
<1>1. Idle \in Run /\ Idle.conflict = FALSE
  BY IdleTyped DEF RunTyped, Idle
<1>2. dir \in Dir /\ book \in Book \cup {NoBook}
  BY DEF LineTyped
<1> HIDE DEF Idle
<1> QED
  BY <1>1, <1>2 DEF Reverts, Starts, RunTyped, Run, RunSteps

LEMMA BeginApplyKept ==
    ASSUME KeptInv, NEW c \in Proc, BeginApply(c)
    PROVE  KeptInv'
<1> DEFINE at == IF book # NoBook /\ book.at # dir THEN book.at ELSE dir
           stage == IF book # NoBook /\ book.at # dir THEN "undo" ELSE "do"
           id == lineSpent.ops + 1
           m == Applies(id, at, stage)
<1>1. Begin(c, m)
  BY DEF BeginApply, Applies
<1>2. /\ at \in Dir /\ stage \in {"undo", "do"} /\ (stage = "undo" => book # NoBook)
      /\ LineTyped
  BY DEF KeptInv, LineTyped, Book
<1>3. id \in Ops
  BY <1>1, StatuslineAssumption DEF Begin, KeptInv, LineTyped, Spent, Ops
<1>4. id = lineSpent.ops + 1
  OBVIOUS
<1> HIDE DEF at, stage, id
<1>5. Starts(m, id, at, stage)
  BY <1>2, <1>3, BeginTyped
<1> HIDE DEF m
<1>6. RunTyped(m) /\ m.step = stage /\ m.id = id
  BY <1>5 DEF Starts
<1> QED
  BY <1>1, <1>2, <1>4, <1>6, BeginKept

LEMMA BeginRevertKept ==
    ASSUME KeptInv, NEW c \in Proc, BeginRevert(c)
    PROVE  KeptInv'
<1> DEFINE at == book.at
           id == lineSpent.ops + 1
           n == Reverts(id, at)
<1>1. Begin(c, n) /\ book # NoBook
  BY DEF BeginRevert, Reverts
<1>2. at \in Dir /\ LineTyped
  BY <1>1 DEF KeptInv, LineTyped, Book
<1>3. id \in Ops
  BY <1>1, StatuslineAssumption DEF Begin, KeptInv, LineTyped, Spent, Ops
<1>4. id = lineSpent.ops + 1
  OBVIOUS
<1> HIDE DEF at, id
<1>5. RunTyped(n) /\ n.step = "undo" /\ n.id = id
  BY <1>1, <1>2, <1>3, RevertTyped DEF Starts
<1> HIDE DEF n
<1> QED
  BY <1>1, <1>4, <1>5, BeginKept

\* What a process makes of what it read.
LEMMA ReadsUndoTyped ==
    ASSUME NEW r, RunTyped(r), r.op # "none", r.book \in Book, NEW f \in File \cup {NoFile}
    PROVE  Becomes(ReadsUndo(r, f), r, "undoing") /\ ReadsUndo(r, f).seen = f /\ ReadsUndo(r, f).book = r.book
  BY DEF ReadsUndo, Becomes, RunTyped, Run, RunSteps

LEMMA ReadsApplyTyped ==
    ASSUME NEW r, RunTyped(r), r.op # "none", NEW f \in File \cup {NoFile}, NEW l \in Line
    PROVE  /\ Becomes(ReadsApply(r, f, l), r, "doing") /\ ReadsApply(r, f, l).seen = f
           /\ ReadsApply(r, f, l).previous = l /\ ReadsApply(r, f, l).book = r.book
  BY DEF ReadsApply, Becomes, RunTyped, Run, RunSteps

LEMMA GoesTyped ==
    ASSUME NEW r, RunTyped(r), r.op # "none"
    PROVE  /\ Becomes(Notes(r), r, "note")
           /\ Becomes(Conflicts(r), r, "do") /\ Conflicts(r).conflict = TRUE /\ Conflicts(r).book = r.book
           /\ Becomes(Unbooked(r), r, "do") /\ Unbooked(r).book = NoBook
<1>1. Becomes(Notes(r), r, "note")
  <2>1. NoLine \in Line
    BY DEF Line
  <2>2. Notes(r) \in Run
    BY <2>1 DEF Notes, RunTyped, Run, RunSteps
  <2>3. /\ Notes(r).step = "note" /\ Notes(r).op = r.op /\ Notes(r).id = r.id /\ Notes(r).at = r.at
        /\ Notes(r).path = r.path
    BY DEF Notes, RunTyped, Run
  <2> QED
    BY <2>2, <2>3 DEF Becomes, RunTyped
<1>2. Becomes(Conflicts(r), r, "do") /\ Conflicts(r).conflict = TRUE /\ Conflicts(r).book = r.book
  BY DEF Conflicts, Becomes, RunTyped, Run, RunSteps
<1>3. Becomes(Unbooked(r), r, "do") /\ Unbooked(r).book = NoBook
  BY DEF Unbooked, Becomes, RunTyped, Run, RunSteps
<1> QED
  BY <1>1, <1>2, <1>3

\* What it read stays with it.
Tried(n, r, stage) ==
    /\ Becomes(n, r, stage)
    /\ n.seen = r.seen /\ n.book = r.book /\ n.previous = r.previous /\ n.conflict = r.conflict

LEMMA TriesTyped ==
    ASSUME NEW r, RunTyped(r), r.op # "none", NEW stage \in {"undo", "undone", "do", "record"},
           stage \in {"undo", "undone"} => r.book \in Book
    PROVE  /\ Tried(Written(r, stage), r, stage)
           /\ Tried(Again(r, stage), r, stage)
<1>1. Tried(Written(r, stage), r, stage)
  BY DEF Written, Tried, Becomes, RunTyped, Run, RunSteps
<1>2. Tried(Again(r, stage), r, stage)
  <2> DEFINE t == r.tries + 1
  <2>1. t \in Nat /\ Again(r, stage) = [r EXCEPT !.step = stage, !.tries = t]
    BY DEF Again, RunTyped, Run
  <2> HIDE DEF t
  <2> QED
    BY <2>1 DEF Tried, Becomes, RunTyped, Run, RunSteps
<1> QED
  BY <1>1, <1>2

\* A process that is somewhere runs.
LEMMA Runs ==
    ASSUME KeptInv, NEW c \in Proc, run[c].step # "idle"
    PROVE  /\ RunTyped(run[c]) /\ run[c].op # "none" /\ run[c].path \in Dir /\ run[c].at \in Dir
           /\ run[c].step \in {"undo", "undoing", "undone"} => run[c].book \in Book
           /\ run[c].previous \in Line /\ run[c].by \in 0 .. MaxWrites /\ run[c].seen \in File \cup {NoFile}
           /\ run[c].book \in Book \cup {NoBook}
  BY DEF KeptInv, LineTyped, RunTyped, Run

LEMMA ReadToUndoKept ==
    ASSUME KeptInv, NEW c \in Proc, ReadToUndo(c)
    PROVE  KeptInv'
<1> DEFINE r == run[c]
           f == settings[r.at]
           read == ReadsUndo(r, f)
           goes == Conflicts(r)
<1>1. /\ r.step = "undo" /\ RunTyped(r) /\ r.op # "none" /\ r.at \in Dir /\ r.book \in Book
      /\ UNCHANGED <<settings, book, dir, python, others, users, unsaved, lineSpent>>
  BY Runs DEF ReadToUndo, At
<1>2. f \in File \cup {NoFile} /\ NoLine \in Line
  BY <1>1 DEF KeptInv, LineTyped, Line
<1>4. \/ IsOurs(LineOf(f), r.at) /\ Does(c, read) /\ backups' = backups \cup Copy(read)
      \/ Done(c) /\ UNCHANGED backups
      \/ Does(c, goes) /\ UNCHANGED backups
  BY DEF ReadToUndo, ReadsUndo, Conflicts
<1>5. book' \in Book \cup {NoBook} /\ lineSpent' \in Spent
  BY <1>1 DEF KeptInv, LineTyped
<1> HIDE DEF f, r
<1>3. Becomes(read, r, "undoing") /\ read.seen = f /\ Becomes(goes, r, "do")
  <2>1. Becomes(read, r, "undoing") /\ read.seen = f
    BY <1>1, <1>2, ReadsUndoTyped
  <2>2. Becomes(goes, r, "do")
    BY <1>1, GoesTyped
  <2> QED
    BY <2>1, <2>2
<1> USE DEF r
<1> HIDE DEF read, goes
<1>6. CASE IsOurs(LineOf(f), r.at) /\ Does(c, read) /\ backups' = backups \cup Copy(read)
  <2>1. OurLine(LineOf(read.seen))
    BY <1>3, <1>6 DEF IsOurs, OurLine
  <2> QED
    BY <1>1, <1>3, <1>6, <2>1, ReadKept
<1>7. CASE Done(c) /\ UNCHANGED backups
  BY <1>1, <1>5, <1>7, EndsKept
<1>8. CASE Does(c, goes) /\ UNCHANGED backups
  BY <1>1, <1>3, <1>5, <1>8, GoesOnKept
<1> QED
  BY <1>4, <1>6, <1>7, <1>8

\* A replacement, or what is done when the file was written meanwhile.
LEMMA ReplaceKept ==
    ASSUME KeptInv, NEW c \in Proc, NEW d \in Dir, NEW line \in Line,
           NEW again \in {"undo", "do"}, NEW next \in {"undone", "record"}, Replace(c, d, line, again, next),
           \/ run[c].step = "undoing" /\ next = "undone" /\ again = "undo"
           \/ run[c].step = "doing" /\ next = "record" /\ again = "do",
           UNCHANGED <<book, dir, python, others, users, unsaved, lineSpent>>
    PROVE  KeptInv'
<1> DEFINE r == run[c]
           on == Written(r, next)
           back == Again(r, again)
<1>1. RunTyped(r) /\ r.op # "none" /\ (r.step = "undoing" => r.book \in Book)
  BY Runs
<1>2. Becomes(on, r, next) /\ Becomes(back, r, again)
  BY <1>1, TriesTyped DEF Tried
<1>3. \/ /\ settings[d] = r.seen /\ settings' = [settings EXCEPT ![d] = WithLine(r.seen, line)]
         /\ UNCHANGED backups /\ Does(c, on)
      \/ UNCHANGED settings /\ backups' = backups \ Copy(r) /\ Does(c, back)
      \/ UNCHANGED settings /\ backups' = backups \ Copy(r) /\ Done(c)
  BY DEF Replace, Unchanged, Dropped, Written, Again
<1>4. book' \in Book \cup {NoBook} /\ lineSpent' \in Spent
  BY DEF KeptInv, LineTyped
<1> HIDE DEF on, back
<1>5. CASE /\ settings[d] = r.seen /\ settings' = [settings EXCEPT ![d] = WithLine(r.seen, line)]
           /\ UNCHANGED backups /\ Does(c, on)
  BY <1>2, <1>5, WrittenKept
<1>6. CASE UNCHANGED settings /\ backups' = backups \ Copy(r) /\ Does(c, back)
  BY <1>2, <1>6, AgainKept
<1>7. CASE UNCHANGED settings /\ backups' = backups \ Copy(r) /\ Done(c)
  BY <1>1, <1>4, <1>7, EndsKept
<1> QED
  BY <1>3, <1>5, <1>6, <1>7

LEMMA UndoKept ==
    ASSUME KeptInv, NEW c \in Proc, Undo(c)
    PROVE  KeptInv'
<1>1. run[c].step = "undoing" /\ run[c].book \in Book /\ run[c].at \in Dir
  BY Runs DEF Undo, At
<1>2. run[c].book.previous \in Line
  BY <1>1 DEF Book
<1> QED
  BY <1>1, <1>2, ReplaceKept DEF Undo

LEMMA ApplyKept ==
    ASSUME KeptInv, NEW c \in Proc, Apply(c)
    PROVE  KeptInv'
<1>1. run[c].step = "doing" /\ run[c].path \in Dir /\ run[c].by \in 0 .. MaxWrites
  BY Runs DEF Apply, At
<1>2. Ours(run[c].path, run[c].by) \in Line
  BY <1>1, OursFields
<1> QED
  BY <1>1, <1>2, ReplaceKept DEF Apply

LEMMA UnbookKept ==
    ASSUME KeptInv, NEW c \in Proc, Unbook(c)
    PROVE  KeptInv'
<1> DEFINE r == run[c]
           goes == Unbooked(r)
<1>1. r.step = "undone" /\ RunTyped(r) /\ r.op # "none" /\ NoFile \in File \cup {NoFile} /\ NoLine \in Line
  BY Runs DEF Unbook, At, Line
<1>2. Becomes(goes, r, "do")
  BY <1>1, GoesTyped
<1>3. /\ Done(c) \/ Does(c, goes)
      /\ book' = NoBook /\ UNCHANGED <<settings, backups, dir, python, others, users, unsaved, calm, lineSpent>>
  BY DEF Unbook, Unbooked
<1>4. lineSpent' \in Spent
  BY <1>3 DEF KeptInv, LineTyped
<1> HIDE DEF goes
<1> QED
  BY <1>1, <1>2, <1>3, <1>4, EndsKept, GoesOnKept

\* What the line to be replaced stands for is a line.
LEMMA PreviousTyped ==
    ASSUME KeptInv, NEW c \in Proc, run[c].step # "idle", NEW line \in Line
    PROVE  Previous(run[c], line) \in Line
<1>1. run[c].book \in Book \cup {NoBook} /\ NoLine \in Line
  BY Runs DEF Line
<1> QED
  BY <1>1 DEF Previous, Book

LEMMA ReadToApplyKept ==
    ASSUME KeptInv, NEW c \in Proc, ReadToApply(c)
    PROVE  KeptInv'
<1> DEFINE r == run[c]
           f == settings[r.path]
           line == LineOf(f)
           read == ReadsApply(r, f, Previous(r, line))
           notes == Notes(r)
<1>1. /\ r.step = "do" /\ RunTyped(r) /\ r.op # "none" /\ r.path \in Dir /\ NoLine \in Line
      /\ UNCHANGED <<settings, book, dir, python, others, users, unsaved, lineSpent>>
  BY Runs DEF ReadToApply, At, Line
<1>2. f \in File \cup {NoFile} /\ line \in Line
  BY <1>1, FileFields DEF KeptInv, LineTyped
<1>3. Previous(r, line) \in Line
  BY <1>1, <1>2, PreviousTyped
<1>4. Becomes(read, r, "doing") /\ Becomes(notes, r, "note")
  BY <1>1, <1>2, <1>3, ReadsApplyTyped, GoesTyped
<1>5. \/ Done(c) /\ UNCHANGED backups
      \/ Does(c, notes) /\ UNCHANGED backups
      \/ Does(c, read) /\ backups' = backups \cup Copy(read)
  BY DEF ReadToApply, ReadsApply, Notes
<1>6. book' \in Book \cup {NoBook} /\ lineSpent' \in Spent
  BY <1>1 DEF KeptInv, LineTyped
<1> HIDE DEF read, notes, f, line
<1>7. CASE Done(c) /\ UNCHANGED backups
  BY <1>1, <1>6, <1>7, EndsKept
<1>8. CASE Does(c, notes) /\ UNCHANGED backups
  BY <1>1, <1>4, <1>6, <1>8, GoesOnKept
<1>9. CASE Does(c, read) /\ backups' = backups \cup Copy(read)
  BY <1>1, <1>4, <1>9, ReadKept
<1> QED
  BY <1>5, <1>7, <1>8, <1>9

LEMMA WriteBookKept ==
    ASSUME KeptInv, NEW c \in Proc, WriteBook(c)
    PROVE  KeptInv'
<1>1. run[c].step \in {"record", "note"} /\ run[c].op # "none" /\ run[c].path \in Dir /\ run[c].previous \in Line
  BY Runs DEF WriteBook
<1>2. [at |-> run[c].path, previous |-> run[c].previous] \in Book
  BY <1>1 DEF Book
<1>3. book' \in Book \cup {NoBook} /\ lineSpent' \in Spent
  BY <1>2 DEF WriteBook, KeptInv, LineTyped
<1> QED
  BY <1>1, <1>3, EndsKept DEF WriteBook

LEMMA FaultSpends ==
    ASSUME LineTyped, lineSpent.faults < MaxFaults, LineSpends("faults")
    PROVE  lineSpent' \in Spent /\ lineSpent'.ops = lineSpent.ops /\ lineSpent'.writes = lineSpent.writes
  BY StatuslineAssumption DEF LineTyped, Spent, LineSpends, Ops

LEMMA WriteBookFailsKept ==
    ASSUME KeptInv, NEW c \in Proc, WriteBookFails(c)
    PROVE  KeptInv'
<1> DEFINE r == run[c]
           ours == WithLine(r.seen, Ours(r.path, r.by))
<1>1. /\ r.step \in {"record", "note"} /\ r.op # "none" /\ r.path \in Dir /\ r.seen \in File \cup {NoFile}
      /\ r.by \in 0 .. MaxWrites
  BY Runs DEF WriteBookFails
<1>2. /\ Done(c) /\ lineSpent' \in Spent /\ lineSpent'.ops = lineSpent.ops /\ lineSpent'.writes = lineSpent.writes
      /\ UNCHANGED <<backups, dir, python, others, users, unsaved>>
  BY FaultSpends DEF WriteBookFails, KeptInv
<1>3. \/ UNCHANGED settings
      \/ settings[r.path] = ours /\ settings' = [settings EXCEPT ![r.path] = r.seen]
  BY DEF WriteBookFails, Unchanged
<1>4. book' \in Book \cup {NoBook}
  <2>1. r.previous \in Line /\ book \in Book \cup {NoBook}
    BY <1>1, Runs DEF KeptInv, LineTyped
  <2>2. book' = book \/ book' = [at |-> r.path, previous |-> r.previous]
    BY DEF WriteBookFails
  <2> QED
    BY <1>1, <2>1, <2>2 DEF Book
<1>5. CASE UNCHANGED settings
  BY <1>1, <1>2, <1>4, <1>5, EndsKept
<1>6. CASE settings[r.path] = ours /\ settings' = [settings EXCEPT ![r.path] = r.seen]
  <2>1. OurLine(LineOf(settings[r.path])) /\ OtherOf(settings[r.path]) = OtherOf(r.seen)
    BY <1>1, <1>6, OursFields, WithLineFields
  <2>2. run' = [run EXCEPT ![c] = Idle] /\ RunTyped(Idle) /\ Idle.op = "none" /\ Idle.step = "idle"
    BY <1>2, IdleTyped DEF Done, Does
  <2>3. LineTyped'
    BY <1>1, <1>2, <1>4, <1>6, <2>2, ProcTyped DEF KeptInv, LineTyped
  <2>4. ReadsKnown'
    <3>1. /\ lineSpent'.ops = lineSpent.ops /\ (\A b \in backups' : b \in backups) /\ LineTyped /\ ReadsKnown
          /\ Idle.step # "undoing"
      BY <1>2, <2>2 DEF KeptInv
    <3>2. /\ \A e \in Proc : run'[e].step = "undoing" => run'[e] = run[e]
          /\ \A e \in Proc : run'[e].op # "none" => run'[e] = run[e]
      BY <2>2, <3>1 DEF LineTyped
    <3> QED
      BY <3>1, <3>2 DEF ReadsKnown
  <2>5. CopiesOwn'
    BY <1>2, <2>2, CopiesStay DEF KeptInv
  <2>6. \A b \in backups : Settled(b) => b \in backups' /\ Settled(b)'
    BY <1>2, <2>2, SettledStays DEF KeptInv
  <2>7. \A d \in Dir : LineOf(settings'[d]) = LineOf(settings[d]) \/ OurLine(LineOf(settings[d]))
    BY <1>6, <2>1 DEF KeptInv, LineTyped
  <2>8. \A d \in Dir : LineFound(d)'
    BY <1>2, <2>6, <2>7, FoundStays
  <2>9. OthersKept'
    BY <1>2, <1>6, <2>1 DEF KeptInv, LineTyped, OthersKept
  <2> QED
    BY <2>3, <2>4, <2>5, <2>8, <2>9 DEF KeptInv
<1> QED
  BY <1>3, <1>5, <1>6

LEMMA ReplaceFailsKept ==
    ASSUME KeptInv, NEW c \in Proc, ReplaceFails(c)
    PROVE  KeptInv'
<1>1. run[c].step \in {"undoing", "doing"} /\ run[c].op # "none"
  BY Runs DEF ReplaceFails
<1>2. lineSpent' \in Spent /\ lineSpent'.ops = lineSpent.ops /\ lineSpent'.writes = lineSpent.writes
  BY FaultSpends DEF ReplaceFails, KeptInv
<1>3. Done(c) /\ backups' = backups \ Copy(run[c]) /\ book' \in Book \cup {NoBook}
      /\ UNCHANGED <<settings, book, dir, python, others, users, unsaved>>
  BY DEF ReplaceFails, Dropped, KeptInv, LineTyped
<1> QED
  BY <1>1, <1>2, <1>3, EndsKept

\* The file is replaced, and its copy goes: the user's line is in neither.
LEMMA InterruptedKept ==
    ASSUME KeptInv, NEW c \in Proc, NEW d \in Dir, NEW line \in Line, settings[d] = run[c].seen,
           run[c].step \in {"undoing", "doing"}, Done(c), backups' = backups \ Copy(run[c]),
           settings' = [settings EXCEPT ![d] = WithLine(run[c].seen, line)],
           unsaved' \in {unsaved, unsaved \cup {d}}, LineOf(run[c].seen) \in UserLine => d \in unsaved',
           lineSpent' \in Spent, lineSpent'.ops = lineSpent.ops, lineSpent'.writes = lineSpent.writes,
           UNCHANGED <<book, dir, python, others, users>>
    PROVE  KeptInv'
<1>1. run' = [run EXCEPT ![c] = Idle] /\ RunTyped(Idle) /\ Idle.op = "none" /\ Idle.step = "idle"
  BY IdleTyped DEF Done, Does
<1>2. RunTyped(run[c]) /\ run[c].op # "none"
  BY Runs
<1>3. backups' \subseteq backups /\ \A b \in backups : b \notin backups' => b.id = run[c].id /\ b.line = LineOf(run[c].seen)
  BY <1>2, CopyFields
<1>4. settings[d] \in File \cup {NoFile}
  BY DEF KeptInv, LineTyped
<1> DEFINE f == WithLine(run[c].seen, line)
<1>5. f \in File /\ OtherOf(f) = OtherOf(settings[d])
  BY <1>4, WithLineFields
<1>6. settings' = [settings EXCEPT ![d] = f]
  OBVIOUS
<1> HIDE DEF f
<1>7. LineTyped'
  BY <1>1, <1>3, <1>5, <1>6, ProcTyped DEF KeptInv, LineTyped
<1>8. ReadsKnown'
  BY <1>1, <1>3, KnownStays DEF KeptInv
<1>9. CopiesOwn'
  BY <1>1, <1>2, <1>3, CopiesStay DEF KeptInv
<1>10. OthersKept'
  BY <1>5, <1>6 DEF KeptInv, LineTyped, OthersKept
<1>11. ASSUME NEW b \in backups, b.line \in UserLine, Settled(b)
       PROVE  b \in backups' /\ Settled(b)'
  <2>1. Settled(b)'
    BY <1>1, <1>11, SettledStays DEF KeptInv
  <2>2. CASE run[c].step = "doing"
    BY <1>3, <1>11, <2>1, <2>2 DEF Settled
  <2>3. CASE run[c].step = "undoing"
    BY <1>3, <1>11, <2>1, <2>3 DEF KeptInv, ReadsKnown, OurLine
  <2> QED
    BY <2>2, <2>3
<1>12. ASSUME NEW e \in Dir
       PROVE  LineFound(e)'
  <2>1. CASE e # d
    <3>1. settings'[e] = settings[e]
      BY <1>6, <2>1 DEF KeptInv, LineTyped
    <3> QED
      BY <1>11, <3>1, FoundStays
  <2>2. CASE OurLine(LineOf(settings[e]))
    BY <1>11, <2>2, FoundStays
  <2>3. CASE e = d /\ LineOf(run[c].seen) \in UserLine
    BY <2>3 DEF LineFound
  <2>4. CASE e = d /\ LineOf(run[c].seen) = NoLine
    <3>1. users[e] \in UserLine \cup {NoLine} /\ LineFound(e)
      BY DEF KeptInv, LineTyped
    <3>2. CASE users[e] = NoLine
      BY <3>2 DEF LineFound
    <3>3. CASE e \in unsaved
      BY <3>3 DEF LineFound
    <3>4. CASE users[e] \in UserLine /\ \E b \in backups : b.line = users[e] /\ Settled(b)
      BY <1>11, <3>4 DEF LineFound
    <3> QED
      BY <2>4, <3>1, <3>2, <3>3, <3>4 DEF LineFound
  <2> QED
    BY <2>1, <2>2, <2>3, <2>4 DEF OurLine
<1> QED
  BY <1>7, <1>8, <1>9, <1>10, <1>12 DEF KeptInv

LEMMA ReplaceInterruptedKept ==
    ASSUME KeptInv, NEW c \in Proc, ReplaceInterrupted(c)
    PROVE  KeptInv'
<1> DEFINE r == run[c]
<1>1. /\ r.step \in {"undoing", "doing"} /\ Done(c) /\ backups' = backups \ Copy(r)
      /\ UNCHANGED <<book, dir, python, others, users>>
  BY DEF ReplaceInterrupted, Dropped
<1>2. lineSpent' \in Spent /\ lineSpent'.ops = lineSpent.ops /\ lineSpent'.writes = lineSpent.writes
  BY FaultSpends DEF ReplaceInterrupted, KeptInv
<1>3. r.path \in Dir /\ r.at \in Dir /\ r.by \in 0 .. MaxWrites /\ (r.step = "undoing" => r.book \in Book)
  BY <1>1, Runs
<1>4. CASE /\ r.step = "undoing" /\ Unchanged(r.at, r.seen) /\ UNCHANGED unsaved
           /\ settings' = [settings EXCEPT ![r.at] = WithLine(r.seen, r.book.previous)]
  <2>1. r.book.previous \in Line /\ ~(LineOf(r.seen) \in UserLine)
    BY <1>3, <1>4 DEF Book, KeptInv, ReadsKnown, OurLine
  <2> QED
    BY <1>1, <1>2, <1>3, <1>4, <2>1, InterruptedKept DEF Unchanged
<1>5. CASE /\ r.step = "doing" /\ Unchanged(r.path, r.seen)
           /\ settings' = [settings EXCEPT ![r.path] = WithLine(r.seen, Ours(r.path, r.by))]
           /\ unsaved' = IF LineOf(r.seen) \in UserLine THEN unsaved \cup {r.path} ELSE unsaved
  <2>1. Ours(r.path, r.by) \in Line
    BY <1>3, OursFields
  <2> QED
    BY <1>1, <1>2, <1>3, <1>5, <2>1, InterruptedKept DEF Unchanged
<1> QED
  BY <1>4, <1>5 DEF ReplaceInterrupted

LEMMA KilledKept ==
    ASSUME KeptInv, NEW c \in Proc, CcsKilled(c)
    PROVE  KeptInv'
<1>1. lineSpent' \in Spent /\ lineSpent'.ops = lineSpent.ops /\ lineSpent'.writes = lineSpent.writes
  BY FaultSpends DEF CcsKilled, KeptInv
<1>2. run[c].op # "none" /\ Done(c) /\ book' \in Book \cup {NoBook}
      /\ UNCHANGED <<settings, book, backups, dir, python, others, users, unsaved>>
  BY DEF CcsKilled, KeptInv, LineTyped
<1> QED
  BY <1>1, <1>2, EndsKept

-----------------------------------------------------------------------------
(* The steps of Claude Code and the user. *)

\* One more of the counted writes, moves and upgrades.
LEMMA WriteSpends ==
    ASSUME LineTyped, lineSpent.writes < MaxWrites, LineSpends("writes")
    PROVE  /\ lineSpent' \in Spent /\ lineSpent'.ops = lineSpent.ops
           /\ lineSpent.writes \in Nat /\ lineSpent.writes + 1 \in 0 .. MaxWrites
           /\ python \in 0 .. lineSpent'.writes /\ python + 1 \in 0 .. lineSpent'.writes
  BY StatuslineAssumption DEF LineTyped, Spent, LineSpends

\* Whatever is written to the files, the processes know what they knew.
LEMMA OthersWriteKept ==
    ASSUME KeptInv, UNCHANGED <<run, backups, book>>, lineSpent'.ops = lineSpent.ops,
           LineTyped', OthersKept', NEW e \in Dir, NEW g \in Dir,
           \A d \in Dir : \/ users'[d] \in {NoLine, LineOf(settings'[d])}
                          \/ /\ users'[d] = users[d] /\ LineOf(settings'[d]) = LineOf(settings[d])
                             /\ d \in unsaved => d \in unsaved'
                          \/ /\ d = e /\ users'[d] = users[g] /\ LineOf(settings'[d]) = LineOf(settings[g])
                             /\ g \in unsaved => d \in unsaved'
    PROVE  KeptInv'
<1>1. ReadsKnown'
  BY DEF KeptInv, ReadsKnown
<1>2. CopiesOwn'
  BY DEF KeptInv, CopiesOwn
<1>3. \A b : Settled(b)' <=> Settled(b)
  BY DEF Settled
<1>4. \A d \in Dir : LineFound(d)'
  BY <1>3 DEF KeptInv, LineFound
<1> QED
  BY <1>1, <1>2, <1>4 DEF KeptInv

LEMMA ClaudeWritesKept ==
    ASSUME KeptInv, NEW d \in Dir, ClaudeWrites(d)
    PROVE  KeptInv'
<1> DEFINE n == lineSpent.writes + 1
           f == [line |-> LineOf(settings[d]), other |-> n]
<1>1. /\ lineSpent.writes < MaxWrites /\ LineSpends("writes")
      /\ settings' = [settings EXCEPT ![d] = f] /\ others' = [others EXCEPT ![d] = n]
      /\ UNCHANGED <<book, backups, python, run, dir, users, unsaved>>
  BY DEF ClaudeWrites, Write
<1>2. lineSpent' \in Spent /\ lineSpent'.ops = lineSpent.ops /\ n \in 0 .. MaxWrites /\ python \in 0 .. lineSpent'.writes
  BY <1>1, WriteSpends DEF KeptInv
<1> HIDE DEF n
<1>3. LineOf(settings[d]) \in Line
  BY FileFields DEF KeptInv, LineTyped
<1>4. f \in File /\ f.line = LineOf(settings[d]) /\ f.other = n
  BY <1>2, <1>3 DEF File
<1> HIDE DEF f
<1>5. LineOf(f) = LineOf(settings[d]) /\ OtherOf(f) = n
  BY <1>4, StatuslineAssumption DEF LineOf, OtherOf
<1>6. LineTyped'
  BY <1>1, <1>2, <1>4 DEF KeptInv, LineTyped
<1>7. OthersKept'
  BY <1>1, <1>5 DEF KeptInv, LineTyped, OthersKept
<1>8. \A g \in Dir : users'[g] = users[g] /\ LineOf(settings'[g]) = LineOf(settings[g])
  BY <1>1, <1>5 DEF KeptInv, LineTyped
<1> QED
  BY <1>1, <1>2, <1>6, <1>7, <1>8, OthersWriteKept

LEMMA UserWritesKept ==
    ASSUME KeptInv, NEW d \in Dir, NEW l \in UserLine \cup {NoLine}, UserWrites(d, l)
    PROVE  KeptInv'
<1> DEFINE f == WithLine(settings[d], l)
<1>1. /\ lineSpent.writes < MaxWrites /\ LineSpends("writes")
      /\ settings' = [settings EXCEPT ![d] = f] /\ users' = [users EXCEPT ![d] = l] /\ unsaved' = unsaved \ {d}
      /\ UNCHANGED <<book, backups, python, run, dir, others>>
  BY DEF UserWrites, Write
<1>2. lineSpent' \in Spent /\ lineSpent'.ops = lineSpent.ops /\ python \in 0 .. lineSpent'.writes
  BY <1>1, WriteSpends DEF KeptInv
<1>3. settings[d] \in File \cup {NoFile} /\ l \in Line
  BY DEF KeptInv, LineTyped, Line
<1>4. f \in File /\ LineOf(f) = l /\ OtherOf(f) = OtherOf(settings[d])
  BY <1>3, WithLineFields
<1> HIDE DEF f
<1>5. LineTyped'
  BY <1>1, <1>2, <1>4 DEF KeptInv, LineTyped
<1>6. OthersKept'
  BY <1>1, <1>4 DEF KeptInv, LineTyped, OthersKept
<1>7. \A g \in Dir : \/ users'[g] \in {NoLine, LineOf(settings'[g])}
                     \/ /\ users'[g] = users[g] /\ LineOf(settings'[g]) = LineOf(settings[g])
                        /\ g \in unsaved => g \in unsaved'
  BY <1>1, <1>4 DEF KeptInv, LineTyped
<1> QED
  BY <1>1, <1>2, <1>5, <1>6, <1>7, OthersWriteKept

LEMMA ChangesDirKept ==
    ASSUME KeptInv, NEW e \in Dir, ChangesDir(e)
    PROVE  KeptInv'
<1>1. /\ lineSpent.writes < MaxWrites /\ LineSpends("writes") /\ e # dir /\ dir' = e /\ dir \in Dir
      /\ UNCHANGED <<book, backups, python, run>>
  BY DEF ChangesDir, KeptInv, LineTyped
<1>2. lineSpent' \in Spent /\ lineSpent'.ops = lineSpent.ops /\ python \in 0 .. lineSpent'.writes
  BY <1>1, WriteSpends DEF KeptInv
<1>3. CASE UNCHANGED <<settings, others, users, unsaved>>
  <2>1. LineTyped' /\ OthersKept'
    BY <1>1, <1>2, <1>3 DEF KeptInv, LineTyped, OthersKept
  <2> QED
    BY <1>1, <1>2, <1>3, <2>1, OthersWriteKept
<1>4. CASE /\ settings' = [settings EXCEPT ![e] = settings[dir], ![dir] = NoFile]
           /\ others' = [others EXCEPT ![e] = others[dir], ![dir] = 0]
           /\ users' = [users EXCEPT ![e] = users[dir], ![dir] = NoLine]
           /\ unsaved' = (unsaved \ {dir, e}) \cup (IF dir \in unsaved THEN {e} ELSE {})
  <2>1. \A d \in Dir :
          /\ settings'[d] = IF d = dir THEN NoFile ELSE IF d = e THEN settings[dir] ELSE settings[d]
          /\ others'[d] = IF d = dir THEN 0 ELSE IF d = e THEN others[dir] ELSE others[d]
          /\ users'[d] = IF d = dir THEN NoLine ELSE IF d = e THEN users[dir] ELSE users[d]
          /\ d # dir /\ d # e /\ d \in unsaved => d \in unsaved'
          /\ dir \in unsaved => e \in unsaved'
    BY <1>1, <1>4 DEF KeptInv, LineTyped
  <2>2. LineTyped'
    <3>1. 0 \in 0 .. MaxWrites
      BY StatuslineAssumption
    <3> QED
      BY <1>1, <1>2, <1>4, <3>1 DEF KeptInv, LineTyped
  <2>3. OthersKept'
    BY <1>1, <2>1 DEF KeptInv, OthersKept, OtherOf
  <2>4. \A d \in Dir : \/ users'[d] \in {NoLine, LineOf(settings'[d])}
                      \/ /\ users'[d] = users[d] /\ LineOf(settings'[d]) = LineOf(settings[d])
                         /\ d \in unsaved => d \in unsaved'
                      \/ /\ d = e /\ users'[d] = users[dir] /\ LineOf(settings'[d]) = LineOf(settings[dir])
                         /\ dir \in unsaved => d \in unsaved'
    BY <1>1, <2>1
  <2> QED
    BY <1>1, <1>2, <2>2, <2>3, <2>4, OthersWriteKept
<1> QED
  BY <1>3, <1>4 DEF ChangesDir

LEMMA UpgradesKept ==
    ASSUME KeptInv, Upgrades
    PROVE  KeptInv'
<1>1. /\ lineSpent.writes < MaxWrites /\ LineSpends("writes") /\ python' = python + 1
      /\ UNCHANGED <<settings, book, backups, dir, run, others, users, unsaved>>
  BY DEF Upgrades
<1>2. lineSpent' \in Spent /\ lineSpent'.ops = lineSpent.ops /\ python' \in 0 .. lineSpent'.writes
  BY <1>1, WriteSpends DEF KeptInv
<1>3. LineTyped' /\ OthersKept'
  BY <1>1, <1>2 DEF KeptInv, LineTyped, OthersKept
<1>4. dir \in Dir
  BY DEF KeptInv, LineTyped
<1> QED
  BY <1>1, <1>2, <1>3, <1>4, OthersWriteKept

LEMMA LineStarts ==
    ASSUME LineInit
    PROVE  KeptInv
<1>1. PICK d \in Dir, l \in UserLine \cup {NoLine} :
        /\ dir = d
        /\ settings = [e \in Dir |-> IF e = d /\ l # NoLine THEN [line |-> l, other |-> 0] ELSE NoFile]
        /\ users = [e \in Dir |-> IF e = d THEN l ELSE NoLine]
  BY DEF LineInit
<1>2. /\ others = [e \in Dir |-> 0] /\ book = NoBook /\ backups = {} /\ python = 0
      /\ run = [c \in Proc |-> Idle] /\ unsaved = {} /\ lineSpent = [ops |-> 0, writes |-> 0, faults |-> 0]
  BY DEF LineInit
<1>3. RunTyped(Idle) /\ Idle.op = "none" /\ Idle.step = "idle"
  BY IdleTyped
<1> DEFINE f == [line |-> l, other |-> 0]
<1>4. f \in File /\ f.line = l /\ f.other = 0
  BY StatuslineAssumption DEF File, Line
<1>5. settings = [e \in Dir |-> IF e = d /\ l # NoLine THEN f ELSE NoFile]
  BY <1>1
<1> HIDE DEF f
<1>6. LineOf(f) = l /\ OtherOf(f) = 0 /\ LineOf(NoFile) = NoLine /\ OtherOf(NoFile) = 0
  BY <1>4, StatuslineAssumption DEF LineOf, OtherOf
<1>7. LineTyped
  <2>1. 0 \in 0 .. MaxWrites /\ lineSpent \in Spent /\ python \in 0 .. lineSpent.writes
    BY <1>2, StatuslineAssumption DEF Spent, Ops
  <2> QED
    BY <1>1, <1>2, <1>3, <1>4, <1>5, <2>1 DEF LineTyped
<1>8. OthersKept
  BY <1>2, <1>5, <1>6 DEF OthersKept
<1>9. ReadsKnown /\ CopiesOwn
  BY <1>2, <1>3 DEF ReadsKnown, CopiesOwn
<1>10. \A e \in Dir : LineFound(e)
  BY <1>1, <1>5, <1>6 DEF LineFound
<1> QED
  BY <1>7, <1>8, <1>9, <1>10 DEF KeptInv

LEMMA LineStep ==
    ASSUME KeptInv, [LineNext]_lineVars
    PROVE  KeptInv'
<1>1. CASE UNCHANGED lineVars
  <2>1. UNCHANGED <<settings, book, backups, dir, python, run, others, users, unsaved, lineSpent>>
    BY <1>1 DEF lineVars
  <2>2. LineTyped' /\ OthersKept' /\ dir \in Dir
    BY <2>1 DEF KeptInv, LineTyped, OthersKept
  <2> QED
    BY <2>1, <2>2, OthersWriteKept
<1>2. ASSUME NEW c \in Proc, \/ BeginApply(c) \/ BeginRevert(c) \/ ReadToUndo(c) \/ Undo(c) \/ Unbook(c)
      PROVE  KeptInv'
  BY <1>2, BeginApplyKept, BeginRevertKept, ReadToUndoKept, UndoKept, UnbookKept
<1>3. ASSUME NEW c \in Proc, \/ ReadToApply(c) \/ Apply(c) \/ WriteBook(c)
                             \/ WriteBookFails(c) \/ ReplaceFails(c) \/ ReplaceInterrupted(c) \/ CcsKilled(c)
      PROVE  KeptInv'
  BY <1>3, ReadToApplyKept, ApplyKept, WriteBookKept, WriteBookFailsKept, ReplaceFailsKept,
     ReplaceInterruptedKept, KilledKept
<1>4. ASSUME NEW d \in Dir, ClaudeWrites(d) \/ ChangesDir(d)
      PROVE  KeptInv'
  BY <1>4, ClaudeWritesKept, ChangesDirKept
<1>5. ASSUME NEW d \in Dir, NEW l \in UserLine \cup {NoLine}, UserWrites(d, l)
      PROVE  KeptInv'
  BY <1>5, UserWritesKept
<1>6. CASE Upgrades
  BY <1>6, UpgradesKept
<1> QED
  BY <1>1, <1>2, <1>3, <1>4, <1>5, <1>6 DEF LineNext

LEMMA KeptShows ==
    ASSUME KeptInv
    PROVE  SettingsKept
<1>1. ASSUME NEW d \in Dir \ unsaved, settings[d] # NoFile, settings[d].line \notin UserLine \cup {NoLine}, users[d] # NoLine
      PROVE  \E b \in backups : b.line = users[d]
  BY <1>1 DEF KeptInv, LineTyped, LineFound, LineOf
<1> QED
  BY <1>1 DEF SettingsKept, OriginalKept, KeptInv

\* SettingsKept: no apply, revert or rollback of any number of processes, killed, failing and
\* interrupted at any step beside Claude Code and the user, puts an older version of the other keys
\* back, and a user's statusLine that was replaced is in a backup, unless Ctrl-C came between the
\* os.replace of an apply and its return.
THEOREM SettingsSurvive == LineSpec => []SettingsKept
<1>1. KeptInv /\ [LineNext]_lineVars => KeptInv'
  BY LineStep
<1> QED
  BY <1>1, LineStarts, KeptShows, PTL DEF LineSpec

-----------------------------------------------------------------------------
(* The statusline setting: a revert restores.                              *)

\* The line in the file of a directory.
LineAt(d) == LineOf(settings[d])

\* What is known of the file of d: the line is the user's, or it stands for what the record, or the
\* apply that has yet to write one, says it replaced.
Stands(d) ==
    IF OurLine(LineAt(d))
    THEN \/ \E c \in Proc : run[c].step = "record" /\ run[c].path = d
         \/ book # NoBook /\ LineAt(d).script = book.at /\ users[d] = book.previous /\ d \in {book.at, dir}
    ELSE LineAt(d) = users[d]

\* What a line that was read stood for.
StoodFor(r, l) ==
    IF OurLine(l) THEN book # NoBook /\ l.script = book.at /\ r.previous = book.previous
    ELSE r.previous = l

\* An operation knows the directory and the record; once it goes to write the file of its path, no
\* other file has a line of ccs.
Operates(r) ==
    /\ r.path = dir /\ r.book = book
    /\ book # NoBook => r.at = book.at
    /\ r.step = "undoing" => IsOurs(LineOf(r.seen), r.at)
    /\ r.step = "undone" => \A d \in Dir : ~OurLine(LineAt(d))
    /\ r.step \in {"do", "doing", "record"} => \A d \in Dir \ {r.path} : ~OurLine(LineAt(d))
    /\ r.step \in {"doing", "record"} => StoodFor(r, LineOf(r.seen))
    /\ r.step = "record" /\ OurLine(LineAt(r.path)) => LineAt(r.path).script = r.path /\ users[r.path] = r.previous
    /\ r.step # "note"

\* While nothing was killed, lost or ran beside another operation.
CalmInv ==
    /\ \A c, e \in Proc : Busy(c) /\ Busy(e) => c = e
    /\ \A d, e \in Dir : OurLine(LineAt(d)) /\ OurLine(LineAt(e)) => d = e
    /\ \A d \in Dir : Stands(d)
    /\ \A c \in Proc : Busy(c) => Operates(run[c])

LEMMA UsersLine ==
    ASSUME LineTyped, NEW d \in Dir
    PROVE  ~OurLine(users[d]) /\ users[d] \in UserLine \cup {NoLine}
  BY DEF LineTyped, OurLine

\* The operation under way is the only one, and goes on as `n`.
LEMMA SoloStep ==
    ASSUME LineTyped, CalmInv, NEW c \in Proc, Busy(c), NEW n, Does(c, n)
    PROVE  /\ run'[c] = n /\ Operates(run[c])
           /\ \A e \in Proc : e # c => run'[e] = run[e] /\ ~Busy(e) /\ run[e].step = "idle"
<1>1. run' = [run EXCEPT ![c] = n] /\ run = [e \in Proc |-> run[e]]
  BY DEF Does, LineTyped
<1>2. \A e \in Proc : e # c => ~Busy(e) /\ run[e].step = "idle"
  BY DEF CalmInv, LineTyped, RunTyped, Busy
<1>3. Operates(run[c])
  BY DEF CalmInv
<1>4. run'[c] = n /\ \A e \in Proc : e # c => run'[e] = run[e]
  BY <1>1
<1> QED
  BY <1>2, <1>3, <1>4

LEMMA SoloCalm ==
    ASSUME LineTyped, CalmInv, NEW c \in Proc, Busy(c), NEW n, Does(c, n),
           \A d, e \in Dir : OurLine(LineAt(d))' /\ OurLine(LineAt(e))' => d = e,
           \A d \in Dir : Stands(d)',
           n.op # "none" => Operates(run[c])'
    PROVE  CalmInv'
<1>1. \A e \in Proc : Busy(e)' => e = c /\ n.op # "none"
  BY SoloStep DEF Busy
<1>2. \A e \in Proc : Busy(e)' => Operates(run[e])'
  BY <1>1
<1>3. \A e, g \in Proc : Busy(e)' /\ Busy(g)' => e = g
  BY <1>1
<1> QED
  BY <1>2, <1>3 DEF CalmInv

\* The files and the record stay as they are.
LEMMA QuietStep ==
    ASSUME LineTyped, CalmInv, NEW c \in Proc, Busy(c), NEW n, Does(c, n), run[c].step # "record",
           UNCHANGED <<settings, users, dir, book>>,
           n.op # "none" => Operates(run[c])'
    PROVE  CalmInv'
<1>1. \A e \in Proc : run[e].step # "record"
  BY SoloStep
<1>2. \A d, e \in Dir : OurLine(LineAt(d))' /\ OurLine(LineAt(e))' => d = e
  BY DEF CalmInv, LineAt, OurLine
<1>3. \A d \in Dir : Stands(d)'
  <2> TAKE d \in Dir
  <2>1. Stands(d)
    BY DEF CalmInv
  <2>2. LineAt(d)' = LineAt(d)
    BY DEF LineAt
  <2> QED
    BY <1>1, <2>1, <2>2 DEF Stands, OurLine
<1> QED
  BY <1>2, <1>3, SoloCalm

LEMMA QuietEnd ==
    ASSUME LineTyped, CalmInv, NEW c \in Proc, Busy(c), Done(c), run[c].step # "record",
           UNCHANGED <<settings, users, dir, book>>
    PROVE  CalmInv'
  BY QuietStep, IdleTyped DEF Done

LEMMA ReadToUndoCalm ==
    ASSUME KeptInv, CalmInv, NEW c \in Proc, ReadToUndo(c)
    PROVE  CalmInv'
<1> DEFINE r == run[c]
           f == settings[r.at]
           read == ReadsUndo(r, f)
           goes == Conflicts(r)
<1>1. /\ r.step = "undo" /\ RunTyped(r) /\ r.op # "none" /\ r.at \in Dir /\ r.book \in Book
      /\ UNCHANGED <<settings, book, dir, users>> /\ LineTyped /\ Busy(c)
  BY Runs DEF ReadToUndo, At, KeptInv, Busy
<1>2. f \in File \cup {NoFile}
  BY <1>1 DEF LineTyped
<1>3. \/ IsOurs(LineOf(f), r.at) /\ Does(c, read)
      \/ Done(c)
      \/ ~IsOurs(LineOf(f), r.at) /\ Does(c, goes)
  BY DEF ReadToUndo, ReadsUndo, Conflicts
<1>4. Operates(r) /\ r.book # NoBook
  BY <1>1, StatuslineAssumption DEF CalmInv
<1> HIDE DEF f, r
<1>5. /\ Becomes(read, r, "undoing") /\ read.seen = f /\ read.book = r.book
      /\ Becomes(goes, r, "do") /\ goes.book = r.book
  <2>1. Becomes(read, r, "undoing") /\ read.seen = f /\ read.book = r.book
    BY <1>1, <1>2, ReadsUndoTyped
  <2>2. Becomes(goes, r, "do") /\ goes.book = r.book
    BY <1>1, GoesTyped
  <2> QED
    BY <2>1, <2>2
<1> HIDE DEF read, goes
<1>6. CASE IsOurs(LineOf(f), r.at) /\ Does(c, read)
  <2>1. run'[c] = read
    BY <1>1, <1>6, SoloStep
  <2>2. Operates(run[c])'
    BY <1>1, <1>4, <1>5, <1>6, <2>1 DEF Operates, Becomes
  <2> QED
    BY <1>1, <1>6, <2>2, QuietStep DEF r
<1>7. CASE Done(c)
  BY <1>1, <1>7, QuietEnd DEF r
<1>8. CASE ~IsOurs(LineOf(f), r.at) /\ Does(c, goes)
  <2>1. run'[c] = goes
    BY <1>1, <1>8, SoloStep
  <2>2. ASSUME NEW d \in Dir \ {r.path}
        PROVE  ~OurLine(LineAt(d))
    <3>1. r.path = dir /\ r.at = book.at
      BY <1>4 DEF Operates
    <3>2. Stands(d) /\ \A e \in Proc : run[e].step # "record"
      BY <1>1, <1>8, SoloStep DEF CalmInv, r
    <3> QED
      BY <1>8, <3>1, <3>2 DEF Stands, f, LineAt, OurLine, IsOurs
  <2>3. \A d \in Dir \ {r.path} : ~OurLine(LineAt(d))'
    BY <1>1, <2>2 DEF LineAt, OurLine
  <2>4. Operates(run[c])'
    BY <1>1, <1>4, <1>5, <2>1, <2>3 DEF Operates, Becomes
  <2> QED
    BY <1>1, <1>8, <2>4, QuietStep DEF r
<1> QED
  BY <1>3, <1>6, <1>7, <1>8

\* A file was written meanwhile.
LEMMA AgainCalm ==
    ASSUME KeptInv, CalmInv, NEW c \in Proc, NEW n, NEW stage \in {"undo", "do"}, Tried(n, run[c], stage), Does(c, n),
           \/ run[c].step = "undoing" /\ stage = "undo"
           \/ run[c].step = "doing" /\ stage = "do",
           UNCHANGED <<settings, book, dir, users>>
    PROVE  CalmInv'
<1>1. Busy(c) /\ LineTyped
  BY Runs DEF KeptInv, Busy
<1>2. run'[c] = n /\ Operates(run[c])
  BY <1>1, SoloStep
<1>3. \A d \in Dir : LineAt(d)' = LineAt(d)
  BY DEF LineAt
<1>4. Operates(run[c])'
  BY <1>2, <1>3 DEF Operates, Tried, Becomes, OurLine
<1> QED
  BY <1>1, <1>4, QuietStep

\* What `_revert_recorded` wrote: the user's line is back, and no file has a line of ccs.
LEMMA UndoRestores ==
    ASSUME KeptInv, CalmInv, NEW c \in Proc, run[c].step = "undoing", NEW at, at = run[c].at,
           settings[at] = run[c].seen,
           settings' = [settings EXCEPT ![at] = WithLine(run[c].seen, run[c].book.previous)]
    PROVE  /\ LineAt(at)' = users[at]
           /\ \A d \in Dir : ~OurLine(LineAt(d)') /\ LineAt(d)' = users[d]
<1> DEFINE r == run[c]
           f == WithLine(r.seen, r.book.previous)
<1>1. /\ RunTyped(r) /\ at \in Dir /\ r.book \in Book /\ r.seen \in File \cup {NoFile} /\ Busy(c) /\ LineTyped
      /\ r.book.previous \in Line
  BY Runs DEF KeptInv, Busy, Book
<1>2. Operates(r) /\ \A e \in Proc : run[e].step # "record"
  BY <1>1 DEF CalmInv, LineTyped, RunTyped, Busy
<1>3. r.book = book /\ at = book.at /\ OurLine(LineAt(at))
  BY <1>1, <1>2, StatuslineAssumption DEF Operates, LineAt, OurLine, IsOurs
<1>4. users[at] = r.book.previous
  BY <1>1, <1>2, <1>3 DEF CalmInv, Stands
<1>5. LineOf(f) = r.book.previous
  BY <1>1, WithLineFields
<1> HIDE DEF f
<1>6. LineAt(at)' = users[at]
  BY <1>1, <1>4, <1>5 DEF LineAt, LineTyped, f
<1>7. ASSUME NEW d \in Dir
      PROVE  LineAt(d)' = users[d]
  <2>1. CASE d = at
    BY <1>6, <2>1
  <2>2. CASE d # at
    <3>1. LineAt(d)' = LineAt(d)
      BY <1>1, <2>2 DEF LineAt, LineTyped
    <3>2. ~OurLine(LineAt(d)) /\ Stands(d)
      BY <1>1, <1>3, <2>2 DEF CalmInv
    <3> QED
      BY <3>1, <3>2 DEF Stands
  <2> QED
    BY <2>1, <2>2
<1> QED
  BY <1>1, <1>7, UsersLine

LEMMA UndoCalm ==
    ASSUME KeptInv, CalmInv, NEW c \in Proc, Undo(c)
    PROVE  /\ CalmInv'
           /\ settings' # settings => LineOf(settings'[run[c].at]) = users[run[c].at]
<1> DEFINE r == run[c]
           on == Written(r, "undone")
           back == Again(r, "undo")
<1>1. r.step = "undoing" /\ RunTyped(r) /\ r.op # "none" /\ r.book \in Book /\ Busy(c) /\ LineTyped
      /\ UNCHANGED <<book, dir, users>>
  BY Runs DEF Undo, At, KeptInv, Busy
<1>2. Tried(on, r, "undone") /\ Tried(back, r, "undo")
  BY <1>1, TriesTyped
<1>3. PICK at : at = r.at
  OBVIOUS
<1>4. \/ /\ settings[at] = r.seen /\ Does(c, on)
         /\ settings' = [settings EXCEPT ![at] = WithLine(r.seen, r.book.previous)]
      \/ UNCHANGED settings /\ Does(c, back)
      \/ UNCHANGED settings /\ Done(c)
  BY <1>3 DEF Undo, Replace, Unchanged, Written, Again
<1> HIDE DEF on, back
<1>5. CASE /\ settings[at] = r.seen /\ Does(c, on)
           /\ settings' = [settings EXCEPT ![at] = WithLine(r.seen, r.book.previous)]
  <2>1. LineAt(at)' = users[at] /\ \A d \in Dir : ~OurLine(LineAt(d)') /\ LineAt(d)' = users[d]
    BY <1>1, <1>3, <1>5, UndoRestores
  <2>2. run'[c] = on /\ Operates(r)
    BY <1>1, <1>5, SoloStep
  <2>3. Operates(run[c])'
    BY <1>1, <1>2, <2>1, <2>2 DEF Operates, Tried, Becomes, OurLine
  <2>4. \A d \in Dir : Stands(d)'
    BY <1>1, <2>1 DEF Stands, OurLine
  <2>5. \A d, e \in Dir : OurLine(LineAt(d))' /\ OurLine(LineAt(e))' => d = e
    BY <2>1 DEF OurLine
  <2>6. CalmInv'
    BY <1>1, <1>5, <2>3, <2>4, <2>5, SoloCalm
  <2> QED
    BY <1>3, <2>1, <2>6 DEF LineAt
<1>6. CASE UNCHANGED settings /\ Does(c, back)
  BY <1>1, <1>2, <1>6, AgainCalm
<1>7. CASE UNCHANGED settings /\ Done(c)
  BY <1>1, <1>7, QuietEnd
<1> QED
  BY <1>4, <1>5, <1>6, <1>7

LEMMA UnbookCalm ==
    ASSUME KeptInv, CalmInv, NEW c \in Proc, Unbook(c)
    PROVE  CalmInv'
<1> DEFINE r == run[c]
           goes == Unbooked(r)
<1>1. /\ r.step = "undone" /\ RunTyped(r) /\ r.op # "none" /\ Busy(c) /\ LineTyped
      /\ book' = NoBook /\ UNCHANGED <<settings, dir, users>>
  BY Runs DEF Unbook, At, KeptInv, Busy
<1>2. Becomes(goes, r, "do") /\ goes.book = NoBook
  BY <1>1, GoesTyped
<1>3. Done(c) \/ Does(c, goes)
  BY DEF Unbook, Unbooked
<1>4. Operates(r) /\ \A d \in Dir : ~OurLine(LineAt(d)) /\ Stands(d)
  BY <1>1 DEF CalmInv, Operates
<1>5. \A d \in Dir : ~OurLine(LineAt(d))' /\ Stands(d)'
  BY <1>1, <1>4 DEF Stands, LineAt, OurLine
<1> HIDE DEF goes
<1>6. CASE Done(c)
  BY <1>1, <1>5, <1>6, SoloCalm, IdleTyped DEF Done
<1>7. CASE Does(c, goes)
  <2>1. run'[c] = goes
    BY <1>1, <1>7, SoloStep
  <2>2. Operates(run[c])'
    BY <1>1, <1>2, <1>4, <1>5, <2>1 DEF Operates, Becomes
  <2> QED
    BY <1>1, <1>5, <1>7, <2>2, SoloCalm
<1> QED
  BY <1>3, <1>6, <1>7

LEMMA ReadToApplyCalm ==
    ASSUME KeptInv, CalmInv, NEW c \in Proc, ReadToApply(c)
    PROVE  CalmInv'
<1> DEFINE r == run[c]
           f == settings[r.path]
           line == LineOf(f)
           read == ReadsApply(r, f, Previous(r, line))
<1>1. /\ r.step = "do" /\ RunTyped(r) /\ r.op # "none" /\ r.path \in Dir /\ Busy(c) /\ LineTyped
      /\ r.by \in 0 .. MaxWrites /\ UNCHANGED <<settings, book, dir, users>>
  BY Runs DEF ReadToApply, At, KeptInv, Busy
<1>2. f \in File \cup {NoFile} /\ line \in Line
  BY <1>1, FileFields DEF LineTyped
<1>3. Previous(r, line) \in Line
  BY <1>1, <1>2, PreviousTyped
<1>4. Becomes(read, r, "doing") /\ read.seen = f /\ read.previous = Previous(r, line) /\ read.book = r.book
  BY <1>1, <1>2, <1>3, ReadsApplyTyped
<1>5. Operates(r) /\ Stands(r.path) /\ \A e \in Proc : run[e].step # "record"
  BY <1>1 DEF CalmInv, LineTyped, RunTyped, Busy
<1>6. OurLine(line) => book # NoBook /\ line.script = book.at /\ r.book = book /\ r.at = book.at
  BY <1>5 DEF Stands, Operates, LineAt
<1>7. line = Ours(r.path, r.by) => ~(r.book = NoBook \/ r.at # r.path)
  BY <1>1, <1>6, OursFields
<1>9. IF OurLine(line) THEN Previous(r, line) = book.previous ELSE Previous(r, line) = line
  BY <1>6 DEF Previous, IsOurs, OurLine
<1>10. Done(c) \/ Does(c, read)
  BY <1>7 DEF ReadToApply, ReadsApply
<1> HIDE DEF read, line
<1>11. CASE Done(c)
  BY <1>1, <1>11, QuietEnd
<1>12. CASE Does(c, read)
  <2>1. run'[c] = read
    BY <1>1, <1>12, SoloStep
  <2>2. StoodFor(run[c], LineOf(run[c].seen))'
    BY <1>1, <1>4, <1>6, <1>9, <2>1 DEF StoodFor, OurLine, line
  <2>3. \A d \in Dir \ {r.path} : ~OurLine(LineAt(d))'
    BY <1>1, <1>5 DEF Operates, LineAt, OurLine
  <2>4. Operates(run[c])'
    BY <1>1, <1>4, <1>5, <2>1, <2>2, <2>3 DEF Operates, Becomes
  <2> QED
    BY <1>1, <1>12, <2>4, QuietStep
<1> QED
  BY <1>10, <1>11, <1>12

\* What `apply` wrote: only the file of its path has a line of ccs, which stands for the user's.
LEMMA ApplyReplaces ==
    ASSUME KeptInv, CalmInv, NEW c \in Proc, run[c].step = "doing", NEW path, path = run[c].path,
           settings[path] = run[c].seen,
           settings' = [settings EXCEPT ![path] = WithLine(run[c].seen, Ours(path, run[c].by))]
    PROVE  /\ LineAt(path)' = Ours(path, run[c].by) /\ users[path] = run[c].previous
           /\ \A d \in Dir \ {path} : LineAt(d)' = LineAt(d) /\ ~OurLine(LineAt(d))
<1> DEFINE r == run[c]
           f == WithLine(r.seen, Ours(path, r.by))
<1>1. /\ path \in Dir /\ r.seen \in File \cup {NoFile} /\ Busy(c) /\ LineTyped /\ r.by \in 0 .. MaxWrites
  BY Runs DEF KeptInv, Busy
<1>2. Operates(r) /\ \A e \in Proc : run[e].step # "record"
  BY <1>1 DEF CalmInv, LineTyped, RunTyped, Busy
<1>3. LineOf(f) = Ours(path, r.by)
  BY <1>1, OursFields, WithLineFields
<1> HIDE DEF f
<1>4. LineAt(path)' = Ours(path, r.by)
  BY <1>1, <1>3 DEF LineAt, LineTyped, f
<1>5. StoodFor(r, LineAt(path)) /\ Stands(path)
  BY <1>1, <1>2 DEF Operates, LineAt, CalmInv
<1>6. users[path] = r.previous
  BY <1>2, <1>5 DEF StoodFor, Stands
<1>7. \A d \in Dir \ {path} : LineAt(d)' = LineAt(d) /\ ~OurLine(LineAt(d))
  BY <1>1, <1>2 DEF LineAt, LineTyped, Operates
<1> QED
  BY <1>4, <1>6, <1>7

LEMMA ApplyCalm ==
    ASSUME KeptInv, CalmInv, NEW c \in Proc, Apply(c)
    PROVE  CalmInv'
<1> DEFINE r == run[c]
           on == Written(r, "record")
           back == Again(r, "do")
<1>1. /\ r.step = "doing" /\ RunTyped(r) /\ r.op # "none" /\ Busy(c) /\ LineTyped
      /\ r.path \in Dir /\ r.by \in 0 .. MaxWrites /\ UNCHANGED <<book, dir, users>>
  BY Runs DEF Apply, At, KeptInv, Busy
<1>2. Tried(on, r, "record") /\ Tried(back, r, "do")
  BY <1>1, TriesTyped
<1>3. PICK path : path = r.path
  OBVIOUS
<1>4. \/ /\ settings[path] = r.seen /\ Does(c, on)
         /\ settings' = [settings EXCEPT ![path] = WithLine(r.seen, Ours(path, r.by))]
      \/ UNCHANGED settings /\ Does(c, back)
      \/ UNCHANGED settings /\ Done(c)
  BY <1>3 DEF Apply, Replace, Unchanged, Written, Again
<1> HIDE DEF on, back
<1>5. CASE /\ settings[path] = r.seen /\ Does(c, on)
           /\ settings' = [settings EXCEPT ![path] = WithLine(r.seen, Ours(path, r.by))]
  <2>1. /\ LineAt(path)' = Ours(path, r.by) /\ users[path] = r.previous
        /\ \A d \in Dir \ {path} : LineAt(d)' = LineAt(d) /\ ~OurLine(LineAt(d))
    BY <1>1, <1>3, <1>5, ApplyReplaces
  <2>2. OurLine(Ours(path, r.by)) /\ Ours(path, r.by).script = path
    BY <1>1, <1>3, OursFields
  <2>3. run'[c] = on /\ Operates(r)
    BY <1>1, <1>5, SoloStep
  <2>4. \A d \in Dir \ {path} : ~OurLine(LineAt(d))'
    BY <2>1 DEF OurLine
  <2>5. StoodFor(run[c], LineOf(run[c].seen))'
    BY <1>1, <1>2, <2>3 DEF Operates, StoodFor, Tried, OurLine
  <2>6. Operates(run[c])'
    BY <1>1, <1>2, <1>3, <2>1, <2>2, <2>3, <2>4, <2>5 DEF Operates, Tried, Becomes
  <2>7. \A d \in Dir : Stands(d)'
    <3> TAKE d \in Dir
    <3>1. CASE d = path
      <4>1. run'[c].step = "record" /\ run'[c].path = path
        BY <1>2, <1>3, <2>3 DEF Tried, Becomes
      <4>2. OurLine(LineAt(d))'
        BY <2>1, <2>2, <3>1 DEF OurLine
      <4> QED
        BY <3>1, <4>1, <4>2 DEF Stands
    <3>2. CASE d # path
      <4>1. LineAt(d)' = LineAt(d) /\ ~OurLine(LineAt(d)) /\ ~OurLine(LineAt(d))' /\ Stands(d)
        BY <2>1, <2>4, <3>2 DEF CalmInv
      <4> QED
        BY <1>1, <4>1 DEF Stands
    <3> QED
      BY <3>1, <3>2
  <2>8. \A d, e \in Dir : OurLine(LineAt(d))' /\ OurLine(LineAt(e))' => d = e
    BY <2>4
  <2> QED
    BY <1>1, <1>5, <2>6, <2>7, <2>8, SoloCalm
<1>6. CASE UNCHANGED settings /\ Does(c, back)
  BY <1>1, <1>2, <1>6, AgainCalm
<1>7. CASE UNCHANGED settings /\ Done(c)
  BY <1>1, <1>7, QuietEnd
<1> QED
  BY <1>4, <1>5, <1>6, <1>7

\* The record of what was replaced is written.
LEMMA WriteBookCalm ==
    ASSUME KeptInv, CalmInv, NEW c \in Proc, WriteBook(c)
    PROVE  CalmInv'
<1> DEFINE r == run[c]
<1>1. /\ r.step \in {"record", "note"} /\ RunTyped(r) /\ r.op # "none" /\ Busy(c) /\ LineTyped
      /\ r.path \in Dir /\ r.previous \in Line /\ UNCHANGED <<settings, dir, users>> /\ Done(c)
      /\ book' = [at |-> r.path, previous |-> r.previous]
  BY Runs DEF WriteBook, KeptInv, Busy
<1>2. Operates(r) /\ r.step = "record"
  BY <1>1 DEF CalmInv, Operates
<1>3. book'.at = r.path /\ book'.previous = r.previous /\ book' # NoBook
  <2>1. [at |-> r.path, previous |-> r.previous] \in Book
    BY <1>1 DEF Book
  <2> QED
    BY <1>1, <2>1, StatuslineAssumption
<1>4. \A d \in Dir : LineAt(d)' = LineAt(d) /\ Stands(d)
  BY <1>1 DEF LineAt, CalmInv
<1>5. \A d \in Dir : OurLine(LineAt(d)) => d = r.path /\ LineAt(d).script = r.path /\ users[d] = r.previous
  BY <1>2 DEF Operates
<1>6. r.path = dir
  BY <1>2 DEF Operates
<1>7. \A d \in Dir : Stands(d)'
  <2> TAKE d \in Dir
  <2>1. CASE OurLine(LineAt(d))
    BY <1>1, <1>3, <1>4, <1>5, <1>6, <2>1 DEF Stands, OurLine
  <2>2. CASE ~OurLine(LineAt(d))
    BY <1>1, <1>4, <2>2 DEF Stands, OurLine
  <2> QED
    BY <2>1, <2>2
<1>8. \A d, e \in Dir : OurLine(LineAt(d))' /\ OurLine(LineAt(e))' => d = e
  BY <1>4, <1>5 DEF OurLine
<1> QED
  BY <1>1, <1>7, <1>8, SoloCalm, IdleTyped DEF Done

\* The record cannot be written: what was replaced is put back.
LEMMA WriteBookFailsCalm ==
    ASSUME KeptInv, CalmInv, NEW c \in Proc, WriteBookFails(c), calm'
    PROVE  CalmInv'
<1> DEFINE r == run[c]
<1>1. /\ r.step \in {"record", "note"} /\ RunTyped(r) /\ r.op # "none" /\ Busy(c) /\ LineTyped
      /\ r.path \in Dir /\ r.by \in 0 .. MaxWrites /\ r.seen \in File \cup {NoFile}
      /\ UNCHANGED <<dir, users>> /\ Done(c) /\ UNCHANGED book
  BY Runs DEF WriteBookFails, KeptInv, Busy
<1>2. Operates(r) /\ r.step = "record"
  BY <1>1 DEF CalmInv, Operates
<1>3. PICK path : path = r.path
  OBVIOUS
<1>4. settings[path] = WithLine(r.seen, Ours(path, r.by)) /\ settings' = [settings EXCEPT ![path] = r.seen]
  BY <1>2, <1>3 DEF WriteBookFails, Unchanged
<1>5. OurLine(LineAt(path))
  BY <1>1, <1>3, <1>4, OursFields, WithLineFields DEF LineAt
<1>6. users[path] = r.previous /\ path = dir /\ StoodFor(r, LineOf(r.seen))
  BY <1>2, <1>3, <1>5 DEF Operates
<1>7. LineAt(path)' = LineOf(r.seen)
  BY <1>1, <1>3, <1>4 DEF LineAt, LineTyped
<1>8. \A d \in Dir \ {path} : LineAt(d)' = LineAt(d) /\ ~OurLine(LineAt(d)) /\ Stands(d)
  BY <1>1, <1>2, <1>3, <1>4 DEF LineAt, LineTyped, Operates, CalmInv
<1>9. \A d \in Dir : Stands(d)'
  <2> TAKE d \in Dir
  <2>1. CASE d = path
    BY <1>1, <1>6, <1>7, <2>1 DEF Stands, StoodFor, OurLine
  <2>2. CASE d # path
    BY <1>1, <1>8, <2>2 DEF Stands, OurLine
  <2> QED
    BY <2>1, <2>2
<1>10. \A d, e \in Dir : OurLine(LineAt(d))' /\ OurLine(LineAt(e))' => d = e
  BY <1>8 DEF OurLine
<1> QED
  BY <1>1, <1>9, <1>10, SoloCalm, IdleTyped DEF Done

LEMMA ReplaceFailsCalm ==
    ASSUME KeptInv, CalmInv, NEW c \in Proc, ReplaceFails(c)
    PROVE  CalmInv'
  BY Runs, QuietEnd DEF ReplaceFails, KeptInv, Busy

\* An operation begins when none is under way.
LEMMA BeginCalm ==
    ASSUME KeptInv, CalmInv, NEW c \in Proc, NEW n, NEW at, NEW id, NEW stage \in {"undo", "do"},
           Begin(c, n), calm', Starts(n, id, at, stage), book # NoBook => at = book.at,
           stage = "do" => book = NoBook \/ book.at = dir
    PROVE  CalmInv'
<1>1. /\ \A e \in Proc : ~Busy(e) /\ run[e].step # "record"
      /\ run' = [run EXCEPT ![c] = n] /\ LineTyped /\ UNCHANGED <<settings, book, dir, users>>
  BY DEF Begin, Does, Busy, KeptInv, LineTyped, RunTyped
<1>2. run'[c] = n /\ \A e \in Proc : e # c => run'[e] = run[e]
  BY <1>1 DEF LineTyped
<1>3. \A d \in Dir : LineAt(d)' = LineAt(d) /\ Stands(d)
  BY <1>1 DEF LineAt, CalmInv
<1>4. \A d \in Dir : Stands(d)'
  BY <1>1, <1>3 DEF Stands, OurLine
<1>5. stage = "do" => \A d \in Dir \ {dir} : ~OurLine(LineAt(d))'
  BY <1>1, <1>3 DEF Stands, OurLine
<1>6. Operates(run[c])'
  BY <1>1, <1>2, <1>5 DEF Operates, Starts
<1>7. \A d, e \in Dir : OurLine(LineAt(d))' /\ OurLine(LineAt(e))' => d = e
  BY <1>3 DEF CalmInv, OurLine
<1>8. \A e \in Proc : Busy(e)' => e = c
  BY <1>1, <1>2 DEF Busy
<1>9. \A e \in Proc : Busy(e)' => Operates(run[e])'
  BY <1>6, <1>8
<1> QED
  BY <1>4, <1>7, <1>8, <1>9 DEF CalmInv

LEMMA BeginApplyCalm ==
    ASSUME KeptInv, CalmInv, NEW c \in Proc, BeginApply(c), calm'
    PROVE  CalmInv'
<1> DEFINE at == IF book # NoBook /\ book.at # dir THEN book.at ELSE dir
           stage == IF book # NoBook /\ book.at # dir THEN "undo" ELSE "do"
           id == lineSpent.ops + 1
           m == Applies(id, at, stage)
<1>1. Begin(c, m)
  BY DEF BeginApply, Applies
<1>2. /\ at \in Dir /\ stage \in {"undo", "do"} /\ (stage = "undo" => book # NoBook)
      /\ LineTyped /\ (book # NoBook => at = book.at) /\ (stage = "do" => book = NoBook \/ book.at = dir)
  BY DEF KeptInv, LineTyped, Book
<1>3. id \in Ops
  BY <1>1, StatuslineAssumption DEF Begin, KeptInv, LineTyped, Spent, Ops
<1> HIDE DEF at, stage, id
<1>4. Starts(m, id, at, stage)
  BY <1>2, <1>3, BeginTyped
<1> HIDE DEF m
<1> QED
  BY <1>1, <1>2, <1>4, BeginCalm

LEMMA BeginRevertCalm ==
    ASSUME KeptInv, CalmInv, NEW c \in Proc, BeginRevert(c), calm'
    PROVE  CalmInv'
<1> DEFINE at == book.at
           id == lineSpent.ops + 1
           n == Reverts(id, at)
<1>1. Begin(c, n) /\ book # NoBook
  BY DEF BeginRevert, Reverts
<1>2. at \in Dir /\ LineTyped /\ at = book.at
  BY <1>1 DEF KeptInv, LineTyped, Book
<1>3. id \in Ops
  BY <1>1, StatuslineAssumption DEF Begin, KeptInv, LineTyped, Spent, Ops
<1> HIDE DEF at, id
<1>4. Starts(n, id, at, "undo")
  BY <1>1, <1>2, <1>3, RevertTyped
<1> HIDE DEF n
<1> QED
  BY <1>1, <1>2, <1>4, BeginCalm

\* What is written to a file is its line, or a line of the user's.
LEMMA OthersWriteCalm ==
    ASSUME LineTyped, CalmInv, UNCHANGED <<run, dir, book>>,
           \A d \in Dir : \/ LineAt(d)' = LineAt(d) /\ users'[d] = users[d]
                          \/ LineAt(d)' = users'[d] /\ users'[d] \in UserLine \cup {NoLine}
    PROVE  CalmInv'
<1>1. \A d \in Dir : OurLine(LineAt(d))' => /\ LineAt(d)' = LineAt(d) /\ users'[d] = users[d]
                                             /\ OurLine(LineAt(d))
  BY DEF OurLine
<1>2. \A d \in Dir : Stands(d)'
  <2> TAKE d \in Dir
  <2>1. CASE OurLine(LineAt(d))'
    BY <1>1, <2>1 DEF Stands, CalmInv
  <2>2. CASE ~OurLine(LineAt(d))'
    BY <2>2 DEF Stands, CalmInv, OurLine
  <2> QED
    BY <2>1, <2>2
<1>3. \A d, e \in Dir : OurLine(LineAt(d))' /\ OurLine(LineAt(e))' => d = e
  BY <1>1 DEF CalmInv
<1>4. ASSUME NEW c \in Proc, Busy(c)'
      PROVE  Operates(run[c])'
  <2>1. Operates(run[c]) /\ RunTyped(run[c]) /\ run'[c] = run[c] /\ run[c].path \in Dir
    BY <1>4 DEF CalmInv, Busy, LineTyped, RunTyped
  <2>2. StoodFor(run[c], LineOf(run[c].seen)) => StoodFor(run[c], LineOf(run[c].seen))'
    BY DEF StoodFor, OurLine
  <2>3. OurLine(LineAt(run[c].path))' => /\ OurLine(LineAt(run[c].path)) /\ LineAt(run[c].path)' = LineAt(run[c].path)
                                         /\ users'[run[c].path] = users[run[c].path]
    BY <1>1, <2>1
  <2> QED
    BY <1>1, <2>1, <2>2, <2>3 DEF Operates
<1>5. \A c, e \in Proc : Busy(c)' /\ Busy(e)' => c = e
  BY DEF CalmInv, Busy
<1> QED
  BY <1>2, <1>3, <1>4, <1>5 DEF CalmInv

LEMMA ClaudeWritesCalm ==
    ASSUME KeptInv, CalmInv, NEW d \in Dir, ClaudeWrites(d)
    PROVE  CalmInv'
<1> DEFINE n == lineSpent.writes + 1
           f == [line |-> LineOf(settings[d]), other |-> n]
<1>1. /\ lineSpent.writes < MaxWrites /\ LineSpends("writes") /\ LineTyped
      /\ settings' = [settings EXCEPT ![d] = f] /\ UNCHANGED <<book, run, dir, users>>
  BY DEF ClaudeWrites, Write, KeptInv
<1>2. n \in 0 .. MaxWrites
  BY <1>1, WriteSpends
<1> HIDE DEF n
<1>3. f \in File /\ f.line = LineOf(settings[d])
  BY <1>1, <1>2, FileFields DEF File, LineTyped
<1> HIDE DEF f
<1>4. LineOf(f) = LineOf(settings[d])
  BY <1>3, StatuslineAssumption DEF LineOf
<1>5. \A e \in Dir : LineAt(e)' = LineAt(e)
  BY <1>1, <1>4 DEF LineAt, LineTyped
<1> QED
  BY <1>1, <1>5, OthersWriteCalm

LEMMA UserWritesCalm ==
    ASSUME KeptInv, CalmInv, NEW d \in Dir, NEW l \in UserLine \cup {NoLine}, UserWrites(d, l)
    PROVE  CalmInv'
<1> DEFINE f == WithLine(settings[d], l)
<1>1. /\ settings' = [settings EXCEPT ![d] = f] /\ users' = [users EXCEPT ![d] = l]
      /\ UNCHANGED <<book, run, dir>> /\ LineTyped
  BY DEF UserWrites, Write, KeptInv
<1>2. settings[d] \in File \cup {NoFile} /\ l \in Line
  BY <1>1 DEF LineTyped, Line
<1>3. LineOf(f) = l
  BY <1>2, WithLineFields
<1> HIDE DEF f
<1>4. \A e \in Dir : IF e = d THEN LineAt(e)' = l /\ users'[e] = l
                     ELSE LineAt(e)' = LineAt(e) /\ users'[e] = users[e]
  BY <1>1, <1>3 DEF LineAt, LineTyped
<1> QED
  BY <1>1, <1>4, OthersWriteCalm

\* The profile's directory changes between two operations, and no file is left that has the line of
\* another directory.
LEMMA ChangesDirCalm ==
    ASSUME KeptInv, CalmInv, NEW g \in Dir, ChangesDir(g), calm'
    PROVE  CalmInv'
<1>1. /\ g # dir /\ dir' = g /\ dir \in Dir /\ LineTyped /\ UNCHANGED <<book, run>>
      /\ \A c \in Proc : ~Busy(c) /\ ~Busy(c)' /\ run[c].step # "record"
      /\ \A d \in Dir : ~Stray(d)
  BY DEF ChangesDir, KeptInv, LineTyped, Busy, RunTyped
<1>2. \A d \in Dir : Stands(d) /\ (OurLine(LineAt(d)) => LineAt(d).script = d)
  BY <1>1 DEF CalmInv, Stray, LineAt, OurLine, IsOurs
<1>3. \A d \in Dir : IF OurLine(LineAt(d))
                     THEN book # NoBook /\ d = book.at /\ LineAt(d).script = d /\ users[d] = book.previous
                     ELSE LineAt(d) = users[d]
  BY <1>1, <1>2 DEF Stands
<1>4. CASE UNCHANGED <<settings, users>>
  <2>1. \A d \in Dir : LineAt(d)' = LineAt(d)
    BY <1>4 DEF LineAt
  <2>2. \A d \in Dir : Stands(d)'
    BY <1>1, <1>3, <1>4, <2>1 DEF Stands, OurLine
  <2>3. \A d, e \in Dir : OurLine(LineAt(d))' /\ OurLine(LineAt(e))' => d = e
    BY <1>3, <2>1 DEF OurLine
  <2> QED
    BY <1>1, <2>2, <2>3 DEF CalmInv
<1>5. CASE /\ settings[g] = NoFile
           /\ settings' = [settings EXCEPT ![g] = settings[dir], ![dir] = NoFile]
           /\ users' = [users EXCEPT ![g] = users[dir], ![dir] = NoLine]
  <2>1. \A d \in Dir :
          /\ LineAt(d)' = IF d = dir THEN NoLine ELSE IF d = g THEN LineAt(dir) ELSE LineAt(d)
          /\ users'[d] = IF d = dir THEN NoLine ELSE IF d = g THEN users[dir] ELSE users[d]
    BY <1>1, <1>5 DEF LineAt, LineTyped, LineOf
  <2>2. ~OurLine(NoLine) /\ ~OurLine(LineAt(g))
    BY <1>5 DEF OurLine, LineAt, LineOf
  <2>3. \A d \in Dir : Stands(d)'
    <3> TAKE d \in Dir
    <3>1. CASE d = dir
      BY <1>1, <2>1, <2>2, <3>1 DEF Stands, OurLine
    <3>2. CASE d = g
      BY <1>1, <1>3, <2>1, <3>2 DEF Stands, OurLine
    <3>3. CASE d # dir /\ d # g
      BY <1>1, <1>3, <2>1, <3>3 DEF Stands, OurLine
    <3> QED
      BY <3>1, <3>2, <3>3
  <2>4. \A d, e \in Dir : OurLine(LineAt(d))' /\ OurLine(LineAt(e))' => d = e
    BY <1>1, <1>3, <2>1, <2>2 DEF OurLine
  <2> QED
    BY <1>1, <2>3, <2>4 DEF CalmInv
<1> QED
  BY <1>4, <1>5 DEF ChangesDir

\* What is written while `_revert_recorded` replaces a file.
UndoneBy(c) ==
    run[c].step = "undoing" /\ run'[c].step # "undoing" /\ settings' # settings
        => LineOf(settings'[run[c].at]) = users[run[c].at]

\* Another process, or a step of this one that replaces nothing.
LEMMA NotUndone ==
    ASSUME LineTyped, NEW c \in Proc, NEW n, Does(c, n), settings' = settings \/ run[c].step # "undoing"
    PROVE  \A e \in Proc : UndoneBy(e)
<1>1. \A e \in Proc : e # c => run'[e] = run[e]
  BY DEF Does, LineTyped
<1> QED
  BY <1>1 DEF UndoneBy

LEMMA CalmStep ==
    ASSUME KeptInv, calm => CalmInv, [LineNext]_lineVars
    PROVE  /\ calm' => CalmInv'
           /\ calm => \A c \in Proc : UndoneBy(c)
<1>0. LineTyped
  BY DEF KeptInv
<1>1. CASE UNCHANGED lineVars
  BY <1>0, <1>1, OthersWriteCalm DEF lineVars, LineAt, UndoneBy
<1>2. ASSUME NEW c \in Proc, BeginApply(c) \/ BeginRevert(c)
      PROVE  (calm' => CalmInv') /\ \A e \in Proc : UndoneBy(e)
  <2>1. calm' => calm
    BY <1>2 DEF BeginApply, BeginRevert, Begin
  <2>2. calm' => CalmInv'
    BY <1>2, <2>1, BeginApplyCalm, BeginRevertCalm
  <2>3. \A e \in Proc : UndoneBy(e)
    <3>1. \A n : Begin(c, n) => \A e \in Proc : UndoneBy(e)
      BY <1>0, NotUndone DEF Begin
    <3> QED
      BY <1>2, <3>1 DEF BeginApply, BeginRevert
  <2> QED
    BY <2>2, <2>3
<1>3. ASSUME NEW c \in Proc, Undo(c)
      PROVE  (calm' => CalmInv') /\ (calm => \A e \in Proc : UndoneBy(e))
  <2>1. calm' = calm
    BY <1>3 DEF Undo
  <2>2. calm => CalmInv' /\ (settings' # settings => LineOf(settings'[run[c].at]) = users[run[c].at])
    BY <1>3, UndoCalm
  <2>3. \A e \in Proc : e # c => run'[e] = run[e]
    BY <1>0, <1>3 DEF Undo, Replace, Done, Does, LineTyped
  <2>4. calm => \A e \in Proc : UndoneBy(e)
    BY <2>2, <2>3 DEF UndoneBy
  <2> QED
    BY <2>1, <2>2, <2>4
<1>4. ASSUME NEW c \in Proc, ReadToUndo(c) \/ Unbook(c) \/ ReadToApply(c) \/ Apply(c) \/ WriteBook(c)
      PROVE  (calm' => CalmInv') /\ \A e \in Proc : UndoneBy(e)
  <2>1. calm' = calm
    BY <1>4 DEF ReadToUndo, Unbook, ReadToApply, Apply, WriteBook
  <2>2. calm => CalmInv'
    BY <1>4, ReadToUndoCalm, UnbookCalm, ReadToApplyCalm, ApplyCalm, WriteBookCalm
  <2>3. run[c].step # "undoing" /\ \A e \in Proc : e # c => run'[e] = run[e]
    BY <1>0, <1>4 DEF ReadToUndo, Unbook, ReadToApply, Apply, WriteBook, Replace, Done, Does, LineTyped, At
  <2> QED
    BY <2>1, <2>2, <2>3 DEF UndoneBy
<1>5. ASSUME NEW c \in Proc, WriteBookFails(c) \/ ReplaceFails(c) \/ CcsKilled(c)
      PROVE  (calm' => CalmInv') /\ \A e \in Proc : UndoneBy(e)
  <2>1. calm' => calm /\ ~CcsKilled(c)
    BY <1>5 DEF WriteBookFails, ReplaceFails, CcsKilled
  <2>2. calm' => CalmInv'
    BY <1>5, <2>1, WriteBookFailsCalm, ReplaceFailsCalm
  <2>3. Done(c) /\ (settings' = settings \/ run[c].step # "undoing")
    BY <1>5 DEF WriteBookFails, ReplaceFails, CcsKilled
  <2> QED
    BY <1>0, <2>2, <2>3, NotUndone DEF Done
<1>10. ASSUME NEW c \in Proc, ReplaceInterrupted(c)
       PROVE  (calm' => CalmInv') /\ (calm => \A e \in Proc : UndoneBy(e))
  <2>1. ~calm' /\ Done(c)
    BY <1>10 DEF ReplaceInterrupted
  <2>2. CASE run[c].step = "undoing"
    <3>1. PICK at : at = run[c].at
      OBVIOUS
    <3>2. /\ settings[at] = run[c].seen
          /\ settings' = [settings EXCEPT ![at] = WithLine(run[c].seen, run[c].book.previous)]
      BY <1>10, <2>2, <3>1 DEF ReplaceInterrupted, Unchanged
    <3>3. calm => LineOf(settings'[run[c].at]) = users[run[c].at]
      BY <2>2, <3>1, <3>2, UndoRestores DEF LineAt
    <3>4. \A e \in Proc : e # c => run'[e] = run[e]
      BY <1>0, <2>1 DEF Done, Does, LineTyped
    <3>5. calm => \A e \in Proc : UndoneBy(e)
      BY <3>3, <3>4 DEF UndoneBy
    <3> QED
      BY <2>1, <3>5
  <2>3. CASE run[c].step # "undoing"
    BY <1>0, <2>1, <2>3, NotUndone DEF Done
  <2> QED
    BY <2>2, <2>3
<1>6. ASSUME UNCHANGED run
      PROVE  \A e \in Proc : UndoneBy(e)
  BY <1>6 DEF UndoneBy
<1>7. ASSUME NEW d \in Dir, ClaudeWrites(d) \/ ChangesDir(d)
      PROVE  (calm' => CalmInv') /\ \A e \in Proc : UndoneBy(e)
  <2>1. (calm' => calm) /\ UNCHANGED run
    <3>1. CASE ClaudeWrites(d)
      BY <3>1 DEF ClaudeWrites, Write
    <3>2. CASE ChangesDir(d)
      <4>1. calm' = (calm /\ (\A c \in Proc : run[c].op = "none") /\ ~(\E e \in Dir : Stray(e)))
        BY <3>2, Zenon DEF ChangesDir
      <4>2. calm' => calm
        BY <4>1, Zenon
      <4> QED
        BY <3>2, <4>2, Zenon DEF ChangesDir
    <3> QED
      BY <1>7, <3>1, <3>2
  <2> QED
    BY <1>6, <1>7, <2>1, ClaudeWritesCalm, ChangesDirCalm
<1>8. ASSUME NEW d \in Dir, NEW l \in UserLine \cup {NoLine}, UserWrites(d, l)
      PROVE  (calm' => CalmInv') /\ \A e \in Proc : UndoneBy(e)
  <2>1. calm' = calm /\ UNCHANGED run
    BY <1>8 DEF UserWrites, Write
  <2> QED
    BY <1>6, <1>8, <2>1, UserWritesCalm
<1>9. CASE Upgrades
  <2>1. UNCHANGED <<settings, users, run, dir, book, calm>>
    BY <1>9 DEF Upgrades
  <2> QED
    BY <1>0, <1>6, <2>1, OthersWriteCalm DEF LineAt
<1> QED
  BY <1>1, <1>2, <1>3, <1>4, <1>5, <1>7, <1>8, <1>9, <1>10 DEF LineNext

LEMMA CalmStarts ==
    ASSUME LineInit
    PROVE  CalmInv
<1>1. PICK d \in Dir, l \in UserLine \cup {NoLine} :
        /\ dir = d
        /\ settings = [e \in Dir |-> IF e = d /\ l # NoLine THEN [line |-> l, other |-> 0] ELSE NoFile]
        /\ users = [e \in Dir |-> IF e = d THEN l ELSE NoLine]
  BY DEF LineInit
<1>2. run = [c \in Proc |-> Idle] /\ Idle.op = "none"
  BY IdleTyped DEF LineInit
<1> DEFINE f == [line |-> l, other |-> 0]
<1>3. f \in File /\ f.line = l
  BY StatuslineAssumption DEF File, Line
<1>4. settings = [e \in Dir |-> IF e = d /\ l # NoLine THEN f ELSE NoFile]
  BY <1>1
<1> HIDE DEF f
<1>5. LineOf(f) = l /\ LineOf(NoFile) = NoLine
  BY <1>3, StatuslineAssumption DEF LineOf
<1>6. \A e \in Dir : LineAt(e) = users[e] /\ ~OurLine(LineAt(e))
  BY <1>1, <1>4, <1>5 DEF LineAt, OurLine
<1> QED
  BY <1>2, <1>6 DEF CalmInv, Stands, Busy

\* A revert puts back what the user had, for any processes, directories and lines, however applies,
\* reverts, writes of others, upgrades and failed writes follow each other; `calm` excludes what
\* comes after a kill, an interrupt and the other exceptions of RevertRestores.
THEOREM UserLineComesBack == LineSpec => RevertRestores
<1> DEFINE Inv == KeptInv /\ (calm => CalmInv)
<1>1. LineInit => Inv
  BY LineStarts, CalmStarts
<1>2. Inv /\ [LineNext]_lineVars => Inv'
  BY LineStep, CalmStep
<1>3. Inv /\ [LineNext]_lineVars =>
        [\A c \in Proc :
            (At(c, "undoing") /\ run'[c].step # "undoing" /\ settings' # settings /\ calm) =>
                LineOf(settings'[run[c].at]) = users[run[c].at]]_lineVars
  BY CalmStep DEF UndoneBy, At
<1> QED
  BY <1>1, <1>2, <1>3, PTL DEF LineSpec, RevertRestores
-----------------------------------------------------------------------------
(* No event repeats without a reason. *)

Remembered == [key : Key, at : Nat]
Logged == [n : Nat, key : Key \cup {NoKey}, at : Nat]

\* Memory `s` has key `k` from a time `at` or later.
Covers(s, k, at) == \E i \in DOMAIN s : s[i].key = k /\ s[i].at >= at
\* Keys of recent records that a daemon with these memories does not suppress, or the next one will not.
Forgotten(records, s, disk, now) ==
    {k \in Key : \E i \in DOMAIN records :
        /\ records[i].key = k /\ now - records[i].at <= SEEN_HORIZON
        /\ ~(Covers(s, k, records[i].at) /\ Covers(disk, k, records[i].at))}
Repeated(records) == {i \in DOMAIN records :
    \E j \in 1 .. i - 1 :
        /\ records[i].key # NoKey /\ records[i].key = records[j].key
        /\ records[i].at - records[j].at <= SEEN_HORIZON}
\* The memory that counts, and the key that is about to be remembered.
Effective == IF step = "off" THEN seenFile ELSE seen
InHand == IF step = "remember" THEN {event.key} ELSE {}
Uncovered == Forgotten(logged, Effective, seenFile, clock) \ InHand
Excuses == logSpent.failures + logSpent.crashes + evicted

LogTyped ==
    /\ seen \in Seq(Remembered) /\ seenFile \in Seq(Remembered)
    /\ logged \in Seq(Logged)
    /\ clock \in Nat /\ evicted \in Nat
    /\ logSpent.failures \in Nat /\ logSpent.crashes \in Nat /\ logSpent.events \in Nat
    /\ step \in Steps
    /\ step \in {"rotate", "append", "remember"} => event \in Logged /\ event.at = clock
    /\ step = "remember" => event.key \in Key

AllLogged(s, records) ==
    \A i \in DOMAIN s : \E j \in DOMAIN records : records[j].key = s[i].key /\ records[j].at = s[i].at
Past == \A i \in DOMAIN logged : logged[i].at <= clock

LogInv ==
    /\ LogTyped
    /\ Past
    /\ step \in {"rotate", "append"} => event.key = NoKey \/ ~Seen(event.key)
    /\ step = "remember" => \E i \in DOMAIN logged : logged[i] = event
    /\ AllLogged(seen, logged) /\ AllLogged(seenFile, logged)
    /\ IsFiniteSet(Uncovered)
    /\ Cardinality(Repeated(logged)) + Cardinality(Uncovered) <= Excuses

-----------------------------------------------------------------------------
(* A memory that forgets one. *)

LEMMA FirstPlace ==
    ASSUME NEW T, T \subseteq Nat, T # {}
    PROVE  Min(T) \in T
<1>1. PICK x \in T : \A y \in T : ~(<<y, x>> \in OpToRel(<, Nat))
  BY NatLessThanWellFounded, WFMin
<1>2. \A y \in T : ~(y < x)
  BY <1>1 DEF OpToRel
<1>3. \A y \in T : x <= y
  BY <1>2
<1> QED
  BY <1>3 DEF Min

LEMMA OneRemoved ==
    ASSUME NEW s \in Seq(Remembered), NEW i \in 1 .. Len(s), NEW r, r = RemoveAt(s, i)
    PROVE  /\ r \in Seq(Remembered)
           /\ \A k \in DOMAIN r : \E j \in DOMAIN s : s[j] = r[k]
           /\ \A j \in DOMAIN s : j # i => \E k \in DOMAIN r : r[k] = s[j]
<1>1. /\ SubSeq(s, 1, i - 1) \in Seq(Remembered) /\ Len(SubSeq(s, 1, i - 1)) = i - 1
      /\ \A k \in 1 .. i - 1 : SubSeq(s, 1, i - 1)[k] = s[k]
  BY SubSeqProperties
<1>2. /\ SubSeq(s, i + 1, Len(s)) \in Seq(Remembered) /\ Len(SubSeq(s, i + 1, Len(s))) = Len(s) - i
      /\ \A k \in 1 .. Len(s) - i : SubSeq(s, i + 1, Len(s))[k] = s[i + k]
  BY SubSeqProperties
<1>3. PICK a \in Seq(Remembered) : a = SubSeq(s, 1, i - 1)
  BY <1>1, Zenon
<1>4. PICK b \in Seq(Remembered) : b = SubSeq(s, i + 1, Len(s))
  BY <1>2, Zenon
<1>5. RemoveAt(s, i) = a \o b
  BY <1>3, <1>4 DEF RemoveAt
<1>6. r = a \o b
  BY <1>5
<1>7. /\ r \in Seq(Remembered) /\ Len(r) = Len(s) - 1 /\ DOMAIN r = 1 .. Len(s) - 1 /\ DOMAIN s = 1 .. Len(s)
      /\ \A k \in 1 .. i - 1 : r[k] = s[k]
      /\ \A k \in i .. Len(s) - 1 : r[k] = s[k + 1]
  <2>1. /\ r \in Seq(Remembered) /\ Len(r) = Len(a) + Len(b)
        /\ \A k \in 1 .. Len(a) + Len(b) : r[k] = IF k <= Len(a) THEN a[k] ELSE b[k - Len(a)]
    BY <1>6, ConcatProperties
  <2>2. Len(a) = i - 1 /\ Len(b) = Len(s) - i /\ Len(s) \in Nat
    BY <1>1, <1>2, <1>3, <1>4
  <2>3. ASSUME NEW k \in 1 .. i - 1
        PROVE  r[k] = s[k]
    <3>1. k \in 1 .. Len(a) + Len(b) /\ k <= Len(a)
      BY <2>2
    <3>2. r[k] = a[k]
      BY <2>1, <3>1
    <3> QED
      BY <1>1, <1>3, <3>2
  <2>4. ASSUME NEW k \in i .. Len(s) - 1
        PROVE  r[k] = s[k + 1]
    <3>1. k \in 1 .. Len(a) + Len(b) /\ ~(k <= Len(a))
      BY <2>2
    <3>2. r[k] = b[k - (i - 1)]
      BY <2>1, <2>2, <3>1
    <3>3. k - (i - 1) \in 1 .. Len(s) - i /\ i + (k - (i - 1)) = k + 1
      OBVIOUS
    <3> QED
      BY <1>2, <1>4, <3>2, <3>3
  <2> QED
    BY <2>1, <2>2, <2>3, <2>4
<1>8. ASSUME NEW k \in DOMAIN r
      PROVE  \E j \in DOMAIN s : s[j] = r[k]
  <2>1. k \in 1 .. i - 1 \/ k \in i .. Len(s) - 1
    BY <1>7
  <2>2. k \in DOMAIN s /\ k + 1 \in DOMAIN s
    BY <1>7
  <2> QED
    BY <1>7, <2>1, <2>2
<1>9. ASSUME NEW j \in DOMAIN s, j # i
      PROVE  \E k \in DOMAIN r : r[k] = s[j]
  <2>1. CASE j < i
    <3>1. j \in 1 .. i - 1 /\ j \in DOMAIN r
      BY <1>7, <2>1
    <3> QED
      BY <1>7, <3>1
  <2>2. CASE j > i
    <3>1. j - 1 \in i .. Len(s) - 1 /\ j - 1 \in DOMAIN r /\ (j - 1) + 1 = j
      BY <1>7, <2>2
    <3> QED
      BY <1>7, <3>1
  <2> QED
    BY <1>7, <1>9, <2>1, <2>2
<1> QED
  BY <1>7, <1>8, <1>9

WithoutKey(s, k) == RemoveFirstMatch(s, LAMBDA old : old.key = k)

LEMMA FirstOfKey ==
    ASSUME NEW s \in Seq(Remembered), NEW k, NEW r, r = WithoutKey(s, k)
    PROVE  /\ r \in Seq(Remembered)
           /\ \A i \in DOMAIN r : \E j \in DOMAIN s : s[j] = r[i]
           /\ \A j \in DOMAIN s : s[j].key # k => \E i \in DOMAIN r : r[i] = s[j]
<1> DEFINE T == {i \in 1 .. Len(s) : s[i].key = k}
<1>1. CASE T = {}
  <2>1. r = s
    BY <1>1 DEF WithoutKey, RemoveFirstMatch
  <2> QED
    BY <2>1
<1>2. CASE T # {}
  <2>1. r = RemoveAt(s, Min(T))
    BY <1>2 DEF WithoutKey, RemoveFirstMatch, SelectInSeq
  <2>2. T \subseteq Nat
    OBVIOUS
  <2>3. Min(T) \in T
    BY <1>2, <2>2, FirstPlace
  <2>4. PICK i \in 1 .. Len(s) : i = Min(T) /\ s[i].key = k
    BY <2>3
  <2>5. r = RemoveAt(s, i)
    BY <2>1, <2>4
  <2>6. /\ r \in Seq(Remembered)
        /\ \A n \in DOMAIN r : \E j \in DOMAIN s : s[j] = r[n]
        /\ \A j \in DOMAIN s : j # i => \E n \in DOMAIN r : r[n] = s[j]
    <3>1. r \in Seq(Remembered)
      BY <2>5, OneRemoved
    <3>2. \A n \in DOMAIN r : \E j \in DOMAIN s : s[j] = r[n]
      BY <2>5, OneRemoved
    <3>3. \A j \in DOMAIN s : j # i => \E n \in DOMAIN r : r[n] = s[j]
      BY <2>5, OneRemoved
    <3> QED
      BY <3>1, <3>2, <3>3
  <2> QED
    BY <2>4, <2>6
<1> QED
  BY <1>1, <1>2

\* The memory with m, before anything is forgotten for want of room.
LEMMA RemembersOne ==
    ASSUME seen \in Seq(Remembered), NEW m \in Remembered, NEW r, r = Remembering(m)
    PROVE  /\ r \in Seq(Remembered) /\ r # <<>> /\ Len(r) \in DOMAIN r /\ r[Len(r)] = m
           /\ \A i \in DOMAIN r : r[i] = m \/ \E j \in DOMAIN seen : seen[j] = r[i]
           /\ \A j \in DOMAIN seen : seen[j].key # m.key => \E i \in DOMAIN r : r[i] = seen[j]
<1>1. PICK w : w = WithoutKey(seen, m.key)
  OBVIOUS
<1>2. /\ w \in Seq(Remembered)
      /\ \A i \in DOMAIN w : \E j \in DOMAIN seen : seen[j] = w[i]
      /\ \A j \in DOMAIN seen : seen[j].key # m.key => \E i \in DOMAIN w : w[i] = seen[j]
  BY <1>1, FirstOfKey
<1>3. r = Append(w, m)
  BY <1>1 DEF Remembering, WithoutKey, RemoveFirstMatch, SelectInSeq
<1>4. /\ r \in Seq(Remembered) /\ r # <<>> /\ Len(r) = Len(w) + 1 /\ DOMAIN w = 1 .. Len(w) /\ Len(w) \in Nat
      /\ DOMAIN r = 1 .. Len(w) + 1 /\ r[Len(w) + 1] = m
      /\ \A i \in 1 .. Len(w) : r[i] = w[i]
  BY <1>2, <1>3
<1> QED
  BY <1>2, <1>4

LEMMA ForgetsOldest ==
    ASSUME NEW s \in Seq(Remembered), s # <<>>
    PROVE  /\ Tail(s) \in Seq(Remembered) /\ Head(s) \in Remembered
           /\ \A i \in DOMAIN Tail(s) : \E j \in DOMAIN s : s[j] = Tail(s)[i]
           /\ \A j \in DOMAIN s : s[j] = Head(s) \/ \E i \in DOMAIN Tail(s) : Tail(s)[i] = s[j]
           /\ Len(s) > 1 => \E i \in DOMAIN Tail(s) : Tail(s)[i] = s[Len(s)]
<1> DEFINE t == Tail(s)
           h == Head(s)
<1>1. /\ t \in Seq(Remembered) /\ h \in Remembered /\ h = s[1]
      /\ DOMAIN t = 1 .. Len(s) - 1 /\ DOMAIN s = 1 .. Len(s) /\ Len(s) \in Nat
      /\ \A i \in 1 .. Len(s) - 1 : t[i] = s[i + 1]
  OBVIOUS
<1> HIDE DEF t, h
<1>2. ASSUME NEW i \in DOMAIN t
      PROVE  \E j \in DOMAIN s : s[j] = t[i]
  <2>1. i + 1 \in DOMAIN s /\ s[i + 1] = t[i]
    BY <1>1
  <2> QED
    BY <2>1
<1>3. ASSUME NEW j \in DOMAIN s, j # 1
      PROVE  \E i \in DOMAIN t : t[i] = s[j]
  <2>1. j - 1 \in DOMAIN t /\ t[j - 1] = s[(j - 1) + 1] /\ (j - 1) + 1 = j
    BY <1>1, <1>3
  <2> QED
    BY <2>1
<1>4. ASSUME Len(s) > 1
      PROVE  \E i \in DOMAIN t : t[i] = s[Len(s)]
  BY <1>1, <1>3, <1>4
<1>5. \A j \in DOMAIN s : s[j] = h \/ \E i \in DOMAIN t : t[i] = s[j]
  BY <1>1, <1>3
<1> QED
  BY <1>1, <1>2, <1>4, <1>5 DEF t, h

-----------------------------------------------------------------------------
(* Records and memories. *)

\* A record that is appended.
LEMMA OneLogged ==
    ASSUME logged \in Seq(Logged), event \in Logged, clock \in Nat, Past, event.at = clock,
           NEW l, l = Append(logged, event), NEW s
    PROVE  /\ l \in Seq(Logged) /\ \A i \in DOMAIN l : l[i].at <= clock
           /\ \A i \in DOMAIN logged : \E j \in DOMAIN l : l[j] = logged[i]
           /\ \E j \in DOMAIN l : l[j] = event
           /\ Repeated(l) \subseteq Repeated(logged) \cup {Len(l)}
           /\ Len(l) \in Repeated(l) => event.key \in Key
                /\ \E j \in DOMAIN logged : logged[j].key = event.key /\ clock - logged[j].at <= SEEN_HORIZON
           /\ Forgotten(l, s, seenFile, clock) \subseteq Forgotten(logged, s, seenFile, clock) \cup {event.key}
           /\ event.key = NoKey => Forgotten(l, s, seenFile, clock) \subseteq Forgotten(logged, s, seenFile, clock)
<1>1. /\ l \in Seq(Logged) /\ DOMAIN logged = 1 .. Len(logged) /\ Len(logged) \in Nat
      /\ Len(l) = Len(logged) + 1 /\ DOMAIN l = 1 .. Len(logged) + 1 /\ l[Len(logged) + 1] = event
      /\ \A i \in 1 .. Len(logged) : l[i] = logged[i]
  OBVIOUS
<1>2. \A i \in DOMAIN l : l[i].at <= clock
  BY <1>1 DEF Logged, Past
<1>3. ASSUME NEW i \in Repeated(l), i # Len(l)
      PROVE  i \in Repeated(logged)
  <2>1. i \in DOMAIN logged /\ l[i] = logged[i]
    BY <1>1, <1>3 DEF Repeated
  <2>2. PICK j \in 1 .. i - 1 : l[i].key # NoKey /\ l[i].key = l[j].key /\ l[i].at - l[j].at <= SEEN_HORIZON
    BY DEF Repeated
  <2>3. l[j] = logged[j]
    BY <1>1, <2>1
  <2> QED
    BY <2>1, <2>2, <2>3 DEF Repeated
<1>4. ASSUME Len(l) \in Repeated(l)
      PROVE  event.key \in Key /\ \E j \in DOMAIN logged : logged[j].key = event.key /\ clock - logged[j].at <= SEEN_HORIZON
  <2>1. PICK j \in 1 .. Len(l) - 1 : event.key # NoKey /\ event.key = l[j].key /\ event.at - l[j].at <= SEEN_HORIZON
    BY <1>1, <1>4 DEF Repeated
  <2>2. j \in DOMAIN logged /\ l[j] = logged[j]
    BY <1>1
  <2> QED
    BY <2>1, <2>2 DEF Logged
<1>5. ASSUME NEW k \in Forgotten(l, s, seenFile, clock), k # event.key
      PROVE  k \in Forgotten(logged, s, seenFile, clock)
  <2>1. PICK i \in DOMAIN l : /\ l[i].key = k /\ clock - l[i].at <= SEEN_HORIZON
                              /\ ~(Covers(s, k, l[i].at) /\ Covers(seenFile, k, l[i].at))
    BY DEF Forgotten
  <2>2. i \in DOMAIN logged /\ l[i] = logged[i]
    BY <1>1, <1>5, <2>1
  <2> QED
    BY <2>1, <2>2 DEF Forgotten
<1>6. NoKey \notin Forgotten(l, s, seenFile, clock)
  BY EventLogAssumption DEF Forgotten
<1> QED
  BY <1>1, <1>2, <1>3, <1>4, <1>5, <1>6

\* What these memories keep of others, except for the keys of K, they do not forget.
LEMMA ForgetsFew ==
    ASSUME NEW records \in Seq(Logged), NEW now \in Nat, NEW K,
           NEW s \in Seq(Remembered), NEW t, NEW disk \in Seq(Remembered), NEW d,
           \A j \in DOMAIN s : s[j].key \notin K /\ now - s[j].at <= SEEN_HORIZON => \E i \in DOMAIN t : t[i] = s[j],
           \A j \in DOMAIN disk : disk[j].key \notin K /\ now - disk[j].at <= SEEN_HORIZON => \E i \in DOMAIN d : d[i] = disk[j]
    PROVE  Forgotten(records, t, d, now) \subseteq Forgotten(records, s, disk, now) \cup K
<1>1. SEEN_HORIZON \in Nat
  BY EventLogAssumption
<1>2. ASSUME NEW i \in DOMAIN records, records[i].key \notin K, now - records[i].at <= SEEN_HORIZON,
             Covers(s, records[i].key, records[i].at)
      PROVE  Covers(t, records[i].key, records[i].at)
  <2>1. PICK j \in DOMAIN s : s[j].key = records[i].key /\ s[j].at >= records[i].at
    BY <1>2 DEF Covers
  <2>2. s[j].at \in Nat /\ records[i].at \in Nat
    <3>1. s[j] \in Remembered /\ records[i] \in Logged
      OBVIOUS
    <3> QED
      BY <3>1 DEF Remembered, Logged
  <2>3. now - s[j].at <= SEEN_HORIZON
    BY <1>1, <1>2, <2>1, <2>2
  <2> QED
    BY <1>2, <2>1, <2>3 DEF Covers
<1>3. ASSUME NEW i \in DOMAIN records, records[i].key \notin K, now - records[i].at <= SEEN_HORIZON,
             Covers(disk, records[i].key, records[i].at)
      PROVE  Covers(d, records[i].key, records[i].at)
  <2>1. PICK j \in DOMAIN disk : disk[j].key = records[i].key /\ disk[j].at >= records[i].at
    BY <1>3 DEF Covers
  <2>2. disk[j].at \in Nat /\ records[i].at \in Nat
    <3>1. disk[j] \in Remembered /\ records[i] \in Logged
      OBVIOUS
    <3> QED
      BY <3>1 DEF Remembered, Logged
  <2>3. now - disk[j].at <= SEEN_HORIZON
    BY <1>1, <1>3, <2>1, <2>2
  <2> QED
    BY <1>3, <2>1, <2>3 DEF Covers
<1> QED
  BY <1>2, <1>3 DEF Forgotten

\* A crash leaves the memory that is on disk.
LEMMA OnDisk == ASSUME NEW records, NEW s, NEW disk, NEW now
                PROVE  /\ Forgotten(records, disk, disk, now) \subseteq Forgotten(records, s, disk, now)
                       /\ Forgotten(records, s, s, now) \subseteq Forgotten(records, s, disk, now)
  BY DEF Forgotten

LEMMA AtMost ==
    ASSUME NEW M, IsFiniteSet(M), NEW N, NEW a, N \subseteq M \cup {a}
    PROVE  /\ IsFiniteSet(N) /\ Cardinality(N) \in Nat /\ Cardinality(M) \in Nat
           /\ Cardinality(N) <= Cardinality(M) + 1
           /\ N \subseteq M => Cardinality(N) <= Cardinality(M)
           /\ a \in M /\ a \notin N => Cardinality(N) <= Cardinality(M) - 1
<1>1. /\ IsFiniteSet(M \cup {a}) /\ Cardinality(M) \in Nat
      /\ Cardinality(M \cup {a}) = IF a \in M THEN Cardinality(M) ELSE Cardinality(M) + 1
  BY FS_AddElement, FS_CardinalityType
<1>2. IsFiniteSet(N) /\ Cardinality(N) <= Cardinality(M \cup {a})
  BY <1>1, FS_Subset
<1>3. Cardinality(N) \in Nat
  BY <1>2, FS_CardinalityType
<1>4. N \subseteq M => Cardinality(N) <= Cardinality(M)
  BY FS_Subset
<1>5. ASSUME a \in M, a \notin N
      PROVE  Cardinality(N) <= Cardinality(M) - 1
  <2>1. IsFiniteSet(M \ {a}) /\ Cardinality(M \ {a}) = Cardinality(M) - 1
    BY <1>5, FS_RemoveElement
  <2>2. N \subseteq M \ {a}
    BY <1>5
  <2> QED
    BY <2>1, <2>2, FS_Subset
<1> QED
  BY <1>1, <1>2, <1>3, <1>4, <1>5

LEMMA RepeatedFinite ==
    ASSUME NEW records \in Seq(Logged)
    PROVE  IsFiniteSet(Repeated(records)) /\ Cardinality(Repeated(records)) \in Nat
<1>1. IsFiniteSet(1 .. Len(records))
  BY FS_Interval
<1>2. Repeated(records) \subseteq 1 .. Len(records)
  BY DEF Repeated
<1> QED
  BY <1>1, <1>2, FS_Subset, FS_CardinalityType

-----------------------------------------------------------------------------
(* The steps. *)

LEMMA LogInvFacts ==
    ASSUME LogInv
    PROVE  /\ Excuses \in Nat /\ clock \in Nat /\ SEEN_HORIZON \in Nat /\ SEEN_MAX \in Nat \ {0}
           /\ IsFiniteSet(Repeated(logged)) /\ Cardinality(Repeated(logged)) \in Nat
           /\ IsFiniteSet(Uncovered) /\ Cardinality(Uncovered) \in Nat
           /\ seen \in Seq(Remembered) /\ seenFile \in Seq(Remembered) /\ logged \in Seq(Logged)
<1>1. /\ logSpent.failures \in Nat /\ logSpent.crashes \in Nat /\ evicted \in Nat /\ clock \in Nat
      /\ seen \in Seq(Remembered) /\ seenFile \in Seq(Remembered) /\ logged \in Seq(Logged)
  BY DEF LogInv, LogTyped
<1>2. Excuses \in Nat
  BY <1>1 DEF Excuses
<1>3. IsFiniteSet(Uncovered) /\ Cardinality(Uncovered) \in Nat
  BY FS_CardinalityType DEF LogInv
<1> QED
  BY <1>1, <1>2, <1>3, RepeatedFinite, EventLogAssumption

\* The key of an event that is being logged is not remembered, so an earlier record of it was forgotten.
LEMMA AgainForgotten ==
    ASSUME LogInv, step = "append", event.key \in Key, NEW j \in DOMAIN logged,
           logged[j].key = event.key, clock - logged[j].at <= SEEN_HORIZON
    PROVE  event.key \in Uncovered
<1>1. /\ clock \in Nat /\ SEEN_HORIZON \in Nat /\ seen \in Seq(Remembered) /\ logged \in Seq(Logged)
      /\ ~Seen(event.key)
  BY LogInvFacts, EventLogAssumption DEF LogInv
<1>2. ~Covers(seen, event.key, logged[j].at)
  <2>1. SUFFICES ASSUME NEW i \in DOMAIN seen, seen[i].key = event.key, seen[i].at >= logged[j].at
                 PROVE  FALSE
    BY DEF Covers
  <2>2. seen[i] \in Remembered /\ logged[j] \in Logged
    BY <1>1
  <2>3. seen[i].at \in Nat /\ logged[j].at \in Nat
    BY <2>2 DEF Remembered, Logged
  <2>4. clock - seen[i].at <= SEEN_HORIZON
    BY <1>1, <2>1, <2>3
  <2> QED
    BY <1>1, <2>1, <2>4 DEF Seen, Live
<1>3. Effective = seen /\ InHand = {}
  BY DEF Effective, InHand
<1> QED
  BY <1>2, <1>3 DEF Uncovered, Forgotten

LEMMA LoggedOneMore ==
    ASSUME LogInv, step = "append", NEW l, l = Append(logged, event), NEW s, s \in {seen, seenFile},
           NEW M, M = Forgotten(l, s, seenFile, clock)
    PROVE  /\ l \in Seq(Logged) /\ \A i \in DOMAIN l : l[i].at <= clock
           /\ \E i \in DOMAIN l : l[i] = event
           /\ \A m : AllLogged(m, logged) => AllLogged(m, l)
           /\ IsFiniteSet(M) /\ IsFiniteSet(M \ {event.key})
           /\ Cardinality(Repeated(l)) + Cardinality(M) <= Excuses + 1
           /\ Cardinality(Repeated(l)) + Cardinality(M \ {event.key}) <= Excuses
<1>1. /\ event \in Logged /\ event.at = clock /\ \A i \in DOMAIN logged : logged[i].at <= clock
  BY DEF LogInv, LogTyped, Past
<1>2. /\ Excuses \in Nat /\ clock \in Nat /\ logged \in Seq(Logged) /\ IsFiniteSet(Uncovered)
      /\ IsFiniteSet(Repeated(logged))
      /\ Cardinality(Repeated(logged)) + Cardinality(Uncovered) <= Excuses
  BY LogInvFacts DEF LogInv
<1>3. /\ l \in Seq(Logged) /\ \A i \in DOMAIN l : l[i].at <= clock
      /\ \A i \in DOMAIN logged : \E j \in DOMAIN l : l[j] = logged[i]
      /\ \E i \in DOMAIN l : l[i] = event
      /\ Repeated(l) \subseteq Repeated(logged) \cup {Len(l)}
      /\ Len(l) \in Repeated(l) => event.key \in Key
           /\ \E j \in DOMAIN logged : logged[j].key = event.key /\ clock - logged[j].at <= SEEN_HORIZON
      /\ Forgotten(l, s, seenFile, clock) \subseteq Forgotten(logged, s, seenFile, clock) \cup {event.key}
  BY <1>1, <1>2, OneLogged DEF LogInv
<1>4. ASSUME NEW m, AllLogged(m, logged)
      PROVE  AllLogged(m, l)
  <2>1. \A i \in DOMAIN logged : \E j \in DOMAIN l : l[j] = logged[i]
    BY <1>3, Zenon
  <2> SUFFICES ASSUME NEW i \in DOMAIN m
               PROVE  \E j \in DOMAIN l : l[j].key = m[i].key /\ l[j].at = m[i].at
    BY Zenon DEF AllLogged
  <2>2. PICK j \in DOMAIN logged : logged[j].key = m[i].key /\ logged[j].at = m[i].at
    BY <1>4, Zenon DEF AllLogged
  <2>3. PICK n \in DOMAIN l : l[n] = logged[j]
    BY <2>1, Zenon
  <2> QED
    BY <2>2, <2>3
<1>5. Uncovered = Forgotten(logged, seen, seenFile, clock)
  BY DEF Uncovered, Effective, InHand
<1>6. M \subseteq Uncovered \cup {event.key}
  BY <1>3, <1>5, OnDisk
<1>7. /\ IsFiniteSet(M) /\ Cardinality(M) \in Nat /\ Cardinality(Uncovered) \in Nat
      /\ Cardinality(M) <= Cardinality(Uncovered) + 1
      /\ M \subseteq Uncovered => Cardinality(M) <= Cardinality(Uncovered)
  BY <1>2, <1>6, AtMost
<1>8. PICK N : N = M \ {event.key}
  OBVIOUS
<1>9. /\ IsFiniteSet(N) /\ Cardinality(N) \in Nat
      /\ Cardinality(N) <= Cardinality(Uncovered)
      /\ event.key \in Uncovered => Cardinality(N) <= Cardinality(Uncovered) - 1
  <2>1. N \subseteq Uncovered /\ event.key \notin N
    BY <1>6, <1>8
  <2> QED
    BY <1>2, <2>1, AtMost
<1>10. /\ Cardinality(Repeated(l)) \in Nat /\ Cardinality(Repeated(logged)) \in Nat
       /\ Cardinality(Repeated(l)) <= Cardinality(Repeated(logged)) + 1
       /\ Repeated(l) \subseteq Repeated(logged) => Cardinality(Repeated(l)) <= Cardinality(Repeated(logged))
  BY <1>2, <1>3, AtMost
<1>11. /\ Cardinality(Repeated(l)) + Cardinality(M) <= Excuses + 1
       /\ Cardinality(Repeated(l)) + Cardinality(N) <= Excuses
  <2>1. CASE Len(l) \in Repeated(l)
    <3>1. event.key \in Uncovered
      BY <1>3, <2>1, AgainForgotten
    <3>2. M \subseteq Uncovered
      BY <1>6, <3>1
    <3>3. Cardinality(M) <= Cardinality(Uncovered) /\ Cardinality(N) <= Cardinality(Uncovered) - 1
      BY <1>7, <1>9, <3>1, <3>2
    <3>4. PICK m, n, u, x, y, e : /\ m = Cardinality(M) /\ n = Cardinality(N) /\ u = Cardinality(Uncovered)
                                  /\ x = Cardinality(Repeated(l)) /\ y = Cardinality(Repeated(logged))
                                  /\ e = Excuses
      OBVIOUS
    <3>5. m \in Nat /\ n \in Nat /\ u \in Nat /\ x \in Nat /\ y \in Nat /\ e \in Nat
      BY <1>2, <1>7, <1>9, <1>10, <3>4
    <3>6. m <= u /\ n <= u - 1 /\ x <= y + 1 /\ y + u <= e
      BY <1>2, <1>10, <3>3, <3>4
    <3>7. x + m <= e + 1 /\ x + n <= e
      BY <3>5, <3>6
    <3> QED
      BY <3>4, <3>7
  <2>2. CASE Len(l) \notin Repeated(l)
    <3>1. Repeated(l) \subseteq Repeated(logged)
      BY <1>3, <2>2
    <3> QED
      BY <1>2, <1>7, <1>9, <1>10, <3>1
  <2> QED
    BY <2>1, <2>2
<1>12. IsFiniteSet(M \ {event.key}) /\ Cardinality(Repeated(l)) + Cardinality(M \ {event.key}) <= Excuses
  BY <1>8, <1>9, <1>11
<1> QED
  BY <1>3, <1>4, <1>7, <1>11, <1>12

\* A step that logs nothing, and forgets nothing or has an excuse for it.
LEMMA OneForgotten ==
    ASSUME LogInv, logged' = logged, NEW a, Excuses' \in Nat,
           \/ Uncovered' \subseteq Uncovered /\ Excuses' >= Excuses
           \/ Uncovered' \subseteq Uncovered \cup {a} /\ Excuses' >= Excuses + 1
    PROVE  /\ IsFiniteSet(Uncovered)'
           /\ (Cardinality(Repeated(logged)) + Cardinality(Uncovered) <= Excuses)'
<1>1. /\ Excuses \in Nat /\ IsFiniteSet(Uncovered) /\ Cardinality(Repeated(logged)) \in Nat
      /\ Cardinality(Repeated(logged)) + Cardinality(Uncovered) <= Excuses
  BY LogInvFacts DEF LogInv
<1>2. PICK M : M = Uncovered'
  OBVIOUS
<1>3. /\ IsFiniteSet(M) /\ Cardinality(M) \in Nat /\ Cardinality(Uncovered) \in Nat
      /\ Cardinality(M) <= Cardinality(Uncovered) + 1
      /\ M \subseteq Uncovered => Cardinality(M) <= Cardinality(Uncovered)
  BY <1>1, <1>2, AtMost
<1>4. Cardinality(Repeated(logged)) + Cardinality(M) <= Excuses'
  BY <1>1, <1>2, <1>3
<1>5. Repeated(logged)' = Repeated(logged)
  BY DEF Repeated
<1> QED
  BY <1>2, <1>3, <1>4, <1>5

LEMMA TwoForgotten ==
    ASSUME LogInv, logged' = logged, NEW a, NEW b, Excuses' \in Nat,
           Uncovered' \subseteq (Uncovered \cup {a}) \cup {b}, Excuses' >= Excuses + 2
    PROVE  (IsFiniteSet(Uncovered) /\ Cardinality(Repeated(logged)) + Cardinality(Uncovered) <= Excuses)'
<1>1. /\ Excuses \in Nat /\ IsFiniteSet(Uncovered) /\ Cardinality(Repeated(logged)) \in Nat
      /\ Cardinality(Repeated(logged)) + Cardinality(Uncovered) <= Excuses
  BY LogInvFacts DEF LogInv
<1>2. PICK M : M = Uncovered'
  OBVIOUS
<1>3. PICK N : N = Uncovered \cup {a}
  OBVIOUS
<1>4. /\ IsFiniteSet(N) /\ Cardinality(N) \in Nat /\ Cardinality(Uncovered) \in Nat
      /\ Cardinality(N) <= Cardinality(Uncovered) + 1
  BY <1>1, <1>3, AtMost
<1>5. IsFiniteSet(M) /\ Cardinality(M) \in Nat /\ Cardinality(M) <= Cardinality(N) + 1
  <2>1. M \subseteq N \cup {b}
    BY <1>2, <1>3
  <2> QED
    BY <1>4, <2>1, AtMost
<1>6. Cardinality(Repeated(logged)) + Cardinality(M) <= Excuses'
  BY <1>1, <1>4, <1>5
<1>7. Repeated(logged)' = Repeated(logged)
  BY DEF Repeated
<1> QED
  BY <1>2, <1>5, <1>6, <1>7

LEMMA NothingLogged ==
    ASSUME LogInv, logged' = logged, Uncovered' \subseteq Uncovered, Excuses' = Excuses
    PROVE  (IsFiniteSet(Uncovered) /\ Cardinality(Repeated(logged)) + Cardinality(Uncovered) <= Excuses)'
<1>1. Excuses \in Nat
  BY LogInvFacts
<1>2. PICK a : a = 0
  OBVIOUS
<1> QED
  BY <1>1, <1>2, OneForgotten

LEMMA EmitKeyKeeps ==
    ASSUME LogInv, NEW k \in Key \cup {NoKey}, EmitKey(k)
    PROVE  LogInv'
<1>1. /\ step = "idle" /\ step' \in {"rotate", "append"} /\ (k = NoKey \/ ~Seen(k))
      /\ event' = [n |-> logSpent.events + 1, key |-> k, at |-> clock]
      /\ logSpent' = [logSpent EXCEPT !.events = @ + 1]
      /\ UNCHANGED <<seen, seenFile, clock, logged, evicted>>
  BY DEF EmitKey, LogSpends
<1>2. /\ logSpent'.failures = logSpent.failures /\ logSpent'.crashes = logSpent.crashes
      /\ logSpent'.events \in Nat
  BY <1>1 DEF LogInv, LogTyped
<1>3. event' \in Logged /\ event'.key = k /\ event'.at = clock
  BY <1>1 DEF LogInv, LogTyped, Logged
<1>4. LogTyped'
  BY <1>1, <1>2, <1>3 DEF LogInv, LogTyped, Steps
<1>5. Uncovered' = Uncovered /\ Excuses' = Excuses
  BY <1>1, <1>2 DEF Uncovered, Effective, InHand, Excuses
<1>6. Seen(k)' = Seen(k)
  BY <1>1 DEF Seen, Live
<1>7. (IsFiniteSet(Uncovered) /\ Cardinality(Repeated(logged)) + Cardinality(Uncovered) <= Excuses)'
  BY <1>1, <1>5, NothingLogged
<1> QED
  BY <1>1, <1>3, <1>4, <1>6, <1>7 DEF LogInv, Past

LEMMA RenameKeeps ==
    ASSUME LogInv, Rename
    PROVE  LogInv'
<1>1. /\ step = "rotate" /\ step' \in {"rotate", "append"}
      /\ UNCHANGED <<seen, seenFile, event, clock, logged, evicted, logSpent>>
  BY DEF Rename
<1>2. LogTyped'
  BY <1>1 DEF LogInv, LogTyped, Steps
<1>3. Uncovered' = Uncovered /\ Excuses' = Excuses
  BY <1>1 DEF Uncovered, Effective, InHand, Excuses
<1>4. Seen(event.key)' = Seen(event.key)
  BY <1>1 DEF Seen, Live
<1>5. (IsFiniteSet(Uncovered) /\ Cardinality(Repeated(logged)) + Cardinality(Uncovered) <= Excuses)'
  BY <1>1, <1>3, NothingLogged
<1> QED
  BY <1>1, <1>2, <1>4, <1>5 DEF LogInv, Past

LEMMA PassesKeeps ==
    ASSUME LogInv, Passes
    PROVE  LogInv'
<1>1. /\ step = "idle" /\ clock' = clock + 1
      /\ UNCHANGED <<seen, seenFile, step, event, logged, evicted, logSpent>>
  BY DEF Passes
<1>2. clock \in Nat /\ SEEN_HORIZON \in Nat /\ logged \in Seq(Logged) /\ \A i \in DOMAIN logged : logged[i].at <= clock
  BY LogInvFacts DEF LogInv, Past
<1>3. LogTyped'
  BY <1>1, <1>2 DEF LogInv, LogTyped
<1>4. \A i \in DOMAIN logged : logged[i].at \in Nat
  <2>1. \A i \in DOMAIN logged : logged[i] \in Logged
    BY <1>2
  <2> QED
    BY <2>1 DEF Logged
<1>5. Past'
  BY <1>1, <1>2, <1>4 DEF Past
<1>6. Uncovered' \subseteq Uncovered /\ Excuses' = Excuses
  <2>1. \A i \in DOMAIN logged : clock + 1 - logged[i].at <= SEEN_HORIZON => clock - logged[i].at <= SEEN_HORIZON
    BY <1>2, <1>4
  <2>2. PICK c : c = clock + 1
    OBVIOUS
  <2>3. ASSUME NEW k \in Forgotten(logged, seen, seenFile, c)
        PROVE  k \in Forgotten(logged, seen, seenFile, clock)
    <3>1. PICK i \in DOMAIN logged : /\ logged[i].key = k /\ c - logged[i].at <= SEEN_HORIZON
                                     /\ ~(Covers(seen, k, logged[i].at) /\ Covers(seenFile, k, logged[i].at))
      BY DEF Forgotten
    <3>2. clock - logged[i].at <= SEEN_HORIZON
      BY <1>2, <1>4, <2>2, <3>1
    <3>3. k \in Key
      BY DEF Forgotten
    <3> QED
      BY <3>1, <3>2, <3>3 DEF Forgotten
  <2>4. Uncovered' = Forgotten(logged, seen, seenFile, c) /\ Uncovered = Forgotten(logged, seen, seenFile, clock)
    BY <1>1, <2>2 DEF Uncovered, Effective, InHand
  <2> QED
    BY <1>1, <2>3, <2>4 DEF Excuses
<1>7. (IsFiniteSet(Uncovered) /\ Cardinality(Repeated(logged)) + Cardinality(Uncovered) <= Excuses)'
  BY <1>1, <1>6, NothingLogged
<1> QED
  BY <1>1, <1>3, <1>5, <1>7 DEF LogInv

LEMMA RestartKeeps ==
    ASSUME LogInv, Restart
    PROVE  LogInv'
<1>1. /\ step = "off" /\ step' = "idle" /\ seen' = seenFile
      /\ UNCHANGED <<seenFile, event, clock, logged, evicted, logSpent>>
  BY DEF Restart
<1>2. LogTyped'
  BY <1>1 DEF LogInv, LogTyped, Steps
<1>3. Uncovered' = Uncovered /\ Excuses' = Excuses
  BY <1>1 DEF Uncovered, Effective, InHand, Excuses
<1>4. (IsFiniteSet(Uncovered) /\ Cardinality(Repeated(logged)) + Cardinality(Uncovered) <= Excuses)'
  BY <1>1, <1>3, NothingLogged
<1> QED
  BY <1>1, <1>2, <1>4 DEF LogInv, Past

LEMMA WriteRecordKeeps ==
    ASSUME LogInv, WriteRecord
    PROVE  LogInv'
<1>1. /\ step = "append" /\ logged' = Append(logged, event)
      /\ step' = (IF event.key = NoKey THEN "idle" ELSE "remember")
      /\ UNCHANGED <<seen, seenFile, event, clock, evicted, logSpent>>
  BY DEF WriteRecord
<1>2. PICK l : l = Append(logged, event)
  OBVIOUS
<1>3. PICK M : M = Forgotten(l, seen, seenFile, clock)
  OBVIOUS
<1>4. /\ l \in Seq(Logged) /\ \A i \in DOMAIN l : l[i].at <= clock
      /\ \E i \in DOMAIN l : l[i] = event
      /\ \A m : AllLogged(m, logged) => AllLogged(m, l)
      /\ IsFiniteSet(M \ {event.key})
      /\ Cardinality(Repeated(l)) + Cardinality(M \ {event.key}) <= Excuses
  BY <1>1, <1>2, <1>3, LoggedOneMore
<1>5. LogTyped'
  BY <1>1, <1>2, <1>4 DEF LogInv, LogTyped, Steps, Logged
<1>6. Uncovered' = M \ {event.key} /\ Excuses' = Excuses
  <2>1. M \subseteq Key
    BY <1>3 DEF Forgotten
  <2>2. M \ {NoKey} = M
    BY <2>1, EventLogAssumption
  <2>3. Forgotten(logged, Effective, seenFile, clock)' = M
    BY <1>1, <1>2, <1>3 DEF Effective
  <2>4. InHand' = IF event.key = NoKey THEN {} ELSE {event.key}
    BY <1>1 DEF InHand
  <2> QED
    BY <1>1, <2>2, <2>3, <2>4 DEF Uncovered, Excuses
<1>7. Past' /\ AllLogged(seen, logged)' /\ AllLogged(seenFile, logged)'
  BY <1>1, <1>2, <1>4 DEF LogInv, Past
<1>8. (IsFiniteSet(Uncovered) /\ Cardinality(Repeated(logged)) + Cardinality(Uncovered) <= Excuses)'
  BY <1>1, <1>2, <1>4, <1>6
<1> QED
  BY <1>1, <1>2, <1>4, <1>5, <1>7, <1>8 DEF LogInv

LEMMA AppendFailsKeeps ==
    ASSUME LogInv, AppendFails
    PROVE  LogInv'
<1>1. /\ step \in {"rotate", "append"} /\ step' = "idle" /\ UNCHANGED <<seen, seenFile, event, clock, evicted>>
      /\ logSpent' = [logSpent EXCEPT !.failures = @ + 1]
      /\ logged' = logged \/ (step = "append" /\ logged' = Append(logged, event))
  <2>1. logged' = logged \/ (step = "append" /\ logged' = Append(logged, event))
    <3>1. CASE step = "append"
      <4>1. Fragment
        BY <3>1 DEF AppendFails
      <4>2. logged' = logged \/ \E whole \in BOOLEAN : logged' = IF whole THEN Append(logged, event) ELSE logged
        BY <4>1, Zenon DEF Fragment
      <4> QED
        BY <3>1, <4>2
    <3>2. CASE step # "append"
      BY <3>2 DEF AppendFails
    <3> QED
      BY <3>1, <3>2
  <2> QED
    BY <2>1 DEF AppendFails, LogSpends
<1>2. /\ logSpent'.failures = logSpent.failures + 1 /\ logSpent'.crashes = logSpent.crashes
      /\ logSpent'.failures \in Nat /\ logSpent'.events = logSpent.events
  BY <1>1 DEF LogInv, LogTyped
<1>3. Excuses' = Excuses + 1 /\ Excuses \in Nat
  <2>1. logSpent.failures \in Nat /\ logSpent.crashes \in Nat /\ evicted \in Nat
    BY DEF LogInv, LogTyped
  <2> QED
    <3>1. evicted' = evicted
      BY <1>1
    <3> QED
      BY <1>2, <2>1, <3>1 DEF Excuses
<1>4. CASE logged' = logged
  <2>1. LogTyped'
    BY <1>1, <1>2, <1>4 DEF LogInv, LogTyped, Steps
  <2>2. Uncovered' = Uncovered
    BY <1>1, <1>4 DEF Uncovered, Effective, InHand
  <2>3. (IsFiniteSet(Uncovered) /\ Cardinality(Repeated(logged)) + Cardinality(Uncovered) <= Excuses)'
    <3>1. PICK a : a = 0
      OBVIOUS
    <3>2. Excuses' \in Nat /\ Excuses' >= Excuses /\ Uncovered' \subseteq Uncovered
      BY <1>3, <2>2
    <3> QED
      BY <1>4, <3>1, <3>2, OneForgotten
  <2> QED
    BY <1>1, <1>4, <2>1, <2>3 DEF LogInv, Past
<1>5. CASE step = "append" /\ logged' = Append(logged, event)
  <2>1. PICK l : l = Append(logged, event)
    OBVIOUS
  <2>2. PICK M : M = Forgotten(l, seen, seenFile, clock)
    OBVIOUS
  <2>3. /\ l \in Seq(Logged) /\ \A i \in DOMAIN l : l[i].at <= clock
        /\ \A m : AllLogged(m, logged) => AllLogged(m, l)
        /\ IsFiniteSet(M)
        /\ Cardinality(Repeated(l)) + Cardinality(M) <= Excuses + 1
    BY <1>5, <2>1, <2>2, LoggedOneMore
  <2>4. LogTyped'
    BY <1>1, <1>2, <1>5, <2>1, <2>3 DEF LogInv, LogTyped, Steps
  <2>5. Uncovered' = M
    BY <1>1, <1>5, <2>1, <2>2 DEF Uncovered, Effective, InHand
  <2>6. Past' /\ AllLogged(seen, logged)' /\ AllLogged(seenFile, logged)'
    BY <1>1, <1>5, <2>1, <2>3 DEF LogInv, Past
  <2>7. (IsFiniteSet(Uncovered) /\ Cardinality(Repeated(logged)) + Cardinality(Uncovered) <= Excuses)'
    BY <1>3, <1>5, <2>1, <2>3, <2>5
  <2> QED
    BY <1>1, <2>4, <2>6, <2>7 DEF LogInv
<1> QED
  BY <1>1, <1>4, <1>5

LEMMA KilledKeeps ==
    ASSUME LogInv, Killed
    PROVE  LogInv'
<1>1. /\ step # "off" /\ step' = "off" /\ seen' = <<>> /\ UNCHANGED <<seenFile, event, clock, evicted>>
      /\ logSpent' = [logSpent EXCEPT !.crashes = @ + 1]
      /\ logged' = logged \/ (step = "append" /\ logged' = Append(logged, event))
  <2>1. logged' = logged \/ (step = "append" /\ logged' = Append(logged, event))
    <3>1. CASE step = "append"
      <4>1. Fragment
        BY <3>1 DEF Killed
      <4>2. logged' = logged \/ \E whole \in BOOLEAN : logged' = IF whole THEN Append(logged, event) ELSE logged
        BY <4>1, Zenon DEF Fragment
      <4> QED
        BY <3>1, <4>2
    <3>2. CASE step # "append"
      BY <3>2 DEF Killed
    <3> QED
      BY <3>1, <3>2
  <2> QED
    BY <2>1 DEF Killed, LogSpends
<1>2. /\ logSpent'.crashes = logSpent.crashes + 1 /\ logSpent'.failures = logSpent.failures
      /\ logSpent'.crashes \in Nat /\ logSpent'.events = logSpent.events
  BY <1>1 DEF LogInv, LogTyped
<1>3. Excuses' = Excuses + 1 /\ Excuses \in Nat
  <2>1. logSpent.failures \in Nat /\ logSpent.crashes \in Nat /\ evicted \in Nat
    BY DEF LogInv, LogTyped
  <2>2. evicted' = evicted
    BY <1>1
  <2>3. PICK a, b, c \in Nat : a = logSpent.failures /\ b = logSpent.crashes /\ c = evicted
    BY <2>1
  <2>4. Excuses = a + b + c
    BY <2>3 DEF Excuses
  <2>5. logSpent'.failures = a /\ logSpent'.crashes = b + 1 /\ evicted' = c
    BY <1>2, <2>2, <2>3
  <2>6. Excuses' = a + (b + 1) + c
    BY <2>5 DEF Excuses
  <2> QED
    BY <2>4, <2>6
<1>4. seen' \in Seq(Remembered) /\ DOMAIN seen' = {}
  BY <1>1
<1>5. AllLogged(seen', logged')
  BY <1>4 DEF AllLogged
<1>6. CASE logged' = logged
  <2>1. LogTyped'
    BY <1>1, <1>2, <1>4, <1>6 DEF LogInv, LogTyped, Steps
  <2>2. Uncovered' \subseteq Uncovered \cup {event.key}
    <3>1. Uncovered' = Forgotten(logged, seenFile, seenFile, clock)
      BY <1>1, <1>6 DEF Uncovered, Effective, InHand
    <3>2. Forgotten(logged, seen, seenFile, clock) \subseteq Uncovered \cup {event.key}
      BY <1>1 DEF Uncovered, Effective, InHand
    <3> QED
      BY <3>1, <3>2, OnDisk
  <2>3. (IsFiniteSet(Uncovered) /\ Cardinality(Repeated(logged)) + Cardinality(Uncovered) <= Excuses)'
    <3>1. PICK a : a = event.key
      OBVIOUS
    <3>2. Excuses' \in Nat /\ Excuses' >= Excuses + 1 /\ Uncovered' \subseteq Uncovered \cup {a}
      BY <1>3, <2>2, <3>1
    <3> QED
      BY <1>6, <3>2, OneForgotten
  <2> QED
    BY <1>1, <1>5, <1>6, <2>1, <2>3 DEF LogInv, Past
<1>7. CASE step = "append" /\ logged' = Append(logged, event)
  <2>1. PICK l : l = Append(logged, event)
    OBVIOUS
  <2>2. PICK M : M = Forgotten(l, seenFile, seenFile, clock)
    OBVIOUS
  <2>3. /\ l \in Seq(Logged) /\ \A i \in DOMAIN l : l[i].at <= clock
        /\ \A m : AllLogged(m, logged) => AllLogged(m, l)
        /\ IsFiniteSet(M)
        /\ Cardinality(Repeated(l)) + Cardinality(M) <= Excuses + 1
    BY <1>7, <2>1, <2>2, LoggedOneMore
  <2>4. LogTyped'
    BY <1>1, <1>2, <1>4, <1>7, <2>1, <2>3 DEF LogInv, LogTyped, Steps
  <2>5. Uncovered' = M
    BY <1>1, <1>7, <2>1, <2>2 DEF Uncovered, Effective, InHand
  <2>6. Past' /\ AllLogged(seenFile, logged)'
    BY <1>1, <1>7, <2>1, <2>3 DEF LogInv, Past
  <2>7. (IsFiniteSet(Uncovered) /\ Cardinality(Repeated(logged)) + Cardinality(Uncovered) <= Excuses)'
    BY <1>3, <1>7, <2>1, <2>3, <2>5
  <2> QED
    BY <1>1, <1>5, <2>4, <2>6, <2>7 DEF LogInv
<1> QED
  BY <1>1, <1>6, <1>7

LEMMA RememberKeeps ==
    ASSUME LogInv, Remember
    PROVE  LogInv'
<1> DEFINE m == [key |-> event.key, at |-> event.at]
<1>1. /\ seen \in Seq(Remembered) /\ seenFile \in Seq(Remembered) /\ logged \in Seq(Logged)
      /\ clock \in Nat /\ SEEN_MAX \in Nat \ {0} /\ SEEN_HORIZON \in Nat
      /\ event.key \in Key /\ event.at = clock /\ step = "remember"
      /\ \A i \in DOMAIN logged : logged[i].at <= clock
      /\ \E i \in DOMAIN logged : logged[i] = event
  <2>1. step = "remember"
    BY DEF Remember
  <2> QED
    BY <2>1, LogInvFacts DEF LogInv, LogTyped, Past
<1>2. m \in Remembered /\ m.key = event.key /\ m.at = clock
  BY <1>1 DEF Remembered
<1> HIDE DEF m
<1>3. PICK keys : keys = Remembering(m)
  OBVIOUS
<1>4. /\ step' = "idle" /\ UNCHANGED <<event, clock, logged>>
      /\ seen' = IF Len(keys) > SEEN_MAX THEN Tail(keys) ELSE keys
      /\ evicted' = IF Len(keys) > SEEN_MAX /\ Live(Head(keys)) THEN evicted + 1 ELSE evicted
      /\ \/ seenFile' = seen' /\ UNCHANGED logSpent
         \/ UNCHANGED seenFile /\ logSpent' = [logSpent EXCEPT !.failures = @ + 1]
  BY <1>3 DEF Remember, LogSpends, m
<1>5. /\ keys \in Seq(Remembered) /\ keys # <<>> /\ Len(keys) \in DOMAIN keys /\ keys[Len(keys)] = m
      /\ \A i \in DOMAIN keys : keys[i] = m \/ \E j \in DOMAIN seen : seen[j] = keys[i]
      /\ \A j \in DOMAIN seen : seen[j].key # event.key => \E i \in DOMAIN keys : keys[i] = seen[j]
  BY <1>1, <1>2, <1>3, RemembersOne
<1>6. /\ Tail(keys) \in Seq(Remembered) /\ Head(keys) \in Remembered
      /\ \A i \in DOMAIN Tail(keys) : \E j \in DOMAIN keys : keys[j] = Tail(keys)[i]
      /\ \A j \in DOMAIN keys : keys[j] = Head(keys) \/ \E i \in DOMAIN Tail(keys) : Tail(keys)[i] = keys[j]
      /\ Len(keys) > 1 => \E i \in DOMAIN Tail(keys) : Tail(keys)[i] = keys[Len(keys)]
  BY <1>5, ForgetsOldest
<1>7. PICK t : t = seen'
  OBVIOUS
<1>8. PICK lost : lost = IF Len(keys) > SEEN_MAX /\ Live(Head(keys)) THEN {Head(keys).key} ELSE {}
  OBVIOUS
\* The new memory has the event's key, what it has is logged, and it forgets what was evicted.
<1>9. /\ t \in Seq(Remembered)
      /\ \E i \in DOMAIN t : t[i] = m
      /\ \A i \in DOMAIN t : t[i] = m \/ \E j \in DOMAIN seen : seen[j] = t[i]
  <2>1. CASE Len(keys) > SEEN_MAX
    <3>1. t = Tail(keys) /\ Len(keys) > 1
      BY <1>1, <1>4, <1>5, <1>7, <2>1
    <3> QED
      BY <1>5, <1>6, <3>1
  <2>2. CASE ~(Len(keys) > SEEN_MAX)
    BY <1>4, <1>5, <1>7, <2>2
  <2> QED
    BY <2>1, <2>2
<1>10. \A j \in DOMAIN seen : seen[j].key \notin {event.key} \cup lost /\ clock - seen[j].at <= SEEN_HORIZON =>
            \E i \in DOMAIN t : t[i] = seen[j]
  <2>1. SUFFICES ASSUME NEW j \in DOMAIN seen, seen[j].key \notin {event.key} \cup lost,
                        clock - seen[j].at <= SEEN_HORIZON
                 PROVE  \E i \in DOMAIN t : t[i] = seen[j]
    OBVIOUS
  <2>2. PICK i \in DOMAIN keys : keys[i] = seen[j]
    BY <1>5, <2>1
  <2>3. CASE ~(Len(keys) > SEEN_MAX)
    BY <1>4, <1>7, <2>2, <2>3
  <2>4. CASE Len(keys) > SEEN_MAX
    <3>1. keys[i] # Head(keys)
      BY <1>8, <2>1, <2>2, <2>4 DEF Live
    <3>2. t = Tail(keys)
      BY <1>4, <1>7, <2>4
    <3> QED
      BY <1>6, <2>2, <3>1, <3>2
  <2> QED
    BY <2>3, <2>4
<1>11. PICK K : K = {event.key} \cup lost
  OBVIOUS
<1>12. \A j \in DOMAIN seen : seen[j].key \notin K /\ clock - seen[j].at <= SEEN_HORIZON => \E i \in DOMAIN t : t[i] = seen[j]
  BY <1>11, <1>10
<1>13. \A at : (\E i \in DOMAIN logged : logged[i].at = at) => Covers(t, event.key, at)
  <2>1. SUFFICES ASSUME NEW i \in DOMAIN logged
                 PROVE  Covers(t, event.key, logged[i].at)
    OBVIOUS
  <2>2. PICK j \in DOMAIN t : t[j] = m
    BY <1>9
  <2>3. logged[i].at \in Nat /\ logged[i].at <= clock
    <3>1. logged[i] \in Logged
      BY <1>1
    <3> QED
      BY <1>1, <3>1 DEF Logged
  <2> QED
    BY <1>1, <1>2, <2>2, <2>3 DEF Covers
<1>14. AllLogged(t, logged)
  <2>1. AllLogged(seen, logged) /\ \E i \in DOMAIN logged : logged[i].key = m.key /\ logged[i].at = m.at
    BY <1>1, <1>2 DEF LogInv
  <2> QED
    BY <1>9, <2>1 DEF AllLogged
<1>15. Uncovered = Forgotten(logged, seen, seenFile, clock) \ {event.key}
  BY <1>1 DEF Uncovered, Effective, InHand
<1>16. Uncovered' = Forgotten(logged, t, seenFile', clock)
  BY <1>4, <1>7 DEF Uncovered, Effective, InHand
\* What was evicted is excused.
<1>17. evicted \in Nat /\ evicted' \in Nat /\ (lost = {} => evicted' = evicted) /\ (lost # {} => evicted' = evicted + 1)
  <2>1. evicted \in Nat
    BY DEF LogInv, LogTyped
  <2>0. evicted' = IF Len(keys) > SEEN_MAX /\ Live(Head(keys)) THEN evicted + 1 ELSE evicted
    BY <1>4, Zenon
  <2>2. CASE Len(keys) > SEEN_MAX /\ Live(Head(keys))
    <3>1. evicted' = evicted + 1 /\ lost = {Head(keys).key}
      BY <1>8, <2>0, <2>2, Zenon
    <3>2. lost # {}
      BY <3>1, Zenon
    <3> QED
      BY <2>1, <3>1, <3>2
  <2>3. CASE ~(Len(keys) > SEEN_MAX /\ Live(Head(keys)))
    <3>1. evicted' = evicted /\ lost = {}
      BY <1>8, <2>0, <2>3, Zenon
    <3> QED
      BY <2>1, <3>1
  <2> QED
    BY <2>2, <2>3
<1>18. PICK a : lost \subseteq {a}
  BY <1>8
<1>19. Excuses \in Nat /\ logSpent.failures \in Nat /\ logSpent.crashes \in Nat
  BY LogInvFacts DEF LogInv, LogTyped
<1>20. CASE seenFile' = seen' /\ UNCHANGED logSpent
  <2>1. Forgotten(logged, t, t, clock) \subseteq Forgotten(logged, seen, seen, clock) \cup K
    BY <1>1, <1>9, <1>12, ForgetsFew
  <2>2. event.key \notin Forgotten(logged, t, t, clock)
    BY <1>13 DEF Forgotten
  <2>3. Uncovered' \subseteq Uncovered \cup lost
    <3>1. Uncovered' = Forgotten(logged, t, t, clock)
      BY <1>7, <1>16, <1>20
    <3> QED
      BY <1>11, <1>15, <2>1, <2>2, <3>1, OnDisk
  <2>4. Excuses' = logSpent.failures + logSpent.crashes + evicted'
    BY <1>20 DEF Excuses
  <2>5. Excuses' \in Nat /\ (lost = {} => Excuses' = Excuses) /\ (lost # {} => Excuses' = Excuses + 1)
    BY <1>17, <1>19, <2>4 DEF Excuses
  <2>6. (IsFiniteSet(Uncovered) /\ Cardinality(Repeated(logged)) + Cardinality(Uncovered) <= Excuses)'
    <3>1. Uncovered' \subseteq Uncovered \/ lost # {}
      BY <2>3
    <3>2. Uncovered' \subseteq Uncovered \cup {a}
      BY <1>18, <2>3
    <3>3. \/ Uncovered' \subseteq Uncovered /\ Excuses' >= Excuses
          \/ Uncovered' \subseteq Uncovered \cup {a} /\ Excuses' >= Excuses + 1
      BY <1>19, <2>5, <3>1, <3>2
    <3> QED
      BY <1>4, <2>5, <3>3, OneForgotten
  <2>7. LogTyped'
    BY <1>4, <1>7, <1>9, <1>17, <1>20 DEF LogInv, LogTyped, Steps
  <2> QED
    BY <1>4, <1>7, <1>14, <1>20, <2>6, <2>7 DEF LogInv, Past
<1>21. CASE UNCHANGED seenFile /\ logSpent' = [logSpent EXCEPT !.failures = @ + 1]
  <2>1. /\ logSpent'.failures = logSpent.failures + 1 /\ logSpent'.crashes = logSpent.crashes
        /\ logSpent'.events = logSpent.events
    BY <1>21 DEF LogInv, LogTyped
  <2>2. Forgotten(logged, t, seenFile, clock) \subseteq
            Forgotten(logged, seen, seenFile, clock) \cup K
    BY <1>1, <1>9, <1>12, ForgetsFew
  <2>3. Uncovered' \subseteq Uncovered \cup K
    BY <1>11, <1>15, <1>16, <1>21, <2>2
  <2>4. PICK f \in Nat : f = logSpent.failures
    BY <1>19
  <2>5. PICK c \in Nat : c = logSpent.crashes
    BY <1>19
  <2>6. Excuses' = ((f + 1) + c) + evicted' /\ Excuses = (f + c) + evicted
    BY <2>1, <2>4, <2>5 DEF Excuses
  <2>7. Excuses' \in Nat /\ (lost = {} => Excuses' = Excuses + 1) /\ (lost # {} => Excuses' = Excuses + 2)
    <3>1. ((f + 1) + c) + evicted = (f + c) + evicted + 1 /\ ((f + 1) + c) + (evicted + 1) = (f + c) + evicted + 2
      BY <1>17
    <3>2. ((f + 1) + c) + evicted' \in Nat
      <4>1. PICK e \in Nat : e = evicted'
        BY <1>17, Zenon
      <4>2. ((f + 1) + c) + e \in Nat
        OBVIOUS
      <4> QED
        BY <4>1, <4>2, Zenon
    <3> QED
      BY <1>17, <2>6, <3>1, <3>2, Zenon
  <2>8. (IsFiniteSet(Uncovered) /\ Cardinality(Repeated(logged)) + Cardinality(Uncovered) <= Excuses)'
    <3>1. PICK k : k = event.key
      OBVIOUS
    <3>2. CASE lost = {}
      <4>1. Uncovered' \subseteq Uncovered \cup {k} /\ Excuses' >= Excuses + 1
        <5>1. K = {k}
          BY <1>11, <3>1, <3>2
        <5>2. Uncovered' \subseteq Uncovered \cup {k}
          BY <2>3, <5>1, Zenon
        <5>3. Excuses' = Excuses + 1
          BY <2>7, <3>2, Zenon
        <5>4. PICK x \in Nat : x = Excuses
          BY <1>19, Zenon
        <5>5. Excuses' >= Excuses + 1
          BY <5>3, <5>4
        <5> QED
          BY <5>2, <5>5, Zenon
      <4> QED
        BY <1>4, <2>7, <4>1, OneForgotten
    <3>3. CASE lost # {}
      <4>1. Uncovered' \subseteq (Uncovered \cup {k}) \cup {a} /\ Excuses' >= Excuses + 2
        <5>1. K \subseteq {k} \cup {a}
          BY <1>11, <1>18, <3>1
        <5>2. Uncovered' \subseteq (Uncovered \cup {k}) \cup {a}
          BY <2>3, <5>1
        <5>3. Excuses' = Excuses + 2
          BY <2>7, <3>3, Zenon
        <5>4. PICK x \in Nat : x = Excuses
          BY <1>19, Zenon
        <5>5. Excuses' >= Excuses + 2
          BY <5>3, <5>4
        <5> QED
          BY <5>2, <5>5, Zenon
      <4> QED
        BY <1>4, <2>7, <4>1, TwoForgotten
    <3> QED
      BY <3>2, <3>3
  <2>9. LogTyped'
    <3>1. logSpent'.failures \in Nat /\ logSpent'.crashes \in Nat /\ logSpent'.events \in Nat
      BY <1>19, <2>1 DEF LogInv, LogTyped
    <3>2. seen' \in Seq(Remembered) /\ seenFile' \in Seq(Remembered)
      BY <1>7, <1>9, <1>21 DEF LogInv, LogTyped
    <3>3. step' = "idle" /\ UNCHANGED <<event, clock, logged>>
      BY <1>4
    <3>4. evicted' \in Nat
      BY <1>17
    <3> QED
      BY <3>1, <3>2, <3>3, <3>4 DEF LogInv, LogTyped, Steps
  <2> QED
    BY <1>4, <1>7, <1>14, <1>21, <2>8, <2>9 DEF LogInv, Past
<1> QED
  BY <1>4, <1>20, <1>21

LEMMA LogStep ==
    ASSUME LogInv, [LogNext]_logVars
    PROVE  LogInv'
<1>1. CASE UNCHANGED logVars
  <2>1. Uncovered' = Uncovered /\ Excuses' = Excuses
    BY <1>1 DEF logVars, Uncovered, Effective, InHand, Excuses
  <2>2. (IsFiniteSet(Uncovered) /\ Cardinality(Repeated(logged)) + Cardinality(Uncovered) <= Excuses)'
    BY <1>1, <2>1, NothingLogged DEF logVars
  <2>3. LogTyped'
    BY <1>1 DEF LogInv, LogTyped, logVars
  <2> QED
    BY <1>1, <2>2, <2>3 DEF LogInv, Past, Seen, Live, logVars
<1> QED
  BY <1>1, EmitKeyKeeps, RenameKeeps, WriteRecordKeeps, AppendFailsKeeps, RememberKeeps, KilledKeeps, RestartKeeps,
     PassesKeeps DEF LogNext

LEMMA LogStarts ==
    ASSUME LogInit
    PROVE  LogInv
<1>1. /\ seen = <<>> /\ seenFile = <<>> /\ step = "idle" /\ clock = 0 /\ logged = <<>> /\ evicted = 0
      /\ logSpent = [events |-> 0, failures |-> 0, crashes |-> 0]
  BY DEF LogInit
<1>2. LogTyped
  BY <1>1 DEF LogTyped, Steps
<1>3. DOMAIN logged = {} /\ DOMAIN seen = {} /\ DOMAIN seenFile = {}
  BY <1>1
<1>4. Repeated(logged) = {} /\ Uncovered = {}
  BY <1>3 DEF Repeated, Uncovered, Forgotten
<1>5. Excuses = 0
  BY <1>1 DEF Excuses
<1>6. IsFiniteSet(Uncovered) /\ Cardinality(Repeated(logged)) + Cardinality(Uncovered) <= Excuses
  BY <1>4, <1>5, FS_EmptySet
<1> QED
  BY <1>1, <1>2, <1>3, <1>6 DEF LogInv, Past, AllLogged

LEMMA LogShows ==
    ASSUME LogInv
    PROVE  Deduped
<1>1. RememberedIsLogged
  BY DEF LogInv, AllLogged, RememberedIsLogged, Range
<1>2. RepeatsExplained
  <2>1. Cardinality(Repeated(logged)) <= Excuses
    <3>1. /\ Cardinality(Repeated(logged)) \in Nat /\ Cardinality(Uncovered) \in Nat /\ Excuses \in Nat
          /\ Cardinality(Repeated(logged)) + Cardinality(Uncovered) <= Excuses
      BY LogInvFacts DEF LogInv
    <3> QED
      BY <3>1
  <2> QED
    BY <2>1, Zenon DEF RepeatsExplained, Repeated, Excuses
<1> QED
  BY <1>1, <1>2 DEF Deduped

\* Deduped: a key suppresses an event only if a record with it was logged, and for any keys, horizon and
\* room in the memory, each repetition within the horizon has a crash, a failed write or a key forgotten
\* for want of room of its own.
THEOREM RepeatsHaveReasons == LogSpec => []Deduped
<1>1. LogInv /\ [LogNext]_logVars => LogInv'
  BY LogStep
<1> QED
  BY <1>1, LogStarts, LogShows, PTL DEF LogSpec

-----------------------------------------------------------------------------
(* What can be read of the log.  FlattenSeq is a recursive function: what  *)
(* it yields is shown by induction on a set of positions.                  *)

LEMMA Induction ==
    ASSUME NEW n \in Nat, NEW S, 0 \in S, \A k \in 0 .. n - 1 : k \in S => k + 1 \in S
    PROVE  0 .. n \subseteq S
<1> SUFFICES ASSUME ~(0 .. n \subseteq S) PROVE FALSE
  OBVIOUS
<1> DEFINE R == OpToRel(<, Nat)
           Out == (0 .. n) \ S
<1>1. Out \subseteq Nat /\ Out # {}
  OBVIOUS
<1>2. IsWellFoundedOn(R, Nat)
  BY NatLessThanWellFounded
<1>3. PICK x \in Out : \A y \in Out : ~(<<y, x>> \in R)
  <2> HIDE DEF R, Out
  <2> QED BY <1>1, <1>2, WFMin
<1>4. \A y \in Out : ~(y < x)
  BY <1>1, <1>3 DEF OpToRel
<1>5. x \in 0 .. n /\ x \notin S
  BY <1>3
<1>6. x - 1 \in 0 .. n - 1
  BY <1>5
<1>7. x - 1 \in S
  BY <1>4, <1>6
<1> QED BY <1>5, <1>6, <1>7

\* r has what the first elements of s make in one sequence.
Flattens(s, r) == \A i \in 1 .. Len(s) : r[i] = IF i = 1 THEN s[1] ELSE r[i - 1] \o s[i]

LEMMA FlattenExists ==
    ASSUME NEW n \in Nat, NEW s, Len(s) = n
    PROVE  \E r : r = [i \in 1 .. n |-> IF i = 1 THEN s[i] ELSE r[i - 1] \o s[i]]
<1> DEFINE G(k, r) == r = [i \in 1 .. k |-> IF i = 1 THEN s[i] ELSE r[i - 1] \o s[i]]
           S == {k \in 0 .. n : \E r : G(k, r)}
<1>1. 0 \in S
  <2>1. PICK r : r = [i \in 1 .. 0 |-> s[i]]
    OBVIOUS
  <2>2. r = [i \in 1 .. 0 |-> IF i = 1 THEN s[i] ELSE r[i - 1] \o s[i]]
    BY <2>1
  <2>3. G(0, r)
    BY <2>2
  <2>4. 0 \in 0 .. n
    OBVIOUS
  <2> QED
    BY <2>3, <2>4
<1>2. ASSUME NEW k \in 0 .. n - 1, k \in S PROVE k + 1 \in S
  <2>1. PICK r : G(k, r)
    BY <1>2
  <2>2. PICK g : g = [i \in 1 .. k + 1 |-> IF i = k + 1 THEN (IF k = 0 THEN s[1] ELSE r[k] \o s[k + 1]) ELSE r[i]]
    OBVIOUS
  <2>3. ASSUME NEW i \in 1 .. k + 1 PROVE g[i] = IF i = 1 THEN s[i] ELSE g[i - 1] \o s[i]
    <3>1. CASE i = k + 1
      <4>1. g[i] = IF k = 0 THEN s[1] ELSE r[k] \o s[k + 1]
        BY <2>2, <3>1
      <4>2. k # 0 => g[i - 1] = r[k]
        BY <2>2, <3>1
      <4> QED
        BY <3>1, <4>1, <4>2
    <3>2. CASE i # k + 1
      <4>1. i \in 1 .. k /\ g[i] = r[i]
        BY <2>2, <3>2
      <4>2. r[i] = IF i = 1 THEN s[i] ELSE r[i - 1] \o s[i]
        BY <2>1, <4>1
      <4>3. i # 1 => g[i - 1] = r[i - 1]
        BY <2>2, <3>2
      <4> QED
        BY <4>1, <4>2, <4>3
    <3> QED
      BY <3>1, <3>2
  <2>4. G(k + 1, g)
    <3>1. g = [i \in 1 .. k + 1 |-> g[i]]
      BY <2>2
    <3> QED
      BY <2>3, <3>1, Zenon
  <2>5. k + 1 \in 0 .. n
    OBVIOUS
  <2> QED
    BY <2>4, <2>5, Zenon
<1> HIDE DEF S
<1>3. 0 .. n \subseteq S
  BY <1>1, <1>2, Induction
<1>4. n \in S
  BY <1>3
<1> USE DEF S
<1> QED
  BY <1>4

LEMMA FlattenIs ==
    ASSUME NEW n \in Nat \ {0}, NEW s, Len(s) = n
    PROVE  \E r : Flattens(s, r) /\ FlattenSeq(s) = r[n]
<1> DEFINE G(r) == r = [i \in 1 .. n |-> IF i = 1 THEN s[i] ELSE r[i - 1] \o s[i]]
<1>1. PICK f : f = CHOOSE r : G(r)
  OBVIOUS
<1>2. G(f)
  <2>1. \E r : G(r)
    BY FlattenExists
  <2> QED
    BY <1>1, <2>1
<1>3. FlattenSeq(s) = f[n]
  <2>1. n # 0
    OBVIOUS
  <2>2. FlattenSeq(s) = IF Len(s) = 0 THEN s
                        ELSE (CHOOSE r : r = [i \in 1 .. Len(s) |-> IF i = 1 THEN s[i] ELSE r[i - 1] \o s[i]])[Len(s)]
    BY Zenon DEF FlattenSeq
  <2>3. FlattenSeq(s) = (CHOOSE r : r = [i \in 1 .. n |-> IF i = 1 THEN s[i] ELSE r[i - 1] \o s[i]])[n]
    BY <2>1, <2>2, Zenon
  <2> QED
    BY <1>1, <2>3, Zenon
<1>4. Flattens(s, f)
  BY <1>2 DEF Flattens
<1> QED
  BY <1>3, <1>4, Zenon

\* As far as two sequences agree, so does what they make.
Agree(s, t, n) ==
    /\ Len(s) \in Nat /\ Len(t) \in Nat /\ Len(s) >= n /\ Len(t) >= n
    /\ \A i \in 1 .. n : s[i] = t[i]

SameAt(n, r, q) == r[n] = q[n]

LEMMA FlattenAgrees ==
    ASSUME NEW s, NEW t, NEW r, NEW q, NEW n \in Nat \ {0}, Agree(s, t, n),
           Flattens(s, r), Flattens(t, q)
    PROVE  SameAt(n, r, q)
<1> DEFINE S == {k \in 0 .. n : k # 0 => r[k] = q[k]}
<1>1. 0 \in S
  OBVIOUS
<1>2. ASSUME NEW k \in 0 .. n - 1, k \in S PROVE k + 1 \in S
  <2>1. k + 1 \in 1 .. n /\ k + 1 \in 1 .. Len(s) /\ k + 1 \in 1 .. Len(t) /\ k + 1 \in 0 .. n /\ (k + 1) - 1 = k
        /\ (k + 1 = 1 <=> k = 0)
    BY DEF Agree
  <2>2. r[k + 1] = IF k = 0 THEN s[1] ELSE r[k] \o s[k + 1]
    BY <2>1 DEF Flattens
  <2>3. q[k + 1] = IF k = 0 THEN t[1] ELSE q[k] \o t[k + 1]
    BY <2>1 DEF Flattens
  <2>4. s[k + 1] = t[k + 1]
    BY <2>1 DEF Agree
  <2>5. r[k + 1] = q[k + 1]
    BY <1>2, <2>2, <2>3, <2>4
  <2> QED
    BY <2>1, <2>5
<1> HIDE DEF S
<1>3. 0 .. n \subseteq S
  BY <1>1, <1>2, Induction
<1>4. n \in S
  BY <1>3
<1> QED
  BY <1>4 DEF S, SameAt

LEMMA NoneThere ==
    ASSUME NEW B, NEW s \in Seq(B), Len(s) = 0
    PROVE  s = <<>>
OBVIOUS

LEMMA FlattenTyped ==
    ASSUME NEW A, NEW s \in Seq(Seq(A))
    PROVE  FlattenSeq(s) \in Seq(A)
<1>1. PICK n \in Nat : n = Len(s)
  OBVIOUS
<1>2. CASE n = 0
  <2>0. <<>> \in Seq(A)
    OBVIOUS
  <2>1. s = <<>>
    BY <1>1, <1>2, NoneThere, Zenon
  <2>2. FlattenSeq(s) = s
    BY <1>1, <1>2 DEF FlattenSeq
  <2> QED
    BY <2>0, <2>1, <2>2, Zenon
<1>3. CASE n # 0
  <2>1. PICK r : Flattens(s, r) /\ FlattenSeq(s) = r[n]
    BY <1>1, <1>3, FlattenIs
  <2> DEFINE S == {k \in 0 .. n : k # 0 => r[k] \in Seq(A)}
  <2>2. 0 \in S
    OBVIOUS
  <2>3. ASSUME NEW k \in 0 .. n - 1, k \in S PROVE k + 1 \in S
    <3>1. k + 1 \in 1 .. n /\ k + 1 \in 0 .. n /\ (k + 1) - 1 = k /\ (k + 1 = 1 <=> k = 0)
      OBVIOUS
    <3>2. r[k + 1] = IF k = 0 THEN s[1] ELSE r[k] \o s[k + 1]
      BY <1>1, <2>1, <3>1 DEF Flattens
    <3>3. s[k + 1] \in Seq(A)
      BY <1>1, <3>1
    <3>4. \A x, y \in Seq(A) : x \o y \in Seq(A)
      OBVIOUS
    <3>5. k # 0 => r[k] \in Seq(A)
      BY <2>3
    <3>6. r[k + 1] \in Seq(A)
      <4>1. k = 0 => r[k + 1] = s[k + 1]
        BY <3>2
      <4>2. k # 0 => r[k + 1] = r[k] \o s[k + 1]
        BY <3>2
      <4> QED
        BY <3>3, <3>4, <3>5, <4>1, <4>2, Zenon
    <3> QED
      BY <3>1, <3>6
  <2> HIDE DEF S
  <2>4. 0 .. n \subseteq S
    BY <2>2, <2>3, Induction
  <2>5. n \in 0 .. n
    OBVIOUS
  <2>6. n \in S
    BY <2>4, <2>5
  <2> QED
    BY <1>3, <2>1, <2>6 DEF S
<1> QED
  BY <1>2, <1>3

\* One more sequence at the end.
LEMMA FlattenMore ==
    ASSUME NEW A, NEW s \in Seq(Seq(A)), NEW e \in Seq(A)
    PROVE  FlattenSeq(Append(s, e)) = FlattenSeq(s) \o e
<1>1. PICK n \in Nat : n = Len(s)
  OBVIOUS
<1>2. PICK t : t = Append(s, e)
  OBVIOUS
<1>3. Len(t) = n + 1 /\ t[n + 1] = e /\ \A i \in 1 .. n : t[i] = s[i]
  BY <1>1, <1>2
<1>4. PICK q : Flattens(t, q) /\ FlattenSeq(t) = q[n + 1]
  <2>1. n + 1 \in Nat \ {0}
    OBVIOUS
  <2> QED
    BY <1>3, <2>1, FlattenIs
<1>5. CASE n = 0
  <2>1. s = <<>>
    BY <1>1, <1>5, NoneThere, Zenon
  <2>2. FlattenSeq(s) = <<>>
    BY <1>1, <1>5, <2>1 DEF FlattenSeq
  <2>3. q[1] = t[1]
    BY <1>3, <1>4, <1>5 DEF Flattens
  <2>4. q[n + 1] = e
    BY <1>3, <1>5, <2>3
  <2> QED
    BY <1>2, <1>4, <2>2, <2>4
<1>6. CASE n # 0
  <2>1. PICK r : Flattens(s, r) /\ FlattenSeq(s) = r[n]
    BY <1>1, <1>6, FlattenIs
  <2>2. r[n] = q[n]
    <3>1. Len(t) >= n /\ Len(s) >= n /\ Len(t) \in Nat /\ Len(s) \in Nat /\ n \in 1 .. n
      BY <1>1, <1>3, <1>6
    <3>2. Agree(s, t, n)
      BY <1>3, <3>1 DEF Agree
    <3>3. n \in Nat \ {0}
      BY <1>6
    <3>4. Flattens(s, r) /\ Flattens(t, q)
      BY <1>4, <2>1
    <3>5. SameAt(n, r, q)
      BY <3>2, <3>3, <3>4, FlattenAgrees, Zenon
    <3> QED
      BY <3>5 DEF SameAt
  <2>3. q[n + 1] = q[n] \o e
    <3>1. n + 1 \in 1 .. n + 1 /\ n + 1 # 1 /\ (n + 1) - 1 = n
      BY <1>6
    <3>2. q[n + 1] = q[n] \o t[n + 1]
      BY <1>3, <1>4, <3>1 DEF Flattens
    <3> QED
      BY <1>3, <3>2
  <2> QED
    BY <1>2, <1>4, <2>1, <2>2, <2>3, Zenon
<1> QED
  BY <1>5, <1>6

LEMMA FlattenNothing == FlattenSeq(<<>>) = <<>>
BY DEF FlattenSeq

LEMMA Empties ==
    /\ \A A : <<>> \in Seq(A)
    /\ Len(<<>>) = 0
OBVIOUS

Part == [n : Nat, whole : BOOLEAN]
LogFile == [lines : Seq(Seq(Part)), open : BOOLEAN]
ReadOf(line) == IF Len(line) = 1 /\ line[1].whole THEN <<line[1].n>> ELSE <<>>
ReadsOf(lines) == [l \in DOMAIN lines |-> ReadOf(lines[l])]
Sound(f) ==
    /\ f \in LogFile /\ Records(f) \in Seq(Nat)
    /\ Size(f) = Len(f.lines) /\ Len(Records(f)) <= Len(f.lines)
    /\ f.open => f.lines # <<>>

\* All that can be read of the files f, and the numbers of the records.
ReadFrom(f) == (Records(f[2]) \o Records(f[1])) \o Records(f[0])
NumbersOf(records) == [i \in DOMAIN records |-> records[i].n]
EndsIn(whole, part) == \E p \in Seq(Nat) : whole = p \o part
Long(f) == Len(f.lines) >= ROTATE_SIZE
Faults == logSpent.failures + logSpent.crashes

\* What the files f have kept of the records, when that many faults left a line unread.
Kept(f, records, faults) ==
    /\ f \in [0 .. 2 -> LogFile] /\ \A i \in 0 .. 2 : Sound(f[i])
    /\ EndsIn(NumbersOf(records), ReadFrom(f))
    /\ Len(ReadFrom(f)) + faults >= Len(f[0].lines) + Len(f[1].lines) + Len(f[2].lines)
    /\ f[1].lines = <<>> \/ Long(f[1])
    /\ Len(ReadFrom(f)) < Len(records) => Long(f[2]) /\ (Long(f[1]) \/ Long(f[0]))

ReadableInv ==
    /\ Kept(file, logged, Faults)
    /\ step = "rotate" =>
        Long(file[0]) /\ renaming \in {1, 2} /\ (renaming = 1 => file[1].lines = <<>>)

LEMMA RecordsAre == \A f : Records(f) = FlattenSeq(ReadsOf(f.lines))
BY DEF Records, ReadsOf, ReadOf

LEMMA ReadTyped ==
    ASSUME NEW line \in Seq(Part)
    PROVE  ReadOf(line) \in Seq(Nat) /\ Len(ReadOf(line)) <= 1 /\ Len(ReadOf(line)) \in Nat
<1>1. CASE Len(line) = 1 /\ line[1].whole
  <2>1. line[1] \in Part
    BY <1>1
  <2>3. line[1].n \in Nat
    BY <2>1 DEF Part
  <2>2. <<line[1].n>> \in Seq(Nat) /\ Len(<<line[1].n>>) = 1
    BY <2>3
  <2> QED
    BY <1>1, <2>2 DEF ReadOf
<1>2. CASE ~(Len(line) = 1 /\ line[1].whole)
  BY <1>2, Empties DEF ReadOf
<1> QED
  BY <1>1, <1>2

LEMMA ReadsTyped ==
    ASSUME NEW lines \in Seq(Seq(Part))
    PROVE  ReadsOf(lines) \in Seq(Seq(Nat))
<1>1. PICK n \in Nat : n = Len(lines)
  OBVIOUS
<1>2. DOMAIN lines = 1 .. n
  BY <1>1
<1>3. ASSUME NEW l \in 1 .. n PROVE ReadOf(lines[l]) \in Seq(Nat)
  BY <1>1, ReadTyped
<1>4. [l \in 1 .. n |-> ReadOf(lines[l])] \in [1 .. n -> Seq(Nat)]
  BY <1>3, Zenon
<1>5. [l \in 1 .. n |-> ReadOf(lines[l])] \in Seq(Seq(Nat))
  <2>1. \A B : \A g \in [1 .. n -> B] : g \in Seq(B)
    OBVIOUS
  <2> QED
    BY <1>4, <2>1, Zenon
<1> QED
  BY <1>2, <1>5, Zenon DEF ReadsOf

LEMMA OneMore ==
    ASSUME NEW B, NEW s \in Seq(B), NEW a, NEW n \in Nat, Len(s) = n
    PROVE  Append(s, a) = [l \in 1 .. n + 1 |-> IF l <= n THEN s[l] ELSE a]
<1>1. PICK C : C = B \cup {a}
  OBVIOUS
<1>2. s \in Seq(C) /\ a \in C
  BY <1>1
<1>3. PICK t \in Seq(C) : t = Append(s, a)
  <2>1. Append(s, a) \in Seq(C)
    BY <1>2
  <2> QED
    BY <2>1, Zenon
<1>4. Len(t) = n + 1 /\ t[n + 1] = a /\ \A l \in 1 .. n : t[l] = s[l]
  BY <1>2, <1>3
<1>5. t = [l \in 1 .. n + 1 |-> t[l]]
  <2>1. \A A : \A x \in Seq(A) : x = [l \in 1 .. Len(x) |-> x[l]]
    OBVIOUS
  <2> QED
    BY <1>3, <1>4, <2>1, Zenon
<1>6. \A l \in 1 .. n + 1 : t[l] = IF l <= n THEN s[l] ELSE a
  BY <1>4
<1>7. t = [l \in 1 .. n + 1 |-> IF l <= n THEN s[l] ELSE a]
  BY <1>5, <1>6, Zenon
<1> QED
  BY <1>3, <1>7, Zenon

LEMMA ReadsMore ==
    ASSUME NEW lines \in Seq(Seq(Part)), NEW line \in Seq(Part)
    PROVE  ReadsOf(Append(lines, line)) = Append(ReadsOf(lines), ReadOf(line))
<1>1. PICK n \in Nat : n = Len(lines)
  OBVIOUS
<1>2. PICK t : t = Append(lines, line)
  OBVIOUS
<1>3. DOMAIN t = 1 .. n + 1 /\ t[n + 1] = line /\ \A i \in 1 .. n : t[i] = lines[i]
  BY <1>1, <1>2
<1>4. PICK r \in Seq(Seq(Nat)) : r = ReadsOf(lines)
  BY ReadsTyped
<1>5. Len(r) = n /\ \A i \in 1 .. n : r[i] = ReadOf(lines[i])
  BY <1>1, <1>4 DEF ReadsOf
<1>6. PICK q : q = ReadsOf(t)
  OBVIOUS
<1>7. q = [l \in 1 .. n + 1 |-> ReadOf(t[l])]
  BY <1>3, <1>6, Zenon DEF ReadsOf
<1>8. PICK a : a = ReadOf(line)
  OBVIOUS
<1>9. Append(r, a) = [l \in 1 .. n + 1 |-> IF l <= n THEN r[l] ELSE a]
  <2>1. r \in Seq(Seq(Nat)) /\ Len(r) = n
    BY <1>4, <1>5
  <2> QED
    BY <2>1, OneMore
<1>10. ASSUME NEW l \in 1 .. n + 1 PROVE ReadOf(t[l]) = IF l <= n THEN r[l] ELSE a
  <2>1. CASE l <= n
    <3>1. l \in 1 .. n
      BY <2>1
    <3>2. ReadOf(t[l]) = r[l]
      BY <1>3, <1>5, <3>1, Zenon
    <3> QED
      BY <2>1, <3>2
  <2>2. CASE ~ l <= n
    <3>1. l = n + 1
      BY <2>2
    <3>2. ReadOf(t[l]) = a
      BY <1>3, <1>8, <3>1, Zenon
    <3> QED
      BY <2>2, <3>2
  <2> QED
    BY <2>1, <2>2
<1>11. q = Append(r, a)
  BY <1>7, <1>9, <1>10, Zenon
<1> QED
  BY <1>2, <1>4, <1>6, <1>8, <1>11, Zenon

\* One more line.
LEMMA LineAdded ==
    ASSUME NEW f, Sound(f), NEW p \in Part, NEW newline \in BOOLEAN, NEW g, g = WriteLine(f, p, newline)
    PROVE  /\ Sound(g) /\ Len(g.lines) = Len(f.lines) + 1
           /\ Records(g) = Records(f) \o (IF p.whole THEN <<p.n>> ELSE <<>>)
<1>1. g = [lines |-> Append(f.lines, <<p>>), open |-> ~newline]
  BY DEF WriteLine
<1>2. g.lines = Append(f.lines, <<p>>) /\ g.open \in BOOLEAN
  BY <1>1
<1>3. f.lines \in Seq(Seq(Part)) /\ <<p>> \in Seq(Part)
  BY DEF Sound, LogFile
<1>4. PICK lines \in Seq(Seq(Part)) : lines = f.lines
  BY <1>3, Zenon
<1>5. PICK line \in Seq(Part) : line = <<p>> /\ Len(line) = 1 /\ line[1] = p
  <2>1. Len(<<p>>) = 1 /\ <<p>>[1] = p
    OBVIOUS
  <2> QED
    BY <1>3, <2>1, Zenon
<1>6. Append(lines, line) \in Seq(Seq(Part)) /\ Len(Append(lines, line)) = Len(lines) + 1 /\ Append(lines, line) # <<>>
  <2>1. \A B : \A x \in Seq(B), y \in B : Append(x, y) \in Seq(B) /\ Len(Append(x, y)) = Len(x) + 1 /\ Append(x, y) # <<>>
    OBVIOUS
  <2> QED
    BY <2>1, Zenon
<1>7. ReadsOf(lines) \in Seq(Seq(Nat)) /\ ReadOf(line) \in Seq(Nat)
  BY ReadsTyped, ReadTyped
<1>8. Records(g) = Records(f) \o ReadOf(line)
  <2>1. FlattenSeq(Append(ReadsOf(lines), ReadOf(line))) = FlattenSeq(ReadsOf(lines)) \o ReadOf(line)
    BY <1>7, FlattenMore, Zenon
  <2>2. ReadsOf(Append(lines, line)) = Append(ReadsOf(lines), ReadOf(line))
    BY ReadsMore, Zenon
  <2> QED
    BY <1>2, <1>4, <1>5, <2>1, <2>2, RecordsAre, Zenon
<1>9. ReadOf(line) = IF p.whole THEN <<p.n>> ELSE <<>>
  BY <1>5 DEF ReadOf
<1>10. Size(g) = Size(f) + 1
  <2>1. FlattenSeq(Append(lines, line)) = FlattenSeq(lines) \o line
    BY FlattenMore, Zenon
  <2>2. FlattenSeq(lines) \in Seq(Part)
    BY FlattenTyped, Zenon
  <2>3. PICK u \in Seq(Part) : u = FlattenSeq(lines)
    BY <2>2, Zenon
  <2>4. Len(u \o line) = Len(u) + 1
    BY <1>5
  <2>5. Size(g) = Len(u \o line) /\ Size(f) = Len(u)
    BY <1>2, <1>4, <1>5, <2>1, <2>3, Zenon DEF Size
  <2> QED
    BY <2>4, <2>5
<1>11. Records(g) \in Seq(Nat) /\ Len(Records(g)) <= Len(Records(f)) + 1
  <2>1. PICK u \in Seq(Nat) : u = Records(f)
    BY DEF Sound
  <2>2. PICK v \in Seq(Nat) : v = ReadOf(line) /\ Len(v) <= 1
    BY ReadTyped, Zenon
  <2>3. u \o v \in Seq(Nat) /\ Len(u \o v) <= Len(u) + 1
    BY <2>2
  <2> QED
    BY <1>8, <2>1, <2>2, <2>3
<1>12. Len(g.lines) = Len(f.lines) + 1 /\ g.lines # <<>>
  BY <1>2, <1>4, <1>5, <1>6, Zenon
<1>13. g \in LogFile
  <2>1. g.lines \in Seq(Seq(Part))
    BY <1>2, <1>4, <1>5, <1>6, Zenon
  <2> QED
    BY <1>1, <1>2, <2>1 DEF LogFile
<1>14. Len(f.lines) \in Nat /\ Len(Records(f)) \in Nat /\ Len(Records(g)) \in Nat
  BY <1>4, <1>11 DEF Sound
<1>15. Size(g) = Len(g.lines) /\ Len(Records(g)) <= Len(g.lines)
  BY <1>10, <1>11, <1>12, <1>14 DEF Sound
<1> QED
  BY <1>8, <1>9, <1>11, <1>12, <1>13, <1>15 DEF Sound

LEMMA EmptyIsSound == Sound(EmptyFile) /\ Records(EmptyFile) = <<>> /\ EmptyFile.lines = <<>>
<1>1. EmptyFile.lines = <<>> /\ EmptyFile.open = FALSE
  BY DEF EmptyFile
<1>2. ReadsOf(<<>>) = <<>>
  BY DEF ReadsOf
<1>3. Records(EmptyFile) = <<>>
  BY <1>1, <1>2, RecordsAre, FlattenNothing, Zenon
<1>4. Size(EmptyFile) = 0
  BY <1>1, FlattenNothing, Empties DEF Size
<1>5. EmptyFile \in LogFile
  BY <1>1, Empties DEF EmptyFile, LogFile
<1> QED
  BY <1>1, <1>3, <1>4, <1>5, Empties DEF Sound

\* A file is there if it has lines.
LEMMA EmptyIf ==
    ASSUME NEW f, Sound(f)
    PROVE  f = EmptyFile <=> f.lines = <<>>
BY DEF Sound, LogFile, EmptyFile

LEMMA Joined ==
    ASSUME NEW a \in Seq(Nat), NEW b \in Seq(Nat)
    PROVE  a \o b \in Seq(Nat) /\ Len(a \o b) = Len(a) + Len(b)
OBVIOUS

LEMMA NothingJoined ==
    ASSUME NEW a \in Seq(Nat)
    PROVE  a \o <<>> = a
BY ConcatEmptySeq

Associates(a, b, c) == (a \o b) \o c = a \o (b \o c)

LEMMA Associate ==
    ASSUME NEW a \in Seq(Nat), NEW b \in Seq(Nat), NEW c \in Seq(Nat)
    PROVE  Associates(a, b, c)
BY ConcatAssociative DEF Associates

\* The three files' records read in one.
Regroups(p, a, b, c) == p \o ((a \o b) \o c) = (p \o a) \o ((b \o <<>>) \o c)

LEMMA Regroup ==
    ASSUME NEW p \in Seq(Nat), NEW a \in Seq(Nat), NEW b \in Seq(Nat), NEW c \in Seq(Nat)
    PROVE  Regroups(p, a, b, c)
<1>1. b \o <<>> = b /\ b \o c \in Seq(Nat)
  BY Joined, NothingJoined, Zenon
<1>2. Associates(a, b, c) /\ Associates(p, a, b \o c)
  BY <1>1, Associate, Zenon
<1> QED
  BY <1>1, <1>2, Zenon DEF Associates, Regroups

Lengthens(p, a, b, c, x) == (p \o ((a \o b) \o c)) \o x = p \o ((a \o b) \o (c \o x))

LEMMA Lengthen ==
    ASSUME NEW p \in Seq(Nat), NEW a \in Seq(Nat), NEW b \in Seq(Nat), NEW c \in Seq(Nat), NEW x \in Seq(Nat)
    PROVE  Lengthens(p, a, b, c, x)
<1>1. a \o b \in Seq(Nat) /\ (a \o b) \o c \in Seq(Nat)
  BY Joined, Zenon
<1>2. Associates(p, (a \o b) \o c, x) /\ Associates(a \o b, c, x)
  BY <1>1, Associate, Zenon
<1> QED
  BY <1>2, Zenon DEF Associates, Lengthens

LEMMA Lengths ==
    ASSUME NEW a \in Seq(Nat), NEW b \in Seq(Nat), NEW c \in Seq(Nat)
    PROVE  /\ (a \o b) \o c \in Seq(Nat)
           /\ Len((a \o b) \o c) = Len(a) + Len(b) + Len(c)
<1>1. PICK d \in Seq(Nat) : d = a \o b /\ Len(d) = Len(a) + Len(b)
  BY Joined, Zenon
<1>2. d \o c \in Seq(Nat) /\ Len(d \o c) = Len(d) + Len(c)
  BY Joined, Zenon
<1> QED
  BY <1>1, <1>2

LEMMA NumbersTyped ==
    ASSUME NEW records \in Seq(Logged)
    PROVE  NumbersOf(records) \in Seq(Nat) /\ Len(NumbersOf(records)) = Len(records)
<1>1. PICK n \in Nat : n = Len(records)
  OBVIOUS
<1>2. \A i \in 1 .. n : records[i].n \in Nat
  <2>1. \A i \in 1 .. n : records[i] \in Logged
    BY <1>1
  <2> QED
    BY <2>1 DEF Logged
<1>3. NumbersOf(records) = [i \in 1 .. n |-> records[i].n]
  <2>1. DOMAIN records = 1 .. n
    BY <1>1
  <2> QED
    BY <2>1, Zenon DEF NumbersOf
<1> QED
  BY <1>1, <1>2, <1>3

LEMMA NumbersMore ==
    ASSUME NEW records \in Seq(Logged), NEW e \in Logged
    PROVE  NumbersOf(Append(records, e)) = NumbersOf(records) \o <<e.n>>
<1>1. PICK n \in Nat : n = Len(records)
  OBVIOUS
<1>2. PICK t : t = Append(records, e)
  OBVIOUS
<1>3. DOMAIN t = 1 .. n + 1 /\ t[n + 1] = e /\ \A i \in 1 .. n : t[i] = records[i]
  BY <1>1, <1>2
<1>4. PICK r \in Seq(Nat) : r = NumbersOf(records) /\ Len(r) = n
  BY <1>1, NumbersTyped
<1>5. \A i \in 1 .. n : r[i] = records[i].n
  BY <1>1, <1>4 DEF NumbersOf
<1>6. PICK a \in Nat : a = e.n
  BY DEF Logged
<1>7. NumbersOf(t) = [i \in 1 .. n + 1 |-> t[i].n]
  BY <1>3, Zenon DEF NumbersOf
<1>8. \A i \in 1 .. n + 1 : t[i].n = IF i <= n THEN r[i] ELSE a
  BY <1>3, <1>5, <1>6
<1>9. Append(r, a) = [i \in 1 .. n + 1 |-> IF i <= n THEN r[i] ELSE a]
  BY <1>4, OneMore
<1>10. NumbersOf(t) = Append(r, a)
  BY <1>7, <1>8, <1>9, Zenon
<1>11. Append(r, a) = r \o <<a>>
  BY <1>4, <1>6, AppendIsConcat
<1> QED
  BY <1>2, <1>4, <1>6, <1>10, <1>11, Zenon

\* What the conjuncts of Kept say of single files.
LEMMA KeptFacts ==
    ASSUME NEW f, NEW records, NEW faults, Kept(f, records, faults)
    PROVE  /\ \A i \in 0 .. 2 : Records(f[i]) \in Seq(Nat) /\ Len(Records(f[i])) \in Nat /\ Len(f[i].lines) \in Nat
           /\ \A i \in 0 .. 2 : Len(Records(f[i])) <= Len(f[i].lines)
           /\ ReadFrom(f) \in Seq(Nat)
           /\ Len(ReadFrom(f)) = Len(Records(f[2])) + Len(Records(f[1])) + Len(Records(f[0]))
<1>1. \A i \in 0 .. 2 : Records(f[i]) \in Seq(Nat) /\ Len(Records(f[i])) <= Len(f[i].lines)
  BY DEF Kept, Sound
<1>2. \A i \in 0 .. 2 : Len(f[i].lines) \in Nat
  BY DEF Kept, Sound, LogFile
<1>3. \A i \in 0 .. 2 : Len(Records(f[i])) \in Nat
  BY <1>1
<1>4. Records(f[0]) \in Seq(Nat) /\ Records(f[1]) \in Seq(Nat) /\ Records(f[2]) \in Seq(Nat)
  BY <1>1
<1>5. PICK a, b, c \in Seq(Nat) : a = Records(f[2]) /\ b = Records(f[1]) /\ c = Records(f[0])
  BY <1>4
<1>6. ReadFrom(f) = (a \o b) \o c
  BY <1>5, Zenon DEF ReadFrom
<1>7. ReadFrom(f) \in Seq(Nat) /\ Len(ReadFrom(f)) = Len(a) + Len(b) + Len(c)
  BY <1>6, Lengths
<1> QED
  BY <1>1, <1>2, <1>3, <1>5, <1>7

\* More faults allow more.
LEMMA MoreFaults ==
    ASSUME NEW f, NEW records, NEW a \in Int, NEW b \in Int, Kept(f, records, a), a <= b
    PROVE  Kept(f, records, b)
<1>1. Len(ReadFrom(f)) \in Nat /\ Len(f[0].lines) \in Nat /\ Len(f[1].lines) \in Nat /\ Len(f[2].lines) \in Nat
  BY KeptFacts
<1>2. Len(ReadFrom(f)) + b >= Len(f[0].lines) + Len(f[1].lines) + Len(f[2].lines)
  <2>1. PICK r, x, y, z \in Nat : r = Len(ReadFrom(f)) /\ x = Len(f[0].lines) /\ y = Len(f[1].lines) /\ z = Len(f[2].lines)
    BY <1>1, Zenon
  <2>2. r + a >= x + y + z
    BY <2>1, Zenon DEF Kept
  <2>3. r + b >= x + y + z
    BY <2>2
  <2> QED
    BY <2>1, <2>3, Zenon
<1> QED
  BY <1>2, Zenon DEF Kept

\* A line is written: the record in whole, or one more fault.
LEMMA LineKept ==
    ASSUME NEW f, NEW records \in Seq(Logged), NEW faults \in Int, Kept(f, records, faults), ROTATE_SIZE \in Nat,
           NEW e \in Logged, NEW whole \in BOOLEAN, NEW newline \in BOOLEAN,
           NEW g, g = [f EXCEPT ![0] = WriteLine(f[0], [n |-> e.n, whole |-> whole], newline)],
           NEW now, now = (IF whole THEN Append(records, e) ELSE records),
           NEW after \in Int, after >= faults, ~whole => after >= faults + 1
    PROVE  Kept(g, now, after)
<1>1. PICK p \in Part : p.n = e.n /\ p.whole = whole /\ p = [n |-> e.n, whole |-> whole]
  BY DEF Part, Logged
<1>2. PICK h : h = WriteLine(f[0], p, newline)
  OBVIOUS
<1>3. f \in [0 .. 2 -> LogFile] /\ Sound(f[0]) /\ Sound(f[1]) /\ Sound(f[2])
  BY DEF Kept
<1>4. Sound(h) /\ Len(h.lines) = Len(f[0].lines) + 1 /\ Records(h) = Records(f[0]) \o (IF whole THEN <<e.n>> ELSE <<>>)
  <2>1. /\ Sound(h) /\ Len(h.lines) = Len(f[0].lines) + 1
        /\ Records(h) = Records(f[0]) \o (IF p.whole THEN <<p.n>> ELSE <<>>)
    BY <1>2, <1>3, LineAdded
  <2> QED
    BY <1>1, <2>1
<1>5. g[0] = h /\ g[1] = f[1] /\ g[2] = f[2] /\ g \in [0 .. 2 -> LogFile]
  <2>1. h \in LogFile
    BY <1>4 DEF Sound
  <2>2. g = [f EXCEPT ![0] = h]
    BY <1>1, <1>2
  <2> QED
    BY <1>3, <2>1, <2>2
<1>6. \A i \in 0 .. 2 : Sound(g[i])
  BY <1>3, <1>4, <1>5
<1>7. PICK a, b, c \in Seq(Nat) : a = Records(f[2]) /\ b = Records(f[1]) /\ c = Records(f[0])
  BY <1>3 DEF Sound
<1>8. PICK x \in Seq(Nat) : x = (IF whole THEN <<e.n>> ELSE <<>>) /\ Len(x) = (IF whole THEN 1 ELSE 0)
  <2>1. e.n \in Nat
    BY DEF Logged
  <2>2. <<e.n>> \in Seq(Nat) /\ Len(<<e.n>>) = 1 /\ <<>> \in Seq(Nat) /\ Len(<<>>) = 0
    BY <2>1, Empties
  <2>3. CASE whole
    <3>1. <<e.n>> = (IF whole THEN <<e.n>> ELSE <<>>) /\ 1 = (IF whole THEN 1 ELSE 0)
      BY <2>3, Zenon
    <3> QED
      BY <2>2, <3>1, Zenon
  <2>4. CASE ~whole
    <3>1. <<>> = (IF whole THEN <<e.n>> ELSE <<>>) /\ 0 = (IF whole THEN 1 ELSE 0)
      BY <2>4, Zenon
    <3> QED
      BY <2>2, <3>1, Zenon
  <2> QED
    BY <2>3, <2>4, Zenon
<1>9. ReadFrom(f) = (a \o b) \o c /\ ReadFrom(g) = (a \o b) \o (c \o x)
  BY <1>4, <1>5, <1>7, <1>8, Zenon DEF ReadFrom
<1>10. NumbersOf(now) = NumbersOf(records) \o x
  <2>1. CASE whole
    BY <1>8, <2>1, NumbersMore, Zenon
  <2>2. CASE ~whole
    <3>1. NumbersOf(records) \o <<>> = NumbersOf(records)
      BY NumbersTyped, NothingJoined, Zenon
    <3> QED
      BY <1>8, <2>2, <3>1, Zenon
  <2> QED
    BY <2>1, <2>2
<1>11. EndsIn(NumbersOf(now), ReadFrom(g))
  <2>1. PICK p2 \in Seq(Nat) : NumbersOf(records) = p2 \o ((a \o b) \o c)
    BY <1>9, Zenon DEF Kept, EndsIn
  <2>2. NumbersOf(now) = p2 \o ((a \o b) \o (c \o x))
    <3>1. Lengthens(p2, a, b, c, x)
      BY <2>1, Lengthen, Zenon
    <3> QED
      BY <1>10, <2>1, <3>1, Zenon DEF Lengthens
  <2> QED
    BY <1>9, <2>2, Zenon DEF EndsIn
<1>12. Len(ReadFrom(f)) = Len(a) + Len(b) + Len(c) /\ Len(ReadFrom(g)) = Len(a) + Len(b) + Len(c) + Len(x)
  <2>1. c \o x \in Seq(Nat) /\ Len(c \o x) = Len(c) + Len(x)
    BY Joined, Zenon
  <2>2. Len((a \o b) \o (c \o x)) = Len(a) + Len(b) + Len(c \o x)
    BY <2>1, Lengths, Zenon
  <2>3. Len((a \o b) \o c) = Len(a) + Len(b) + Len(c)
    BY Lengths, Zenon
  <2> QED
    BY <1>9, <2>1, <2>2, <2>3
<1>13. Len(now) = Len(records) + Len(x) /\ Len(records) \in Nat
  <2>1. CASE whole
    BY <1>8, <2>1
  <2>2. CASE ~whole
    BY <1>8, <2>2
  <2> QED
    BY <2>1, <2>2
<1>14. Len(f[0].lines) \in Nat /\ Len(f[1].lines) \in Nat /\ Len(f[2].lines) \in Nat /\ Len(ReadFrom(f)) \in Nat /\ Len(x) \in Nat
  BY KeptFacts
<1>15. PICK lf, lg, l0, l1, l2 \in Nat : lf = Len(ReadFrom(f)) /\ lg = Len(ReadFrom(g)) /\ l0 = Len(f[0].lines) /\ l1 = Len(f[1].lines) /\ l2 = Len(f[2].lines)
  <2>1. Len(ReadFrom(g)) \in Nat
    BY <1>12
  <2> QED
    BY <1>14, <2>1, Zenon
<1>16. lg = lf + Len(x)
  BY <1>12, <1>15
<1>17. lf + faults >= l0 + l1 + l2
  BY <1>15 DEF Kept
<1>18. lg + after >= (l0 + 1) + l1 + l2
  <2>1. CASE whole
    BY <1>8, <1>16, <1>17, <2>1
  <2>2. CASE ~whole
    BY <1>8, <1>16, <1>17, <2>2
  <2> QED
    BY <2>1, <2>2
<1>19. Len(ReadFrom(g)) + after >= Len(g[0].lines) + Len(g[1].lines) + Len(g[2].lines)
  BY <1>4, <1>5, <1>15, <1>18
<1>20. Len(ReadFrom(g)) < Len(now) => Long(g[2]) /\ (Long(g[1]) \/ Long(g[0]))
  <2>1. SUFFICES ASSUME Len(ReadFrom(g)) < Len(now) PROVE Long(g[2]) /\ (Long(g[1]) \/ Long(g[0]))
    OBVIOUS
  <2>2. Len(ReadFrom(f)) < Len(records)
    BY <1>13, <1>14, <1>15, <1>16, <2>1
  <2>3. Long(f[0]) => Long(h)
    BY <1>4, <1>14 DEF Long
  <2> QED
    BY <1>5, <2>2, <2>3 DEF Kept
<1>21. g[1].lines = <<>> \/ Long(g[1])
  BY <1>5 DEF Kept
<1> QED
  BY <1>5, <1>6, <1>11, <1>19, <1>20, <1>21 DEF Kept

\* The oldest file is dropped, the next takes its place.
LEMMA OldestDropped ==
    ASSUME NEW f, NEW records \in Seq(Logged), NEW faults \in Int, Kept(f, records, faults),
           Long(f[0]), f[1].lines # <<>>,
           NEW g, g = [f EXCEPT ![2] = f[1], ![1] = EmptyFile]
    PROVE  Kept(g, records, faults) /\ g[0] = f[0] /\ g[1].lines = <<>>
<1>1. f \in [0 .. 2 -> LogFile] /\ Sound(f[0]) /\ Sound(f[1]) /\ Sound(f[2])
  BY DEF Kept
<1>2. EmptyFile \in LogFile /\ Sound(EmptyFile) /\ Records(EmptyFile) = <<>> /\ EmptyFile.lines = <<>>
  BY EmptyIsSound, Zenon DEF Sound
<1>3. g[0] = f[0] /\ g[1] = EmptyFile /\ g[2] = f[1] /\ g \in [0 .. 2 -> LogFile]
  BY <1>1, <1>2
<1>4. \A i \in 0 .. 2 : Sound(g[i])
  BY <1>1, <1>2, <1>3
<1>5. Long(f[1])
  BY DEF Kept
<1>6. PICK a, b, c \in Seq(Nat) : a = Records(f[2]) /\ b = Records(f[1]) /\ c = Records(f[0])
  BY <1>1 DEF Sound
<1>7. ReadFrom(f) = (a \o b) \o c /\ ReadFrom(g) = (b \o <<>>) \o c
  BY <1>2, <1>3, <1>6, Zenon DEF ReadFrom
<1>8. EndsIn(NumbersOf(records), ReadFrom(g))
  <2>1. PICK p \in Seq(Nat) : NumbersOf(records) = p \o ((a \o b) \o c)
    BY <1>7, Zenon DEF Kept, EndsIn
  <2>2. NumbersOf(records) = (p \o a) \o ((b \o <<>>) \o c)
    <3>1. Regroups(p, a, b, c)
      BY <2>1, Regroup, Zenon
    <3> QED
      BY <2>1, <3>1, Zenon DEF Regroups
  <2>3. p \o a \in Seq(Nat)
    BY <1>6, <2>1, Joined, Zenon
  <2> QED
    BY <1>7, <2>2, <2>3, Zenon DEF EndsIn
<1>9. Len(ReadFrom(f)) = Len(a) + Len(b) + Len(c) /\ Len(ReadFrom(g)) = Len(b) + Len(c)
  <2>1. b \o <<>> = b /\ Len(b \o c) = Len(b) + Len(c)
    BY <1>6, Joined, NothingJoined, Zenon
  <2>2. Len((a \o b) \o c) = Len(a) + Len(b) + Len(c)
    BY Lengths, Zenon
  <2> QED
    BY <1>7, <2>1, <2>2, Zenon
<1>10. Len(ReadFrom(g)) + faults >= Len(g[0].lines) + Len(g[1].lines) + Len(g[2].lines)
  <2>1. Len(f[0].lines) \in Nat /\ Len(f[1].lines) \in Nat /\ Len(f[2].lines) \in Nat /\ Len(a) <= Len(f[2].lines)
    BY <1>6, KeptFacts
  <2>2. PICK x, y, z, la, lb, lc \in Nat :
            x = Len(f[0].lines) /\ y = Len(f[1].lines) /\ z = Len(f[2].lines) /\ la = Len(a) /\ lb = Len(b) /\ lc = Len(c)
    <3>1. Len(a) \in Nat /\ Len(b) \in Nat /\ Len(c) \in Nat
      BY <1>6
    <3> QED
      BY <2>1, <3>1, Zenon
  <2>3. la + lb + lc + faults >= x + y + z
    BY <1>9, <2>2, Zenon DEF Kept
  <2>4. lb + lc + faults >= x + 0 + y
    <3>1. la <= z
      BY <2>1, <2>2, Zenon
    <3> QED
      BY <2>3, <3>1
  <2>5. Len(EmptyFile.lines) = 0
    BY <1>2, Empties
  <2> QED
    BY <1>3, <1>9, <2>2, <2>4, <2>5, Zenon
<1>11. g[1].lines = <<>> /\ Long(g[2]) /\ Long(g[0])
  BY <1>2, <1>3, <1>5
<1> QED
  BY <1>3, <1>4, <1>8, <1>10, <1>11 DEF Kept

\* The log takes the place of the first rotated file, of which there is none.
LEMMA LogRotated ==
    ASSUME NEW f, NEW records \in Seq(Logged), NEW faults \in Int, Kept(f, records, faults),
           Long(f[0]), f[1].lines = <<>>,
           NEW g, g = [f EXCEPT ![1] = f[0], ![0] = EmptyFile]
    PROVE  Kept(g, records, faults)
<1>1. f \in [0 .. 2 -> LogFile] /\ Sound(f[0]) /\ Sound(f[1]) /\ Sound(f[2])
  BY DEF Kept
<1>2. EmptyFile \in LogFile /\ Sound(EmptyFile) /\ Records(EmptyFile) = <<>> /\ EmptyFile.lines = <<>>
  BY EmptyIsSound, Zenon DEF Sound
<1>3. g[0] = EmptyFile /\ g[1] = f[0] /\ g[2] = f[2] /\ g \in [0 .. 2 -> LogFile]
  BY <1>1, <1>2
<1>4. \A i \in 0 .. 2 : Sound(g[i])
  BY <1>1, <1>2, <1>3
<1>5. Records(f[1]) = <<>>
  BY <1>1, <1>2, EmptyIf, Zenon
<1>6. PICK a, c \in Seq(Nat) : a = Records(f[2]) /\ c = Records(f[0])
  BY <1>1 DEF Sound
<1>7. ReadFrom(f) = (a \o <<>>) \o c /\ ReadFrom(g) = (a \o c) \o <<>>
  BY <1>2, <1>3, <1>5, <1>6, Zenon DEF ReadFrom
<1>8. ReadFrom(g) = ReadFrom(f)
  <2>1. a \o <<>> = a /\ a \o c \in Seq(Nat)
    BY <1>6, Joined, NothingJoined, Zenon
  <2>2. (a \o c) \o <<>> = a \o c
    BY <2>1, NothingJoined, Zenon
  <2> QED
    BY <1>7, <2>1, <2>2, Zenon
<1>9. Len(f[0].lines) \in Nat /\ Len(f[2].lines) \in Nat
  BY KeptFacts
<1>10. Len(f[1].lines) = 0 /\ Len(EmptyFile.lines) = 0
  BY <1>2, Empties
<1>11. Len(ReadFrom(g)) + faults >= Len(g[0].lines) + Len(g[1].lines) + Len(g[2].lines)
  <2>1. PICK x, z \in Nat : x = Len(f[0].lines) /\ z = Len(f[2].lines)
    BY <1>9, Zenon
  <2>2. Len(ReadFrom(f)) + faults >= x + 0 + z
    BY <1>10, <2>1, Zenon DEF Kept
  <2>3. x + 0 + z = 0 + x + z
    BY <2>1
  <2> QED
    BY <1>3, <1>8, <1>10, <2>1, <2>2, <2>3, Zenon
<1>12. EndsIn(NumbersOf(records), ReadFrom(g))
  BY <1>8, Zenon DEF Kept
<1>13. Long(g[1]) /\ (Long(f[2]) => Long(g[2]))
  BY <1>3
<1>14. Len(ReadFrom(g)) < Len(records) => Long(g[2]) /\ (Long(g[1]) \/ Long(g[0]))
  BY <1>8, <1>13, Zenon DEF Kept
<1> QED
  BY <1>3, <1>4, <1>11, <1>12, <1>13, <1>14, Zenon DEF Kept

-----------------------------------------------------------------------------
(* The log's steps. *)

LEMMA RenameKept ==
    ASSUME LogTyped, ReadableInv, Rename, ROTATE_SIZE \in Nat \ {0}
    PROVE  ReadableInv'
<1>1. step = "rotate" /\ renaming' = renaming - 1 /\ step' = (IF renaming = 1 THEN "append" ELSE "rotate")
      /\ logged' = logged /\ logSpent' = logSpent
      /\ file' = (IF file[renaming - 1] = EmptyFile THEN file
                  ELSE [file EXCEPT ![renaming] = file[renaming - 1], ![renaming - 1] = EmptyFile])
  BY DEF Rename
<1>2. Kept(file, logged, Faults) /\ Long(file[0]) /\ renaming \in {1, 2} /\ (renaming = 1 => file[1].lines = <<>>)
  BY <1>1 DEF ReadableInv
<1>3. Faults' = Faults /\ Faults \in Int /\ logged \in Seq(Logged)
  BY <1>1 DEF Faults, LogTyped
<1>4. Sound(file[0]) /\ Sound(file[1])
  BY <1>2 DEF Kept
<1>5. CASE renaming = 2
  <2>1. renaming - 1 = 1 /\ step' = "rotate" /\ renaming' = 1
    BY <1>1, <1>5
  <2>2. CASE file[1] = EmptyFile
    <3>1. file' = file
      BY <1>1, <2>1, <2>2, Zenon
    <3>2. file[1].lines = <<>>
      BY <2>2, EmptyIsSound, Zenon
    <3>3. Kept(file', logged', Faults')
      BY <1>1, <1>2, <1>3, <3>1, Zenon
    <3> QED
      BY <1>2, <2>1, <3>1, <3>2, <3>3 DEF ReadableInv
  <2>3. CASE file[1] # EmptyFile
    <3>1. PICK g : g = [file EXCEPT ![2] = file[1], ![1] = EmptyFile]
      OBVIOUS
    <3>2. file' = g
      BY <1>1, <1>5, <2>1, <2>3, <3>1
    <3>3. file[1].lines # <<>>
      BY <1>4, <2>3, EmptyIf, Zenon
    <3>4. Kept(g, logged, Faults) /\ g[0] = file[0] /\ g[1].lines = <<>>
      BY <1>2, <1>3, <3>1, <3>3, OldestDropped, Zenon
    <3>5. Kept(file', logged', Faults')
      BY <1>1, <1>3, <3>2, <3>4, Zenon
    <3>6. Long(g[0])
      BY <1>2, <3>4, Zenon
    <3> QED
      BY <2>1, <3>2, <3>4, <3>5, <3>6 DEF ReadableInv, Long
  <2> QED
    BY <2>2, <2>3
<1>6. CASE renaming = 1
  <2>1. renaming - 1 = 0 /\ step' = "append"
    BY <1>1, <1>6
  <2>2. file[0] # EmptyFile
    <3>1. EmptyFile.lines = <<>>
      BY EmptyIsSound, Zenon
    <3>2. Len(file[0].lines) # 0
      BY <1>2, KeptFacts DEF Long
    <3> QED
      BY <3>1, <3>2, Empties
  <2>3. PICK g : g = [file EXCEPT ![1] = file[0], ![0] = EmptyFile]
    OBVIOUS
  <2>4. file' = g
    BY <1>1, <1>6, <2>1, <2>2, <2>3
  <2>5. Kept(g, logged, Faults)
    BY <1>2, <1>3, <1>6, <2>3, LogRotated, Zenon
  <2>6. Kept(file', logged', Faults')
    BY <1>1, <1>3, <2>4, <2>5, Zenon
  <2> QED
    BY <2>1, <2>6 DEF ReadableInv
<1> QED
  BY <1>2, <1>5, <1>6

LEMMA WriteRecordKept ==
    ASSUME LogTyped, ReadableInv, WriteRecord, ROTATE_SIZE \in Nat \ {0}
    PROVE  ReadableInv'
<1>1. /\ step = "append" /\ step' # "rotate" /\ logged' = Append(logged, event) /\ logSpent' = logSpent
      /\ file' = [file EXCEPT ![0] = WriteLine(file[0], [n |-> event.n, whole |-> TRUE], TRUE)]
  BY DEF WriteRecord
<1>2. Faults' = Faults /\ Faults \in Int /\ logged \in Seq(Logged) /\ event \in Logged /\ Faults >= Faults
  BY <1>1 DEF Faults, LogTyped
<1>3. PICK w \in BOOLEAN : w = TRUE
  OBVIOUS
<1>4. PICK g, l : g = file' /\ l = logged'
  OBVIOUS
<1>5. /\ g = [file EXCEPT ![0] = WriteLine(file[0], [n |-> event.n, whole |-> w], w)]
      /\ l = (IF w THEN Append(logged, event) ELSE logged)
  BY <1>1, <1>3, <1>4
<1>6. Kept(g, l, Faults)
  BY <1>2, <1>3, <1>5, LineKept DEF ReadableInv
<1> QED
  BY <1>1, <1>2, <1>4, <1>6, Zenon DEF ReadableInv

LEMMA FragmentKept ==
    ASSUME LogTyped, ReadableInv, step = "append", Fragment, ROTATE_SIZE \in Nat \ {0}
    PROVE  Kept(file', logged', Faults + 1)
<1>1. Faults \in Int /\ Faults + 1 \in Int /\ Faults + 1 >= Faults /\ Faults + 1 >= Faults + 1
      /\ logged \in Seq(Logged) /\ event \in Logged /\ Kept(file, logged, Faults)
  BY DEF Faults, LogTyped, ReadableInv
<1>2. CASE UNCHANGED <<file, logged>>
  <2>1. Kept(file, logged, Faults + 1)
    BY <1>1, MoreFaults, Zenon
  <2> QED
    BY <1>2, <2>1
<1>3. CASE \E whole \in BOOLEAN :
        /\ file' = [file EXCEPT ![0] = WriteLine(@, [n |-> event.n, whole |-> whole], FALSE)]
        /\ logged' = IF whole THEN Append(logged, event) ELSE logged
  <2>1. PICK w \in BOOLEAN :
        /\ file' = [file EXCEPT ![0] = WriteLine(file[0], [n |-> event.n, whole |-> w], FALSE)]
        /\ logged' = IF w THEN Append(logged, event) ELSE logged
    BY <1>3
  <2>2. PICK g, l : g = file' /\ l = logged'
    OBVIOUS
  <2>3. PICK newline \in BOOLEAN : newline = FALSE
    OBVIOUS
  <2>4. /\ g = [file EXCEPT ![0] = WriteLine(file[0], [n |-> event.n, whole |-> w], newline)]
        /\ l = (IF w THEN Append(logged, event) ELSE logged)
    BY <2>1, <2>2, <2>3
  <2>5. Kept(g, l, Faults + 1)
    BY <1>1, <2>1, <2>3, <2>4, LineKept
  <2> QED
    BY <2>2, <2>5, Zenon
<1> QED
  BY <1>2, <1>3, Zenon DEF Fragment

LEMMA FaultKept ==
    ASSUME LogTyped, ReadableInv, AppendFails \/ Killed, ROTATE_SIZE \in Nat \ {0}
    PROVE  ReadableInv'
<1>1. /\ step' # "rotate"
      /\ \/ step = "append" /\ Fragment
         \/ UNCHANGED <<file, logged>>
  BY DEF AppendFails, Killed
<1>2. Faults' = Faults + 1 /\ Faults \in Int
  <2>1. PICK a, b \in Nat : a = logSpent.failures /\ b = logSpent.crashes
    BY DEF LogTyped
  <2>2. CASE AppendFails
    <3>1. logSpent' = [logSpent EXCEPT !.failures = @ + 1]
      BY <2>2 DEF AppendFails, LogSpends
    <3>2. logSpent'.failures = a + 1 /\ logSpent'.crashes = b
      BY <2>1, <3>1 DEF LogTyped
    <3> QED
      BY <2>1, <3>2 DEF Faults
  <2>3. CASE Killed
    <3>1. logSpent' = [logSpent EXCEPT !.crashes = @ + 1]
      BY <2>3 DEF Killed, LogSpends
    <3>2. logSpent'.failures = a /\ logSpent'.crashes = b + 1
      BY <2>1, <3>1 DEF LogTyped
    <3> QED
      BY <2>1, <3>2 DEF Faults
  <2> QED
    BY <2>2, <2>3
<1>3. Kept(file', logged', Faults + 1)
  <2>1. CASE step = "append" /\ Fragment
    BY <2>1, FragmentKept
  <2>2. CASE UNCHANGED <<file, logged>>
    <3>1. Faults + 1 \in Int /\ Faults <= Faults + 1 /\ Kept(file, logged, Faults)
      BY <1>2 DEF ReadableInv
    <3>2. Kept(file, logged, Faults + 1)
      BY <1>2, <3>1, MoreFaults, Zenon
    <3> QED
      BY <2>2, <3>2
  <2> QED
    BY <1>1, <2>1, <2>2
<1> QED
  BY <1>1, <1>2, <1>3, Zenon DEF ReadableInv

LEMMA SameFiles ==
    ASSUME LogTyped, ReadableInv, UNCHANGED <<file, logged>>, Faults' \in Int, Faults <= Faults',
           step' = "rotate" =>
               Long(file[0]) /\ renaming' \in {1, 2} /\ (renaming' = 1 => file[1].lines = <<>>)
    PROVE  ReadableInv'
<1>1. Faults \in Int /\ Kept(file, logged, Faults)
  BY DEF Faults, LogTyped, ReadableInv
<1>2. Kept(file, logged, Faults')
  BY <1>1, MoreFaults, Zenon
<1>3. Kept(file', logged', Faults')
  BY <1>2
<1> QED
  BY <1>3 DEF ReadableInv, Long

LEMMA OtherKept ==
    ASSUME LogTyped, ReadableInv, ROTATE_KEEP = 2,
           (\E k \in Key \cup {NoKey} : EmitKey(k)) \/ Remember \/ Restart \/ Passes
    PROVE  ReadableInv'
<1>1. UNCHANGED <<file, logged>>
  BY DEF EmitKey, Remember, Restart, Passes
<1>2. Faults' \in Int /\ Faults <= Faults'
  <2>1. PICK a, b \in Nat : a = logSpent.failures /\ b = logSpent.crashes
    BY DEF LogTyped
  <2>2. CASE logSpent' = logSpent
    BY <2>1, <2>2 DEF Faults
  <2>3. CASE logSpent' = [logSpent EXCEPT !.failures = @ + 1]
    <3>1. logSpent'.failures = a + 1 /\ logSpent'.crashes = b
      BY <2>1, <2>3 DEF LogTyped
    <3> QED
      BY <2>1, <3>1 DEF Faults
  <2>4. CASE logSpent' = [logSpent EXCEPT !.events = @ + 1]
    <3>1. logSpent'.failures = a /\ logSpent'.crashes = b
      BY <2>1, <2>4 DEF LogTyped
    <3> QED
      BY <2>1, <3>1 DEF Faults
  <2>5. logSpent' = logSpent \/ logSpent' = [logSpent EXCEPT !.failures = @ + 1]
        \/ logSpent' = [logSpent EXCEPT !.events = @ + 1]
    <3>1. CASE \E k \in Key \cup {NoKey} : EmitKey(k)
      BY <3>1 DEF EmitKey, LogSpends
    <3>2. CASE Remember
      BY <3>2 DEF Remember, LogSpends
    <3>3. CASE Restart \/ Passes
      BY <3>3 DEF Restart, Passes
    <3> QED
      BY <3>1, <3>2, <3>3
  <2> QED
    BY <2>2, <2>3, <2>4, <2>5
<1>3. step' = "rotate" => Long(file[0]) /\ renaming' \in {1, 2} /\ (renaming' = 1 => file[1].lines = <<>>)
  <2>1. CASE \E k \in Key \cup {NoKey} : EmitKey(k)
    <3>1. step' = "rotate" => Size(file[0]) >= ROTATE_SIZE /\ renaming' = 2
      BY <2>1 DEF EmitKey
    <3>2. Size(file[0]) = Len(file[0].lines)
      BY DEF ReadableInv, Kept, Sound
    <3> QED
      BY <3>1, <3>2 DEF Long
  <2>2. CASE Remember \/ Restart \/ Passes
    BY <2>2 DEF Remember, Restart, Passes
  <2> QED
    BY <2>1, <2>2
<1> QED
  BY <1>1, <1>2, <1>3, SameFiles, Zenon

LEMMA KeptStarts ==
    ASSUME LogInit, ROTATE_KEEP = 2
    PROVE  ReadableInv
<1>1. /\ file = [i \in 0 .. 2 |-> EmptyFile] /\ logged = <<>> /\ step # "rotate"
      /\ logSpent.failures = 0 /\ logSpent.crashes = 0
  BY DEF LogInit
<1>2. Sound(EmptyFile) /\ EmptyFile \in LogFile /\ Records(EmptyFile) = <<>> /\ EmptyFile.lines = <<>>
  BY EmptyIsSound, Zenon DEF Sound
<1>3. file[0] = EmptyFile /\ file[1] = EmptyFile /\ file[2] = EmptyFile /\ file \in [0 .. 2 -> LogFile]
      /\ \A i \in 0 .. 2 : Sound(file[i])
  BY <1>1, <1>2
<1>4. <<>> \in Seq(Nat) /\ <<>> \o <<>> = <<>>
  BY Empties, NothingJoined, Zenon
<1>5. ReadFrom(file) = <<>>
  BY <1>2, <1>3, <1>4, Zenon DEF ReadFrom
<1>6. NumbersOf(logged) = <<>>
  BY <1>1 DEF NumbersOf
<1>7. EndsIn(NumbersOf(logged), ReadFrom(file))
  BY <1>4, <1>5, <1>6, Zenon DEF EndsIn
<1>8. Len(ReadFrom(file)) = 0 /\ Len(logged) = 0 /\ Len(file[0].lines) = 0 /\ Len(file[1].lines) = 0
      /\ Len(file[2].lines) = 0 /\ Faults = 0
  BY <1>1, <1>2, <1>3, <1>5, Empties DEF Faults
<1>9. Kept(file, logged, Faults)
  BY <1>2, <1>3, <1>7, <1>8 DEF Kept
<1> QED
  BY <1>1, <1>9 DEF ReadableInv

-----------------------------------------------------------------------------
(* What the invariant says of the log. *)

LEMMA ThreeFiles ==
    ASSUME ROTATE_KEEP = 2, \A i \in 0 .. 2 : Sound(file[i])
    PROVE  Log = ReadFrom(file)
<1>1. PICK a, b, c \in Seq(Nat) : a = Records(file[2]) /\ b = Records(file[1]) /\ c = Records(file[0])
  <2>1. Records(file[2]) \in Seq(Nat) /\ Records(file[1]) \in Seq(Nat) /\ Records(file[0]) \in Seq(Nat)
    BY DEF Sound
  <2> QED
    BY <2>1, Zenon
<1>2. [i \in 1 .. ROTATE_KEEP + 1 |-> Records(file[ROTATE_KEEP + 1 - i])] = <<a, b, c>>
  BY <1>1
<1>3. /\ <<>> \in Seq(Seq(Nat)) /\ <<a>> \in Seq(Seq(Nat)) /\ <<a, b>> \in Seq(Seq(Nat))
      /\ <<a>> = Append(<<>>, a) /\ <<a, b>> = Append(<<a>>, b) /\ <<a, b, c>> = Append(<<a, b>>, c)
  <2>1. PICK S : S = Seq(Nat)
    OBVIOUS
  <2>2. a \in S /\ b \in S /\ c \in S
    BY <2>1
  <2>3. /\ <<>> \in Seq(S) /\ <<a>> \in Seq(S) /\ <<a, b>> \in Seq(S)
        /\ <<a>> = Append(<<>>, a) /\ <<a, b>> = Append(<<a>>, b) /\ <<a, b, c>> = Append(<<a, b>>, c)
    BY <2>2
  <2> QED
    BY <2>1, <2>3, Zenon
<1>4. FlattenSeq(Append(<<a, b>>, c)) = FlattenSeq(<<a, b>>) \o c
  BY <1>3, FlattenMore, Zenon
<1>5. FlattenSeq(Append(<<a>>, b)) = FlattenSeq(<<a>>) \o b
  BY <1>3, FlattenMore, Zenon
<1>6. FlattenSeq(Append(<<>>, a)) = FlattenSeq(<<>>) \o a
  BY <1>3, FlattenMore, Zenon
<1>7. <<>> \o a = a
  BY ConcatEmptySeq
<1>8. FlattenSeq(<<a, b, c>>) = (a \o b) \o c
  BY <1>3, <1>4, <1>5, <1>6, <1>7, FlattenNothing, Zenon
<1> QED
  BY <1>1, <1>2, <1>8, Zenon DEF Log, ReadFrom

LEMMA SameStart ==
    ASSUME NEW s \in Seq(Nat), NEW t \in Seq(Nat), NEW n \in Nat, n <= Len(s), n <= Len(t),
           \A i \in 1 .. n : s[i] = t[i]
    PROVE  SubSeq(s, 1, n) = SubSeq(t, 1, n)
<1>1. SubSeq(s, 1, n) = [i \in 1 .. n |-> s[i]]
  OBVIOUS
<1>2. SubSeq(t, 1, n) = [i \in 1 .. n |-> t[i]]
  OBVIOUS
<1> QED
  BY <1>1, <1>2, Zenon

LEMMA Reversed ==
    ASSUME NEW s \in Seq(Nat)
    PROVE  /\ Reverse(s) \in Seq(Nat) /\ Len(Reverse(s)) = Len(s)
           /\ \A i \in 1 .. Len(s) : Reverse(s)[i] = s[(Len(s) - i) + 1]
<1>1. PICK n \in Nat : n = Len(s)
  OBVIOUS
<1>2. \A i \in 1 .. n : s[(n - i) + 1] \in Nat
  <2>1. \A i \in 1 .. n : (n - i) + 1 \in 1 .. n
    OBVIOUS
  <2> QED
    BY <1>1, <2>1
<1>3. Reverse(s) = [i \in 1 .. n |-> s[(n - i) + 1]]
  BY <1>1, Zenon DEF Reverse
<1> QED
  BY <1>1, <1>2, <1>3

LEMMA SuffixIs ==
    ASSUME NEW p \in Seq(Nat), NEW s \in Seq(Nat)
    PROVE  IsSuffix(s, p \o s)
<1>1. PICK m, n \in Nat : m = Len(p) /\ n = Len(s)
  OBVIOUS
<1>2. PICK w \in Seq(Nat) : w = p \o s /\ Len(w) = m + n /\ \A i \in 1 .. n : w[m + i] = s[i]
  <2>1. p \o s \in Seq(Nat) /\ Len(p \o s) = m + n
    BY <1>1, Joined, Zenon
  <2>2. \A i \in 1 .. n : (p \o s)[m + i] = s[i]
    BY <1>1
  <2> QED
    BY <2>1, <2>2, Zenon
<1>3. PICK a \in Seq(Nat) : a = Reverse(s) /\ Len(a) = n /\ \A i \in 1 .. n : a[i] = s[(n - i) + 1]
  BY <1>1, Reversed, Zenon
<1>4. PICK b \in Seq(Nat) : b = Reverse(w) /\ Len(b) = m + n /\ \A i \in 1 .. m + n : b[i] = w[((m + n) - i) + 1]
  <2>1. \A i \in 1 .. Len(w) : Reverse(w)[i] = w[(Len(w) - i) + 1]
    BY <1>2, Reversed, Zenon
  <2>2. Reverse(w) \in Seq(Nat) /\ Len(Reverse(w)) = m + n
    BY <1>2, Reversed, Zenon
  <2>3. \A i \in 1 .. m + n : Reverse(w)[i] = w[((m + n) - i) + 1]
    BY <1>2, <2>1
  <2> QED
    BY <2>2, <2>3, Zenon
<1>5. ASSUME NEW i \in 1 .. n PROVE a[i] = b[i]
  <2>1. (n - i) + 1 \in 1 .. n /\ i \in 1 .. m + n /\ ((m + n) - i) + 1 = m + ((n - i) + 1)
    OBVIOUS
  <2>2. b[i] = w[m + ((n - i) + 1)]
    BY <1>4, <2>1
  <2>3. w[m + ((n - i) + 1)] = s[(n - i) + 1]
    BY <1>2, <2>1, Zenon
  <2> QED
    BY <1>3, <2>2, <2>3, Zenon
<1>6. n <= Len(a) /\ n <= Len(b)
  BY <1>3, <1>4
<1>7. SubSeq(a, 1, n) = SubSeq(b, 1, n)
  BY <1>5, <1>6, SameStart
<1>8. Len(a) <= Len(b) /\ Len(a) = n
  BY <1>3, <1>4
<1> QED
  BY <1>2, <1>3, <1>4, <1>7, <1>8, Zenon DEF IsSuffix, IsPrefix

LEMMA KeptIs ==
    ASSUME LogTyped, ReadableInv, ROTATE_KEEP = 2, ROTATE_SIZE \in Nat
    PROVE  LogKept
<1>1. Kept(file, logged, Faults)
  BY DEF ReadableInv
<1>2. Log = ReadFrom(file)
  BY <1>1, ThreeFiles, Zenon DEF Kept
<1>3. ReadFrom(file) \in Seq(Nat) /\ Len(ReadFrom(file)) \in Nat
  BY <1>1, KeptFacts
<1>4. IsSuffix(Log, [i \in DOMAIN logged |-> logged[i].n])
  <2>1. PICK p \in Seq(Nat) : NumbersOf(logged) = p \o ReadFrom(file)
    BY <1>1, Zenon DEF Kept, EndsIn
  <2>2. IsSuffix(ReadFrom(file), p \o ReadFrom(file))
    BY <1>3, SuffixIs, Zenon
  <2> QED
    BY <1>2, <2>1, <2>2, Zenon DEF NumbersOf
<1>5. ASSUME Len(Log) < Len(logged)
      PROVE  Len(Log) >= ROTATE_KEEP * ROTATE_SIZE - logSpent.failures - logSpent.crashes
  <2>1. Long(file[2]) /\ (Long(file[1]) \/ Long(file[0]))
    BY <1>1, <1>2, <1>5 DEF Kept
  <2>2. PICK x, y, z, r \in Nat :
            x = Len(file[0].lines) /\ y = Len(file[1].lines) /\ z = Len(file[2].lines) /\ r = Len(ReadFrom(file))
    <3>1. Len(file[0].lines) \in Nat /\ Len(file[1].lines) \in Nat /\ Len(file[2].lines) \in Nat
      BY <1>1, KeptFacts
    <3> QED
      BY <1>3, <3>1, Zenon
  <2>3. PICK a, b \in Nat : a = logSpent.failures /\ b = logSpent.crashes
    BY DEF LogTyped
  <2>4. r + (a + b) >= x + y + z
    BY <1>1, <2>2, <2>3, Zenon DEF Kept, Faults
  <2>5. x + y + z >= 2 * ROTATE_SIZE
    <3>1. z >= ROTATE_SIZE /\ (y >= ROTATE_SIZE \/ x >= ROTATE_SIZE)
      BY <2>1, <2>2 DEF Long
    <3> QED
      BY <3>1
  <2>6. r >= 2 * ROTATE_SIZE - a - b
    BY <2>4, <2>5
  <2> QED
    BY <1>2, <2>2, <2>3, <2>6, Zenon
<1> QED
  BY <1>4, <1>5 DEF LogKept

\* LogKept: with two rotated files kept, as ROTATE_KEEP in events.py says, for any size from which the
\* log is rotated, any events, failed writes and kills, between any two renames or in the middle of a
\* write, the records that can be read are the last ones logged, in their order and with none missing,
\* and whatever was dropped left two full files, less one record for each fault.
THEOREM LogIsKept == ROTATE_KEEP = 2 => (LogSpec => []LogKept)
<1> SUFFICES ASSUME ROTATE_KEEP = 2
             PROVE  LogSpec => []LogKept
  OBVIOUS
<1>1. ROTATE_SIZE \in Nat \ {0}
  BY EventLogAssumption
<1>2. LogInit => LogInv /\ ReadableInv
  BY LogStarts, KeptStarts
<1>3. LogInv /\ ReadableInv /\ [LogNext]_logVars => LogInv' /\ ReadableInv'
  <2>1. SUFFICES ASSUME LogInv, ReadableInv, [LogNext]_logVars
                 PROVE  ReadableInv'
    BY LogStep
  <2>2. LogTyped
    BY <2>1 DEF LogInv
  <2>3. CASE UNCHANGED logVars
    BY <2>1, <2>3 DEF logVars, ReadableInv, Kept, ReadFrom, Faults, Long
  <2>4. CASE LogNext
    BY <1>1, <2>1, <2>2, <2>4, RenameKept, WriteRecordKept, FaultKept, OtherKept DEF LogNext
  <2> QED
    BY <2>1, <2>3, <2>4
<1>4. LogInv /\ ReadableInv => LogKept
  <2>1. LogInv => LogTyped
    BY DEF LogInv
  <2> QED
    BY <1>1, <2>1, KeptIs
<1> QED
  BY <1>2, <1>3, <1>4, PTL DEF LogSpec
====
