----------------------------- MODULE LiveReports -----------------------------
(***************************************************************************)
(* The live reports: statuslines write what claude told them about usage   *)
(* (statusline/runtime.py), the daemon watches the directory and merges    *)
(* what it finds into a profile's usage (daemon/watchers.py, Daemon.       *)
(* apply_usage).  Statuslines are processes of their own: they write       *)
(* between any two file operations of a scan.                              *)
(*                                                                         *)
(* A report is its profile and its data; `stamp` stands for a file's mtime *)
(* and size, which differ from write to write.  What the merge makes of    *)
(* the reports is in LimitPolicy: here usage is the set of them.           *)
(***************************************************************************)
EXTENDS Naturals, FiniteSets

CONSTANTS
    Name,        \* report files: one for a wrapper, or for a session without one
    Account,     \* the profiles
    NoReport,
    Statusline,  \* the statuslines that may run at one time
    MaxReports   \* bound: runs of a statusline

ASSUME LiveAssumption == NoReport \notin [account : Account, data : {0, 1}] /\ MaxReports \in Nat

VARIABLES
    live,      \* the files: [report, stamp, age], stamp 0 without a file
    writer,    \* a statusline: [on, name, report, stamp] between its look at the file and the rename
    stamps,    \* the last stamp used
    scan,      \* the watcher: [at, on, todo, present, affected], `on` the file it works on
    stats,     \* `_stats`, 0 without an entry
    taken,     \* `live_reports`
    polled,    \* profiles with polled usage
    usage      \* the reports merged into a profile's usage

liveVars == <<live, writer, stamps, scan, stats, taken, polled, usage>>

Report == [account : Account, data : {0, 1}]
NoFileThere == [report |-> NoReport, stamp |-> 0, age |-> 0]
Age == 0 .. 2   \* of a file: 60 s or more (LIVE_REFRESH_S), more than 24 hours (LIVE_GC_S)
NoWriter == [on |-> FALSE]
IdleScan == [at |-> "idle", on |-> {}, todo |-> {}, present |-> {}, affected |-> {}]

LiveTypeOK ==
    /\ live \in [Name -> [report : Report \cup {NoReport}, stamp : Nat, age : Age]]
    /\ writer \in [Statusline -> {NoWriter} \cup [on : {TRUE}, name : Name, report : Report, stamp : Nat]]
    /\ stamps \in Nat /\ stats \in [Name -> Nat]
    /\ scan.at \in {"idle", "stat", "read", "unlink", "apply"} /\ scan.on \subseteq Name
    /\ scan.todo \subseteq Name /\ scan.present \subseteq Name /\ scan.affected \subseteq Account
    /\ taken \in [Name -> Report \cup {NoReport}]
    /\ polled \subseteq Account /\ usage \in [Account -> SUBSET (Name \X Report)]

LiveInit ==
    /\ live = [n \in Name |-> NoFileThere]
    /\ writer = [s \in Statusline |-> NoWriter] /\ stamps = 0
    /\ scan = IdleScan /\ stats = [n \in Name |-> 0]
    /\ taken = [n \in Name |-> NoReport]
    /\ polled = {} /\ usage = [a \in Account |-> {}]

(* needs_write: not what the file said less than 60 s ago, whoever said it. *)
NeedsWrite(file, report) == file.report # NoReport => file.report.data # report.data \/ file.age > 0

(* build_live_report, write_live_report: look, then write a file of its    *)
(* own and rename it.  The file's time is that of the writing.             *)
StartReport(s) ==
    /\ ~writer[s].on /\ stamps < MaxReports
    /\ \E n \in Name, r \in Report :
        /\ NeedsWrite(live[n], r)
        /\ writer' = [writer EXCEPT ![s] = [on |-> TRUE, name |-> n, report |-> r, stamp |-> stamps + 1]]
    /\ stamps' = stamps + 1
    /\ UNCHANGED <<live, scan, stats, taken, polled, usage>>

EndReport(s) ==
    /\ writer[s].on
    /\ live' = [live EXCEPT ![writer[s].name] = [report |-> writer[s].report, stamp |-> writer[s].stamp, age |-> 0]]
    /\ writer' = [writer EXCEPT ![s] = NoWriter]
    /\ UNCHANGED <<stamps, scan, stats, taken, polled, usage>>

(* The world: a file gets older, is deleted, or is overwritten with        *)
(* something that is no report.                                            *)
Ages(n) ==
    /\ live[n].stamp # 0 /\ live[n].age < 2
    /\ live' = [live EXCEPT ![n].age = @ + 1]
    /\ UNCHANGED <<writer, stamps, scan, stats, taken, polled, usage>>

Spoiled(n) ==
    /\ live[n].report # NoReport /\ stamps < MaxReports
    /\ \/ live' = [live EXCEPT ![n] = NoFileThere] /\ UNCHANGED stamps
       \/ live' = [live EXCEPT ![n] = [report |-> NoReport, stamp |-> stamps + 1, age |-> 0]] /\ stamps' = stamps + 1
    /\ UNCHANGED <<writer, scan, stats, taken, polled, usage>>

-----------------------------------------------------------------------------
\* apply_usage: merge, unless there is neither polled usage nor a report.
ReportsOf(a) == {<<n, taken[n]>> : n \in {m \in Name : taken[m] # NoReport /\ taken[m].account = a}}
ApplyUsage(a) ==
    usage' = IF ReportsOf(a) = {} /\ a \notin polled' THEN usage ELSE [usage EXCEPT ![a] = ReportsOf(a)]

\* The profiles whose usage a change of a report concerns.  (`AffectedBefore` is a bug that the
\* runs must find.)
AccountOf(r) == IF r = NoReport THEN {} ELSE {r.account}
AffectedBefore(new, old) == AccountOf(old)
Affected(new, old) == AccountOf(new) \cup AccountOf(old)

(* scan_once *)
StartScan ==
    /\ scan.at = "idle"
    /\ scan' = [IdleScan EXCEPT !.at = "stat", !.todo = {n \in Name : live[n].stamp # 0}]
    /\ UNCHANGED <<live, writer, stamps, stats, taken, polled, usage>>

StatReport(n) ==
    /\ scan.at = "stat" /\ n \in scan.todo
    /\ LET done == [scan EXCEPT !.todo = @ \ {n}]
           seen == [done EXCEPT !.present = @ \cup {n}] IN
        IF live[n].stamp = 0 THEN scan' = done /\ UNCHANGED stats
        ELSE IF live[n].age = 2 THEN scan' = [done EXCEPT !.at = "unlink", !.on = {n}] /\ UNCHANGED stats
        ELSE IF stats[n] = live[n].stamp THEN scan' = seen /\ UNCHANGED stats
        ELSE scan' = [seen EXCEPT !.at = "read", !.on = {n}] /\ stats' = [stats EXCEPT ![n] = live[n].stamp]
    /\ UNCHANGED <<live, writer, stamps, taken, polled, usage>>

UnlinkReport(n) ==
    /\ scan.at = "unlink" /\ n \in scan.on
    /\ live' = [live EXCEPT ![n] = NoFileThere]
    /\ scan' = [scan EXCEPT !.at = "stat", !.on = {}]
    /\ UNCHANGED <<writer, stamps, stats, taken, polled, usage>>

ReadReport(n) ==
    /\ scan.at = "read" /\ n \in scan.on
    /\ taken' = [taken EXCEPT ![n] = live[n].report]
    /\ scan' = [scan EXCEPT !.at = "stat", !.on = {}, !.affected = @ \cup Affected(live[n].report, taken[n])]
    /\ UNCHANGED <<live, writer, stamps, stats, polled, usage>>

ForgetGone ==
    /\ scan.at = "stat" /\ scan.todo = {}
    /\ LET gone == {n \in Name \ scan.present : stats[n] # 0} IN
        /\ stats' = [n \in Name |-> IF n \in gone THEN 0 ELSE stats[n]]
        /\ taken' = [n \in Name |-> IF n \in gone THEN NoReport ELSE taken[n]]
        /\ scan' = [scan EXCEPT !.at = "apply", !.affected = @ \cup UNION {AccountOf(taken[n]) : n \in gone}]
    /\ UNCHANGED <<live, writer, stamps, polled, usage>>

\* The hooks of `apply_usage` are awaited: other tasks run in between.
ApplyAffected ==
    /\ scan.at = "apply"
    /\ UNCHANGED polled
    /\ \/ \E a \in scan.affected : scan' = [scan EXCEPT !.affected = @ \ {a}] /\ ApplyUsage(a)
       \/ scan.affected = {} /\ scan' = IdleScan /\ UNCHANGED usage
    /\ UNCHANGED <<live, writer, stamps, stats, taken>>

(* A poll of a profile ends, which the scan's file operations do not let   *)
(* in between.                                                             *)
Polled(a) ==
    /\ scan.at \in {"idle", "apply"}
    /\ polled' = polled \cup {a} /\ ApplyUsage(a)
    /\ UNCHANGED <<live, writer, stamps, scan, stats, taken>>

LiveNext ==
    \/ \E s \in Statusline : StartReport(s) \/ EndReport(s)
    \/ \E n \in Name : Ages(n) \/ Spoiled(n) \/ StatReport(n) \/ UnlinkReport(n) \/ ReadReport(n)
    \/ StartScan \/ ForgetGone \/ ApplyAffected
    \/ \E a \in Account : Polled(a)
LiveSpec == LiveInit /\ [][LiveNext]_liveVars

-----------------------------------------------------------------------------
\* A file that the next scan will not read again.
Unseen(n) == live[n].stamp # 0 /\ live[n].age < 2 /\ stats[n] = live[n].stamp /\ n \notin scan.on

(* Whatever is written, replaced or deleted while the watcher scans, it    *)
(* never takes a file for read that it has not read, and between two scans *)
(* a polled profile's usage holds exactly the reports last read for it,    *)
(* also when a report turned unreadable, went away or changed its profile. *)
Followed ==
    /\ \A n \in Name : Unseen(n) => taken[n] = live[n].report
    /\ scan.at = "idle" => \A a \in polled : usage[a] = ReportsOf(a)
=============================================================================
