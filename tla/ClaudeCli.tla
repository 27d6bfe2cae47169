------------------------------ MODULE ClaudeCli ------------------------------
(***************************************************************************)
(* The claude processes that the daemon starts for itself (claude_cli.py)  *)
(* and the sampler that must not take them for the user's sessions         *)
(* (daemon/sampler.py).  A call owns one process: `run` kills it at its    *)
(* timeout or when it is cancelled, `probe_usage` closes its stdin, waits, *)
(* then sends SIGTERM and SIGKILL.  claude is the environment: it may end  *)
(* at any time, and only SIGKILL is certain to end it.                     *)
(***************************************************************************)
EXTENDS Integers, FiniteSets

CONSTANTS
    Pid,          \* the claude processes, one for each call
    ListTimeout,  \* timeout of `agents_json`, in seconds or coarser units
    RecentExit,   \* RECENT_EXIT_S
    MaxCancels,   \* bound: how often a call is cancelled (a removed profile, then the daemon's end)
    MaxTicks      \* bound: units of time

ASSUME CliAssumption ==
    /\ {ListTimeout, RecentExit, MaxCancels, MaxTicks} \subseteq Nat
    /\ ListTimeout <= RecentExit

VARIABLES
    call,       \* the call of a process: [kind, at]
    process,      \* the process: "no", "runs", "killed" (SIGKILL is on its way) or "dead"
    forced,     \* probes that were signalled
    registered, \* processes with a session file in the profile's registry
    running,    \* `_RUNNING`
    exited,     \* `_EXITED`: how long ago, RecentExit + 1 is longer than that
    listing,    \* a run of `agents --json`: [on, seen, age]
    others,     \* the processes in `other_sessions`
    cancels, ticks  \* what is left of the bounds

cliVars == <<call, process, forced, registered, running, exited, listing, others, cancels, ticks>>

LongAgo == RecentExit + 1
NoListing == [on |-> FALSE, seen |-> {}, age |-> 0]

CliTypeOK ==
    /\ call \in [Pid -> [kind : {"run", "probe"},
                         at : {"no", "talks", "killing", "closing", "exiting", "termed", "reaping", "done", "left"}]]
    /\ process \in [Pid -> {"no", "runs", "killed", "dead"}]
    /\ {forced, registered, running, others} \subseteq SUBSET Pid
    /\ exited \in [Pid -> 0 .. LongAgo]
    /\ listing \in [on : BOOLEAN, seen : SUBSET Pid, age : 0 .. ListTimeout]
    /\ cancels \in [Pid -> 0 .. MaxCancels] /\ ticks \in 0 .. MaxTicks

CliInit ==
    /\ call \in [Pid -> [kind : {"run", "probe"}, at : {"no"}]]
    /\ process = [p \in Pid |-> "no"]
    /\ forced = {} /\ registered = {} /\ running = {} /\ others = {}
    /\ exited = [p \in Pid |-> LongAgo]
    /\ listing = NoListing
    /\ cancels = [p \in Pid |-> MaxCancels] /\ ticks = MaxTicks

At(p) == call[p].at
Moves(p, at) == call' = [call EXCEPT ![p].at = at]
Signals(p) == process' = IF process[p] = "runs" THEN [process EXCEPT ![p] = "killed"] ELSE process
SignalsNot(p) == process' = process
Gone(p) == process[p] = "dead"

\* _track_spawn, _track_exit.  (`TracksOnlyRunning` is a bug that the runs must find.)
TrackSpawn(p) == running' = running \cup {p} /\ UNCHANGED exited
TracksOnlyRunning(p) == running' = running \ {p} /\ UNCHANGED exited
TrackExit(p) == running' = running \ {p} /\ exited' = [exited EXCEPT ![p] = 0]

Quiet == UNCHANGED <<listing, others, ticks>>

(* claude itself: a process registers as a session and ends.  One that is  *)
(* killed leaves its session file behind.                                  *)
Register(p) ==
    /\ process[p] = "runs" /\ p \notin registered
    /\ registered' = registered \cup {p}
    /\ UNCHANGED <<call, process, forced, running, exited, cancels>> /\ Quiet

ProcessEnds(p) ==
    /\ process[p] \in {"runs", "killed"}
    /\ process' = [process EXCEPT ![p] = "dead"]
    /\ registered' = IF process[p] = "runs" THEN registered \ {p} ELSE registered
    /\ UNCHANGED <<call, forced, running, exited, cancels>> /\ Quiet

(* run and probe_usage: start the process in a session of its own.         *)
Spawn(p) ==
    /\ At(p) = "no"
    /\ Moves(p, "talks") /\ process' = [process EXCEPT ![p] = "runs"]
    /\ TrackSpawn(p)
    /\ UNCHANGED <<forced, registered, cancels>> /\ Quiet

(* run: the process ended, or its time is over and its group is killed.    *)
RunEnds(p) ==
    /\ call[p].kind = "run" /\ At(p) \in {"talks", "killing"} /\ Gone(p)
    /\ Moves(p, "done") /\ TrackExit(p)
    /\ UNCHANGED <<process, forced, registered, cancels>> /\ Quiet

RunTimesOut(p) ==
    /\ call[p].kind = "run" /\ At(p) = "talks" /\ ~Gone(p)
    /\ Moves(p, "killing") /\ Signals(p)
    /\ UNCHANGED <<forced, registered, running, exited, cancels>> /\ Quiet

(* run: cancelled.  It kills the process and waits for its end; cancelled  *)
(* again meanwhile, or after a timeout, it does not wait.                  *)
RunCancelled(p) ==
    /\ call[p].kind = "run" /\ cancels[p] > 0
    /\ cancels' = [cancels EXCEPT ![p] = @ - 1]
    /\ \/ At(p) = "talks" /\ Moves(p, "killing") /\ Signals(p) /\ UNCHANGED <<running, exited>>
       \/ At(p) = "killing" /\ Moves(p, "done") /\ SignalsNot(p) /\ TrackExit(p)
    /\ UNCHANGED <<forced, registered>> /\ Quiet

(* probe_usage: an answer, the end of the output, or no answer in time;    *)
(* the `finally` closes stdin.                                             *)
ProbeAnswered(p) ==
    /\ call[p].kind = "probe" /\ At(p) = "talks"
    /\ Moves(p, "closing")
    /\ UNCHANGED <<process, forced, registered, running, exited, cancels>> /\ Quiet

ProbeClosed(p) ==
    /\ At(p) = "closing"
    /\ Moves(p, "exiting")
    /\ UNCHANGED <<process, forced, registered, running, exited, cancels>> /\ Quiet

(* _reap: after `graceful_s` SIGTERM, after TERM_GRACE_S SIGKILL.          *)
Escalate(p) ==
    /\ ~Gone(p)
    /\ \/ At(p) = "exiting" /\ Moves(p, "termed") /\ SignalsNot(p) /\ forced' = forced \cup {p}
       \/ At(p) = "termed" /\ Moves(p, "reaping") /\ Signals(p) /\ UNCHANGED forced
    /\ UNCHANGED <<registered, running, exited, cancels>> /\ Quiet

(* probe_usage: the process is gone; a forced one left its session file,   *)
(* which remove_registry_files deletes.                                    *)
ProbeEnds(p) ==
    /\ At(p) \in {"exiting", "termed", "reaping"} /\ Gone(p)
    /\ Moves(p, "done") /\ TrackExit(p)
    /\ registered' = IF p \in forced THEN registered \ {p} ELSE registered
    /\ UNCHANGED <<process, forced, cancels>> /\ Quiet

(* probe_usage: a cancel while it reads leads to the `finally` as well; one *)
(* within the `finally` leaves it at once.                                 *)
ProbeCancelled(p) ==
    /\ call[p].kind = "probe" /\ cancels[p] > 0
    /\ cancels' = [cancels EXCEPT ![p] = @ - 1]
    /\ \/ At(p) = "talks" /\ Moves(p, "closing")
       \/ At(p) \in {"closing", "exiting", "termed", "reaping"} /\ Moves(p, "left")
    /\ UNCHANGED <<process, forced, registered, running, exited>> /\ Quiet

(* sample_profile: `agents --json` lists the registered processes; the     *)
(* sampler reads the answer, which no call waits for beyond its timeout.   *)
List ==
    /\ ~listing.on
    /\ listing' = [on |-> TRUE, seen |-> {p \in registered : process[p] = "runs"}, age |-> 0]
    /\ UNCHANGED <<call, process, forced, registered, running, exited, others, cancels, ticks>>

Spawned == running \cup {p \in Pid : exited[p] <= RecentExit}
Classify == others' = listing.seen \ Spawned
Sample ==
    /\ listing.on
    /\ \/ Classify
       \/ UNCHANGED others   \* the call failed or timed out
    /\ listing' = NoListing
    /\ UNCHANGED <<call, process, forced, registered, running, exited, cancels, ticks>>

Second ==
    /\ ticks > 0 /\ (listing.on => listing.age < ListTimeout)
    /\ ticks' = ticks - 1
    /\ exited' = [p \in Pid |-> IF exited[p] < LongAgo THEN exited[p] + 1 ELSE LongAgo]
    /\ listing' = IF listing.on THEN [listing EXCEPT !.age = @ + 1] ELSE listing
    /\ UNCHANGED <<call, process, forced, registered, running, others, cancels>>

CliNext ==
    \/ \E p \in Pid : \/ Register(p) \/ ProcessEnds(p) \/ Spawn(p)
                      \/ RunEnds(p) \/ RunTimesOut(p) \/ RunCancelled(p)
                      \/ ProbeAnswered(p) \/ ProbeClosed(p) \/ Escalate(p) \/ ProbeEnds(p) \/ ProbeCancelled(p)
    \/ List \/ Sample \/ Second

CliSpec == CliInit /\ [][CliNext]_cliVars

(* No claude of the daemon's own is shown as a session of the user: not    *)
(* one that a listing of up to ten seconds ago holds and that ended since, *)
(* and not one that a cancelled call left behind.                          *)
NoProbeCounted == others = {}

(* A call that ended has left no process: it is gone or SIGKILL is on its  *)
(* way, and a probe leaves no session file.  A probe that is cancelled     *)
(* during its own cleanup may leave both, and then stays known as ours.    *)
NoneLeft == \A p \in Pid :
    /\ At(p) = "done" => process[p] \in {"killed", "dead"}
    /\ At(p) = "done" /\ call[p].kind = "probe" => p \notin registered
    /\ At(p) = "left" => p \in running

(* The two together: whatever is cancelled, killed or late, the processes  *)
(* that ccs starts are ended or known as its own.                          *)
OwnProcesses == NoProbeCounted /\ NoneLeft
=============================================================================
