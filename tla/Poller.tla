------------------------------- MODULE Poller -------------------------------
(***************************************************************************)
(* One poll loop per profile and the requests for a poll                   *)
(* (daemon/poller.py, and what of usage/source_claude.py and claude_cli.py *)
(* a probe does).  Requesters are the engine's confirmations, the          *)
(* auto-chain, the refresh op and `sync` itself.                           *)
(*                                                                         *)
(* A profile's config directory is a number, 0 when the profile is not in  *)
(* the config.                                                             *)
(***************************************************************************)
EXTENDS Integers, FiniteSets

CONSTANTS
    Profile,
    Request,      \* the requests whose answer somebody awaits
    MaxChanges,   \* bound: changes of the config
    MaxErrors     \* bound: failed probes, errors and deaths of loops

ASSUME PollerAssumption == {MaxChanges, MaxErrors} \subseteq Nat

VARIABLES
    dir,        \* the config directory of each profile in the daemon's config
    loop,       \* where the loop of each profile's state object is, "none" without a state
    due,        \* profiles whose regular poll is due
    forced,     \* profiles with the request that `sync` made, which nobody awaits
    probe,      \* the directory that the running probe reads
    polled,     \* the directory whose windows `daemon.polled` holds
    req,        \* the awaited requests
    shutdown,   \* "no", "waits" in `shutdown` (`_stopping`), "done"
    pollBudget  \* what is left of the bounds

pollVars == <<dir, loop, due, forced, probe, polled, req, shutdown, pollBudget>>

Loop == {"none", "idle", "probe", "apply", "backoff", "dead", "ended"}
\* "later": asked for a time to come; "batch": taken by the probe that runs;
\* "cancelled": in the batch of a probe that was cancelled.
Phase == {"unasked", "later", "waits", "batch", "cancelled", "answered"}
\* `probed`: a probe of the profile began since the request was made.
Requests == [phase : Phase, profile : Profile, probed : BOOLEAN, answer : {"none", "usage"}]

\* A first config: each profile in it or not.
PollInit ==
    /\ dir \in [Profile -> {0, 1}]
    /\ loop = [p \in Profile |-> IF dir[p] = 0 THEN "none" ELSE "idle"]
    /\ due = {p \in Profile : dir[p] # 0}
    /\ forced = {}
    /\ probe = [p \in Profile |-> 0]
    /\ polled = [p \in Profile |-> 0]
    /\ req \in [Request -> {[phase |-> "unasked", profile |-> p, probed |-> FALSE, answer |-> "none"] : p \in Profile}]
    /\ shutdown = "no"
    /\ pollBudget = [changes |-> MaxChanges, errors |-> MaxErrors]

PollTypeOK ==
    /\ dir \in [Profile -> Nat]
    /\ loop \in [Profile -> Loop]
    /\ due \subseteq Profile /\ forced \subseteq Profile
    /\ probe \in [Profile -> Nat]
    /\ polled \in [Profile -> Nat]
    /\ req \in [Request -> Requests]
    /\ shutdown \in {"no", "waits", "done"}
    /\ pollBudget \in [changes : 0 .. MaxChanges, errors : 0 .. MaxErrors]

Stopping == shutdown # "no"
Of(p, phases) == {r \in Request : req[r].profile = p /\ req[r].phase \in phases}
\* The requests in `set` get the answer `a`.
Resolve(set, a) ==
    [r \in Request |-> IF r \in set THEN [req[r] EXCEPT !.phase = "answered", !.answer = a] ELSE req[r]]
Enter(p, place) == loop' = [loop EXCEPT ![p] = place]
Error == pollBudget.errors > 0 /\ pollBudget' = [pollBudget EXCEPT !.errors = @ - 1]

-----------------------------------------------------------------------------
(* Requests. *)

\* `request_poll`, for now or for later: None at once while the poller stops and for a profile
\* that is not in the config.
Ask(r) ==
    /\ req[r].phase = "unasked"
    /\ LET p == req[r].profile
       IN  IF Stopping \/ dir[p] = 0
           THEN req' = Resolve({r}, "none")
           ELSE \E phase \in {"later", "waits"} :
                    req' = [req EXCEPT ![r].phase = phase]
    /\ UNCHANGED <<dir, loop, due, forced, probe, polled, shutdown, pollBudget>>

\* The time a request asked for.
TimeComes(r) ==
    /\ req[r].phase = "later"
    /\ req' = [req EXCEPT ![r].phase = "waits"]
    /\ UNCHANGED <<dir, loop, due, forced, probe, polled, shutdown, pollBudget>>

\* The regular interval (`interval_for`) is over.
IntervalOver(p) ==
    /\ loop[p] \in {"idle", "backoff"} /\ p \notin due
    /\ due' = due \cup {p}
    /\ UNCHANGED <<dir, loop, forced, probe, polled, req, shutdown, pollBudget>>

-----------------------------------------------------------------------------
(* The loop. *)

\* Mutant: the profile that the loop started with.
FirstProfile(p) == IF probe[p] = 0 THEN dir[p] ELSE probe[p]
\* `poll_once` reads the profile when it begins.
ReadsProfile(p) == dir[p]

\* `_step` polls: it takes the requests that are due before the probe begins.
Begin(p) ==
    /\ loop[p] = "idle" /\ ~Stopping
    /\ p \in due \cup forced \/ Of(p, {"waits"}) # {}
    /\ probe' = [probe EXCEPT ![p] = ReadsProfile(p)]
    /\ req' = [r \in Request |->
                    CASE r \in Of(p, {"waits"}) -> [req[r] EXCEPT !.phase = "batch", !.probed = TRUE]
                      [] r \in Of(p, {"later"}) -> [req[r] EXCEPT !.probed = TRUE]
                      [] OTHER -> req[r]]
    /\ forced' = forced \ {p}
    /\ Enter(p, "probe")
    /\ UNCHANGED <<dir, due, polled, shutdown, pollBudget>>

\* The probe ends: usage, or an error snapshot that keeps the previous windows.
Store(p) ==
    /\ loop[p] = "probe"
    /\ \/ polled' = [polled EXCEPT ![p] = probe[p]] /\ UNCHANGED pollBudget
       \/ Error /\ UNCHANGED polled
    /\ due' = due \ {p}
    /\ Enter(p, "apply")
    /\ UNCHANGED <<dir, forced, probe, req, shutdown>>

\* Mutant: whoever waits now is answered.
AnswerAll(p) ==
    /\ loop[p] = "apply"
    /\ req' = Resolve(Of(p, {"batch", "waits"}), "usage")
    /\ Enter(p, "idle")
    /\ UNCHANGED <<dir, due, forced, probe, polled, shutdown, pollBudget>>
\* `apply_usage` and its hooks are through: the batch is answered.
Answer(p) ==
    /\ loop[p] = "apply"
    /\ req' = Resolve(Of(p, {"batch"}), "usage")
    /\ Enter(p, "idle")
    /\ UNCHANGED <<dir, due, forced, probe, polled, shutdown, pollBudget>>

\* An exception in `poll_once`: the batch gets None and the next poll is a regular one.
PollFails(p) ==
    /\ loop[p] \in {"probe", "apply"} /\ Error
    /\ req' = Resolve(Of(p, {"batch"}), "none")
    /\ due' = due \ {p}
    /\ Enter(p, "idle")
    /\ UNCHANGED <<dir, forced, probe, polled, shutdown>>

\* An exception in `_step` before that: `_fail_due_waiters`, `_backoff`.
StepFails(p) ==
    /\ loop[p] = "idle" /\ ~Stopping /\ Error
    /\ req' = Resolve(Of(p, {"waits"}), "none")
    /\ forced' = forced \ {p}
    /\ Enter(p, "backoff")
    /\ UNCHANGED <<dir, due, probe, polled, shutdown>>

BackoffOver(p) ==
    /\ loop[p] = "backoff"
    /\ Enter(p, "idle")
    /\ UNCHANGED <<dir, due, forced, probe, polled, req, shutdown, pollBudget>>

\* `_on_loop_done`: the loop died of a BaseException; all its requests get None.
Dies(p) ==
    /\ loop[p] \in {"idle", "probe", "apply", "backoff"} /\ Error
    /\ req' = Resolve(Of(p, {"later", "waits", "batch"}), "none")
    /\ forced' = forced \ {p}
    /\ Enter(p, "dead")
    /\ UNCHANGED <<dir, due, probe, polled, shutdown>>

\* `_restart`, after RESTART_DELAY_S, when the state is still the profile's.
Restart(p) ==
    /\ loop[p] = "dead" /\ ~Stopping
    /\ Enter(p, "idle")
    /\ UNCHANGED <<dir, due, forced, probe, polled, req, shutdown, pollBudget>>

\* `while not self._stopping`.
LoopEnds(p) ==
    /\ loop[p] = "idle" /\ Stopping
    /\ Enter(p, "ended")
    /\ UNCHANGED <<dir, due, forced, probe, polled, req, shutdown, pollBudget>>

-----------------------------------------------------------------------------
(* Changes of the config, and shutdown. *)

\* Mutant: only the task is cancelled.
StoppedSilently(set) ==
    [r \in Request |->
        IF req[r].profile \in set /\ req[r].phase = "batch" THEN [req[r] EXCEPT !.phase = "cancelled"]
        ELSE req[r]]
\* `_stop`: the task is cancelled, the requests it has not taken get None.
StoppedOf(set) ==
    [r \in Request |->
        CASE req[r].profile \in set /\ req[r].phase = "batch" -> [req[r] EXCEPT !.phase = "cancelled"]
          [] req[r].profile \in set /\ req[r].phase \in {"later", "waits"} ->
                [req[r] EXCEPT !.phase = "answered", !.answer = "none"]
          [] OTHER -> req[r]]

\* Whether `sync` forces a poll: the directory changed, the old data is someone else's.
ForcesPoll(p, d) == dir[p] # 0 /\ d # 0 /\ d # dir[p] /\ ~Stopping

\* `set_config` with another entry for p, and the poller's `sync`: loops of removed profiles are
\* stopped, loops that are missing or done are started.
SetConfig(p, d) ==
    /\ pollBudget.changes > 0 /\ pollBudget' = [pollBudget EXCEPT !.changes = @ - 1]
    /\ shutdown # "done" /\ d # dir[p]
    /\ dir' = [dir EXCEPT ![p] = d]
    /\ req' = IF d = 0 THEN StoppedOf({p}) ELSE req
    /\ loop' = [q \in Profile |->
                    CASE dir'[q] = 0 -> "none"
                      [] dir'[q] # 0 /\ loop[q] \in {"none", "dead", "ended"} -> "idle"
                      [] OTHER -> loop[q]]
    /\ due' = IF loop[p] = "none" THEN due \cup {p} ELSE IF d = 0 THEN due \ {p} ELSE due
    /\ forced' = IF ForcesPoll(p, d) THEN forced \cup {p} ELSE IF d = 0 THEN forced \ {p} ELSE forced
    /\ UNCHANGED <<probe, polled, shutdown>>

\* The cancelled loop gets to its `finally`, the child of the probe being reaped.
CancelledEnds(r) ==
    /\ req[r].phase = "cancelled"
    /\ req' = Resolve({r}, "none")
    /\ UNCHANGED <<dir, loop, due, forced, probe, polled, shutdown, pollBudget>>

BeginShutdown ==
    /\ shutdown = "no"
    /\ shutdown' = "waits"
    /\ UNCHANGED <<dir, loop, due, forced, probe, polled, req, pollBudget>>

\* All loops are done, or 20 s are over; what still runs is cancelled and `stop_all` drops the rest.
EndShutdown ==
    /\ shutdown = "waits"
    /\ shutdown' = "done"
    /\ req' = StoppedOf(Profile)
    /\ loop' = [p \in Profile |-> "none"]
    /\ due' = {} /\ forced' = {}
    /\ UNCHANGED <<dir, probe, polled, pollBudget>>

LoopStep(p) ==
    \/ IntervalOver(p) \/ Begin(p) \/ Store(p) \/ Answer(p)
    \/ BackoffOver(p) \/ Restart(p) \/ LoopEnds(p)

PollNext ==
    \/ \E r \in Request : Ask(r) \/ TimeComes(r) \/ CancelledEnds(r)
    \/ \E p \in Profile :
        \/ LoopStep(p) \/ PollFails(p) \/ StepFails(p) \/ Dies(p)
        \/ \E d \in 0 .. dir[p] + 1 : SetConfig(p, d)
    \/ BeginShutdown \/ EndShutdown

PollSpec == PollInit /\ [][PollNext]_pollVars

\* The event loop runs what is ready, timers fire, probes time out (15 s and the reaping).
PollFairness ==
    /\ \A p \in Profile : WF_pollVars(LoopStep(p))
    /\ \A r \in Request : WF_pollVars(TimeComes(r)) /\ WF_pollVars(CancelledEnds(r))
    /\ WF_pollVars(EndShutdown)
PollFairSpec == PollSpec /\ PollFairness

-----------------------------------------------------------------------------
(* Properties. *)

\* `request_poll`: "Requests made while a probe is in flight are served by one follow-up probe".
\* Usage that confirms a reset or a warm-up was always asked for before it was measured.
FreshAnswer == \A r \in Request : req[r].answer = "usage" => req[r].probed

\* Every request is answered in the end, whatever fails and whether the profile is removed, its
\* directory changed or the daemon stopped meanwhile: nobody awaits a poll for ever.
EveryAnswered ==
    \A r \in Request : req[r].phase \in {"later", "waits", "batch", "cancelled"} ~> req[r].phase = "answered"

\* `sync`: "config dir changed: the old data is someone else's".  A directory that stays gets its
\* own windows in the end, though a probe of the old directory may still be stored after the change.
DataFollowsDir ==
    \A p \in Profile, d \in 1 .. MaxChanges + 1 :
        <>[](dir[p] = d /\ ~Stopping) => <>[](polled[p] = d)
=============================================================================
