------------------------------- MODULE Warmup -------------------------------
(***************************************************************************)
(* The warm-ups of one profile (daemon/scheduler.py, warmup/rules.py,      *)
(* warmup/runner.py, warmup/state.py): schedule, wake, auto-chain and the  *)
(* `warmup` op start a run when the rules allow it.                        *)
(*                                                                         *)
(* Time is counted in scheduler ticks.  A session window is the time of    *)
(* its reset, 0 is none.  `claude` and the usage API are the environment.  *)
(***************************************************************************)
EXTENDS Integers, FiniteSets

CONSTANTS
    MaxTime,        \* bound: the last moment
    Triggers,       \* the triggers a profile may have: [schedule : set of times, auto_chain : BOOLEAN]
    DayLength,
    ActiveHours,    \* active times of a day
    WindowLength,   \* how long a session window lasts
    Cooldown,       \* cooldown_minutes
    Lookback,       \* STARTUP_LOOKBACK
    GiveUp,         \* CHAIN_GIVE_UP
    MaxSteps,       \* bound: restarts, config changes, sleeps and steps of the clock
    MaxOps,         \* bound: `warmup` ops
    MaxReports      \* bound: usage that arrives unasked for, and windows that the user starts

ASSUME WarmupAssumption ==
    /\ {MaxTime, Cooldown, Lookback, GiveUp, MaxSteps, MaxOps, MaxReports} \subseteq Nat
    /\ {DayLength, WindowLength} \subseteq Nat \ {0}
    /\ \A t \in Triggers : t.schedule \subseteq 1 .. MaxTime /\ t.auto_chain \in BOOLEAN
    /\ ActiveHours \subseteq 0 .. DayLength - 1

None == -1
JumpFactor == 2
ChainDelay == 1
ChainRetry == 1
SameWindow == 1    \* jitter of a reset time that is still the same window
Jitter == 0 .. SameWindow

VARIABLES
    now,          \* the wall clock
    up,           \* whether the daemon runs
    triggers,     \* the profile's triggers
    enabled,      \* whether its warm-ups are on
    lastTick,     \* `last_tick`, None after a start
    consumed,     \* occurrences in the state file
    lastAttempt,  \* when the last attempt began, in the state file
    runner,       \* the run: [at, trigger, force]
    chain,        \* the armed chain: [reset, next, giveUp, polling]
    confirming,   \* the chain whose `_confirm` awaits its poll; that of a replaced chain changes nothing
    handled,      \* `_handled`
    shown,        \* the session reset in the daemon's snapshot
    window,       \* the session window that really runs or ran last
    began,        \* history: when the last attempt really began
    runs,         \* history: how often each occurrence was evaluated
    unseen,       \* history: times that no daemon looked back to
    chained,      \* history: windows that this daemon auto-chained
    inTimeSkip,   \* history: a scheduled time was skipped for the hours though the daemon was awake
    stepsLeft     \* what is left of the bounds

warmVars == <<now, up, triggers, enabled, lastTick, consumed, lastAttempt, runner, chain,
              confirming, handled, shown, window, began, runs, unseen, chained, inTimeSkip, stepsLeft>>

NoChain == [reset |-> 0, next |-> 0, giveUp |-> 0, polling |-> FALSE]
Idle == [at |-> "idle", force |-> FALSE]

WarmInit ==
    /\ now = 1 /\ up = FALSE
    /\ triggers \in Triggers /\ enabled \in BOOLEAN
    /\ lastTick = None
    /\ consumed = {} /\ lastAttempt = None /\ began = None
    /\ runner = Idle
    /\ chain = NoChain /\ confirming = NoChain /\ handled = None
    /\ shown = 0 /\ window = 0
    /\ runs = [o \in triggers.schedule |-> 0]
    /\ unseen = {} /\ chained = {}
    /\ inTimeSkip = FALSE
    /\ stepsLeft = [steps |-> MaxSteps, ops |-> MaxOps, reports |-> MaxReports]

Resets == 0 .. MaxTime + WindowLength + SameWindow
Chains == [reset : Resets, next : Nat, giveUp : Nat, polling : BOOLEAN]
WarmTypeOK ==
    /\ now \in 0 .. MaxTime /\ up \in BOOLEAN /\ enabled \in BOOLEAN
    /\ triggers \in Triggers /\ consumed \subseteq triggers.schedule
    /\ {lastTick, lastAttempt, began} \subseteq -1 .. MaxTime
    /\ runner \in [at : {"idle", "pending", "claude", "confirm"}, force : BOOLEAN]
    /\ chain \in Chains /\ confirming \in Chains
    /\ handled \in {None} \cup Resets
    /\ shown \in Resets /\ window \in Resets
    /\ runs \in [triggers.schedule -> 0 .. 2]
    /\ unseen \subseteq 0 .. MaxTime /\ chained \subseteq Resets
    /\ inTimeSkip \in BOOLEAN
    /\ stepsLeft \in [steps : 0 .. MaxSteps, ops : 0 .. MaxOps, reports : 0 .. MaxReports]

Spend(field) == stepsLeft[field] > 0 /\ stepsLeft' = [stepsLeft EXCEPT ![field] = @ - 1]
Abs(n) == IF n < 0 THEN -n ELSE n
\* Mutant: a reset reported with jitter is another window.
SameExactly(r, s) == r = s
Same(r, s) == Abs(r - s) <= SameWindow
Day(t) == t \div DayLength
Active(t) == t % DayLength \in ActiveHours

-----------------------------------------------------------------------------
(* The rules (`rules.evaluate`). *)

\* What else the rules look at: sign-in, busy sessions, the weekly hold.
Obstacles == {"none", "needs_sign_in", "session_busy", "weekly_hold"}

\* The first rule that applies; `catchUp` marks a missed schedule.
Rule(trigger, force, catchUp, obstacle) ==
    CASE ~enabled \/ (trigger = "schedule" /\ triggers.schedule = {}) -> "disabled"
      [] obstacle = "needs_sign_in" -> "needs_sign_in"
      [] force -> "run"
      [] shown > now -> "window_active"
      [] obstacle = "session_busy" -> "session_busy"
      [] lastAttempt # None /\ now - lastAttempt < Cooldown -> "cooldown"
      [] (trigger = "auto_chain" \/ catchUp) /\ ~Active(now) -> "outside_active_hours"
      [] obstacle = "weekly_hold" -> "weekly_hold"
      [] OTHER -> "run"

Reasons(trigger, force, catchUp) == {Rule(trigger, force, catchUp, o) : o \in Obstacles}

\* `evaluate_and_start`: on "run" a run is reserved, unless `run` is already in progress.
Decided(run, reason, force) ==
    IF reason = "run" /\ run.at = "idle" THEN [at |-> "pending", force |-> force] ELSE run

-----------------------------------------------------------------------------
(* Schedules. *)

\* `_due`: occurrences after `start`, up to now, that were not run yet.
Due(start) == {o \in triggers.schedule : start < o /\ o <= now} \ consumed

\* Mutant: a catch-up is not remembered.
ForgetsCatchUp(due, catchUp) == consumed' = IF catchUp THEN consumed ELSE consumed \cup due
\* `mark_consumed`, saved before the evaluation.
Consume(due, catchUp) == consumed' = consumed \cup due

Count(due) == runs' = [o \in triggers.schedule |-> IF o \in due /\ runs[o] < 2 THEN runs[o] + 1 ELSE runs[o]]

\* What the rules say to a scheduled run of `due`; `catchUp` when the times were missed.
ScheduleReasons(due, catchUp) == IF due = {} THEN {"none"} ELSE Reasons("schedule", FALSE, catchUp)

\* The decision on it, and whether a time was skipped that the daemon did not sleep through.
DecidesSchedule(due, reason) ==
    inTimeSkip' = (reason = "outside_active_hours" /\ \E o \in due : now - o <= JumpFactor)

\* `run_due_schedules`: the latest of them runs.
RunsDue(start) ==
    /\ Consume(Due(start), FALSE) /\ Count(Due(start))
    /\ \E reason \in ScheduleReasons(Due(start), FALSE) :
        /\ runner' = Decided(runner, reason, FALSE)
        /\ DecidesSchedule(Due(start), reason)

Today(due) == {o \in due : Day(o) = Day(now)}

\* `catch_up`: one run for what was missed of this local day, with one of these reasons.
CatchUpReasons(start) == ScheduleReasons(Today(Due(start)), TRUE)
CatchesUp(start, reason) ==
    /\ Consume(Due(start), TRUE) /\ Count(Due(start))
    /\ DecidesSchedule(Today(Due(start)), reason)

-----------------------------------------------------------------------------
(* The auto-chain. *)

\* `arm`, with the snapshot's reset r: what becomes of the chain c.
Armed(c, r, done, on) ==
    IF ~on \/ ~triggers.auto_chain THEN NoChain
    ELSE IF \/ r = 0
            \/ c # NoChain /\ Same(r, c.reset)
            \/ done # None /\ Same(r, done)
    THEN c
    ELSE LET fire == IF r <= now /\ c = NoChain THEN now ELSE r + ChainDelay
         IN  [reset |-> r, next |-> fire, giveUp |-> fire + GiveUp, polling |-> FALSE]

\* `reset_confirmed`: fresh usage shows no window, or another one.
Confirmed(r, c) == r = 0 \/ ~Same(r, c.reset)

\* `check_chains`, at the end of a tick: give up, or ask for a poll.
ChecksChain ==
    IF chain = NoChain \/ chain.polling \/ now < chain.next
    THEN UNCHANGED <<chain, confirming, handled>>
    ELSE IF now >= chain.giveUp
    THEN /\ chain' = NoChain
         /\ handled' = chain.reset
         /\ UNCHANGED confirming
    ELSE /\ chain' = [chain EXCEPT !.polling = TRUE]
         /\ confirming' = chain'
         /\ UNCHANGED handled

\* What a poll may show: the window that runs, late news of one that began, one that is over, or none.
Reports == {0} \cup IF window = 0 THEN {} ELSE {window + j : j \in Jitter} \cup {shown}

\* Mutant: the window is not remembered as done.
Unhandled(c) == None
\* `_handled`: the window whose reset was confirmed.
HandledBy(c) == c.reset

\* `_confirm`: the awaited poll ends (its usage armed the chain anew, if it showed a window), and
\* `chain` is not the one it was asked for, or the reset is not confirmed, or the auto-chain runs.
Confirm ==
    /\ up /\ confirming # NoChain
    /\ \E ok \in BOOLEAN, r \in Reports :
        LET seen == IF ok THEN r ELSE shown
            armed == Armed(chain, seen, handled, enabled)
            current == armed # NoChain /\ armed = confirming
        IN  /\ shown' = seen
            /\ confirming' = NoChain
            /\ IF ~current
               THEN /\ chain' = armed
                    /\ UNCHANGED <<handled, runner, chained>>
               ELSE IF ~ok \/ ~Confirmed(r, confirming)
               THEN /\ chain' = [armed EXCEPT !.polling = FALSE, !.next = now + ChainRetry]
                    /\ UNCHANGED <<handled, runner, chained>>
               ELSE /\ handled' = HandledBy(confirming)
                    /\ chain' = Armed(NoChain, seen, handled', enabled)
                    /\ chained' = chained \cup {confirming.reset}
                    /\ \E reason \in IF seen > now THEN {"window_active"}
                                     ELSE Reasons("auto_chain", FALSE, FALSE) :
                            runner' = Decided(runner, reason, FALSE)
    /\ UNCHANGED <<now, up, triggers, enabled, lastTick, consumed, lastAttempt, window, began, runs, unseen,
                   inTimeSkip, stepsLeft>>

\* `on_usage_updated`: another poll or a statusline report.
UsageUpdated ==
    /\ up /\ Spend("reports")
    /\ \E r \in Reports \ {shown} :
        /\ shown' = r
        /\ chain' = Armed(chain, r, handled, enabled)
    /\ UNCHANGED <<now, up, triggers, enabled, lastTick, consumed, lastAttempt, runner, confirming,
                   handled, window, began, runs, unseen, chained, inTimeSkip>>

-----------------------------------------------------------------------------
(* Ticks, ops, and the life of the daemon. *)

\* `tick`: the first one looks back, one after a gap catches up.
Tick ==
    /\ up /\ lastTick # now
    /\ IF lastTick = None THEN RunsDue(now - Lookback - 1)
       ELSE IF now - lastTick > JumpFactor
       THEN \E reason \in CatchUpReasons(lastTick) :
                CatchesUp(lastTick, reason) /\ runner' = Decided(runner, reason, FALSE)
       ELSE RunsDue(lastTick)
    /\ lastTick' = now
    /\ unseen' = IF lastTick = None THEN unseen \cup {t \in 0 .. MaxTime : t < now - Lookback} ELSE unseen
    /\ ChecksChain
    /\ UNCHANGED <<now, up, triggers, enabled, lastAttempt, shown, window, began, chained, stepsLeft>>

WakeCatchesUp(reason) == CatchesUp(lastTick, reason)

\* The `warmup` op of `ccs warmup` and of the app: `unlock_wake` catches up first, and its own
\* trigger then finds the first run in progress.
OpWarmup ==
    /\ up /\ Spend("ops")
    /\ \E trigger \in {"manual", "unlock_wake"}, force \in BOOLEAN :
        \E reason \in Reasons(trigger, force, FALSE) :
            IF trigger = "unlock_wake" /\ lastTick # None /\ now > lastTick
            THEN \E missed \in CatchUpReasons(lastTick) :
                    /\ WakeCatchesUp(missed)
                    /\ runner' = Decided(Decided(runner, missed, FALSE), reason, force)
                    /\ lastTick' = now
            ELSE /\ runner' = Decided(runner, reason, force)
                 /\ UNCHANGED <<consumed, runs, inTimeSkip, lastTick>>
    /\ UNCHANGED <<now, up, triggers, enabled, lastAttempt, chain, confirming, handled, shown,
                   window, began, unseen, chained>>

Start ==
    /\ ~up
    /\ up' = TRUE
    /\ chain' = Armed(NoChain, shown, None, enabled)
    /\ UNCHANGED <<now, triggers, enabled, lastTick, consumed, lastAttempt, runner, confirming,
                   handled, shown, window, began, runs, unseen, chained, inTimeSkip, stepsLeft>>

\* Stopped or killed: all that is not in a file is gone, a run that was not finished included.
Stop ==
    /\ up /\ Spend("steps")
    /\ up' = FALSE
    /\ lastTick' = None /\ runner' = Idle
    /\ chain' = NoChain /\ confirming' = NoChain /\ handled' = None /\ chained' = {}
    /\ UNCHANGED <<now, triggers, enabled, consumed, lastAttempt, shown, window, began, runs, unseen, inTimeSkip>>

\* `on_config_changed`: warm-ups are switched on or off.
ConfigChanged ==
    /\ up /\ Spend("steps")
    /\ enabled' = ~enabled
    /\ chain' = Armed(chain, shown, handled, enabled')
    /\ UNCHANGED <<now, up, triggers, lastTick, consumed, lastAttempt, runner, confirming, handled,
                   shown, window, began, runs, unseen, chained, inTimeSkip>>

\* Two of them: the profile is removed, and added again before the next tick.  A chain takes
\* `_handled` along; the state file stays, and is read again.
ProfileComesBack ==
    /\ up /\ Spend("steps")
    /\ handled' = IF chain = NoChain THEN handled ELSE None
    /\ chain' = Armed(NoChain, shown, handled', enabled)
    /\ UNCHANGED <<now, up, triggers, enabled, lastTick, consumed, lastAttempt, runner, confirming,
                   shown, window, began, runs, unseen, chained, inTimeSkip>>

\* A run that was spawned begins within the tick.
Begun == runner.at # "pending"

\* The clock goes on; a running daemon ticks in time.
Time ==
    /\ Begun /\ now < MaxTime /\ (up => lastTick = now)
    /\ now' = now + 1
    /\ UNCHANGED <<up, triggers, enabled, lastTick, consumed, lastAttempt, runner, chain, confirming,
                   handled, shown, window, began, runs, unseen, chained, inTimeSkip, stepsLeft>>

\* The machine sleeps, or the clock is set.
Jump ==
    /\ Begun /\ Spend("steps")
    /\ \E t \in {now - 2, now + 2, now + 3, now + DayLength} \cap 1 .. MaxTime : now' = t
    /\ UNCHANGED <<up, triggers, enabled, lastTick, consumed, lastAttempt, runner, chain, confirming,
                   handled, shown, window, began, runs, unseen, chained, inTimeSkip>>

\* The user works, and a window begins.
WindowStarts ==
    /\ Spend("reports") /\ window <= now
    /\ window' = now + WindowLength
    /\ UNCHANGED <<now, up, triggers, enabled, lastTick, consumed, lastAttempt, runner, chain,
                   confirming, handled, shown, began, runs, unseen, chained, inTimeSkip>>

-----------------------------------------------------------------------------
(* A run (`_run_locked`). *)

\* Mutant: the attempt is recorded when it is over.
RecordsLater(at) == lastAttempt' = IF at = "begin" THEN lastAttempt ELSE now
\* `begin_attempt`: the cooldown counts from here, also when the daemon dies.
Records(at) == lastAttempt' = IF at = "begin" THEN now ELSE lastAttempt

BeginAttempt ==
    /\ runner.at = "pending"
    /\ runner' = [runner EXCEPT !.at = "claude"]
    /\ Records("begin") /\ began' = now
    /\ UNCHANGED <<now, up, triggers, enabled, lastTick, consumed, chain, confirming, handled,
                   shown, window, runs, unseen, chained, inTimeSkip, stepsLeft>>

\* claude ends: its request may have started a window whatever its exit code; when it failed, timed
\* out or was not found, the attempt is over.
ClaudeEnds ==
    /\ runner.at = "claude"
    /\ window' \in {window} \cup IF window <= now THEN {now + WindowLength} ELSE {}
    /\ \/ runner' = [runner EXCEPT !.at = "confirm"] /\ UNCHANGED lastAttempt
       \/ runner' = Idle /\ Records("end")
    /\ UNCHANGED <<now, up, triggers, enabled, lastTick, consumed, chain, confirming, handled,
                   shown, began, runs, unseen, chained, inTimeSkip, stepsLeft>>

\* `_confirm_window`: a poll shows the window, or the delays are used up; either ends the attempt.
AttemptEnds ==
    /\ runner.at = "confirm"
    /\ \E r \in Reports :
        /\ shown' = r
        /\ chain' = Armed(chain, r, handled, enabled)
    /\ runner' = Idle /\ Records("end")
    /\ UNCHANGED <<now, up, triggers, enabled, lastTick, consumed, confirming, handled,
                   window, began, runs, unseen, chained, inTimeSkip, stepsLeft>>

WarmNext ==
    \/ Tick \/ OpWarmup \/ Confirm \/ UsageUpdated
    \/ Start \/ Stop \/ ConfigChanged \/ ProfileComesBack \/ Time \/ Jump \/ WindowStarts
    \/ BeginAttempt \/ ClaudeEnds \/ AttemptEnds

WarmSpec == WarmInit /\ [][WarmNext]_warmVars

-----------------------------------------------------------------------------
(* Properties. *)

\* 08-warm-up.md: "Each scheduled time runs once, even if the supervisor restarts", the clock is
\* set back or the wake and the unlock both ask for the missed ones.
OccurrenceOnce == \A o \in triggers.schedule : runs[o] <= 1

\* No scheduled time gets lost between ticks, wakes, unlocks and restarts: all that the daemon's
\* last tick is past is done with, but for times that were over Lookback before a start.
NothingLost ==
    \A o \in triggers.schedule : lastTick # None /\ o <= lastTick /\ o \notin unseen => o \in consumed

\* Both: a scheduled time is decided on exactly once.
ScheduleKept == OccurrenceOnce /\ NothingLost

\* "At most one warm-up attempt per profile" in the cooldown, but for forced ones, also when the
\* daemon dies during an attempt.
CooldownKept ==
    [][runner.at = "pending" /\ runner'.at = "claude" /\ ~runner.force
         => began = None \/ now - began >= Cooldown]_warmVars

\* A daemon starts at most one auto-chain per session window, however often its reset is reported
\* again, with jitter or late, and also when the chain is re-armed while its poll is awaited.
ChainOnce == [][\A w \in chained : \A v \in chained' \ chained : Abs(v - w) > SameWindow]_warmVars

\* "Scheduled times fire even outside active hours ... Active hours only restrict auto-chain and
\* missed schedules."
ScheduleIgnoresHours == ~inTimeSkip
=============================================================================
