---------------------------- MODULE Claude_proofs ----------------------------
(***************************************************************************)
(* Proofs about what the daemon does beside pausing a session: Warmup, for *)
(* any schedule, hours, cooldown and look-back, any length of a window;    *)
(* ClaudeCli, for any set of processes and any timeout of the listing that *)
(* does not exceed RECENT_EXIT_S; Sessions, for any launchers and          *)
(* connections; and all of them for any bounds.                            *)
(***************************************************************************)
EXTENDS Warmup, ClaudeCli, Sessions, TLAPS

-----------------------------------------------------------------------------
(* An occurrence runs once. *)

\* The state file has exactly the occurrences that were evaluated, each of them once.
ConsumedCounted == runs = [o \in triggers.schedule |-> IF o \in consumed THEN 1 ELSE 0]

\* Consuming what is due and not consumed yet.
LEMMA ConsumeCounts ==
    ASSUME ConsumedCounted, NEW start, NEW catchUp,
           Consume(Due(start), catchUp), Count(Due(start)), UNCHANGED triggers
    PROVE  ConsumedCounted'
<1> DEFINE due == Due(start)
<1>1. due \cap consumed = {}
  BY DEF Due
<1>2. consumed' = consumed \cup due
  BY DEF Consume
<1>3. runs' = [o \in triggers.schedule |-> IF o \in due /\ runs[o] < 2 THEN runs[o] + 1 ELSE runs[o]]
  BY DEF Count
<1>4. \A o \in triggers.schedule : runs[o] = IF o \in consumed THEN 1 ELSE 0
  BY DEF ConsumedCounted
<1> HIDE DEF due
<1>5. \A o \in triggers.schedule :
        (IF o \in due /\ runs[o] < 2 THEN runs[o] + 1 ELSE runs[o]) = IF o \in consumed' THEN 1 ELSE 0
  BY <1>1, <1>2, <1>4
<1> QED
  BY <1>3, <1>5 DEF ConsumedCounted

LEMMA NothingConsumed ==
    ASSUME ConsumedCounted, UNCHANGED <<runs, consumed, triggers>>
    PROVE  ConsumedCounted'
BY DEF ConsumedCounted

LEMMA TickCounts ==
    ASSUME ConsumedCounted, Tick
    PROVE  ConsumedCounted'
<1>0. UNCHANGED triggers
  BY DEF Tick
<1>1. CASE lastTick = None
  BY <1>0, <1>1, ConsumeCounts DEF Tick, RunsDue
<1>2. CASE lastTick # None /\ now - lastTick > JumpFactor
  BY <1>0, <1>2, ConsumeCounts DEF Tick, CatchesUp
<1>3. CASE lastTick # None /\ ~(now - lastTick > JumpFactor)
  BY <1>0, <1>3, ConsumeCounts DEF Tick, RunsDue
<1> QED
  BY <1>1, <1>2, <1>3

LEMMA OpCounts ==
    ASSUME ConsumedCounted, OpWarmup
    PROVE  ConsumedCounted'
<1>0. UNCHANGED triggers
  BY DEF OpWarmup
<1>1. \/ \E missed : WakeCatchesUp(missed)
      \/ UNCHANGED <<consumed, runs>>
  BY Zenon DEF OpWarmup
<1>2. CASE \E missed : WakeCatchesUp(missed)
  BY <1>0, <1>2, ConsumeCounts DEF WakeCatchesUp, CatchesUp
<1>3. CASE UNCHANGED <<consumed, runs>>
  BY <1>0, <1>3, NothingConsumed
<1> QED
  BY <1>1, <1>2, <1>3

LEMMA StepCounts ==
    ASSUME ConsumedCounted, [WarmNext]_warmVars
    PROVE  ConsumedCounted'
<1>1. CASE Tick
  BY <1>1, TickCounts
<1>2. CASE OpWarmup
  BY <1>2, OpCounts
<1>3. CASE Confirm
  BY <1>3, NothingConsumed DEF Confirm
<1>4. CASE UsageUpdated \/ WindowStarts
  BY <1>4, NothingConsumed DEF UsageUpdated, WindowStarts
<1>5. CASE Start \/ Stop
  BY <1>5, NothingConsumed DEF Start, Stop
<1>6. CASE ConfigChanged \/ ProfileComesBack
  BY <1>6, NothingConsumed DEF ConfigChanged, ProfileComesBack
<1>7. CASE Time \/ Jump
  BY <1>7, NothingConsumed DEF Time, Jump
<1>8. CASE BeginAttempt \/ ClaudeEnds \/ AttemptEnds
  BY <1>8, NothingConsumed DEF BeginAttempt, ClaudeEnds, AttemptEnds
<1>9. CASE UNCHANGED warmVars
  BY <1>9, NothingConsumed DEF warmVars
<1> QED
  BY <1>1, <1>2, <1>3, <1>4, <1>5, <1>6, <1>7, <1>8, <1>9 DEF WarmNext

-----------------------------------------------------------------------------
(* An occurrence is not lost. *)

ScheduleInv ==
    /\ ConsumedCounted /\ NothingLost
    /\ now \in Int /\ lastTick \in Int /\ triggers \in Triggers

\* A look at the times after `start` leaves none out, if those before it are done with or unseen.
LEMMA ConsumeSees ==
    ASSUME NothingLost, NEW start \in Int, now \in Int, lastTick \in Int,
           consumed' = consumed \cup Due(start), lastTick' = now,
           unseen \subseteq unseen', UNCHANGED triggers, \A o \in triggers.schedule : o \in Int,
           \A o \in triggers.schedule : o <= start => (lastTick # None /\ o <= lastTick) \/ o \in unseen'
    PROVE  NothingLost'
<1> SUFFICES ASSUME NEW o \in triggers.schedule, o <= now, o \notin unseen'
             PROVE  o \in consumed'
  BY DEF NothingLost
<1>1. CASE o <= start
  BY <1>1 DEF NothingLost
<1>2. CASE ~(o <= start)
  <2>1. start < o
    BY <1>2
  <2> QED
    BY <2>1 DEF Due
<1> QED
  BY <1>1, <1>2

LEMMA ScheduleInts ==
    ASSUME triggers \in Triggers
    PROVE  \A o \in triggers.schedule : o \in 1 .. MaxTime
BY WarmupAssumption

LEMMA TickSees ==
    ASSUME ScheduleInv, Tick
    PROVE  NothingLost'
<1>0. /\ \A o \in triggers.schedule : o \in Int /\ o \in 0 .. MaxTime
      /\ UNCHANGED triggers /\ lastTick' = now /\ unseen \subseteq unseen' /\ Lookback \in Nat
  BY ScheduleInts, WarmupAssumption DEF ScheduleInv, Tick
<1>1. CASE lastTick = None
  <2> DEFINE start == now - Lookback - 1
  <2>1. consumed' = consumed \cup Due(start)
    BY <1>1 DEF Tick, RunsDue, Consume
  <2>2. start \in Int /\ now - Lookback \in Int
    BY <1>0 DEF ScheduleInv
  <2>3. \A o \in triggers.schedule : o <= start => o < now - Lookback
    BY <1>0 DEF ScheduleInv
  <2>4. \A o \in triggers.schedule : o <= start => o \in unseen'
    BY <1>0, <1>1, <2>3 DEF Tick
  <2> QED
    BY <1>0, <2>1, <2>2, <2>4, ConsumeSees DEF ScheduleInv
<1>2. CASE lastTick # None
  <2>1. consumed' = consumed \cup Due(lastTick)
    BY <1>2 DEF Tick, RunsDue, CatchesUp, Consume
  <2> QED
    BY <1>0, <1>2, <2>1, ConsumeSees DEF ScheduleInv
<1> QED
  BY <1>1, <1>2

LEMMA OpSees ==
    ASSUME ScheduleInv, OpWarmup
    PROVE  NothingLost' /\ lastTick' \in Int
<1>0. UNCHANGED <<triggers, unseen>>
  BY DEF OpWarmup
<1>1. \/ lastTick # None /\ lastTick' = now /\ \E missed : WakeCatchesUp(missed)
      \/ UNCHANGED <<consumed, lastTick>>
  BY Zenon DEF OpWarmup
<1>2. CASE lastTick # None /\ lastTick' = now /\ \E missed : WakeCatchesUp(missed)
  <2>1. consumed' = consumed \cup Due(lastTick)
    BY <1>2 DEF WakeCatchesUp, CatchesUp, Consume
  <2>2. \A o \in triggers.schedule : o \in Int
    BY ScheduleInts DEF ScheduleInv
  <2> QED
    BY <1>0, <1>2, <2>1, <2>2, ConsumeSees DEF ScheduleInv
<1>3. CASE UNCHANGED <<consumed, lastTick>>
  BY <1>0, <1>3 DEF ScheduleInv, NothingLost
<1> QED
  BY <1>1, <1>2, <1>3

LEMMA NothingSeen ==
    ASSUME ScheduleInv, UNCHANGED <<triggers, consumed, unseen, lastTick>>
    PROVE  NothingLost' /\ lastTick' \in Int
BY DEF ScheduleInv, NothingLost

LEMMA StepSees ==
    ASSUME ScheduleInv, [WarmNext]_warmVars
    PROVE  NothingLost' /\ lastTick' \in Int
<1>1. CASE Tick
  BY <1>1, TickSees DEF Tick, ScheduleInv
<1>2. CASE OpWarmup
  BY <1>2, OpSees
<1>3. CASE Confirm
  BY <1>3, NothingSeen DEF Confirm
<1>4. CASE UsageUpdated \/ WindowStarts
  BY <1>4, NothingSeen DEF UsageUpdated, WindowStarts
<1>5. CASE Start
  BY <1>5, NothingSeen DEF Start
<1>6. CASE Stop
  BY <1>6 DEF Stop, NothingLost, None
<1>7. CASE ConfigChanged \/ ProfileComesBack
  BY <1>7, NothingSeen DEF ConfigChanged, ProfileComesBack
<1>8. CASE Time \/ Jump
  BY <1>8, NothingSeen DEF Time, Jump
<1>9. CASE BeginAttempt \/ ClaudeEnds \/ AttemptEnds
  BY <1>9, NothingSeen DEF BeginAttempt, ClaudeEnds, AttemptEnds
<1>10. CASE UNCHANGED warmVars
  BY <1>10, NothingSeen DEF warmVars
<1> QED
  BY <1>1, <1>2, <1>3, <1>4, <1>5, <1>6, <1>7, <1>8, <1>9, <1>10 DEF WarmNext

LEMMA StepTimes ==
    ASSUME ScheduleInv, [WarmNext]_warmVars
    PROVE  now' \in Int /\ triggers' \in Triggers
<1>1. CASE Time
  BY <1>1 DEF Time, ScheduleInv
<1>2. CASE Jump
  BY <1>2, WarmupAssumption DEF Jump, ScheduleInv
<1>3. CASE UNCHANGED <<now, triggers>>
  BY <1>3 DEF ScheduleInv
<1> QED
  BY <1>1, <1>2, <1>3 DEF WarmNext, warmVars, Tick, OpWarmup, Confirm, UsageUpdated, Start, Stop,
     ConfigChanged, ProfileComesBack, WindowStarts, BeginAttempt, ClaudeEnds, AttemptEnds

(* Each scheduled time is decided on exactly once, whichever of the tick,  *)
(* the catch-up after a sleep, the unlock and the look-back after a        *)
(* restart reaches it first, and however the clock jumps; but for a time   *)
(* that was over before the look-back of a start.                          *)
THEOREM ScheduledOnce == WarmSpec => []ScheduleKept
<1>1. WarmInit => ScheduleInv
  BY WarmupAssumption DEF WarmInit, ScheduleInv, ConsumedCounted, NothingLost, None
<1>2. ScheduleInv /\ [WarmNext]_warmVars => ScheduleInv'
  BY StepCounts, StepSees, StepTimes DEF ScheduleInv
<1>3. ScheduleInv => ScheduleKept
  BY DEF ScheduleInv, ScheduleKept, ConsumedCounted, OccurrenceOnce
<1> QED
  BY <1>1, <1>2, <1>3, PTL DEF WarmSpec

-----------------------------------------------------------------------------
(* The cooldown. *)

Run == [at : {"idle", "pending", "claude", "confirm"}, force : BOOLEAN]
Cool == began = None \/ now - began >= Cooldown

\* The file knows the last attempt, and what is about to begin may begin.
CooldownInv ==
    /\ lastAttempt = began
    /\ now \in Int /\ began \in Int /\ runner \in Run
    /\ runner.at = "pending" /\ ~runner.force => Cool

\* A run that nobody forces is decided only when the last attempt is long enough ago.
LEMMA RuleCools ==
    ASSUME CooldownInv, NEW trigger, NEW catchUp, NEW o, Rule(trigger, FALSE, catchUp, o) = "run"
    PROVE  Cool
<1>1. ~(lastAttempt # None /\ now - lastAttempt < Cooldown)
  BY DEF Rule
<1> QED
  BY <1>1, WarmupAssumption DEF CooldownInv, Cool

LEMMA DecidedCools ==
    ASSUME NEW run \in Run, run.at = "pending" /\ ~run.force => Cool,
           NEW reason, NEW force \in BOOLEAN, reason = "run" /\ ~force => Cool
    PROVE  LET r == Decided(run, reason, force)
           IN  r \in Run /\ (r.at = "pending" /\ ~r.force => Cool)
BY DEF Decided, Run

LEMMA ReasonCools ==
    ASSUME CooldownInv, NEW trigger, NEW force \in BOOLEAN, NEW catchUp,
           NEW reason \in Reasons(trigger, force, catchUp)
    PROVE  reason = "run" /\ ~force => Cool
<1>1. PICK o : reason = Rule(trigger, force, catchUp, o)
  BY DEF Reasons
<1> QED
  BY <1>1, RuleCools

LEMMA ScheduleReasonCools ==
    ASSUME CooldownInv, NEW due, NEW catchUp, NEW reason \in ScheduleReasons(due, catchUp)
    PROVE  reason = "run" => Cool
<1>1. CASE due = {}
  BY <1>1 DEF ScheduleReasons
<1>2. CASE due # {}
  <2>1. reason \in Reasons("schedule", FALSE, catchUp)
    BY <1>2 DEF ScheduleReasons
  <2> QED
    BY <2>1, ReasonCools
<1> QED
  BY <1>1, <1>2

\* What a step does to the runner at an unchanged clock and file.
StaysCool ==
    /\ UNCHANGED <<now, lastAttempt, began>>
    /\ runner' \in Run
    /\ runner'.at = "pending" /\ ~runner'.force => Cool

LEMMA StaysCoolKeeps ==
    ASSUME CooldownInv, StaysCool
    PROVE  CooldownInv'
BY DEF CooldownInv, StaysCool, Cool

LEMMA SameRunnerCool ==
    ASSUME CooldownInv, UNCHANGED <<now, lastAttempt, began, runner>>
    PROVE  StaysCool
BY DEF CooldownInv, StaysCool

LEMMA TickCools ==
    ASSUME CooldownInv, Tick
    PROVE  StaysCool
<1>1. UNCHANGED <<now, lastAttempt, began>>
  BY DEF Tick
<1>2. PICK due, catchUp : \E reason \in ScheduleReasons(due, catchUp) :
                             runner' = Decided(runner, reason, FALSE)
  BY Zenon DEF Tick, RunsDue, CatchUpReasons
<1>3. PICK reason \in ScheduleReasons(due, catchUp) : runner' = Decided(runner, reason, FALSE)
  BY <1>2
<1>4. reason = "run" => Cool
  BY <1>3, ScheduleReasonCools
<1> QED
  BY <1>1, <1>3, <1>4, DecidedCools DEF StaysCool, CooldownInv

LEMMA OpCools ==
    ASSUME CooldownInv, OpWarmup
    PROVE  StaysCool
<1>1. UNCHANGED <<now, lastAttempt, began>>
  BY DEF OpWarmup
<1>2. PICK trigger \in {"manual", "unlock_wake"}, force \in BOOLEAN :
        \E reason \in Reasons(trigger, force, FALSE) :
            \/ \E missed \in CatchUpReasons(lastTick) :
                   runner' = Decided(Decided(runner, missed, FALSE), reason, force)
            \/ runner' = Decided(runner, reason, force)
  BY Zenon DEF OpWarmup
<1>3. PICK reason \in Reasons(trigger, force, FALSE) :
        \/ \E missed \in CatchUpReasons(lastTick) :
               runner' = Decided(Decided(runner, missed, FALSE), reason, force)
        \/ runner' = Decided(runner, reason, force)
  BY <1>2
<1>4. reason = "run" /\ ~force => Cool
  BY <1>3, ReasonCools
<1>5. runner \in Run /\ (runner.at = "pending" /\ ~runner.force => Cool)
  BY DEF CooldownInv
<1>6. CASE runner' = Decided(runner, reason, force)
  BY <1>1, <1>4, <1>5, <1>6, DecidedCools DEF StaysCool
<1>7. CASE \E missed \in CatchUpReasons(lastTick) :
               runner' = Decided(Decided(runner, missed, FALSE), reason, force)
  <2>1. PICK missed \in CatchUpReasons(lastTick) :
            runner' = Decided(Decided(runner, missed, FALSE), reason, force)
    BY <1>7
  <2>2. missed = "run" => Cool
    BY ScheduleReasonCools DEF CatchUpReasons
  <2> DEFINE first == Decided(runner, missed, FALSE)
  <2>3. first \in Run /\ (first.at = "pending" /\ ~first.force => Cool)
    BY <1>5, <2>2, DecidedCools
  <2> HIDE DEF first
  <2>4. LET r == Decided(first, reason, force)
        IN  r \in Run /\ (r.at = "pending" /\ ~r.force => Cool)
    BY <1>4, <2>3, DecidedCools
  <2> QED
    BY <1>1, <2>1, <2>4 DEF StaysCool, first
<1> QED
  BY <1>3, <1>6, <1>7

LEMMA ConfirmCools ==
    ASSUME CooldownInv, Confirm
    PROVE  StaysCool
<1>1. UNCHANGED <<now, lastAttempt, began>>
  BY DEF Confirm
<1>2. \/ UNCHANGED runner
      \/ \E reason \in {"window_active"} \cup Reasons("auto_chain", FALSE, FALSE) :
             runner' = Decided(runner, reason, FALSE)
  BY Zenon DEF Confirm
<1>3. CASE UNCHANGED runner
  BY <1>1, <1>3, SameRunnerCool
<1>4. CASE \E reason \in {"window_active"} \cup Reasons("auto_chain", FALSE, FALSE) :
             runner' = Decided(runner, reason, FALSE)
  <2>1. PICK reason \in {"window_active"} \cup Reasons("auto_chain", FALSE, FALSE) :
             runner' = Decided(runner, reason, FALSE)
    BY <1>4
  <2>2. reason = "run" => Cool
    BY <2>1, ReasonCools
  <2> QED
    BY <1>1, <2>1, <2>2, DecidedCools DEF StaysCool, CooldownInv
<1> QED
  BY <1>2, <1>3, <1>4

\* The other steps leave the runner alone, or no run is about to begin after them.
LEMMA OtherCools ==
    ASSUME CooldownInv, UsageUpdated \/ WindowStarts \/ Start \/ ConfigChanged \/ ProfileComesBack
    PROVE  StaysCool
<1>1. UNCHANGED <<now, lastAttempt, began, runner>>
  BY DEF UsageUpdated, WindowStarts, Start, ConfigChanged, ProfileComesBack
<1> QED
  BY <1>1, SameRunnerCool

LEMMA StopCools ==
    ASSUME CooldownInv, Stop
    PROVE  StaysCool
BY DEF Stop, StaysCool, Idle, Run

\* The clock moves only when no run is about to begin.
LEMMA ClockCools ==
    ASSUME CooldownInv, Time \/ Jump
    PROVE  CooldownInv'
<1>1. runner.at # "pending" /\ UNCHANGED <<runner, lastAttempt, began>>
  BY DEF Time, Jump, Begun
<1>2. now' \in Int
  BY WarmupAssumption DEF Time, Jump, CooldownInv
<1> QED
  BY <1>1, <1>2 DEF CooldownInv

LEMMA AttemptCools ==
    ASSUME CooldownInv, BeginAttempt
    PROVE  CooldownInv' /\ (~runner.force => Cool)
<1>1. lastAttempt' = now /\ began' = now /\ now' = now
  BY DEF BeginAttempt, Records
<1>2. runner.at = "pending" /\ runner' \in Run /\ runner'.at # "pending"
  BY DEF BeginAttempt, CooldownInv, Run
<1>3. now \in Int /\ (~runner.force => Cool)
  BY <1>2 DEF CooldownInv
<1> QED
  BY <1>1, <1>2, <1>3 DEF CooldownInv

LEMMA EndCools ==
    ASSUME CooldownInv, ClaudeEnds \/ AttemptEnds
    PROVE  CooldownInv' /\ runner.at # "pending"
<1>1. UNCHANGED <<now, lastAttempt, began>>
  BY DEF ClaudeEnds, AttemptEnds, Records
<1>2. runner.at # "pending"
  BY DEF ClaudeEnds, AttemptEnds
<1>3. runner' = Idle \/ runner' = [runner EXCEPT !.at = "confirm"]
  BY DEF ClaudeEnds, AttemptEnds
<1>4. runner' \in Run /\ runner'.at # "pending"
  <2>1. runner \in Run
    BY DEF CooldownInv
  <2>2. CASE runner' = Idle
    BY <2>2 DEF Idle, Run
  <2>3. CASE runner' = [runner EXCEPT !.at = "confirm"]
    BY <2>1, <2>3 DEF Run
  <2> QED
    BY <1>3, <2>2, <2>3
<1> QED
  BY <1>1, <1>2, <1>4 DEF CooldownInv

\* Whether a step is the begin of a run that the cooldown should have refused.
Begins == runner.at = "pending" /\ runner'.at = "claude"

\* Only a begin takes the runner on.
LEMMA DecidedNotBegun ==
    ASSUME NEW run, NEW reason, NEW force
    PROVE  Decided(run, reason, force).at \in {run.at, "pending"}
BY DEF Decided

LEMMA NotBegun ==
    ASSUME Tick \/ OpWarmup \/ Confirm \/ UsageUpdated \/ WindowStarts \/ Start \/ Stop
           \/ ConfigChanged \/ ProfileComesBack \/ Time \/ Jump
    PROVE  ~Begins
<1>1. CASE Tick
  <2>1. \E reason : runner' = Decided(runner, reason, FALSE)
    BY <1>1, Zenon DEF Tick, RunsDue
  <2> QED
    BY <2>1, DecidedNotBegun DEF Begins
<1>2. CASE OpWarmup
  <2>1. \E run, reason, force : /\ run = runner \/ \E missed : run = Decided(runner, missed, FALSE)
                                /\ runner' = Decided(run, reason, force)
    BY <1>2, Zenon DEF OpWarmup
  <2> QED
    BY <2>1, DecidedNotBegun DEF Begins
<1>3. CASE Confirm
  <2>1. UNCHANGED runner \/ \E reason : runner' = Decided(runner, reason, FALSE)
    BY <1>3, Zenon DEF Confirm
  <2> QED
    BY <2>1, DecidedNotBegun DEF Begins
<1>4. CASE UsageUpdated \/ WindowStarts \/ Start \/ ConfigChanged \/ ProfileComesBack \/ Time \/ Jump
  BY <1>4 DEF UsageUpdated, WindowStarts, Start, ConfigChanged, ProfileComesBack, Time, Jump, Begins
<1>5. CASE Stop
  BY <1>5 DEF Stop, Idle, Begins
<1> QED
  BY <1>1, <1>2, <1>3, <1>4, <1>5

LEMMA StepCools ==
    ASSUME CooldownInv, [WarmNext]_warmVars
    PROVE  CooldownInv' /\ (Begins /\ ~runner.force => Cool)
<1>1. CASE Tick \/ OpWarmup \/ Confirm
  BY <1>1, TickCools, OpCools, ConfirmCools, StaysCoolKeeps, NotBegun
<1>2. CASE UsageUpdated \/ WindowStarts \/ Start \/ ConfigChanged \/ ProfileComesBack
  BY <1>2, OtherCools, StaysCoolKeeps, NotBegun
<1>3. CASE Stop
  BY <1>3, StopCools, StaysCoolKeeps, NotBegun
<1>4. CASE Time \/ Jump
  BY <1>4, ClockCools, NotBegun
<1>5. CASE BeginAttempt
  BY <1>5, AttemptCools
<1>6. CASE ClaudeEnds \/ AttemptEnds
  BY <1>6, EndCools DEF Begins
<1>7. CASE UNCHANGED warmVars
  <2>1. UNCHANGED <<now, lastAttempt, began, runner>>
    BY <1>7 DEF warmVars
  <2> QED
    BY <2>1, SameRunnerCool, StaysCoolKeeps DEF Begins
<1> QED
  BY <1>1, <1>2, <1>3, <1>4, <1>5, <1>6, <1>7 DEF WarmNext

(* A warm-up that nobody forces begins only when the last one, of whatever *)
(* trigger, began at least a cooldown ago: also when that one failed, when *)
(* the daemon died during it, and when the clock was set.                  *)
THEOREM AttemptsCool == WarmSpec => CooldownKept
<1>1. WarmInit => CooldownInv
  BY DEF WarmInit, CooldownInv, None, Idle, Run
<1>2. CooldownInv /\ [WarmNext]_warmVars => CooldownInv'
  BY StepCools
<1>3. CooldownInv /\ [WarmNext]_warmVars
        => [runner.at = "pending" /\ runner'.at = "claude" /\ ~runner.force
              => began = None \/ now - began >= Cooldown]_warmVars
  BY StepCools DEF Begins, Cool
<1> QED
  BY <1>1, <1>2, <1>3, PTL DEF WarmSpec, CooldownKept

-----------------------------------------------------------------------------
(* A chain per session window. *)

\* Resets of one window, or of windows that are a window's length apart.
Spaced(r, s) == \/ r <= s + SameWindow /\ s <= r + SameWindow
                \/ r + WindowLength <= s + SameWindow
                \/ s + WindowLength <= r + SameWindow

\* A reset of the window that runs or ran last, `win`, or of an earlier one.
OfWindow(win, r) == r = win \/ r = win + SameWindow \/ r + WindowLength <= win + SameWindow

\* The resets that the daemon knows: the one shown, that of its chain, the one done with, and
\* those it chained at.
KnownResets(s, n, done, V) == {r \in {s, n, done} \cup V : r # 0 /\ r # None}

\* No reset that may still be reported is one of the window of `v`.
Superseded(win, s, v) == v + SameWindow < win /\ (s # 0 => v + SameWindow < s)

\* For the window `win`, the reset `s` in the snapshot, the reset `n` of the chain (0: none), the
\* reset `done` of the last chain that ended, and the resets `V` that were chained at.
ChainKept(win, s, n, done, V) ==
    /\ win \in Nat /\ s \in Nat /\ n \in Nat /\ done \in {None} \cup (Nat \ {0})
    /\ V \subseteq Nat \ {0}
    /\ \A r \in KnownResets(s, n, done, V) : OfWindow(win, r) /\ (s # 0 => r <= s + SameWindow)
    /\ \A r, q \in KnownResets(s, n, done, V) : Spaced(r, q)
    /\ \A v \in V : n # 0 => v + SameWindow < n
    /\ \A v \in V : (done # None /\ v <= done + SameWindow) \/ Superseded(win, s, v)

ChainRecord == [reset : Nat, next : Int, giveUp : Int, polling : BOOLEAN]
ChainInv ==
    /\ ChainKept(window, shown, chain.reset, handled, chained)
    /\ now \in Nat
    /\ chain \in ChainRecord /\ (chain # NoChain => chain.reset # 0)
    /\ confirming # NoChain => confirming.polling
    /\ ~up => chained = {}

LEMMA WindowInts ==
    SameWindow = 1 /\ None = -1 /\ WindowLength \in Nat /\ GiveUp \in Nat /\ MaxTime \in Nat
BY WarmupAssumption DEF SameWindow, None

\* What a poll or a statusline may report.
Reported(win, s, r) == r \in {0, s} \/ (win # 0 /\ r \in {win, win + SameWindow})

LEMMA ReportsAre ==
    ASSUME window \in Nat, NEW r \in Reports
    PROVE  Reported(window, shown, r)
<1>1. CASE window = 0
  BY <1>1 DEF Reports, Reported
<1>2. CASE window # 0
  <2>1. \A j \in Jitter : j = 0 \/ j = SameWindow
    BY WindowInts DEF Jitter
  <2> QED
    BY <1>2, <2>1 DEF Reports, Reported
<1> QED
  BY <1>1, <1>2

LEMMA ReportKept ==
    ASSUME WindowLength > 3 * SameWindow, NEW win, NEW s, NEW n, NEW done, NEW V,
           ChainKept(win, s, n, done, V), NEW r, Reported(win, s, r)
    PROVE  ChainKept(win, r, n, done, V)
<1>1. CASE r = s
  BY <1>1
<1>2. CASE r = 0
  <2>1. KnownResets(r, n, done, V) \subseteq KnownResets(s, n, done, V)
    BY <1>2 DEF KnownResets
  <2>2. \A v \in V : Superseded(win, s, v) => Superseded(win, r, v)
    BY <1>2 DEF Superseded
  <2> QED
    BY <1>2, <2>1, <2>2 DEF ChainKept
<1>3. CASE win # 0 /\ r \in {win, win + SameWindow}
  <2>1. \A q \in KnownResets(r, n, done, V) : q = r \/ q \in KnownResets(s, n, done, V)
    BY DEF KnownResets
  <2>2. \A q \in KnownResets(s, n, done, V) : q \in Nat /\ OfWindow(win, q)
    BY DEF ChainKept, KnownResets
  <2>3. r \in Nat /\ win \in Nat /\ r # 0
    BY <1>3, WindowInts DEF ChainKept
  <2>4. OfWindow(win, r)
    BY <1>3 DEF OfWindow
  <2>5. \A q \in KnownResets(r, n, done, V) : Spaced(q, r) /\ Spaced(r, q) /\ q <= r + SameWindow
    BY <1>3, <2>1, <2>2, <2>3, WindowInts DEF Spaced, OfWindow
  <2>6. \A v \in V : Superseded(win, s, v) => Superseded(win, r, v)
    BY <1>3, <2>3, WindowInts DEF Superseded, ChainKept
  <2>7. \A p, q \in KnownResets(r, n, done, V) : Spaced(p, q)
    BY <2>1, <2>5 DEF ChainKept
  <2>8. \A q \in KnownResets(r, n, done, V) : OfWindow(win, q)
    BY <2>1, <2>2, <2>4
  <2> QED
    BY <2>3, <2>5, <2>6, <2>7, <2>8 DEF ChainKept
<1> QED
  BY <1>1, <1>2, <1>3 DEF Reported

LEMMA WindowKept ==
    ASSUME NEW win, NEW s, NEW n, NEW done, NEW V,
           ChainKept(win, s, n, done, V), now \in Nat, win <= now
    PROVE  ChainKept(now + WindowLength, s, n, done, V)
<1>1. win \in Nat /\ \A r \in KnownResets(s, n, done, V) : r \in Nat /\ OfWindow(win, r)
  BY DEF ChainKept, KnownResets
<1>2. \A r \in KnownResets(s, n, done, V) : OfWindow(now + WindowLength, r)
  BY <1>1, WindowInts DEF OfWindow
<1>3. \A v \in V : Superseded(win, s, v) => Superseded(now + WindowLength, s, v)
  BY <1>1, WindowInts DEF Superseded, ChainKept
<1>4. now + WindowLength \in Nat
  BY WindowInts
<1> QED
  BY <1>2, <1>3, <1>4 DEF ChainKept

\* What `arm` makes of the chain `c`.
ArmedAs(c, r, done, a) ==
    /\ a \in ChainRecord /\ (a # NoChain => a.reset # 0)
    /\ \/ a = NoChain
       \/ a = c
       \/ /\ a.reset = r /\ r # 0 /\ ~a.polling
          /\ c.reset # 0 => ~Same(r, c.reset)
          /\ done # None => ~Same(r, done)
LEMMA ArmedTo ==
    ASSUME now \in Nat, NEW c \in ChainRecord, c # NoChain => c.reset # 0, NEW r \in Nat, NEW done, NEW on
    PROVE  ArmedAs(c, r, done, Armed(c, r, done, on))
<1> DEFINE fire == IF r <= now /\ c = NoChain THEN now ELSE r + ChainDelay
           f == [reset |-> r, next |-> fire, giveUp |-> fire + GiveUp, polling |-> FALSE]
           skip == r = 0 \/ (c # NoChain /\ Same(r, c.reset)) \/ (done # None /\ Same(r, done))
<1>1. NoChain \in ChainRecord /\ NoChain.reset = 0
  BY DEF NoChain, ChainRecord
<1>2. fire \in Int /\ GiveUp \in Int
  BY WindowInts DEF ChainDelay
<1>3. \A x, y \in Int : LET g == [reset |-> r, next |-> x, giveUp |-> y, polling |-> FALSE]
                        IN  g \in ChainRecord /\ g.reset = r /\ ~g.polling
  BY DEF ChainRecord
<1>4. f \in ChainRecord /\ f.reset = r /\ ~f.polling
  <2> HIDE DEF fire
  <2> QED
    BY <1>2, <1>3
<1>5. Armed(c, r, done, on) = IF ~on \/ ~triggers.auto_chain THEN NoChain ELSE IF skip THEN c ELSE f
  BY Zenon DEF Armed
<1>6. ~skip => r # 0 /\ (c.reset # 0 => ~Same(r, c.reset)) /\ (done # None => ~Same(r, done))
  BY <1>1
<1> HIDE DEF f, skip
<1> QED
  BY <1>1, <1>4, <1>5, <1>6 DEF ArmedAs

LEMMA ArmedKept ==
    ASSUME WindowLength > 3 * SameWindow, NEW win, NEW s, NEW c, NEW done, NEW V, NEW a,
           ChainKept(win, s, c.reset, done, V), ArmedAs(c, s, done, a)
    PROVE  ChainKept(win, s, a.reset, done, V)
<1> DEFINE K == KnownResets(s, c.reset, done, V)
<1>1. CASE a = c
  BY <1>1
<1>2. CASE a = NoChain
  <2>1. a.reset = 0
    BY <1>2 DEF NoChain
  <2>2. KnownResets(s, 0, done, V) \subseteq K
    BY DEF KnownResets
  <2> QED
    BY <2>1, <2>2 DEF ChainKept
<1>3. CASE /\ a.reset = s /\ s # 0 /\ ~a.polling
           /\ c.reset # 0 => ~Same(s, c.reset)
           /\ done # None => ~Same(s, done)
  <2>1. KnownResets(s, s, done, V) \subseteq K /\ s \in K
    BY <1>3 DEF KnownResets, ChainKept, None
  <2>2. \A v \in V : v \in K /\ v \in Nat /\ Spaced(s, v)
    BY <2>1 DEF KnownResets, ChainKept, None
  <2>3. s \in Nat /\ c.reset \in Nat /\ done \in {None} \cup (Nat \ {0})
    BY DEF ChainKept
  <2>4. c.reset # 0 => c.reset + SameWindow < s
    <3>1. c.reset # 0 => c.reset \in K
      BY <2>3, WindowInts DEF KnownResets
    <3> QED
      BY <1>3, <2>3, <3>1, WindowInts DEF ChainKept, Same, Abs
  <2>5. done # None => done + SameWindow < s /\ Spaced(s, done)
    <3>1. done # None => done \in K
      BY <2>3, WindowInts DEF KnownResets
    <3>2. done # None => done <= s + SameWindow /\ Spaced(s, done)
      BY <1>3, <2>1, <3>1 DEF ChainKept
    <3> QED
      BY <1>3, <2>3, <3>2, WindowInts DEF Same, Abs
  <2>6. \A v \in V : v + SameWindow < s
    <3> TAKE v \in V
    <3>1. CASE done # None /\ v <= done + SameWindow
      BY <2>2, <2>3, <2>5, <3>1, WindowInts DEF Spaced
    <3>2. CASE Superseded(win, s, v)
      BY <1>3, <3>2 DEF Superseded
    <3> QED
      BY <3>1, <3>2 DEF ChainKept
  <2> QED
    BY <1>3, <2>1, <2>6 DEF ChainKept
<1> QED
  BY <1>1, <1>2, <1>3 DEF ArmedAs

\* The chain ends; its window is the one done with, or is forgotten.
LEMMA EndedKept ==
    ASSUME WindowLength > 3 * SameWindow, NEW win, NEW s, NEW n, NEW done, NEW V, NEW e, NEW U,
           ChainKept(win, s, n, done, V), n # 0,
           \/ e = n /\ U \subseteq V \cup {n}
           \/ e = None /\ U \subseteq V
    PROVE  ChainKept(win, s, 0, e, U)
<1>1. n \in Nat \ {0} /\ V \subseteq Nat \ {0} /\ s \in Nat /\ win \in Nat
  BY DEF ChainKept
<1>2. KnownResets(s, 0, e, U) \subseteq KnownResets(s, n, done, V) /\ n \in KnownResets(s, n, done, V)
  BY <1>1, WindowInts DEF KnownResets
<1>3. \A v \in V : v + SameWindow < n /\ v \in KnownResets(s, n, done, V)
  BY <1>1, WindowInts DEF ChainKept, KnownResets
<1>4. \A v \in V : Superseded(win, s, v)
  <2> TAKE v \in V
  <2>1. Spaced(v, n) /\ OfWindow(win, n) /\ (s # 0 => n <= s + SameWindow)
    BY <1>2, <1>3 DEF ChainKept
  <2> QED
    BY <1>1, <1>3, <2>1, WindowInts DEF Spaced, OfWindow, Superseded
<1>5. \A v \in U : (e # None /\ v <= e + SameWindow) \/ Superseded(win, s, v)
  <2>1. CASE e = n /\ U \subseteq V \cup {n}
    BY <1>1, <1>4, <2>1, WindowInts
  <2>2. CASE e = None /\ U \subseteq V
    BY <1>4, <2>2
  <2> QED
    BY <2>1, <2>2
<1>6. e \in {None} \cup (Nat \ {0}) /\ U \subseteq Nat \ {0}
  BY <1>1
<1> QED
  BY <1>1, <1>2, <1>5, <1>6 DEF ChainKept

\* The daemon arms with the reset `s` that it now shows.
LEMMA ArmsAgain ==
    ASSUME WindowLength > 3 * SameWindow, ChainInv, NEW s, Reported(window, shown, s), NEW on,
           NEW a, a = Armed(chain, s, handled, on)
    PROVE  /\ ArmedAs(chain, s, handled, a)
           /\ ChainKept(window, s, a.reset, handled, chained)
<1>1. ChainKept(window, s, chain.reset, handled, chained)
  BY ReportKept DEF ChainInv
<1>2. ArmedAs(chain, s, handled, a)
  <2>1. s \in Nat
    BY <1>1 DEF ChainKept
  <2> QED
    BY <2>1, ArmedTo DEF ChainInv
<1> QED
  BY <1>1, <1>2, ArmedKept

\* The daemon arms after its chain ended.
LEMMA ArmsAnew ==
    ASSUME WindowLength > 3 * SameWindow, now \in Nat, NEW s, NEW done, NEW V,
           ChainKept(window, s, 0, done, V), NEW on, NEW a, a = Armed(NoChain, s, done, on)
    PROVE  /\ ChainKept(window, s, a.reset, done, V)
           /\ a \in ChainRecord /\ (a # NoChain => a.reset # 0)
<1>1. NoChain \in ChainRecord /\ NoChain.reset = 0
  BY DEF NoChain, ChainRecord
<1>2. s \in Nat
  BY DEF ChainKept
<1>3. ArmedAs(NoChain, s, done, a)
  BY <1>1, <1>2, ArmedTo
<1>4. ChainKept(window, s, NoChain.reset, done, V)
  BY <1>1
<1>5. ChainKept(window, s, a.reset, done, V)
  BY <1>3, <1>4, ArmedKept
<1> QED
  BY <1>3, <1>5 DEF ArmedAs

\* The auto-chain of a confirmed reset is the chain there was, which was not chained at before.
LEMMA ConfirmKeeps ==
    ASSUME WindowLength > 3 * SameWindow, ChainInv, Confirm
    PROVE  /\ ChainInv'
           /\ \A v \in chained' \ chained : v = chain.reset /\ chain # NoChain
<1>0. up /\ confirming # NoChain /\ UNCHANGED <<now, up, window>> /\ confirming' = NoChain
  BY DEF Confirm
<1>1. PICK ok \in BOOLEAN, r \in Reports :
        LET seen == IF ok THEN r ELSE shown
            armed == Armed(chain, seen, handled, enabled)
            current == armed # NoChain /\ armed = confirming
        IN  /\ shown' = seen
            /\ IF ~current
               THEN chain' = armed /\ UNCHANGED <<handled, chained>>
               ELSE IF ~ok \/ ~Confirmed(r, confirming)
               THEN /\ chain' = [armed EXCEPT !.polling = FALSE, !.next = now + ChainRetry]
                    /\ UNCHANGED <<handled, chained>>
               ELSE /\ handled' = confirming.reset
                    /\ chain' = Armed(NoChain, seen, handled', enabled)
                    /\ chained' = chained \cup {confirming.reset}
  BY Zenon DEF Confirm, HandledBy
<1> DEFINE armed == Armed(chain, shown', handled, enabled)
<1>2. Reported(window, shown, shown')
  <2>1. shown' \in Reports \cup {shown}
    BY <1>1
  <2> QED
    BY <2>1, ReportsAre DEF ChainInv, ChainKept, Reported
<1>3. ArmedAs(chain, shown', handled, armed) /\ ChainKept(window, shown', armed.reset, handled, chained)
  BY <1>2, ArmsAgain
<1>4. \/ chain' = armed /\ UNCHANGED <<handled, chained>>
      \/ /\ armed # NoChain /\ armed = confirming
         /\ chain' = [armed EXCEPT !.polling = FALSE, !.next = now + ChainRetry]
         /\ UNCHANGED <<handled, chained>>
      \/ /\ armed # NoChain /\ armed = confirming
         /\ handled' = confirming.reset /\ chained' = chained \cup {confirming.reset}
         /\ chain' = Armed(NoChain, shown', handled', enabled)
  BY <1>1
<1> HIDE DEF armed
<1>5. now \in Nat /\ (confirming # NoChain => confirming.polling)
  BY DEF ChainInv
<1>6. CASE chain' = armed /\ UNCHANGED <<handled, chained>>
  BY <1>0, <1>3, <1>6 DEF ChainInv, ArmedAs
<1>7. CASE /\ armed # NoChain /\ armed = confirming
           /\ chain' = [armed EXCEPT !.polling = FALSE, !.next = now + ChainRetry]
           /\ UNCHANGED <<handled, chained>>
  <2>1. armed \in ChainRecord /\ armed.reset # 0
    BY <1>3, <1>7 DEF ArmedAs
  <2>2. chain' \in ChainRecord /\ chain'.reset = armed.reset
    <3>1. \A x \in Int : LET g == [armed EXCEPT !.polling = FALSE, !.next = x]
                         IN  g \in ChainRecord /\ g.reset = armed.reset
      BY <2>1 DEF ChainRecord
    <3>2. now + ChainRetry \in Int
      BY <1>5 DEF ChainRetry
    <3> QED
      BY <1>7, <3>1, <3>2
  <2> QED
    BY <1>0, <1>3, <1>5, <1>7, <2>1, <2>2 DEF ChainInv
<1>8. CASE /\ armed # NoChain /\ armed = confirming
           /\ handled' = confirming.reset /\ chained' = chained \cup {confirming.reset}
           /\ chain' = Armed(NoChain, shown', handled', enabled)
  <2>1. armed = chain /\ armed.reset # 0
    BY <1>0, <1>3, <1>5, <1>8 DEF ArmedAs
  <2>2. ChainKept(window, shown', 0, handled', chained')
    BY <1>3, <1>8, <2>1, EndedKept
  <2>3. /\ ChainKept(window, shown', chain'.reset, handled', chained')
        /\ chain' \in ChainRecord /\ (chain' # NoChain => chain'.reset # 0)
    BY <1>5, <1>8, <2>2, ArmsAnew
  <2> QED
    BY <1>0, <1>5, <1>8, <2>1, <2>3 DEF ChainInv
<1> QED
  BY <1>4, <1>6, <1>7, <1>8

LEMMA ReportedKeeps ==
    ASSUME WindowLength > 3 * SameWindow, ChainInv, UsageUpdated \/ AttemptEnds
    PROVE  ChainInv'
<1>1. UNCHANGED <<now, up, window, confirming, handled, chained>>
  BY DEF UsageUpdated, AttemptEnds
<1>2. shown' \in Reports /\ chain' = Armed(chain, shown', handled, enabled)
  BY DEF UsageUpdated, AttemptEnds
<1>3. Reported(window, shown, shown')
  BY <1>2, ReportsAre DEF ChainInv, ChainKept
<1>4. ArmedAs(chain, shown', handled, chain') /\ ChainKept(window, shown', chain'.reset, handled, chained)
  BY <1>2, <1>3, ArmsAgain
<1> QED
  BY <1>1, <1>4 DEF ChainInv, ArmedAs

LEMMA ConfigKeeps ==
    ASSUME WindowLength > 3 * SameWindow, ChainInv, ConfigChanged
    PROVE  ChainInv'
<1>1. /\ UNCHANGED <<now, up, window, shown, confirming, handled, chained>>
      /\ chain' = Armed(chain, shown, handled, enabled')
  BY DEF ConfigChanged
<1>2. Reported(window, shown, shown)
  BY DEF Reported
<1>3. ArmedAs(chain, shown, handled, chain') /\ ChainKept(window, shown, chain'.reset, handled, chained)
  BY <1>1, <1>2, ArmsAgain
<1> QED
  BY <1>1, <1>3 DEF ChainInv, ArmedAs

LEMMA TickChains ==
    ASSUME WindowLength > 3 * SameWindow, ChainInv, Tick
    PROVE  ChainInv'
<1>1. UNCHANGED <<now, up, window, shown, chained>> /\ ChecksChain
  BY DEF Tick
<1>2. CASE UNCHANGED <<chain, confirming, handled>>
  BY <1>1, <1>2 DEF ChainInv
<1>3. CASE chain # NoChain /\ chain' = NoChain /\ handled' = chain.reset /\ UNCHANGED confirming
  <2>1. chain'.reset = 0 /\ chain' \in ChainRecord
    BY <1>3 DEF NoChain, ChainRecord
  <2>2. ChainKept(window, shown, 0, handled', chained)
    BY <1>3, EndedKept DEF ChainInv
  <2> QED
    BY <1>1, <1>3, <2>1, <2>2 DEF ChainInv
<1>4. CASE /\ chain # NoChain /\ chain' = [chain EXCEPT !.polling = TRUE]
           /\ confirming' = chain' /\ UNCHANGED handled
  <2>1. chain' \in ChainRecord /\ chain'.reset = chain.reset /\ chain'.polling
    BY <1>4 DEF ChainInv, ChainRecord
  <2> QED
    BY <1>1, <1>4, <2>1 DEF ChainInv
<1> QED
  BY <1>1, <1>2, <1>3, <1>4 DEF ChecksChain

LEMMA ProfileKeeps ==
    ASSUME WindowLength > 3 * SameWindow, ChainInv, ProfileComesBack
    PROVE  ChainInv'
<1>1. /\ UNCHANGED <<now, up, window, shown, confirming, chained>>
      /\ handled' = IF chain = NoChain THEN handled ELSE None
      /\ chain' = Armed(NoChain, shown, handled', enabled)
  BY DEF ProfileComesBack
<1>2. ChainKept(window, shown, 0, handled', chained)
  <2>1. CASE chain = NoChain
    <3>1. chain.reset = 0
      BY <2>1 DEF NoChain
    <3> QED
      BY <1>1, <2>1, <3>1 DEF ChainInv
  <2>2. CASE chain # NoChain
    BY <1>1, <2>2, EndedKept DEF ChainInv
  <2> QED
    BY <2>1, <2>2
<1>3. /\ ChainKept(window, shown, chain'.reset, handled', chained)
      /\ chain' \in ChainRecord /\ (chain' # NoChain => chain'.reset # 0)
  BY <1>1, <1>2, ArmsAnew DEF ChainInv
<1> QED
  BY <1>1, <1>3 DEF ChainInv

\* Nothing was chained by a daemon that starts or stops.
LEMMA LifeKeeps ==
    ASSUME WindowLength > 3 * SameWindow, ChainInv, Start \/ Stop
    PROVE  ChainInv'
<1>1. NoChain \in ChainRecord /\ NoChain.reset = 0
  BY DEF NoChain, ChainRecord
<1>2. ChainKept(window, shown, 0, None, {})
  BY WindowInts DEF ChainInv, ChainKept, KnownResets
<1>3. CASE Stop
  BY <1>1, <1>2, <1>3 DEF Stop, ChainInv
<1>4. CASE Start
  <2>1. /\ UNCHANGED <<now, window, shown, confirming, handled, chained>> /\ chained = {}
        /\ chain' = Armed(NoChain, shown, None, enabled)
    BY <1>4 DEF Start, ChainInv
  <2>2. /\ ChainKept(window, shown, chain'.reset, None, {})
        /\ chain' \in ChainRecord /\ (chain' # NoChain => chain'.reset # 0)
    BY <1>2, <2>1, ArmsAnew DEF ChainInv
  <2>3. chain'.reset \in {0, shown}
    <3>1. ArmedAs(NoChain, shown, None, chain')
      BY <1>1, <2>1, ArmedTo DEF ChainInv, ChainKept
    <3> QED
      BY <1>1, <3>1 DEF ArmedAs
  <2>4. ChainKept(window, shown, chain'.reset, handled, {})
    <3>1. KnownResets(shown, chain'.reset, handled, {}) \subseteq KnownResets(shown, chain.reset, handled, chained)
      BY <2>3 DEF KnownResets
    <3> QED
      BY <2>1, <2>2, <3>1 DEF ChainInv, ChainKept
  <2> QED
    BY <2>1, <2>2, <2>4 DEF ChainInv
<1> QED
  BY <1>3, <1>4

LEMMA WindowBegins ==
    ASSUME ChainInv, WindowStarts \/ ClaudeEnds
    PROVE  ChainInv'
<1>1. UNCHANGED <<now, up, shown, chain, confirming, handled, chained>>
  BY DEF WindowStarts, ClaudeEnds
<1>2. window' = window \/ (window <= now /\ window' = now + WindowLength)
  BY DEF WindowStarts, ClaudeEnds
<1>3. CASE window' = window
  BY <1>1, <1>3 DEF ChainInv
<1>4. CASE window <= now /\ window' = now + WindowLength
  <2>1. ChainKept(now + WindowLength, shown, chain.reset, handled, chained)
    BY <1>4, WindowKept DEF ChainInv
  <2> QED
    BY <1>1, <1>4, <2>1 DEF ChainInv
<1> QED
  BY <1>2, <1>3, <1>4

LEMMA ClockKeeps ==
    ASSUME ChainInv, \/ OpWarmup \/ Time \/ Jump \/ BeginAttempt \/ UNCHANGED warmVars
    PROVE  ChainInv'
<1>1. UNCHANGED <<up, window, shown, chain, confirming, handled, chained>>
  BY DEF OpWarmup, Time, Jump, BeginAttempt, warmVars
<1>2. now' \in Nat
  <2>1. CASE Time
    BY <2>1 DEF Time, ChainInv
  <2>2. CASE Jump
    BY <2>2, WindowInts DEF Jump
  <2>3. CASE OpWarmup \/ BeginAttempt \/ UNCHANGED warmVars
    BY <2>3 DEF OpWarmup, BeginAttempt, warmVars, ChainInv
  <2> QED
    BY <2>1, <2>2, <2>3
<1> QED
  BY <1>1, <1>2 DEF ChainInv

LEMMA ChainStep ==
    ASSUME WindowLength > 3 * SameWindow, ChainInv, [WarmNext]_warmVars
    PROVE  /\ ChainInv'
           /\ \A v \in chained' \ chained : v = chain.reset /\ chain # NoChain
<1>1. CASE Confirm
  BY <1>1, ConfirmKeeps
<1>2. CASE ~Confirm
  <2>1. chained' \subseteq chained
    BY <1>2 DEF WarmNext, Tick, OpWarmup, UsageUpdated, Start, Stop, ConfigChanged, ProfileComesBack, Time,
                Jump, WindowStarts, BeginAttempt, ClaudeEnds, AttemptEnds, warmVars
  <2> QED
    BY <1>2, <2>1, ReportedKeeps, ConfigKeeps, TickChains, ProfileKeeps, LifeKeeps, WindowBegins, ClockKeeps
       DEF WarmNext
<1> QED
  BY <1>1, <1>2

\* If a window is longer than three times the tolerance (5 h against 60 s), the daemon chains once
\* per window: what is reported of a window that it chained at never arms a chain again.
THEOREM ChainedOnce == WindowLength > 3 * SameWindow => (WarmSpec => ChainOnce)
<1> SUFFICES ASSUME WindowLength > 3 * SameWindow
             PROVE  WarmSpec => ChainOnce
  OBVIOUS
<1>1. WarmInit => ChainInv
  <2> SUFFICES ASSUME WarmInit PROVE ChainInv
    OBVIOUS
  <2>1. NoChain \in ChainRecord /\ NoChain.reset = 0
    BY DEF NoChain, ChainRecord
  <2>2. ChainKept(0, 0, 0, None, {})
    BY WindowInts DEF ChainKept, KnownResets
  <2> QED
    BY <2>1, <2>2 DEF WarmInit, ChainInv
<1>2. ChainInv /\ [WarmNext]_warmVars => ChainInv'
  BY ChainStep
<1>3. ChainInv /\ [WarmNext]_warmVars => \A w \in chained : \A v \in chained' \ chained : Abs(v - w) > SameWindow
  <2> SUFFICES ASSUME ChainInv, [WarmNext]_warmVars, NEW w \in chained, NEW v \in chained' \ chained
               PROVE  Abs(v - w) > SameWindow
    OBVIOUS
  <2>1. v = chain.reset /\ chain.reset # 0
    BY ChainStep DEF ChainInv
  <2>2. v \in Nat /\ w \in Nat /\ w + SameWindow < v
    BY <2>1 DEF ChainInv, ChainKept
  <2> QED
    BY <2>2, WindowInts DEF Abs
<1> QED
  BY <1>1, <1>2, <1>3, PTL DEF WarmSpec, ChainOnce

-----------------------------------------------------------------------------
(* `claude` commands: a call and its process. *)

\* What a call and its process have to do with each other, and a listing that is under way.
Owned(p) ==
    /\ At(p) = "no" <=> process[p] = "no"
    /\ At(p) \in {"killing", "done"} => process[p] \in {"killed", "dead"}
    /\ At(p) \notin {"no", "done"} => p \in running
    /\ At(p) \in {"termed", "reaping"} => p \in forced
    /\ call[p].kind = "probe" /\ process[p] = "killed" => p \in forced
    /\ call[p].kind = "probe" /\ process[p] = "dead" /\ p \in registered => p \in forced
    /\ call[p].kind = "probe" /\ At(p) = "done" => p \notin registered

\* A process that the listing holds is known, or ended after the listing was made.
Known(p) == p \in listing.seen => p \in running \/ exited[p] <= listing.age

CliInv ==
    /\ CliTypeOK
    /\ \A p \in Pid : Owned(p) /\ Known(p)
    /\ others = {}
    /\ ~listing.on => listing.seen = {}

-----------------------------------------------------------------------------
(* A step of one call or process.                                          *)

\* The variables of the other calls stay as they are.
Apart(p) == \A q \in Pid \ {p} :
    /\ call'[q] = call[q] /\ process'[q] = process[q] /\ exited'[q] = exited[q]
    /\ q \in running' <=> q \in running
    /\ q \in forced' <=> q \in forced
    /\ q \in registered' <=> q \in registered

LEMMA OneMoves ==
    ASSUME CliInv, CliTypeOK', NEW p \in Pid, Apart(p), Owned(p)', Known(p)', UNCHANGED <<listing, others>>
    PROVE  CliInv'
<1>1. ASSUME NEW q \in Pid, q # p
      PROVE  Owned(q)' /\ Known(q)'
  BY <1>1 DEF CliInv, Owned, Known, At, Apart
<1> QED
  BY <1>1 DEF CliInv

LEMMA JustExited == 0 \in 0 .. LongAgo /\ LongAgo \in Nat
BY CliAssumption DEF LongAgo

LEMMA OneCancel ==
    ASSUME CliTypeOK, NEW p \in Pid, cancels[p] > 0, cancels' = [cancels EXCEPT ![p] = @ - 1]
    PROVE  cancels' \in [Pid -> 0 .. MaxCancels]
<1>1. cancels \in [Pid -> 0 .. MaxCancels] /\ MaxCancels \in Nat
  BY CliAssumption DEF CliTypeOK
<1>2. cancels[p] \in 0 .. MaxCancels
  BY <1>1
<1>3. cancels[p] - 1 \in 0 .. MaxCancels
  BY <1>1, <1>2
<1> QED
  BY <1>1, <1>3

LEMMA ExitKnown ==
    ASSUME CliInv, NEW p \in Pid, TrackExit(p), UNCHANGED listing
    PROVE  Known(p)'
BY DEF CliInv, CliTypeOK, Known, TrackExit

LEMMA SpawnKeeps ==
    ASSUME CliInv, NEW p \in Pid, Spawn(p)
    PROVE  CliInv'
<1> USE DEF Spawn, Moves, TrackSpawn, Quiet, At
<1>1. CliTypeOK'
  BY DEF CliInv, CliTypeOK
<1>2. Apart(p)
  BY DEF Apart, CliInv, CliTypeOK
<1>3. Owned(p)' /\ Known(p)'
  BY DEF CliInv, CliTypeOK, Owned, Known
<1> QED
  BY <1>1, <1>2, <1>3, OneMoves

LEMMA RegisterKeeps ==
    ASSUME CliInv, NEW p \in Pid, Register(p)
    PROVE  CliInv'
<1> USE DEF Register, Quiet, At
<1>1. CliTypeOK'
  BY DEF CliInv, CliTypeOK
<1>2. Apart(p)
  BY DEF Apart, CliInv, CliTypeOK
<1>3. Owned(p)' /\ Known(p)'
  BY DEF CliInv, CliTypeOK, Owned, Known
<1> QED
  BY <1>1, <1>2, <1>3, OneMoves

LEMMA ProcessEndsKeeps ==
    ASSUME CliInv, NEW p \in Pid, ProcessEnds(p)
    PROVE  CliInv'
<1> USE DEF ProcessEnds, Quiet, At
<1>1. CliTypeOK'
  BY DEF CliInv, CliTypeOK
<1>2. Apart(p)
  BY DEF Apart, CliInv, CliTypeOK
<1>3. Owned(p)' /\ Known(p)'
  BY DEF CliInv, CliTypeOK, Owned, Known
<1> QED
  BY <1>1, <1>2, <1>3, OneMoves

LEMMA RunTimesOutKeeps ==
    ASSUME CliInv, NEW p \in Pid, RunTimesOut(p)
    PROVE  CliInv'
<1> USE DEF RunTimesOut, Moves, Signals, Gone, Quiet, At
<1>1. CliTypeOK'
  BY DEF CliInv, CliTypeOK
<1>2. Apart(p)
  BY DEF Apart, CliInv, CliTypeOK
<1>3. Owned(p)' /\ Known(p)'
  BY DEF CliInv, CliTypeOK, Owned, Known
<1> QED
  BY <1>1, <1>2, <1>3, OneMoves

LEMMA ProbeAnsweredKeeps ==
    ASSUME CliInv, NEW p \in Pid, ProbeAnswered(p)
    PROVE  CliInv'
<1> USE DEF ProbeAnswered, Moves, Quiet, At
<1>1. CliTypeOK'
  BY DEF CliInv, CliTypeOK
<1>2. Apart(p)
  BY DEF Apart, CliInv, CliTypeOK
<1>3. Owned(p)' /\ Known(p)'
  BY DEF CliInv, CliTypeOK, Owned, Known
<1> QED
  BY <1>1, <1>2, <1>3, OneMoves

LEMMA ProbeClosedKeeps ==
    ASSUME CliInv, NEW p \in Pid, ProbeClosed(p)
    PROVE  CliInv'
<1> USE DEF ProbeClosed, Moves, Quiet, At
<1>1. CliTypeOK'
  BY DEF CliInv, CliTypeOK
<1>2. Apart(p)
  BY DEF Apart, CliInv, CliTypeOK
<1>3. Owned(p)' /\ Known(p)'
  BY DEF CliInv, CliTypeOK, Owned, Known
<1> QED
  BY <1>1, <1>2, <1>3, OneMoves

LEMMA EscalateKeeps ==
    ASSUME CliInv, NEW p \in Pid, Escalate(p)
    PROVE  CliInv'
<1> USE DEF Escalate, Moves, Signals, SignalsNot, Gone, Quiet, At
<1>1. CliTypeOK'
  BY DEF CliInv, CliTypeOK
<1>2. Apart(p)
  BY DEF Apart, CliInv, CliTypeOK
<1>3. Owned(p)' /\ Known(p)'
  BY DEF CliInv, CliTypeOK, Owned, Known
<1> QED
  BY <1>1, <1>2, <1>3, OneMoves

LEMMA ProbeCancelledKeeps ==
    ASSUME CliInv, NEW p \in Pid, ProbeCancelled(p)
    PROVE  CliInv'
<1> USE DEF ProbeCancelled, Moves, Quiet, At
<1>1. CliTypeOK'
  <2>1. cancels' \in [Pid -> 0 .. MaxCancels]
    BY OneCancel DEF CliInv
  <2> QED
    BY <2>1 DEF CliInv, CliTypeOK
<1>2. Apart(p)
  BY DEF Apart, CliInv, CliTypeOK
<1>3. Owned(p)' /\ Known(p)'
  BY DEF CliInv, CliTypeOK, Owned, Known
<1> QED
  BY <1>1, <1>2, <1>3, OneMoves

\* A call that ends is tracked as ended.
LEMMA RunEndsKeeps ==
    ASSUME CliInv, NEW p \in Pid, RunEnds(p)
    PROVE  CliInv'
<1> USE DEF RunEnds, Moves, TrackExit, Gone, Quiet, At
<1>1. CliTypeOK'
  BY JustExited DEF CliInv, CliTypeOK
<1>2. Apart(p)
  BY DEF Apart, CliInv, CliTypeOK
<1>3. Owned(p)' /\ Known(p)'
  BY DEF CliInv, CliTypeOK, Owned, Known
<1> QED
  BY <1>1, <1>2, <1>3, OneMoves

LEMMA ProbeEndsKeeps ==
    ASSUME CliInv, NEW p \in Pid, ProbeEnds(p)
    PROVE  CliInv'
<1> USE DEF ProbeEnds, Moves, TrackExit, Gone, Quiet, At
<1>1. CliTypeOK'
  BY JustExited DEF CliInv, CliTypeOK
<1>2. Apart(p)
  BY DEF Apart, CliInv, CliTypeOK
<1>3. Owned(p)' /\ Known(p)'
  BY DEF CliInv, CliTypeOK, Owned, Known
<1> QED
  BY <1>1, <1>2, <1>3, OneMoves

LEMMA RunCancelledKeeps ==
    ASSUME CliInv, NEW p \in Pid, RunCancelled(p)
    PROVE  CliInv'
<1> USE DEF RunCancelled, Moves, Signals, SignalsNot, TrackExit, Gone, Quiet, At
<1>1. CliTypeOK'
  <2>1. cancels' \in [Pid -> 0 .. MaxCancels]
    BY OneCancel DEF CliInv
  <2>2. CASE At(p) = "talks"
    <3>1. call' \in [Pid -> [kind : {"run", "probe"},
                            at : {"no", "talks", "killing", "closing", "exiting", "termed", "reaping", "done", "left"}]]
      BY <2>2 DEF CliInv, CliTypeOK
    <3>2. process' \in [Pid -> {"no", "runs", "killed", "dead"}]
      BY <2>2 DEF CliInv, CliTypeOK
    <3>3. UNCHANGED <<running, exited, forced, registered, others, listing, ticks>>
      BY <2>2
    <3> QED
      BY <2>1, <3>1, <3>2, <3>3 DEF CliInv, CliTypeOK
  <2>3. CASE At(p) = "killing"
    <3>1. call' \in [Pid -> [kind : {"run", "probe"},
                            at : {"no", "talks", "killing", "closing", "exiting", "termed", "reaping", "done", "left"}]]
      BY <2>3 DEF CliInv, CliTypeOK
    <3>2. process' \in [Pid -> {"no", "runs", "killed", "dead"}]
      BY <2>3 DEF CliInv, CliTypeOK
    <3>3. exited' \in [Pid -> 0 .. LongAgo]
      BY <2>3, JustExited DEF CliInv, CliTypeOK
    <3>4. {forced, registered, running, others}' \subseteq SUBSET Pid
      BY <2>3 DEF CliInv, CliTypeOK
    <3> QED
      BY <2>1, <3>1, <3>2, <3>3, <3>4 DEF CliInv, CliTypeOK
  <2> QED
    BY <2>2, <2>3
<1>2. Apart(p)
  BY DEF Apart, CliInv, CliTypeOK
<1>3. Owned(p)' /\ Known(p)'
  BY DEF CliInv, CliTypeOK, Owned, Known
<1> QED
  BY <1>1, <1>2, <1>3, OneMoves

-----------------------------------------------------------------------------
(* The sampler and the clock.                                              *)

LEMMA ListKeeps ==
    ASSUME CliInv, List
    PROVE  CliInv'
<1>1. CliTypeOK'
  <2>1. 0 \in 0 .. ListTimeout
    BY CliAssumption
  <2>2. listing' \in [on : BOOLEAN, seen : SUBSET Pid, age : 0 .. ListTimeout]
    <3>1. {p \in registered : process[p] = "runs"} \in SUBSET Pid
      BY DEF CliInv, CliTypeOK
    <3> QED
      BY <2>1, <3>1 DEF List
  <2> QED
    BY <2>2 DEF List, CliInv, CliTypeOK
<1>2. ASSUME NEW p \in Pid PROVE Owned(p)' /\ Known(p)'
  BY <1>1 DEF List, CliInv, Owned, Known, At, CliTypeOK
<1> QED
  BY <1>1, <1>2 DEF CliInv, List

\* Nothing that the listing holds counts: it is running, or its end is not older than the listing.
LEMMA SampleKeeps ==
    ASSUME CliInv, Sample
    PROVE  CliInv'
<1>1. listing.seen \subseteq Spawned
  <2>1. ASSUME NEW p \in listing.seen PROVE p \in Spawned
    <3>1. p \in Pid /\ listing.age \in 0 .. ListTimeout /\ exited[p] \in 0 .. LongAgo
      BY DEF CliInv, CliTypeOK
    <3>2. p \in running \/ exited[p] <= listing.age
      BY <3>1 DEF CliInv, Known
    <3> QED
      BY <3>1, <3>2, CliAssumption DEF Spawned, LongAgo
  <2> QED
    BY <2>1
<1>2. others' = {}
  BY <1>1 DEF Sample, Classify, CliInv
<1>3. CliTypeOK'
  BY <1>2, CliAssumption DEF Sample, NoListing, CliInv, CliTypeOK
<1>4. ASSUME NEW p \in Pid PROVE Owned(p)' /\ Known(p)'
  BY DEF Sample, NoListing, CliInv, Owned, Known, At
<1> QED
  BY <1>2, <1>3, <1>4 DEF CliInv, Sample, NoListing

LEMMA SecondKeeps ==
    ASSUME CliInv, Second
    PROVE  CliInv'
<1>1. CliTypeOK'
  BY CliAssumption DEF Second, CliInv, CliTypeOK, LongAgo
<1>2. ASSUME NEW p \in Pid PROVE Owned(p)' /\ Known(p)'
  <2>1. Owned(p)'
    BY DEF Second, CliInv, Owned, At
  <2>2. CASE listing.on
    <3>1. /\ listing.age \in 0 .. ListTimeout /\ listing.age < ListTimeout
          /\ exited[p] \in 0 .. LongAgo
      BY <2>2 DEF Second, CliInv, CliTypeOK
    <3>2. /\ listing'.seen = listing.seen /\ listing'.age = listing.age + 1
          /\ exited'[p] = (IF exited[p] < LongAgo THEN exited[p] + 1 ELSE LongAgo)
      BY <2>2 DEF Second, CliInv, CliTypeOK
    <3>3. exited[p] <= listing.age => exited'[p] <= listing'.age
      BY <3>1, <3>2, CliAssumption DEF LongAgo
    <3> QED
      BY <2>1, <3>2, <3>3 DEF Second, CliInv, Known
  <2>3. CASE ~listing.on
    <3>1. listing.seen = {}
      BY <2>3 DEF CliInv
    <3> QED
      BY <2>1, <2>3, <3>1 DEF Second, Known
  <2> QED
    BY <2>2, <2>3
<1> QED
  BY <1>1, <1>2 DEF CliInv, Second

LEMMA StepKeeps ==
    ASSUME CliInv, [CliNext]_cliVars
    PROVE  CliInv'
<1>1. CASE \E p \in Pid : Register(p) \/ ProcessEnds(p) \/ Spawn(p)
  BY <1>1, RegisterKeeps, ProcessEndsKeeps, SpawnKeeps
<1>2. CASE \E p \in Pid : RunEnds(p) \/ RunTimesOut(p) \/ RunCancelled(p)
  BY <1>2, RunEndsKeeps, RunTimesOutKeeps, RunCancelledKeeps
<1>3. CASE \E p \in Pid : ProbeAnswered(p) \/ ProbeClosed(p) \/ Escalate(p) \/ ProbeEnds(p) \/ ProbeCancelled(p)
  BY <1>3, ProbeAnsweredKeeps, ProbeClosedKeeps, EscalateKeeps, ProbeEndsKeeps, ProbeCancelledKeeps
<1>4. CASE List \/ Sample \/ Second
  BY <1>4, ListKeeps, SampleKeeps, SecondKeeps
<1>5. CASE UNCHANGED cliVars
  BY <1>5 DEF cliVars, CliInv, CliTypeOK, Owned, Known, At
<1> QED
  BY <1>1, <1>2, <1>3, <1>4, <1>5, Zenon DEF CliNext

(* Whatever is cancelled, killed or late, a call that ended has left no    *)
(* process, a probe that was cancelled in its cleanup stays known, and no  *)
(* claude that ccs started is counted as a session of the user.            *)
THEOREM ProcessesOwned == CliSpec => []OwnProcesses
<1>1. CliInit => CliInv
  <2> SUFFICES ASSUME CliInit PROVE CliInv
    OBVIOUS
  <2>1. CliTypeOK
    BY CliAssumption DEF CliInit, CliTypeOK, LongAgo, NoListing
  <2>2. ASSUME NEW p \in Pid PROVE Owned(p) /\ Known(p)
    BY DEF CliInit, Owned, Known, At, NoListing
  <2> QED
    BY <2>1, <2>2 DEF CliInv, CliInit, NoListing
<1>2. CliInv /\ [CliNext]_cliVars => CliInv'
  BY StepKeeps
<1>3. CliInv => OwnProcesses
  BY DEF CliInv, Owned, OwnProcesses, NoProbeCounted, NoneLeft
<1> QED
  BY <1>1, <1>2, <1>3, PTL DEF CliSpec

-----------------------------------------------------------------------------
(* A launcher and its connections. *)

\* The functions and the record that the steps update.
Shapes ==
    /\ link \in [Wrapper -> Conn \cup {NoOne}] /\ route \in [Wrapper -> Conn \cup {NoOne}]
    /\ sent = [c \in Conn |-> sent[c]]
    /\ handler = [c \in Conn |-> handler[c]]
    /\ used \in [conns : {used.conns}, replied : {used.replied}, faults : {used.faults}]
    /\ used.conns \in [Conn -> Wrapper \cup {NoOne}] /\ used.replied \subseteq Conn

\* What a connection has sent that leads to nothing but its end.
Silent(c) == sent[c] = <<>> /\ handler[c] # "ensures"

\* A launcher that has a connection owns it, and nothing is left of its older ones.
Newest ==
    \A w \in Wrapper, c \in Conn :
        link[w] = c => /\ Owner(c) = w
                       /\ \A d \in Conn \ {c} : Owner(d) = w => Silent(d)

\* Where a launcher that goes on is with its register, on the connection it has.
Asks(c) ==
    /\ c \notin used.replied
    /\ \/ sent[c] = <<"register">> /\ handler[c] = "reads"
       \/ sent[c] = <<>> /\ handler[c] = "ensures"
Registered(w, c) ==
    /\ sent[c] = <<>>
    /\ handler[c] \in {"hooks", "reads"} /\ (handler[c] = "reads" => c \in used.replied)
    /\ route[w] = c /\ w \in sessions /\ w \notin provisional

Progress ==
    \A w \in alive \ exiting, c \in Conn : link[w] = c => Asks(c) \/ Registered(w, c)

Unused == \A c \in Conn : Owner(c) = NoOne => handler[c] = "none" /\ c \notin used.replied

Away == ~serving => link = [w \in Wrapper |-> NoOne]

ReachInv ==
    /\ alive \subseteq Wrapper
    /\ Shapes /\ Newest /\ Progress /\ Unused /\ Away

-----------------------------------------------------------------------------
(* The record of the bounds. *)

LEMMA UsedConn ==
    ASSUME Shapes, NEW c \in Conn, NEW w \in Wrapper, used' = [used EXCEPT !.conns[c] = w]
    PROVE  /\ used'.conns = [used.conns EXCEPT ![c] = w] /\ used'.replied = used.replied
           /\ used' \in [conns : {used'.conns}, replied : {used'.replied}, faults : {used'.faults}]
<1> DEFINE new == [used.conns EXCEPT ![c] = w]
           u == [used EXCEPT !.conns = new]
<1>1. used' = u
  OBVIOUS
<1> HIDE DEF new
<1>2. /\ u.conns = new /\ u.replied = used.replied /\ u.faults = used.faults
      /\ u \in [conns : {new}, replied : {used.replied}, faults : {used.faults}]
  BY DEF Shapes
<1> HIDE DEF u
<1> QED
  BY <1>1, <1>2 DEF new

LEMMA UsedReply ==
    ASSUME Shapes, NEW c \in Conn, used' = [used EXCEPT !.replied = @ \cup {c}]
    PROVE  /\ used'.conns = used.conns /\ used'.replied = used.replied \cup {c}
           /\ used' \in [conns : {used'.conns}, replied : {used'.replied}, faults : {used'.faults}]
BY DEF Shapes

LEMMA UsedFault ==
    ASSUME Shapes, Fault
    PROVE  /\ used'.conns = used.conns /\ used'.replied = used.replied
           /\ used' \in [conns : {used'.conns}, replied : {used'.replied}, faults : {used'.faults}]
<1> DEFINE n == used.faults + 1
<1>1. used' = [used EXCEPT !.faults = n]
  BY DEF Fault
<1> HIDE DEF n
<1> QED
  BY <1>1 DEF Shapes

-----------------------------------------------------------------------------
(* One connection goes on. *)

\* What a step of the handler of connection c, which is w's, leaves to the other launchers, and to
\* w on a newer connection.
SparesOthers(c, w) ==
    \A v \in Wrapper :
        v # w \/ link[v] \in Conn \ {c} =>
            /\ route[v] # c => route'[v] = route[v]
            /\ v \in sessions => v \in sessions'
            /\ v \in provisional' => v \in provisional

LEMMA OneConn ==
    ASSUME ReachInv, NEW c \in Conn, NEW w \in Wrapper, Owner(c) = w,
           UNCHANGED <<serving, alive, exiting, link>>, Shapes',
           used'.conns = used.conns,
           used'.replied = used.replied \/ used'.replied = used.replied \cup {c},
           \A d \in Conn \ {c} : sent'[d] = sent[d] /\ handler'[d] = handler[d],
           SparesOthers(c, w),
           link[w] \in Conn \ {c} => Silent(c)',
           w \in alive \ exiting /\ link[w] = c => (Asks(c) \/ Registered(w, c))'
    PROVE  ReachInv'
<1>0. NoOne \notin Wrapper \cup Conn
  BY SessionsAssumption
<1>1. \A d \in Conn : Owner(d)' = Owner(d)
  BY DEF Owner
<1>2. Newest'
  <2> SUFFICES ASSUME NEW v \in Wrapper, NEW d \in Conn, link'[v] = d
               PROVE  /\ Owner(d)' = v
                      /\ \A e \in Conn \ {d} : Owner(e)' = v => Silent(e)'
    BY DEF Newest
  <2>1. Owner(d) = v /\ \A e \in Conn \ {d} : Owner(e) = v => Silent(e)
    BY DEF ReachInv, Newest
  <2>2. ASSUME NEW e \in Conn \ {d}, Owner(e)' = v PROVE Silent(e)'
    <3>1. CASE e = c
      BY <1>1, <2>2, <3>1
    <3>2. CASE e # c
      BY <1>1, <2>1, <2>2, <3>2 DEF Silent
    <3> QED
      BY <3>1, <3>2
  <2> QED
    BY <1>1, <2>1, <2>2
<1>3. Progress'
  <2> SUFFICES ASSUME NEW v \in alive' \ exiting', NEW d \in Conn, link'[v] = d
               PROVE  (Asks(d) \/ Registered(v, d))'
    BY DEF Progress
  <2>1. v \in Wrapper /\ v \in alive \ exiting /\ link[v] = d /\ Owner(d) = v
    BY DEF ReachInv, Newest
  <2>2. Asks(d) \/ Registered(v, d)
    BY <2>1 DEF ReachInv, Progress
  <2>3. CASE d = c
    BY <2>1, <2>3
  <2>4. CASE d # c
    <3>1. sent'[d] = sent[d] /\ handler'[d] = handler[d]
      BY <2>4
    <3>2. d \in used'.replied <=> d \in used.replied
      BY <2>4
    <3>3. CASE Asks(d)
      BY <3>1, <3>2, <3>3 DEF Asks
    <3>4. CASE Registered(v, d)
      <4>1. /\ route[v] # c => route'[v] = route[v]
            /\ v \in sessions => v \in sessions'
            /\ v \in provisional' => v \in provisional
        BY <2>1, <2>4 DEF SparesOthers
      <4> QED
        BY <2>4, <3>1, <3>2, <3>4, <4>1 DEF Registered
    <3> QED
      BY <2>2, <3>3, <3>4
  <2> QED
    BY <2>3, <2>4
<1>4. Unused'
  BY <1>0, <1>1 DEF ReachInv, Unused
<1> QED
  BY <1>2, <1>3, <1>4 DEF ReachInv, Away

\* A handler that does something has a launcher.
LEMMA HasOwner ==
    ASSUME ReachInv, NEW c \in Conn, handler[c] # "none"
    PROVE  Owner(c) \in Wrapper
BY SessionsAssumption DEF ReachInv, Unused, Shapes, Owner

\* A handler with something to read, or with a register to carry out, is the one of the newest
\* connection.
LEMMA OnlyNewest ==
    ASSUME ReachInv, NEW c \in Conn, handler[c] # "none", ~Silent(c)
    PROVE  link[Owner(c)] \notin Conn \ {c}
<1>1. Owner(c) \in Wrapper
  BY HasOwner
<1> QED
  BY <1>1 DEF ReachInv, Newest

-----------------------------------------------------------------------------
(* The handler's steps. *)

\* `_op_register_wrapper` is through: the record and the route are the launcher's.
LEMMA RegistersKeeps ==
    ASSUME ReachInv, NEW c \in Conn, Registers(c), HandlerGoes(c, "hooks"),
           UNCHANGED <<serving, alive, exiting, link, used>>,
           \/ handler[c] = "ensures" /\ UNCHANGED sent
           \/ /\ handler[c] = "reads" /\ sent[c] # <<>> /\ Head(sent[c]) = "register"
              /\ sent' = [sent EXCEPT ![c] = Tail(@)]
    PROVE  ReachInv'
<1>0a. Owner(c) \in Wrapper
  BY HasOwner
<1>1. PICK w \in Wrapper : w = Owner(c)
  BY <1>0a
<1>2. link[w] \notin Conn \ {c}
  BY <1>1, OnlyNewest DEF Silent
<1>3. w = Owner(c)
  BY <1>1
<1>4. /\ route' = [route EXCEPT ![w] = c]
      /\ sessions' = sessions \cup {w} /\ provisional' = provisional \ {w}
  BY <1>3 DEF Registers
<1>5. /\ handler' = [handler EXCEPT ![c] = "hooks"]
      /\ handler'[c] = "hooks" /\ \A d \in Conn \ {c} : handler'[d] = handler[d]
  BY DEF HandlerGoes, ReachInv, Shapes
<1>6. \A d \in Conn \ {c} : sent'[d] = sent[d]
  BY DEF ReachInv, Shapes
<1>7. Shapes'
  BY <1>1, <1>4, <1>5 DEF ReachInv, Shapes
<1>8. SparesOthers(c, w)
  BY <1>1, <1>2, <1>4 DEF SparesOthers, ReachInv, Shapes
<1>9. ASSUME w \in alive \ exiting, link[w] = c
      PROVE  Registered(w, c)'
  <2>1. Asks(c) \/ Registered(w, c)
    BY <1>9 DEF ReachInv, Progress
  <2>2. sent'[c] = <<>>
    <3>1. CASE handler[c] = "ensures" /\ UNCHANGED sent
      BY <2>1, <3>1 DEF Asks, Registered
    <3>2. CASE handler[c] = "reads" /\ sent[c] # <<>> /\ sent' = [sent EXCEPT ![c] = Tail(@)]
      <4>1. sent[c] = <<"register">>
        BY <2>1, <3>2 DEF Asks, Registered
      <4>2. Tail(sent[c]) = <<>>
        BY <4>1
      <4> QED
        BY <3>2, <4>2 DEF ReachInv, Shapes
    <3> QED
      BY <3>1, <3>2
  <2> QED
    BY <1>1, <1>4, <1>5, <2>2 DEF Registered, ReachInv, Shapes
<1> QED
  BY <1>1, <1>2, <1>3, <1>5, <1>6, <1>7, <1>8, <1>9, OneConn

LEMMA ReadsRegisterKeeps ==
    ASSUME ReachInv, NEW c \in Conn, ReadsRegister(c)
    PROVE  ReachInv'
<1>1. CASE Registers(c) /\ HandlerGoes(c, "hooks")
  BY <1>1, RegistersKeeps DEF ReadsRegister
<1>2. CASE HandlerGoes(c, "ensures") /\ UNCHANGED <<sessions, provisional, route>>
  <2>0. handler[c] = "reads" /\ sent[c] # <<>> /\ sent' = [sent EXCEPT ![c] = Tail(@)]
    BY DEF ReadsRegister
  <2>0a. Owner(c) \in Wrapper
    BY <2>0, HasOwner
  <2>1. PICK w \in Wrapper : w = Owner(c)
    BY <2>0a
  <2>2. link[w] \notin Conn \ {c}
    BY <2>0, <2>1, OnlyNewest DEF Silent
  <2>3. w = Owner(c)
    BY <2>1
  <2>4. /\ handler' = [handler EXCEPT ![c] = "ensures"] /\ handler'[c] = "ensures"
        /\ \A d \in Conn \ {c} : handler'[d] = handler[d] /\ sent'[d] = sent[d]
    BY <1>2, <2>0 DEF HandlerGoes, ReachInv, Shapes
  <2>5. Shapes' /\ UNCHANGED <<serving, alive, exiting, link, used>>
    BY <1>2, <2>0, <2>4 DEF ReachInv, Shapes, ReadsRegister
  <2>6. SparesOthers(c, w)
    BY <1>2 DEF SparesOthers
  <2>7. ASSUME w \in alive \ exiting, link[w] = c
        PROVE  Asks(c)'
    <3>1. sent[c] = <<"register">> /\ c \notin used.replied
      BY <2>0, <2>1, <2>7 DEF ReachInv, Progress, Asks, Registered
    <3>2. Tail(sent[c]) = <<>>
      BY <3>1
    <3>3. sent'[c] = <<>>
      BY <2>0, <3>2 DEF ReachInv, Shapes
    <3> QED
      BY <2>4, <2>5, <3>1, <3>3 DEF Asks
  <2> QED
    BY <2>1, <2>2, <2>3, <2>4, <2>5, <2>6, <2>7, OneConn
<1> QED
  BY <1>1, <1>2 DEF ReadsRegister

LEMMA EnsuredKeeps ==
    ASSUME ReachInv, NEW c \in Conn, Ensured(c)
    PROVE  ReachInv'
BY RegistersKeeps DEF Ensured

LEMMA RepliesKeeps ==
    ASSUME ReachInv, NEW c \in Conn, Replies(c)
    PROVE  ReachInv'
<1>0a. Owner(c) \in Wrapper
  BY HasOwner DEF Replies
<1>1. PICK w \in Wrapper : w = Owner(c)
  BY <1>0a
<1>2. w = Owner(c)
  BY <1>1
<1>3. /\ handler' = [handler EXCEPT ![c] = "reads"] /\ handler'[c] = "reads"
      /\ handler[c] = "hooks" /\ \A d \in Conn \ {c} : handler'[d] = handler[d]
  BY DEF Replies, HandlerGoes, ReachInv, Shapes
<1>4. /\ used'.conns = used.conns /\ used'.replied = used.replied \cup {c}
      /\ used' \in [conns : {used'.conns}, replied : {used'.replied}, faults : {used'.faults}]
  BY UsedReply DEF Replies, ReachInv
<1>5. UNCHANGED <<serving, alive, exiting, link, sent, route, sessions, provisional>>
  BY DEF Replies
<1>6. Shapes'
  BY <1>3, <1>4, <1>5 DEF ReachInv, Shapes
<1>7. link[w] \in Conn \ {c} => Silent(c)'
  BY <1>1, <1>2, <1>3, <1>5 DEF ReachInv, Newest, Silent
<1>8. ASSUME w \in alive \ exiting, link[w] = c
      PROVE  Registered(w, c)'
  BY <1>1, <1>3, <1>4, <1>5, <1>8 DEF ReachInv, Progress, Asks, Registered
<1>9. SparesOthers(c, w)
  BY <1>5 DEF SparesOthers
<1> QED
  BY <1>1, <1>2, <1>3, <1>4, <1>5, <1>6, <1>7, <1>8, <1>9, OneConn

LEMMA ReadsUnregisterKeeps ==
    ASSUME ReachInv, NEW c \in Conn, ReadsUnregister(c)
    PROVE  ReachInv'
<1>0. handler[c] = "reads" /\ sent[c] # <<>> /\ sent' = [sent EXCEPT ![c] = Tail(@)]
  BY DEF ReadsUnregister
<1>0a. Owner(c) \in Wrapper
  BY <1>0, HasOwner
<1>1. PICK w \in Wrapper : w = Owner(c)
  BY <1>0a
<1>2. link[w] \notin Conn \ {c}
  BY <1>1, <1>0, OnlyNewest DEF Silent
<1>3. w = Owner(c)
  BY <1>1
<1>4. /\ handler' = [handler EXCEPT ![c] = "leaves"]
      /\ \A d \in Conn \ {c} : handler'[d] = handler[d] /\ sent'[d] = sent[d]
  BY <1>0 DEF ReadsUnregister, HandlerGoes, ReachInv, Shapes
<1>5. /\ UNCHANGED <<serving, alive, exiting, link, used>>
      /\ sessions' = sessions \ {w} /\ provisional' = provisional \ {w}
      /\ route' = [route EXCEPT ![w] = NoOne]
  BY <1>3 DEF ReadsUnregister, Forgets
<1>6. Shapes'
  BY <1>0, <1>1, <1>4, <1>5 DEF ReachInv, Shapes
<1>7. SparesOthers(c, w)
  BY <1>1, <1>2, <1>5 DEF SparesOthers, ReachInv, Shapes
<1>8. ~(w \in alive \ exiting /\ link[w] = c)
  <2> SUFFICES ASSUME w \in alive \ exiting, link[w] = c PROVE FALSE
    OBVIOUS
  <2>1. sent[c] = <<"register">>
    BY <1>0, <1>1 DEF ReachInv, Progress, Asks, Registered
  <2>2. Head(sent[c]) = "register"
    BY <2>1
  <2> QED
    BY <2>2 DEF ReadsUnregister
<1> QED
  BY <1>1, <1>2, <1>3, <1>4, <1>5, <1>6, <1>7, <1>8, OneConn

\* The `finally` takes no route that leads elsewhere.
LEMMA LeavesKeeps ==
    ASSUME ReachInv, NEW c \in Conn, Leaves(c)
    PROVE  ReachInv'
<1>0a. Owner(c) \in Wrapper
  BY HasOwner DEF Leaves
<1>1. PICK w \in Wrapper : w = Owner(c)
  BY <1>0a
<1>2. w = Owner(c)
  BY <1>1
<1>3. /\ handler' = [handler EXCEPT ![c] = "over"] /\ handler'[c] = "over"
      /\ \A d \in Conn \ {c} : handler'[d] = handler[d]
  BY DEF Leaves, HandlerGoes, ReachInv, Shapes
<1>4. /\ UNCHANGED <<serving, alive, exiting, link, sent, used, sessions, provisional>>
      /\ route' = [v \in Wrapper |-> IF v \in RoutesOf(c) THEN NoOne ELSE route[v]]
  BY DEF Leaves
<1>5. Shapes'
  BY <1>3, <1>4 DEF ReachInv, Shapes
<1>6. \A v \in Wrapper : route[v] # c => route'[v] = route[v]
  BY <1>4 DEF RoutesOf
<1>7. SparesOthers(c, w)
  BY <1>4, <1>6 DEF SparesOthers
<1>8. link[w] \in Conn \ {c} => Silent(c)'
  BY <1>1, <1>2, <1>3, <1>4 DEF ReachInv, Newest, Silent
<1>9. ~(w \in alive \ exiting /\ link[w] = c)
  <2>1. CASE handler[c] = "reads" /\ GivenUp(c)
    BY <1>2, <2>1 DEF GivenUp
  <2>2. CASE handler[c] = "leaves"
    BY <1>1, <2>2 DEF ReachInv, Progress, Asks, Registered
  <2> QED
    BY <2>1, <2>2 DEF Leaves
<1> QED
  BY <1>1, <1>2, <1>3, <1>4, <1>5, <1>7, <1>8, <1>9, OneConn

-----------------------------------------------------------------------------
(* The launchers, the reaper and the daemon. *)

LEMMA ConnectsKeeps ==
    ASSUME ReachInv, NEW w \in Wrapper, NEW c \in Conn, Connects(w, c)
    PROVE  ReachInv'
<1>0. NoOne \notin Wrapper \cup Conn
  BY SessionsAssumption
<1>1. /\ used'.conns = [used.conns EXCEPT ![c] = w] /\ used'.replied = used.replied
      /\ used' \in [conns : {used'.conns}, replied : {used'.replied}, faults : {used'.faults}]
  BY UsedConn DEF Connects, ReachInv
<1>2. /\ serving /\ Owner(c) = NoOne
      /\ \A d \in Conn : Owner(d) = w => Silent(d)
      /\ link' = [link EXCEPT ![w] = c]
      /\ sent' = [sent EXCEPT ![c] = <<"register">>]
      /\ handler' = [handler EXCEPT ![c] = "reads"]
      /\ UNCHANGED <<serving, alive, exiting, route, sessions, provisional>>
  BY DEF Connects, Silent
<1>3. /\ sent'[c] = <<"register">> /\ handler'[c] = "reads" /\ Owner(c)' = w /\ link'[w] = c
      /\ \A d \in Conn \ {c} : sent'[d] = sent[d] /\ handler'[d] = handler[d] /\ Owner(d)' = Owner(d)
      /\ \A v \in Wrapper \ {w} : link'[v] = link[v]
  BY <1>1, <1>2 DEF ReachInv, Shapes, Owner
<1>4. Shapes'
  BY <1>1, <1>2 DEF ReachInv, Shapes
<1>5. Newest'
  <2> SUFFICES ASSUME NEW v \in Wrapper, NEW d \in Conn, link'[v] = d
               PROVE  Owner(d)' = v /\ \A e \in Conn \ {d} : Owner(e)' = v => Silent(e)'
    BY DEF Newest
  <2>1. CASE v = w
    <3>1. d = c
      BY <1>3, <2>1
    <3> QED
      BY <1>2, <1>3, <2>1, <3>1 DEF Silent
  <2>2. CASE v # w
    <3>1. link[v] = d /\ Owner(d) = v /\ \A e \in Conn \ {d} : Owner(e) = v => Silent(e)
      BY <1>3, <2>2 DEF ReachInv, Newest
    <3>2. d # c
      BY <1>0, <1>2, <3>1
    <3> QED
      BY <1>3, <2>2, <3>1, <3>2 DEF Silent
  <2> QED
    BY <2>1, <2>2
<1>6. Progress'
  <2> SUFFICES ASSUME NEW v \in alive' \ exiting', NEW d \in Conn, link'[v] = d
               PROVE  (Asks(d) \/ Registered(v, d))'
    BY DEF Progress
  <2>1. v \in Wrapper /\ v \in alive \ exiting
    BY <1>2 DEF ReachInv
  <2>2. CASE v = w
    <3>1. d = c /\ c \notin used.replied
      BY <1>2, <1>3, <2>2 DEF ReachInv, Unused
    <3> QED
      BY <1>1, <1>3, <3>1 DEF Asks
  <2>3. CASE v # w
    <3>1. link[v] = d /\ Owner(d) = v
      BY <1>3, <2>1, <2>3 DEF ReachInv, Newest
    <3>2. d # c /\ (Asks(d) \/ Registered(v, d))
      BY <1>0, <1>2, <2>1, <3>1 DEF ReachInv, Progress
    <3> QED
      BY <1>1, <1>2, <1>3, <3>2 DEF Asks, Registered
  <2> QED
    BY <2>2, <2>3
<1>7. Unused'
  BY <1>0, <1>1, <1>3 DEF ReachInv, Unused
<1> QED
  BY <1>2, <1>4, <1>5, <1>6, <1>7 DEF ReachInv, Away

\* A launcher without its connection, or that ends, is owed nothing more.
LEMMA LinkGone ==
    ASSUME ReachInv, Shapes', used'.conns = used.conns, used'.replied = used.replied,
           UNCHANGED <<serving, exiting, handler, route, sessions, provisional>>,
           alive' \subseteq alive,
           \A v \in Wrapper : link'[v] \in {link[v], NoOne},
           \A c \in Conn : sent'[c] \in {sent[c], <<>>},
           \A v \in Wrapper, c \in Conn : link'[v] = c => sent'[c] = sent[c]
    PROVE  ReachInv'
<1>0. NoOne \notin Wrapper \cup Conn
  BY SessionsAssumption
<1>1. \A c \in Conn : Owner(c)' = Owner(c)
  BY DEF Owner
<1>2. \A v \in Wrapper, c \in Conn : link'[v] = c => link[v] = c
  BY <1>0
<1>3. \A c \in Conn : Silent(c) => Silent(c)'
  BY DEF Silent
<1>4. Newest'
  BY <1>1, <1>2, <1>3 DEF ReachInv, Newest
<1>5. Progress'
  <2> SUFFICES ASSUME NEW v \in alive' \ exiting', NEW d \in Conn, link'[v] = d
               PROVE  (Asks(d) \/ Registered(v, d))'
    BY DEF Progress
  <2>1. v \in Wrapper /\ v \in alive \ exiting /\ link[v] = d /\ sent'[d] = sent[d]
    BY <1>2 DEF ReachInv
  <2>2. Asks(d) \/ Registered(v, d)
    BY <2>1 DEF ReachInv, Progress
  <2> QED
    BY <2>1, <2>2 DEF Asks, Registered
<1>6. Unused'
  BY <1>1 DEF ReachInv, Unused
<1>7. ~serving => link' = [v \in Wrapper |-> NoOne]
  <2>1. link' = [v \in Wrapper |-> link'[v]]
    BY DEF Shapes
  <2>2. ASSUME ~serving PROVE \A v \in Wrapper : link'[v] = NoOne
    BY <2>2 DEF ReachInv, Away
  <2> QED
    BY <2>1, <2>2
<1> QED
  BY <1>4, <1>5, <1>6, <1>7 DEF ReachInv, Away

LEMMA LinksKeep ==
    ASSUME ReachInv,
           \/ \E w \in Wrapper : Disconnects(w) \/ LauncherDies(w)
           \/ \E c \in Conn : Overflows(c)
    PROVE  ReachInv'
<1>0. NoOne \notin Wrapper \cup Conn
  BY SessionsAssumption
<1>1. CASE \E w \in Wrapper : Disconnects(w) \/ LauncherDies(w)
  <2>1. PICK w \in Wrapper : Disconnects(w) \/ LauncherDies(w)
    BY <1>1
  <2>2. /\ used'.conns = used.conns /\ used'.replied = used.replied
        /\ used' \in [conns : {used'.conns}, replied : {used'.replied}, faults : {used'.faults}]
    <3>1. CASE Fault
      BY <3>1, UsedFault DEF ReachInv
    <3>2. CASE UNCHANGED used
      BY <3>2 DEF ReachInv, Shapes
    <3> QED
      BY <2>1, <3>1, <3>2 DEF Disconnects, LauncherDies
  <2>3. /\ link' = [link EXCEPT ![w] = NoOne] /\ alive' \subseteq alive
        /\ UNCHANGED <<serving, exiting, sent, handler, route, sessions, provisional>>
    BY <2>1 DEF Disconnects, LauncherDies
  <2>4. Shapes'
    BY <2>2, <2>3 DEF ReachInv, Shapes
  <2>5. \A v \in Wrapper : link'[v] \in {link[v], NoOne}
    BY <2>3 DEF ReachInv, Shapes
  <2> QED
    BY <2>2, <2>3, <2>4, <2>5, LinkGone
<1>2. CASE \E c \in Conn : Overflows(c)
  <2>1. PICK c \in Conn : Overflows(c)
    BY <1>2
  <2>2. PICK w \in Wrapper : w = Owner(c)
    BY <2>1, HasOwner DEF Overflows
  <2>3. /\ used'.conns = used.conns /\ used'.replied = used.replied
        /\ used' \in [conns : {used'.conns}, replied : {used'.replied}, faults : {used'.faults}]
    BY <2>1, UsedFault DEF ReachInv, Overflows
  <2>4. /\ link' = [link EXCEPT ![w] = NoOne] /\ sent' = [sent EXCEPT ![c] = <<>>]
        /\ link[w] = c
        /\ UNCHANGED <<serving, alive, exiting, handler, route, sessions, provisional>>
    BY <2>1, <2>2 DEF Overflows
  <2>5. Shapes'
    BY <2>3, <2>4 DEF ReachInv, Shapes
  <2>6. /\ \A v \in Wrapper : link'[v] = IF v = w THEN NoOne ELSE link[v]
        /\ \A d \in Conn : sent'[d] = IF d = c THEN <<>> ELSE sent[d]
    BY <2>4 DEF ReachInv, Shapes
  <2>7. \A v \in Wrapper : link[v] = c => v = w
    BY <2>2 DEF ReachInv, Newest
  <2>8. \A v \in Wrapper, d \in Conn : link'[v] = d => sent'[d] = sent[d]
    BY <1>0, <2>6, <2>7
  <2> QED
    BY <2>3, <2>4, <2>5, <2>6, <2>8, LinkGone
<1> QED
  BY <1>1, <1>2

LEMMA ExitsKeeps ==
    ASSUME ReachInv, NEW w \in Wrapper, Exits(w)
    PROVE  ReachInv'
<1>1. /\ exiting' = exiting \cup {w}
      /\ UNCHANGED <<serving, alive, link, handler, route, sessions, provisional, used>>
  BY DEF Exits
<1>2. \A c \in Conn : c # link[w] => sent'[c] = sent[c]
  BY DEF Exits, ReachInv, Shapes
<1>3. Shapes'
  BY <1>1 DEF Exits, ReachInv, Shapes
<1>4. \A c \in Conn : Owner(c)' = Owner(c)
  BY <1>1 DEF Owner
<1>5. Newest'
  <2> SUFFICES ASSUME NEW v \in Wrapper, NEW d \in Conn, link'[v] = d, NEW e \in Conn \ {d}
               PROVE  Owner(d)' = v /\ (Owner(e)' = v => Silent(e)')
    BY <1>1, <1>4 DEF Newest, ReachInv
  <2>1. Owner(d) = v /\ (Owner(e) = v => Silent(e))
    BY <1>1 DEF ReachInv, Newest
  <2>2. Owner(e) = v => e # link[w]
    BY <1>1 DEF ReachInv, Newest
  <2> QED
    BY <1>1, <1>2, <1>4, <2>1, <2>2 DEF Silent
<1>6. Progress'
  <2> SUFFICES ASSUME NEW v \in alive' \ exiting', NEW d \in Conn, link'[v] = d
               PROVE  (Asks(d) \/ Registered(v, d))'
    BY DEF Progress
  <2>1. v \in Wrapper /\ v \in alive \ exiting /\ v # w /\ link[v] = d
    BY <1>1 DEF ReachInv
  <2>2. d # link[w]
    BY <2>1 DEF ReachInv, Newest
  <2>3. Asks(d) \/ Registered(v, d)
    BY <2>1 DEF ReachInv, Progress
  <2> QED
    BY <1>1, <1>2, <2>2, <2>3 DEF Asks, Registered
<1> QED
  BY <1>1, <1>3, <1>4, <1>5, <1>6 DEF ReachInv, Unused, Away

\* Nothing that the invariant is about changes.
LEMMA Untouched ==
    ASSUME ReachInv,
           UNCHANGED <<serving, alive, exiting, link, sent, handler, used, route, sessions, provisional>>
    PROVE  ReachInv'
<1>1. Shapes' /\ (alive \subseteq Wrapper)'
  BY DEF ReachInv, Shapes
<1>2. Newest'
  BY DEF ReachInv, Newest, Owner, Silent
<1>3. ASSUME NEW w \in alive' \ exiting', NEW c \in Conn, link'[w] = c
      PROVE  Asks(c)' \/ Registered(w, c)'
  <2>1. Asks(c) \/ Registered(w, c)
    BY <1>3 DEF ReachInv, Progress
  <2> QED
    BY <2>1 DEF Asks, Registered
<1>4. Unused' /\ Away'
  BY DEF ReachInv, Unused, Owner, Away
<1> QED
  BY <1>1, <1>2, <1>3, <1>4 DEF ReachInv, Progress

\* The reaper takes only what a living launcher has not registered.
LEMMA ReapKeeps ==
    ASSUME ReachInv, NEW w \in Wrapper, NEW late \in BOOLEAN, Reap(w, late)
    PROVE  ReachInv'
<1>1. UNCHANGED <<serving, alive, exiting, link, sent, handler, used>>
  BY DEF Reap
<1>2. CASE Reapable(w, late)
  <2>1. /\ sessions' = sessions \ {w} /\ provisional' = provisional \ {w}
        /\ route' = [route EXCEPT ![w] = NoOne]
    BY <1>2 DEF Reap, Forgets
  <2>2. w \notin alive \/ w \in provisional
    BY <1>2 DEF Reapable
  <2>3. Shapes'
    BY <1>1, <2>1 DEF ReachInv, Shapes
  <2>4. Progress'
    <3> SUFFICES ASSUME NEW v \in alive' \ exiting', NEW d \in Conn, link'[v] = d
                 PROVE  (Asks(d) \/ Registered(v, d))'
      BY DEF Progress
    <3>1. v \in Wrapper /\ v \in alive \ exiting /\ link[v] = d
      BY <1>1 DEF ReachInv
    <3>2. Asks(d) \/ Registered(v, d)
      BY <3>1 DEF ReachInv, Progress
    <3>3. Registered(v, d) => v # w
      BY <2>2, <3>1 DEF Registered
    <3>4. v # w => route'[v] = route[v]
      BY <2>1, <3>1 DEF ReachInv, Shapes
    <3> QED
      BY <1>1, <2>1, <3>2, <3>3, <3>4 DEF Asks, Registered
  <2> QED
    BY <1>1, <2>3, <2>4 DEF ReachInv, Newest, Unused, Away, Owner, Silent
<1>3. CASE UNCHANGED <<sessions, provisional, route>>
  BY <1>1, <1>3, Untouched
<1> QED
  BY <1>2, <1>3 DEF Reap

LEMMA DaemonEndsKeeps ==
    ASSUME ReachInv, DaemonEnds
    PROVE  ReachInv'
<1>0. NoOne \notin Wrapper \cup Conn
  BY SessionsAssumption
<1>1. /\ used'.conns = used.conns /\ used'.replied = used.replied
      /\ used' \in [conns : {used'.conns}, replied : {used'.replied}, faults : {used'.faults}]
  BY UsedFault DEF DaemonEnds, ReachInv
<1>2. /\ link' = [w \in Wrapper |-> NoOne] /\ route' = [w \in Wrapper |-> NoOne]
      /\ sent' = [c \in Conn |-> <<>>]
      /\ handler' = [c \in Conn |-> IF Owner(c) = NoOne THEN "none" ELSE "over"]
      /\ UNCHANGED <<alive, exiting>>
  BY DEF DaemonEnds
<1>3. \A v \in Wrapper, c \in Conn : link'[v] # c
  BY <1>0, <1>2
<1>4. Newest' /\ Progress'
  BY <1>2, <1>3 DEF Newest, Progress, ReachInv
<1>5. Unused'
  BY <1>1, <1>2 DEF ReachInv, Unused, Owner
<1>6. Shapes'
  BY <1>1, <1>2 DEF ReachInv, Shapes
<1> QED
  BY <1>2, <1>4, <1>5, <1>6 DEF ReachInv, Away

LEMMA DaemonStartsKeeps ==
    ASSUME ReachInv, DaemonStarts
    PROVE  ReachInv'
<1>0. NoOne \notin Wrapper \cup Conn
  BY SessionsAssumption
<1>1. UNCHANGED <<alive, exiting, link, sent, handler, route, used>> /\ ~serving /\ serving'
  BY DEF DaemonStarts
<1>2. \A v \in Wrapper, c \in Conn : link'[v] # c
  BY <1>0, <1>1 DEF ReachInv, Away
<1>3. Newest' /\ Progress'
  BY <1>1, <1>2 DEF Newest, Progress, ReachInv
<1> QED
  BY <1>1, <1>3 DEF ReachInv, Shapes, Unused, Owner, Away

LEMMA ReachStep ==
    ASSUME ReachInv, [SessNext]_sessVars
    PROVE  ReachInv'
<1>1. CASE \E w \in Wrapper, c \in Conn : Connects(w, c)
  BY <1>1, ConnectsKeeps
<1>2. CASE (\E w \in Wrapper : Disconnects(w) \/ LauncherDies(w)) \/ \E c \in Conn : Overflows(c)
  BY <1>2, LinksKeep
<1>3. CASE \E w \in Wrapper : Exits(w) \/ \E late \in BOOLEAN : Reap(w, late)
  BY <1>3, ExitsKeeps, ReapKeeps
<1>4. CASE \E c \in Conn : \/ ReadsRegister(c) \/ Ensured(c) \/ Replies(c) \/ ReadsUnregister(c)
                           \/ Leaves(c)
  BY <1>4, ReadsRegisterKeeps, EnsuredKeeps, RepliesKeeps, ReadsUnregisterKeeps, LeavesKeeps
<1>5. CASE ReapPass \/ UNCHANGED sessVars
  BY <1>5, Untouched DEF ReapPass, sessVars
<1>6. CASE DaemonEnds \/ DaemonStarts
  BY <1>6, DaemonEndsKeeps, DaemonStartsKeeps
<1> QED
  BY <1>1, <1>2, <1>3, <1>4, <1>5, <1>6, Zenon DEF SessNext

(* A registered launcher keeps its route and its record, whatever becomes  *)
(* of its older connections, of the reaper's passes and of the daemon.     *)
THEOREM RegisteredStaysReachable == SessSpec => []LauncherReachable
<1>0. NoOne \notin Wrapper \cup Conn
  BY SessionsAssumption
<1>1. SessInit => ReachInv
  <2> SUFFICES ASSUME SessInit PROVE ReachInv
    OBVIOUS
  <2>1. /\ used.conns = [c \in Conn |-> NoOne] /\ used.replied = {}
        /\ used \in [conns : {used.conns}, replied : {used.replied}, faults : {used.faults}]
    BY DEF SessInit
  <2>2. Shapes
    BY <2>1 DEF SessInit, Shapes
  <2>3. \A v \in Wrapper, c \in Conn : link[v] # c
    BY <1>0 DEF SessInit
  <2>4. Newest /\ Progress
    BY <2>3 DEF Newest, Progress, SessInit
  <2>5. Unused
    BY <2>1 DEF Unused, SessInit
  <2> QED
    BY <2>2, <2>4, <2>5 DEF ReachInv, Away, SessInit
<1>2. ReachInv /\ [SessNext]_sessVars => ReachInv'
  BY ReachStep
<1>3. ReachInv => LauncherReachable
  <2> SUFFICES ASSUME ReachInv, NEW w \in alive \ exiting, link[w] \in used.replied
               PROVE  route[w] = link[w] /\ w \in sessions
    BY DEF LauncherReachable
  <2>1. link[w] \in Conn /\ w \in Wrapper
    BY DEF ReachInv, Shapes
  <2> QED
    BY <2>1 DEF ReachInv, Progress, Asks, Registered
<1> QED
  BY <1>1, <1>2, <1>3, PTL DEF SessSpec
=============================================================================
