----------------------------- MODULE LimitPolicy -----------------------------
(***************************************************************************)
(* The limit policy of one profile (supervisor/policy.py): usage windows   *)
(* that fill, jitter and reset, the holds the policy keeps for them, and   *)
(* the sessions those holds pause.  Operations end in `evaluate`, as in    *)
(* the engine, and its actions are carried out on the session records at   *)
(* once: PauseProtocol is about the commands that follow.                  *)
(*                                                                         *)
(* Time is a number; a window-instance key is a reset time rounded to a    *)
(* multiple of Minute.  A percent is one of three levels: below `warn`,    *)
(* from `warn`, from `pause`.  The credit cap never changes, and keys are  *)
(* never evicted from the bounded lists.  A forced poll is a poll: one may *)
(* come, fail or not come at any time.  Holds, warnings and windows carry  *)
(* the number `no` of the real window behind them, which no code reads.    *)
(***************************************************************************)
EXTENDS Integers, FiniteSets

CONSTANTS
    Kind,          \* window kinds: "session", "weekly", "model_scoped"
    Session,       \* sessions of the profile
    Levels,        \* levels of use that occur
    Period,        \* length of a window
    Jitter,        \* how far a reported `resets_at` may be off
    Minute,        \* window keys are rounded to this
    Tolerance,     \* RESET_TOLERANCE
    Delay,         \* CONFIRM_DELAY
    GiveUp,        \* CONFIRM_GIVE_UP
    Credits,       \* whether the account may have extra usage
    ModelBack,     \* whether a session may return to the scoped model
    MaxTime,       \* bound on time
    MaxOps         \* bound: manual pauses, restarts, config and credit changes in all

Warn == 1
Pause == 2

ASSUME LimitPolicyAssumption ==
    /\ Kind \subseteq {"session", "weekly", "model_scoped"}
    /\ {0, Pause} \subseteq Levels /\ Levels \subseteq 0 .. Pause
    /\ {Period, Minute, GiveUp} \subseteq Nat \ {0}
    /\ {Tolerance, Delay, MaxTime, MaxOps} \subseteq Nat
    /\ Jitter \subseteq Int
    /\ \A i, j \in Jitter : Minute + 2 * (i - j) <= 2 * Tolerance
    /\ Period > 2 * Tolerance
    /\ Credits \in BOOLEAN /\ ModelBack \in BOOLEAN

VARIABLES
    now,
    real,     \* what the windows really are
    credit,   \* what the extra usage really is
    conf,     \* the profile's switches
    snap,     \* the usage snapshot
    st,       \* supervisor/<profile>.json
    sess,     \* the session records; `done` is history: holds already overridden
    left,     \* what is left of MaxOps
    paused    \* history: the real windows a hold was created for

world == <<now, real, credit>>
vars == <<now, real, credit, conf, snap, st, sess, left, paused>>

NoTime == -1
SpillKinds == {"session", "weekly"}
Models == {"unknown", "scoped", "other"}
NoSession == [on |-> FALSE, state |-> "running", model |-> "unknown",
              over |-> {}, pend |-> {}, done |-> {}]

Init ==
    /\ now = 0
    /\ real = [k \in Kind |-> [no |-> 0, active |-> FALSE, resets |-> 0, level |-> 0]]
    /\ credit = [enabled |-> Credits, level |-> 0]
    /\ conf = [enabled |-> TRUE, spill |-> FALSE, warnOnly |-> FALSE]
    /\ snap = [status |-> "none", windows |-> {}, fetched |-> NoTime,
               credit |-> [enabled |-> FALSE, level |-> 0]]
    /\ st = [holds |-> {}, warned |-> {}, paused |-> {}, released |-> {}, arm |-> 0]
    /\ sess = [i \in Session |-> NoSession]
    /\ left = MaxOps
    /\ paused = {}

Credit == [enabled : BOOLEAN, level : Levels]
Times == 0 .. MaxTime
InstanceOK(x) == x.kind \in Kind \cup {"manual", "extra_usage"} /\ x.at \in Nat
TypeOK ==
    /\ now \in Times
    /\ real \in [Kind -> [no : Nat, active : BOOLEAN, resets : Nat, level : Levels]]
    /\ credit \in Credit
    /\ conf \in [enabled : BOOLEAN, spill : BOOLEAN, warnOnly : BOOLEAN]
    /\ snap.status \in {"none", "ok", "bad"} /\ snap.credit \in Credit
    /\ snap.fetched \in Times \cup {NoTime}
    /\ \A v \in snap.windows : v.kind \in Kind /\ v.observed \in Times /\ v.level \in Levels
    /\ Cardinality({v.kind : v \in snap.windows}) = Cardinality(snap.windows)
    /\ \A x \in st.holds : InstanceOK(x.inst) /\ x.started \in Times \cup {NoTime}
    /\ \A x \in st.paused \cup st.released : InstanceOK(x)
    /\ st.arm \in Nat
    /\ \A i \in Session : /\ sess[i].state \in {"running", "paused", "overridden"}
                          /\ sess[i].model \in Models
                          /\ \A x \in sess[i].over \cup sess[i].pend : InstanceOK(x)

-----------------------------------------------------------------------------
(* Window instances. *)

\* The minute nearest to a time.
KeyTime(t) == ((2 * t + Minute) \div (2 * Minute)) * Minute
Instance(kind, at) == [kind |-> kind, scope |-> "all", at |-> at]
Gap(a, b) == IF a >= b THEN a - b ELSE b - a

\* Mutant: only the rounded time is compared.
MatchExactly(kind, resets, known) == Instance(kind, KeyTime(resets))
\* Mutant: any earlier window of the kind is taken for this one.
MatchAny(kind, resets, known) ==
    LET near == {i \in known : i.kind = kind} IN
    IF near = {} THEN Instance(kind, KeyTime(resets)) ELSE CHOOSE i \in near : TRUE

\* A known key of the same window within the tolerance, the fresh one or the closest first.
MatchInstance(kind, resets, known) ==
    LET fresh == Instance(kind, KeyTime(resets))
        near == {i \in known : i.kind = kind /\ Gap(i.at, resets) <= Tolerance}
    IN  IF fresh \in known \/ near = {} THEN fresh
        ELSE CHOOSE i \in near : \A j \in near : Gap(i.at, resets) <= Gap(j.at, resets)

Insts(holds) == {x.inst : x \in holds}
KnownInstances(s, ss) ==
    Insts(s.holds) \cup Insts(s.warned) \cup s.paused \cup s.released
        \cup UNION {ss[i].over \cup ss[i].pend : i \in Session}

-----------------------------------------------------------------------------
(* Holds and the sessions they apply to. *)

Applies(x, i, r) ==
    CASE x.inst.kind = "model_scoped" -> r.model = "scoped"
      [] x.inst.kind = "manual"       -> x.inst.scope \in {"all", i}
      [] OTHER                        -> TRUE
Applicable(holds, i, r) == {x \in holds : Applies(x, i, r)}
Undecided(holds, r) == {x \in holds : x.inst.kind = "model_scoped" /\ r.model = "unknown"}
Ids(holds) == {<<x.inst.kind, x.no>> : x \in holds}

\* Mutant: a pending start-anyway instance does not become overridden.
AdoptedNever(holds, i, r) == {}
\* A session started anyway is overridden for instances its model turns out to match.
Adopted(holds, i, r) == Insts(Applicable(holds, i, r)) \cap r.pend

\* Step 6 and its actions: adopt, then pause, resume or mark running.
Applied(holds, i, r) ==
    LET adopted == Adopted(holds, i, r)
        applicable == Insts(Applicable(holds, i, r))
        found == [r EXCEPT !.over = @ \cup adopted, !.pend = @ \ adopted,
                           !.state = IF adopted # {} /\ @ # "paused" THEN "overridden" ELSE @]
        effective == applicable \ found.over
    IN  CASE ~r.on -> r
          [] r.on /\ effective # {} -> [found EXCEPT !.state = "paused"]
          [] r.on /\ effective = {} /\ r.state = "paused" -> [found EXCEPT !.state = "running"]
          [] r.on /\ effective = {} /\ r.state # "paused" ->
                IF found.state = "overridden" /\ found.over \cap applicable = {}
                THEN [found EXCEPT !.state = "running", !.over = {}]
                ELSE found

-----------------------------------------------------------------------------
(* `evaluate`. *)

SpillActive(cf, sn) == cf.spill /\ sn.credit.enabled
Fresh(sn) == sn.status = "ok"

\* Session-scoped manual holds end with their session.
WithoutOrphans(s, ss) ==
    [s EXCEPT !.holds = {x \in @ : x.inst.scope = "all" \/ ss[x.inst.scope].on}]

\* Steps 0 and 2: nothing is held while disabled, no plan window while work spills over.
\* Instances that spill released may pause again.
Suspended(cf, sn, s) ==
    LET spilled == {x \in s.holds : SpillActive(cf, sn) /\ x.inst.kind \in SpillKinds} IN
    IF ~cf.enabled THEN [s EXCEPT !.holds = {}]
    ELSE [s EXCEPT !.holds = @ \ spilled, !.paused = @ \ Insts(spilled)]
Spilled(cf, sn, s) ==
    IF cf.enabled THEN {x \in s.holds : SpillActive(cf, sn) /\ x.inst.kind \in SpillKinds} ELSE {}

Hold(inst, no, resets) == [inst |-> inst, no |-> no, resets |-> resets, started |-> NoTime]
Warning(level, inst, no) == [level |-> level, inst |-> inst, no |-> no]
\* Warnings not given yet.
NewWarnings(warnings, s) ==
    {x \in warnings : ~\E y \in s.warned : y.level = x.level /\ y.inst = x.inst}

MayHold(inst, s) == inst \notin s.paused \cup s.released \cup Insts(s.holds)

\* Step 3: warn once per window instance and level, hold once per instance.
WindowsSeen(cf, sn, s, known, t) ==
    LET open == {v \in sn.windows : Fresh(sn) /\ v.resets > t}
        inst(v) == MatchInstance(v.kind, v.resets, known)
        warnOnly(v) == v.kind = "model_scoped" /\ cf.warnOnly
        warnings == {Warning(Warn, inst(v), v.no) : v \in {u \in open : u.level >= Warn}}
             \cup {Warning(Pause, inst(v), v.no) : v \in {u \in open : u.level = Pause /\ warnOnly(u)}}
        full == {v \in open : /\ v.level = Pause /\ cf.enabled /\ ~warnOnly(v)
                              /\ ~(SpillActive(cf, sn) /\ v.kind \in SpillKinds)
                              /\ MayHold(inst(v), s)}
        new == {Hold(inst(v), v.no, v.resets) : v \in full}
    IN  [s EXCEPT !.warned = @ \cup NewWarnings(warnings, s),
                  !.holds = @ \cup new, !.paused = @ \cup Insts(new)]

\* Step 4: the credits, a new instance each time they fall below `warn`.
CreditSeen(cf, sn, s) ==
    LET this == Instance("extra_usage", s.arm)
        fired == this \in Insts(s.warned) \cup s.paused \cup s.released
        arm == IF sn.credit.level < Warn /\ fired THEN s.arm + 1 ELSE s.arm
        inst == Instance("extra_usage", arm)
        warnings == IF sn.credit.level >= Warn THEN {Warning(Warn, inst, arm)} ELSE {}
        full == /\ SpillActive(cf, sn) /\ cf.enabled /\ sn.credit.level = Pause
                /\ MayHold(inst, s) /\ ~\E x \in s.holds : x.inst.kind = "extra_usage"
        new == IF full THEN {Hold(inst, arm, NoTime)} ELSE {}
    IN  IF ~Fresh(sn) \/ ~sn.credit.enabled THEN s
        ELSE [s EXCEPT !.arm = arm, !.warned = @ \cup NewWarnings(warnings, s),
                       !.holds = @ \cup new, !.paused = @ \cup Insts(new)]

\* Mutant: any later reset time is taken for a new window.
ResetConfirmedAtOnce(x, sn) ==
    LET ws == {v \in sn.windows : v.kind = x.inst.kind} IN
    IF ws = {} THEN sn.fetched > x.resets
    ELSE \E v \in ws : v.observed > x.resets /\ (v.resets > x.resets \/ v.level < Warn)

\* Data observed after the reset shows another window, none, or one below `warn`.
ResetConfirmed(x, sn) ==
    LET ws == {v \in sn.windows : v.kind = x.inst.kind} IN
    IF ws = {} THEN sn.fetched > x.resets
    ELSE \E v \in ws : /\ v.observed > x.resets
                       /\ v.resets > x.resets + Tolerance \/ v.level < Warn

\* Mutant: each look at an unconfirmed hold starts its confirmation anew.
StartedAnew(x, t) == [x EXCEPT !.started = t]
Started(x, t) == IF x.started = NoTime THEN [x EXCEPT !.started = t] ELSE x

\* Step 5: a hold ends when its reset is confirmed, or unconfirmed for GiveUp.
Confirmed(cf, sn, s, created, t) ==
    LET due == {x \in s.holds \ created : x.inst.kind \in Kind /\ t >= x.resets + Delay}
        over == {x \in due : Fresh(sn) /\ ResetConfirmed(x, sn)}
        givenUp == {x \in due \ over : t >= Started(x, t).started + GiveUp}
        credits == {x \in s.holds \ created :
                       /\ x.inst.kind = "extra_usage" /\ Fresh(sn)
                       /\ ~sn.credit.enabled \/ sn.credit.level < Pause \/ ~cf.spill}
    IN  [s EXCEPT !.holds = (@ \ (due \cup credits))
                               \cup {Started(x, t) : x \in due \ (over \cup givenUp)},
                  !.released = @ \cup Insts(givenUp)]

\* One policy pass, and what it does to the session records.
Evaluates(cf, sn, s, ss, t) ==
    LET s0 == WithoutOrphans(s, ss)
        s2 == Suspended(cf, sn, s0)
        s4 == CreditSeen(cf, sn, WindowsSeen(cf, sn, s2, KnownInstances(s0, ss), t))
        created == {x \in s4.holds : x.inst \notin Insts(s2.holds)}
        spilled == Ids(Spilled(cf, sn, s0))
    IN  /\ st' = Confirmed(cf, sn, s4, created, t)
        /\ sess' = [i \in Session |-> [Applied(st'.holds, i, ss[i]) EXCEPT !.done = @ \ spilled]]
        /\ paused' = (paused \ spilled) \cup Ids(created)

-----------------------------------------------------------------------------
(* The world. *)

\* Somebody uses the account: a window starts, or fills.
Use(k) ==
    /\ IF real[k].active
       THEN \E l \in {n \in Levels : n > real[k].level} : real' = [real EXCEPT ![k].level = l]
       ELSE \E l \in Levels : real' = [real EXCEPT ![k] =
                [no |-> @.no + 1, active |-> TRUE, resets |-> now + Period, level |-> l]]
    /\ UNCHANGED <<now, credit, conf, snap, st, sess, left, paused>>

\* A window ends at its reset time, or a little later.
WindowEnds(k) ==
    /\ real[k].active /\ now >= real[k].resets
    /\ real' = [real EXCEPT ![k].active = FALSE]
    /\ UNCHANGED <<now, credit, conf, snap, st, sess, left, paused>>

CreditMoves ==
    /\ Credits /\ left > 0
    /\ left' = left - 1
    /\ credit' \in Credit \ {credit}
    /\ UNCHANGED <<now, real, conf, snap, st, sess, paused>>

\* Time passes; `on_tick` evaluates a profile that has holds or sessions not running.
Advance ==
    /\ now < MaxTime
    /\ now' = now + 1
    /\ IF st.holds # {} \/ \E i \in Session : sess[i].on /\ sess[i].state # "running"
       THEN Evaluates(conf, snap, st, sess, now')
       ELSE UNCHANGED <<st, sess, paused>>
    /\ UNCHANGED <<real, credit, conf, snap, left>>

-----------------------------------------------------------------------------
(* Usage data. *)

Observed(k, j, l) ==
    [kind |-> k, no |-> real[k].no, resets |-> real[k].resets + j, level |-> l, observed |-> now]

\* A poll: the windows that are running, each with its jitter.
Poll ==
    /\ \E j \in [Kind -> Jitter] :
          snap' = [status |-> "ok", fetched |-> now, credit |-> credit,
                   windows |-> {Observed(k, j[k], real[k].level) :
                                  k \in {n \in Kind : real[n].active}}]
    /\ Evaluates(conf, snap', st, sess, now)
    /\ UNCHANGED <<world, conf, left>>

\* A poll fails, or the data is too old: what was known is kept and no longer fresh.
PollFails ==
    /\ snap.status # "bad"
    /\ snap' = [snap EXCEPT !.status = "bad"]
    /\ Evaluates(conf, snap', st, sess, now)
    /\ UNCHANGED <<world, conf, left>>

Overlay(windows, v) == {u \in windows : u.kind # v.kind} \cup {v}

\* A statusline report, maybe a stale redraw: within a window the higher level stays.
LiveReport(k) ==
    /\ k \in SpillKinds /\ real[k].active
    /\ \E j \in Jitter, l \in {n \in Levels : n <= real[k].level} :
          LET v == Observed(k, j, l) IN
          /\ v.resets > now
          /\ \A u \in snap.windows : u.kind = k =>
                IF Gap(u.resets, v.resets) <= Tolerance THEN l >= u.level ELSE u.observed < now
          /\ snap' = [snap EXCEPT !.windows = Overlay(@, v),
                                  !.status = IF @ = "none" THEN "ok" ELSE @]
    /\ snap' # snap
    /\ Evaluates(conf, snap', st, sess, now)
    /\ UNCHANGED <<world, conf, left>>

-----------------------------------------------------------------------------
(* The daemon's operations. *)

ConfigChange ==
    /\ left > 0
    /\ left' = left - 1
    /\ conf' \in [enabled : BOOLEAN, spill : {FALSE, Credits},
                  warnOnly : {FALSE, "model_scoped" \in Kind}] \ {conf}
    /\ Evaluates(conf', snap, st, sess, now)
    /\ UNCHANGED <<world, snap>>

\* `ccs pause`, for the profile (scope "all") or one session; a second one changes nothing.
ManualPause(scope) ==
    LET inst == [kind |-> "manual", scope |-> scope, at |-> left] IN
    /\ left > 0 /\ conf.enabled
    /\ scope # "all" => sess[scope].on
    /\ left' = left - 1
    /\ Evaluates(conf, snap,
                 IF \E x \in st.holds : x.inst.kind = "manual" /\ x.inst.scope = scope THEN st
                 ELSE [st EXCEPT !.holds = @ \cup {Hold(inst, left, NoTime)},
                                 !.paused = @ \cup {inst}],
                 sess, now)
    /\ UNCHANGED <<world, conf, snap>>

Released(s, holds) ==
    [s EXCEPT !.holds = @ \ holds, !.released = @ \cup Insts(holds)]

\* `ccs resume` of the profile.
ResumeAll ==
    /\ Evaluates(conf, snap, Released(st, st.holds), sess, now)
    /\ UNCHANGED <<world, conf, snap, left>>

\* The user's override of what holds session `i` now.
Overridden(holds, i, r) ==
    [r EXCEPT !.over = @ \cup Insts(Applicable(holds, i, r)),
              !.done = @ \cup Ids(Applicable(holds, i, r))]

\* `ccs resume --session`: ends the session's own manual hold and overrides the others.
ResumeSession(i) ==
    LET own == {x \in st.holds : x.inst.kind = "manual" /\ x.inst.scope = i}
        r == Overridden(st.holds \ own, i, sess[i])
    IN  /\ sess[i].on
        /\ st' = Released(st, own)
        /\ sess' = IF sess[i].state # "paused" THEN sess
                   ELSE [sess EXCEPT ![i] = [r EXCEPT !.state =
                            IF Applicable(st'.holds, i, r) = {} THEN "running" ELSE "overridden"]]
        /\ UNCHANGED <<world, conf, snap, left, paused>>

\* The user submits a prompt in a paused session.
Submit(i) ==
    /\ sess[i].on /\ sess[i].state = "paused"
    /\ Evaluates(conf, snap, st,
                 [sess EXCEPT ![i] = [Overridden(st.holds, i, @) EXCEPT !.state = "overridden"]],
                 now)
    /\ UNCHANGED <<world, conf, snap, left>>

\* A session registers, maybe started anyway despite the holds.
Start(i) ==
    /\ ~sess[i].on
    /\ \E anyway \in BOOLEAN :
          LET new == [NoSession EXCEPT !.on = TRUE]
              over == Overridden(st.holds, i, new)
              undecided == Undecided(st.holds, new)
          IN Evaluates(conf, snap, st,
                [sess EXCEPT ![i] =
                    IF ~anyway THEN new
                    ELSE [over EXCEPT !.state = IF @ = "running" /\ over.over # {}
                                                THEN "overridden" ELSE @,
                                      !.pend = Insts(undecided),
                                      !.done = @ \cup Ids(undecided)]],
                now)
    /\ UNCHANGED <<world, conf, snap, left>>

\* A session unregisters or is reaped.
End(i) ==
    /\ sess[i].on
    /\ sess' = [sess EXCEPT ![i] = NoSession]
    /\ st' = WithoutOrphans(st, sess')
    /\ UNCHANGED <<world, conf, snap, left, paused>>

\* A live report names the session's model; the profile is only evaluated with it if the
\* report changed the usage data.
SetModel(i, m) ==
    LET known == [sess EXCEPT ![i].model = m] IN
    /\ sess[i].on /\ m \notin {"unknown", sess[i].model}
    /\ m = "scoped" /\ sess[i].model = "other" => ModelBack
    /\ \/ Evaluates(conf, snap, st, known, now)
       \/ sess' = known /\ UNCHANGED <<st, paused>>
    /\ UNCHANGED <<world, conf, snap, left>>

\* The daemon restarts: confirmations start again, the rest is read back.
Restart ==
    /\ left > 0
    /\ left' = left - 1
    /\ st' = [st EXCEPT !.holds = {[x EXCEPT !.started = NoTime] : x \in @}]
    /\ UNCHANGED <<world, conf, snap, sess, paused>>

World == \E k \in Kind : Use(k) \/ WindowEnds(k)
Reports == \E k \in Kind : LiveReport(k)
Pauses == \E scope \in {"all"} \cup Session : ManualPause(scope)
Sessions ==
    \E i \in Session : \/ ResumeSession(i) \/ Submit(i) \/ Start(i) \/ End(i)
                       \/ \E m \in Models : SetModel(i, m)

Next ==
    \/ World \/ CreditMoves \/ Advance \/ Poll \/ PollFails \/ Reports \/ ConfigChange
    \/ Pauses \/ ResumeAll \/ Sessions \/ Restart

Spec == Init /\ [][Next]_vars

-----------------------------------------------------------------------------
(* Properties. *)

\* A real window warns once per level and is held once, however its reset time jitters, and
\* after a restart; only spill gives a hold back (ADR-0008: "Warn fires once per instance",
\* "Pause fires once per instance").
WarnOnce ==
    \A x \in st'.warned \ st.warned : ~\E y \in st.warned :
        y.level = x.level /\ y.inst.kind = x.inst.kind /\ y.no = x.no
PauseOnce ==
    \A x \in st'.holds : x.inst.kind \in Kind /\ x.inst \notin Insts(st.holds)
        => <<x.inst.kind, x.no>> \notin paused
ActsOnce == [][WarnOnce /\ PauseOnce]_vars

\* A window known to be full gets its hold: it is never taken for an earlier one.
FullIsHeld ==
    \A v \in snap.windows :
        /\ Fresh(snap) /\ v.level = Pause /\ v.resets > now /\ conf.enabled
        /\ ~(v.kind = "model_scoped" /\ conf.warnOnly)
        /\ ~(v.kind \in SpillKinds /\ SpillActive(conf, snap))
        => <<v.kind, v.no>> \in paused

\* A hold only ends by itself when its window is really over; otherwise supervision was
\* switched off, work spilled over, the user resumed, or the confirmation was given up.
NoEarlyRelease ==
    [][\A x \in st.holds :
          x.inst.kind \in Kind /\ x.inst \notin Insts(st'.holds)
          => \/ ~conf'.enabled \/ SpillActive(conf', snap') \/ x.inst \in st'.released
             \/ real[x.inst.kind].no # x.no \/ ~real[x.inst.kind].active]_vars

\* No hold outlives its reset by more than the confirmation may take, whatever happens to
\* the polls; a daemon restart starts the confirmation again.
HoldBounded ==
    \A x \in st.holds : x.inst.kind \in Kind =>
        now <= x.resets + Delay + GiveUp * (1 + MaxOps - left)

\* No step pauses a session for what the user already overrode in it, or started it against
\* (ADR-0008: "After a resume or an override, the same instance never re-pauses").
OverrideKept ==
    [][\A i \in Session :
          sess[i].state # "paused" /\ sess'[i].state = "paused" =>
             \A x \in Applicable(st'.holds, i, sess'[i]) :
                x.inst \notin sess'[i].over => <<x.inst.kind, x.no>> \notin sess'[i].done]_vars

=============================================================================
