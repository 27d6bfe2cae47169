# A verification of cc-supervisor

cc-supervisor watches the usage limits of Claude Code accounts. When a usage window is nearly
full it pauses the sessions of the account, and resumes them when the window resets. It has a
daemon, a launcher around every supervised session, a macOS app with widgets, and the `ccs`
command line.

This directory holds TLA+ modules of it, the TLC runs that check them on small instances, and
proofs for every instance. Paths in this file are below `src/python/src/ccs` unless they start
with `src/`.

    tlc -workers 2 -config PauseLossy.cfg MCPauseProtocol
    tlc -workers 2 -config Daemon.cfg MCDaemon
    tlapm PauseReliable_proofs.tla

`PROJECT.json` names every run with its properties, the source lines of every definition, the
mutants that break each property, the hazards, the findings and the theorems.

| module | models | run | proofs |
|---|---|---|---|
| `CommandHandler` | the launcher's pause and resume steps, the user, Claude | with PauseProtocol | with PauseProtocol |
| `PauseProtocol` | daemon, connection and launcher together, for one session | `Pause*`, `SilentStopDrop` | `PauseProtocol_proofs`, `PauseSafety_proofs`, `PauseReliable_proofs` |
| `SessionPause` | what pausing promises a session: the abstract specification | `PauseLossy` | `PauseSafety_proofs` |
| `LimitPolicy` | windows, holds and sessions of one profile | `Limit*` | `LimitPolicy_proofs` |
| `DaemonLock` | daemons that want to be the only one | `Daemon` | `Daemon_proofs` |
| `Poller` | poll loops, and the requests for a poll | `Daemon` | `Daemon_proofs` |
| `SignIn` | sign-ins and sign-outs of a profile | `Daemon` | |
| `AppConnection` | the app's connection to the daemon | `Daemon` | `Daemon_proofs` |
| `SnapshotStore` | the app's snapshot and the widget's reloads | `Daemon` | |
| `EventLog` | the event log, its rotation and its dedupe memory | `Files` | `Files_proofs` |
| `StatuslineSetting` | `ccs statusline apply` and `revert` | `Files` | `Files_proofs` |
| `ConfigStore` | `config.json`, its writers, and the daemon that follows it | `Files`, `StartMissesConfig` | `Files_proofs` |
| `LiveReports` | the statuslines' reports and their watcher | `Files` | `Files_proofs` |
| `Warmup` | schedule, wake, auto-chain and runner | `Claude`, `UnlockHours` | `Claude_proofs` |
| `ClaudeCli` | the claude processes that ccs starts | `Claude` | `Claude_proofs` |
| `Terminal` | the launcher between claude and the terminal | `Claude` | `Streams_proofs` |
| `Keys` | what the user types on its way to claude | `Claude` | `Streams_proofs` |
| `Sessions` | the daemon's registry of launchers | `Claude` | `Claude_proofs` |
| `Broadcast` | events and snapshots for the subscribers | `Claude` | `Streams_proofs` |

`MCPauseProtocol`, `MCLimitPolicy` and `MCWarmup` give TLC its symmetry and its sets. `MCDaemon`,
`MCFiles` and `MCClaude` are sums of components that share no state: `part` says which of them a
behaviour shows, the others stay in an initial state in which nothing of their own is due, and
every property is required of the part it is about.


## The system

| component | state | operations | talks to |
|---|---|---|---|
| limit policy (`supervisor/policy.py`, `model.py`) | holds, warned / paused / released window instances, credits arm (`supervisor/<profile>.json`) | `evaluate`, manual hold, release, orphaned holds | called by the engine; returns actions |
| supervisor engine (`supervisor/engine.py`) | a supervision record per session (`sessions/<id>.json`), a command queue per launcher | evaluate on usage, ticks, registration, events, config changes; `pause` and `resume` operations | policy, daemon connections |
| daemon server (`daemon/server.py`) | connections, session records, config, usage snapshots | register, unregister, events, commands and acks, subscribe, start and stop | everything, over a unix socket |
| reaper, watchers, sampler (`daemon/reaper.py`, `watchers.py`, `sampler.py`) | time of the last re-registration, file stats, live reports | drop dead sessions, read statusline reports, reload the config | server, engine |
| poller (`daemon/poller.py`) and usage (`usage/`) | a loop per profile, waiting requests, back-off; polled and merged snapshots | poll, force a poll, merge with live reports | Claude Code, engine |
| warm-up (`daemon/scheduler.py`, `warmup/`) | chains, consumed occurrences, last attempt | schedule, wake catch-up, auto-chain, run | poller, Claude Code |
| claude processes (`claude_cli.py`) | `_RUNNING`, `_EXITED` | run with a timeout, probe the usage, list sessions | poller, warm-up, sampler, sign-in |
| events (`events.py`, `notify.py`) | log, seen keys | emit once per key, rotate | app, notifications |
| daemon lock, safe files (`fsio.py`) | lock file, socket | claim, watch, release; atomic write, append | every writer |
| config store (`config/`) | `config.json` with a revision | read, change under lock | CLI, app, watcher |
| launcher link (`launcher/daemon_link.py`) | connection, queue of commands | register, reconnect, ack, report | server |
| command handler (`launcher/commands.py`, `inject.py`, `session_map.py`) | pause in progress, override and draft memory, last pause carried out | pause steps, resume steps, user input | link, PTY |
| PTY proxy (`launcher/pty_proxy.py`, `term_modes.py`, `main.py`) | child process, terminal modes, typing | forward, suspend, restore | Claude Code, handler |
| statusline (`statusline/`) | `settings.json`, the record of what was replaced, backups, live reports | apply, revert, report | Claude Code, live watcher |
| sign-in (`auth.py`) | script and `.done` file of a Terminal window | login, logout, wait | Claude Code |
| launchd, doctor, CLI | settings of other programs | install, print | |
| macOS app (`src/macos`) | connection with back-off, snapshot, config editor, widget reloads | connect, show, edit, notify | server, config file |

What is hard in it:

- A pause takes many awaits in the launcher: two lookups, up to three ESC keys, a chord, footer
  rows, two typing guards. Between any two of them the user types or submits, Claude starts
  or ends a turn, the connection breaks, and the daemon changes its mind.
- Commands, acks and override reports are lost, late or answered for an earlier pause. A
  pause is resent under its own id, and the launcher answers a resend from memory.
- The daemon may die between its writes. The launcher keeps its own idea of the pause over
  that time.
- Whether a session gets a resume prompt depends on what was seen before its pause and what the
  user did since, and prompts must never meet a draft.
- A usage window has no identity but its reset time, which jitters; holds, warnings and overrides
  are all keyed by it. A hold ends on evidence that is polled, late or missing.
- Every handler of the daemon awaits somewhere: the registry, the reaper, the watcher and the
  poller go on with what they read before, while a launcher reconnects or a config changes.
- Files have writers that do not know of each other: two daemons, `ccs` and the app, Claude Code
  and the user, an event append that stops in the middle.
- Wall-clock times jump: a schedule must survive sleep, a set clock and a restart.
- Bytes come in pieces: escape sequences from and to the terminal are split between reads.
- The app's connection, its back-off, `reconnectNow` and late callbacks cross each other.

What makes each component correct: daemon and launcher agree on the pause once all messages
arrived; a pause is carried out, and once; no prompt on a guess, twice, or into a draft; no ESC
into the user's own turn; no session stays paused that nothing holds; no interrupted session is
silently forgotten; one warning and one hold per real window; no full window missed; no hold
released early or kept for ever; overrides last; one daemon at a time; every poll request answered
once, by a later probe; a warm-up exactly once per occurrence and once per window; no config change
lost; an event logged once and never swallowed; foreign settings kept; the terminal restored and
no key lost; a living launcher reachable; no claude process left behind; the app on one
connection, and the last change on the widget.


## CommandHandler

The state of `CommandHandler` (`launcher/commands.py`), of the terminal, and of Claude.

- `h` holds the handler's fields. `paused`, `submitted`, `typed`, `background` and `done` are the
  attributes of that name; `pid` is `_pause_id`; `reported` is `override_reported`; `sending` is
  `_override_sending`; `stale` says that the report under way belongs to an earlier `_pause_no`;
  `typedAt` and `submittedAt` are the wall-clock times. `draft` is `_draft_likely()`.
- `w` is the coroutine of the command being carried out. Each value of `w.pc` is one `await`, and
  the code from one await to the next is one action: `Look`, `FirstEsc`, `Verify`, `SecondEsc`,
  `Chord`, `Key`, `SweepRow`, `FinalEsc`, `EndPause` for `_pause_steps` and
  `_stop_workflows`, `WaitIdle`, `Paste`, `Submit` for `_resume`. `Take` begins a command.
- `claude` is what Claude does: idle, in a turn, waiting for a permission, or idle with
  background work (which `claude agents --json` calls busy). `Seen` is what a lookup returns, with
  `unknown` when it may fail.
- `recent` is the typing guard's clock: the user typed less than `typing_gap_s` ago. A guard
  goes on when that is over or when it waited its `typing_max_s` (`GuardGivesUp`).
- `ran`, `esc` and `touched` are history: which pauses were started, whether an ESC cut off a
  turn that nothing continued, whether the user typed after the pause's first ESC.

A pause id is the number of the pause. Times are only ever compared with the start of a pause, so
the time of a key is the number of pauses issued before it. `_inject`'s log events have no state.

What Claude does by itself and what keys do to it is not in the repository; it is modelled from
what the code expects (`ClaudeMoves`, `EscLeaves`, `StopLeaves`). An ESC may end the turn, get lost,
or leave background work; stopping background work may start a turn.

## PauseProtocol and SessionPause

PauseProtocol is one session: the engine's commands and record, the connection, the launcher's
link, and the handler.

- `hold` is the part of `supervisor/<profile>.json` that matters to this session: every window
  instance is new, holding, or over. Instances do not come back; that is what LimitPolicy is about.
- `sup` is the record's `supervision` block, with `pend` for `pause_pending`, `busy` for
  `was_busy_at_pause` and `over` for `overridden_instances`. `Evaluated` is what `evaluate` does for
  the session, and `Become` what `_execute` writes.
- `cmds` is the chain of tasks behind `_spawn_cmd`'s lock. The first has been sent or waits for its
  turn (`StartCmd`, with the check that the pause is still wanted); `CommandEnds` is `on_ack` and
  the evaluation after it. A command ends with its ack, with `timeout`, or with `not_connected`.
- `c2d` and `d2c` are the two directions of the socket. `Drop` breaks it with everything under way;
  `Crash` stops the daemon, maybe between the state file and the records; `Restart` reads both back.
- `Connect`, `LauncherReads`, `SendAck`, `Reports` and `ReportTimeout` are `DaemonLink`. An ack goes
  out on the connection that brought the command. The override report is written at once or fails.
- `OpResume` is `ccs resume --session`, `HoldStep` every other way in which holds come and go, and
  `Reap` the reaper's removal of a record whose launcher stayed away.

SessionPause has no daemon, launcher, connection or crash: holds come and end, a pause may be
issued for a hold that the session was not overridden for, a pause that was issued may be begun in
the terminal, in order, and the overrides are forgotten only with the record or when they cover
nothing that is held. `KeepsPromise` says that PauseProtocol implements it, under the mapping
`Promise` at the end of PauseProtocol.

Assumptions. The daemon sees the end of a connection before the launcher's next one (the launcher
waits at least 0.5 s). A reply is encoded when the daemon answers. An idle command worker takes a
command when it arrives. Not modelled: commands that raise (`failed` acks), the launcher's exit
(Sessions has it for the registry), the removal of a profile.

Bounds: `MaxDrops` breaks or crashes in all, `MaxTimeouts` late acks or reports, `MaxInputs` keys or
submits, two instances at most (one may end while the other goes on, or hold the session anew).
One drop is enough for a lost command, a lost ack, a lost report, a missed pause and a resend;
two instances for a second pause during what is left of the first. Lookups may fail (`Unknown`) in both safety runs. `PauseReliable` has no drops
because `NoSilentStop` and `DraftSafe` fail with one (see Findings); `NotStuckPaused` is a promise
about a connection that holds. `NeverRepaused` needs records that are not reaped.

Fairness (`FairSpec`). Weakly fair are the daemon's ticks, the start of a queued command, reading
what arrived, connecting, restarting, sending an ack, and the handler's next step: each is a callback
or task that an asyncio loop runs as soon as it may, a timer (`tick`, reconnect back-off, the
guard's and `resume_max_s`'s deadlines), or launchd's KeepAlive. Nothing is assumed of the user, of
Claude, of faults, or of holds. That a session is resumed needs no ack to come: a lost
connection ends the command in flight.

## LimitPolicy

One profile: real windows, usage data about them, the holds of `supervisor/<profile>.json`, and the
session records. Here the commands take no time; every operation ends in `evaluate`, whose actions are
carried out on the records.

- `real` and `credit` are the account: windows start, fill, and end at their reset time or later.
- `snap` is the merged usage snapshot. A poll reports every running window with its jitter; it may
  come or fail at any time, which covers `ForcePoll` and its retries. A statusline report overlays one
  window (`LiveReport`, `usage/merge.py`). Data that is old or failed is no longer fresh.
- `st` and `sess` are the state file and the records. `Evaluates` has the steps of `evaluate` in
  their order: `Suspended` (disabled, spill), `WindowsSeen`, `CreditSeen`, `Confirmed`, `Applied`.
- `MatchInstance`, `KeyTime` are the window keys. `Minute`, `Tolerance`, `Delay` and `GiveUp` stand
  for one minute, `RESET_TOLERANCE`, `CONFIRM_DELAY` and `CONFIRM_GIVE_UP`; `LimitPolicyAssumption`
  says how jitter, rounding and tolerance must fit, and that a window is longer than twice the
  tolerance.
- `Advance` is a tick. `ConfigChange`, `ManualPause`, `ResumeAll`, `ResumeSession`, `Submit`, `Start`,
  `End`, `SetModel` and `Restart` are the engine's operations. A statusline report that changes
  only a session's model does not evaluate the profile; one that changes the usage data does.

Every window carries the number `no` of the real window behind it. No code reads it; the properties
are about real windows and the code only has keys. The credit cap is constant, keys are not
evicted from the bounded lists, the usage snapshot survives a restart (the daemon reads it back).

Bounds. `LimitWindows` has session windows of 5 time units up to time 5, keys rounded to 2, reports up
to 1 early, credits and 2 operations; `LimitSessions` a model-scoped window of 3 units up to time 6,
a confirmation 1 late, one session and 1 operation. `MaxTime` lets one window end and the next be full
and held, and lets the confirmation of a reset be given up, also for a window whose reported reset
is early; two reports of the first window can have keys one rounding step apart. Two operations let
spill release a hold and be turned off again. `MaxOps` bounds manual pauses, restarts, config and
credit changes together; resumes, overrides, starts and ends are not bounded. Levels are "low" and
"full" (full is also above the warning). `LimitSessions` has `ModelBack = FALSE`: a session that left
the scoped model does not return to it (see `LimitSwitch`).


## DaemonLock

Daemons with a lock file and a socket (`daemon/server.py`, `fsio.py`, `daemon/launchd.py`,
`daemon/cli.py`). `Agent` is launchd's job, which waits for the lock and is started again whenever it
ends; another daemon is run by hand and gives up.

- `at` is where a daemon is in `start`, `serve` and `stop`. A file is its inode: `lockFile` and
  `sockFile` are what the two paths name, `fd`, `lock`, `listens` and `sockId` what a daemon opened, locked,
  listens on and takes for its own (`_sock_id`).
- `Runs` is a daemon's own next step: open and flock with the check that the path still names the file,
  probe of the socket, bind, the watch of the lock with its take-over, close, unlink, release.
- `Bootout`, `Bootstrap`, `KeepAlive`, `RunByHand`, `Terminate`, `Crash` and `DeleteLock` are launchd, the
  user, and a death that leaves the files.

`OneDaemon`: at most one daemon writes state. `StaysUp`: while launchd keeps the job, in the end one
answers for good. flock and the check after it are one step. `DeletesAnytime = FALSE`: daemon.lock
is not deleted during or just before a start or stop; if it is, two daemons can write at one time (a
starting daemon has not bound the socket by which the other could see it), although ADR-0006:15 says
that the flock guarantees a single instance. Bounds: two daemons, 1 removal, 1 crash, 3 calls or runs:
enough for a daemon by hand against the job, with either's files left behind.

Fairness (`LockFairness`): a daemon's own steps, its retries and its watch are code and timers;
launchd's KeepAlive restarts a job that ended. Nothing is assumed of users or of crashes.

## Poller

`daemon/poller.py` with what a probe of `usage/source_claude.py` does. `loop` is where each profile's loop
is; `req` are the requests somebody awaits (the engine's confirmation, the auto-chain, the refresh
op), `forced` the one that `sync` makes. A config directory is a number, so that a change of it shows.

- `LoopStep` takes the waiting requests as a batch, probes, applies, answers and backs off;
  `PollFails`, `StepFails` and `Dies` are a failed probe, an error in a hook and the death of a loop, which
  `sync` restarts. `SetConfig` adds, moves and removes profiles; `BeginShutdown` and `EndShutdown` are
  the daemon's.
- `FreshAnswer`: usage answers only a request that its probe began after. `EveryAnswered`: everybody who
  asks is answered. `DataFollowsDir`: a directory that stays gets its own data.

One profile (profiles share nothing), two requests (one in flight, one that waits), 2 changes, 2 errors.
Intervals are any time. Fairness (`PollFairness`): the loop's and the timers' steps, and that a
probe ends, which its timeout of 15 s and the reaping enforce.

## SignIn

Two `ccs auth login` / `logout` of one profile (`auth.py`), in a terminal, without one, and through a
Terminal window, whose script and `.done` file are named for the profile only. `stage` is the await a
process is at; `Step` and `Deadline` are its code and its timeouts, `Signal` and `Kill` the app's SIGINT and
SIGKILL, `Confirm`, `ClaudeEnds` and `WindowEnds` the user, claude and the window.

`EndsAlone`: it ends though nobody completes it, and leaves no script, unless it was killed. What can
happen meanwhile: a sign-in may take the `.done` that an abandoned window of an earlier one writes
(`auth.py:257`), and the `finally` of one removes the script of a parallel one. Both end all the same,
and the result is checked with claude's status. Fairness (`SignFairness`): every await has a timeout.

## AppConnection and SnapshotStore

`DaemonConnection` (`src/macos/App/Bridge/DaemonConnection.swift`) runs on a serial queue, `AppModel` on
the main actor.

- `link` is the state of each NWConnection, `current` the field `connection`, `scheduled` the
  `reconnectItem`, `isOnline` the field; `switches` are the `online` updates on their way to the main
  actor, `daemonOnline` what the app shows.
- `Connect`, `Drops`, `Reconnect`, `ReconnectNow` are the methods; `StateChanges` and `Receive` the callbacks,
  `Stale` those of a connection that is not the current one. `Handle`, `BannerRefreshed` and
  `MenuOpened` are `AppModel`'s. `Serve` is the daemon's answer to `hello`; it dies, refuses and
  comes up at any time.
- `OneConnection`: no second connection is left open. `ShowsDaemon`: once the daemon stays up, the app
  is online and shows it.

SnapshotStore has what is shown: `store` is `SnapshotStore.snapshot`, `policy` and `trailing` are
`WidgetReloadPolicy` and its task, `pushes` the snapshots on their way, `file` the daemon's `snapshot.json`,
`widget` what WidgetKit last read. Its connection is only there or not, with the pushes under way lost
from any point on; the product with AppConnection is too large. `ShowsFile`: once data, file and
connection stay, app and widget show the file's data. `CatchesUp` is `ShowsDaemon` and `ShowsFile`.

A snapshot that is built for a new subscriber has its own `generated_at` and may be newer than the
file; the re-read of the file puts the file's back. Two such snapshots of the same data count as one.

Assumptions: `stop()` is never called by the app. `hello` has no timeout, so a daemon that accepts and
never answers is left out (the app would wait for it). Also left out: a socket path too long to
connect to, the framing of lines, request ids, an overflow of the 256 buffered updates, the text of the
banner, WidgetKit's reload budget and its own hourly reload, the App Group mirror. Bounds: two
connections (the current one and one with callbacks left), 2 faults, 1 opening of the menu (each
`reconnectNow` cuts off a `hello` under way), 2 changes of the data, 1 subscription anew.

Fairness (`AppFairness`, `StoreFairness`): queue and main actor run what they are given, delays pass,
`ccs daemon status` returns, a daemon that is up answers, WidgetKit reloads when asked. That the daemon
comes up, stays, or writes is a premise of the properties.

## EventLog

`EventBus.emit` and `append_jsonl`: rotation file by file, one write that may stop early (a crash, a full
disk), the remembered keys and their file; a daemon may be killed between any two of them.
A file is its lines, each the pieces of records between two newlines, and whether the last lacks its
newline. `logged` is the history of records written in whole.

`LogKept`: what can be read is the records as logged, none swallowed by a torn one, and only what two
full files follow dropped. `Deduped`: a key that suppresses is of a record that was logged, and a
repetition within the horizon is explained by a crash, a failed write or a full memory, one each. Bounds:
two keys and a memory of one, so that a key is forgotten for want of room; files of two pieces and two
rotated ones, so that 7 events rotate each file out; 1 failure, 1 crash.

## StatuslineSetting

`ccs statusline apply` and `revert` by two processes, over two config directories of a profile, while
Claude Code and the user write `settings.json` without a lock, the profile moves and the interpreter
changes. A step is one file operation; the last check before `os.replace` is one step with it. Any step may
fail (`ReplaceFails`, `WriteBookFails`), be cut off by Ctrl-C with the code's cleanup (`ReplaceFails` before
`os.replace`, `ReplaceInterrupted` after it, `WriteBookFails` after the record was written), or be killed
without one (`CcsKilled`).

`SettingsKept`: nobody else's keys get an old value, and a statusLine of the user that was replaced can be
found in a backup. The code breaks the second half in one place: a Ctrl-C after an apply's `os.replace` drops the
backup of a file that was replaced (see Findings); `unsaved` has the directories where that
took the user's line, until the user sets another one, and `OriginalKept` is about the others.
`RevertRestores`: revert puts it back, except after a killed or interrupted process, two at a time
(which may overwrite the record with one that remembers no previous line) or a record that could not be
written, where the backup is left, and except where a directory got another name with ccs's line in it and
the profile left it for another one before an apply there (`Stray`). Files that are not JSON are left out. Bounds: 3 commands, 2 writes
by others, 1 fault: an apply, a move, a second apply and its revert are the longest story in the code.

## ConfigStore

`config.json` with the `ccs` processes (`config/store.py`: read, lock, check of the revision, save), the
app (`src/macos/App/Config/ConfigStore.swift`: reload, edit, save with merge or a conflict), an
editor that breaks and repairs it, and the daemon's start and watcher. A document is a revision, fields
with the number of the edit that wrote them, profiles, the default profile. `result` is the history of the
saved changes, applied one after the other.

`ChangesKept`: the file is that. `DaemonFollows`: a daemon that sees no change to the file runs with it.
`Files` has `WritesAtStart = FALSE` (`StartMissesConfig` is the other case). Two processes, the app and the
daemon, 2 edits, 1 break, 1 kill: a change is lost, if at all, between two writers.

## LiveReports

Statuslines write a report per wrapper or session; the watcher's scan stats, reads, unlinks old ones and
applies, each an action, with the statuslines' renames between any two. `stats`, `taken` and `usage` are
`_stats`, `live_reports` and what was merged. `Followed`: the watcher never takes a file for read that it
has not read, and a polled profile's usage is made of the reports last read for it. Not modelled: a
report that is scanned before its wrapper registered (applied with its next write), the values of the
merge. Two files, two profiles, one
statusline at a time, 2 writes or damages of a file; polls come at any time.

## Warmup

Scheduler, rules, state file and runner of one profile, in units of the scheduler's tick.

- `consumed`, `lastAttempt` are the state file, `lastTick`, `chain`, `handled`, `runner` the daemon's memory;
  `confirming` the chain whose `_confirm` awaits its poll while another may be armed.
- `Tick` is the whole tick with its jump check, catch-up, due times and chain; `Start` has the look-back,
  `OpWarmup` the op, `UsageUpdated` the arming of the chain, `ConfigChanged` and `ProfileComesBack` config,
  `BeginAttempt`, `ClaudeEnds` and `AttemptEnds` the runner. `Time` passes, `Jump` is a sleep or a set clock.
- `ScheduleKept`: a scheduled time is decided on exactly once, unless it was over before a start's look-back.
  `CooldownKept`: unforced attempts keep the cool-down. `ChainOnce`: one auto-chain per window.

`WarmupAssumption` is on types only; the runs' windows are longer than twice the jitter, as real ones are.
Not modelled: a claude that outlives a crash of the daemon, the pruning of `consumed` after three
days and its maximum of 50. Bounds: 7 ticks with days of 5, two times of which one is outside the hours,
windows of 4, 2 restarts, changes, sleeps or clock steps, 1 op, 1 report: a sleep over a time, a wake, and
a second look at it fit, and so do a window, its chain and the next window.

## ClaudeCli

The processes of `claude_cli.py`: `run` with its timeout and kill, `probe_usage` with its close, wait,
SIGTERM and SIGKILL, each cancelled at any await; and the sampler, which takes from a listing those that
ccs started (`_RUNNING`, `_EXITED`). `OwnProcesses`: none is shown as the user's, and none is left behind. A
probe cancelled in its own cleanup (`claude_cli.py:343`) does leave one, and it stays in `_RUNNING`.
`ListTimeout <= RecentExit` is the assumption that the constants 10 s and `RECENT_EXIT_S` satisfy. Spawn and
its tracking have no await between them. Two processes, one cancel each, 3 units of time: a process
may end before, during and after a listing.

## Terminal and Keys

Terminal is claude's output through `term_modes.py`: sequences in one piece or split between reads, the
modes and the kitty flags of two screens, the buffer with its high mark, a terminal that stops reading,
^Z and fg, SIGTERM and the kill, the drain at the end. `OwnersTerminal`: the shell has its own modes back
while the launcher is stopped and after it, claude has its own in the foreground. A suspend in the middle of a
sequence is left out (the terminal never gets it in whole), as are kitty flags left on the screen that
is not shown. 3 sequences of 5 kinds, 1 stop, 1 stall.

Keys is `InputFilter` and `TypingDetector` (`launcher/pty_proxy.py`) on strokes of one or two pieces that reads cut
anywhere, with the timer that gives up on a held ESC. `AsTyped`: what claude gets is what was typed but for ^Z, and
submits, ^Z and typing are reported exactly when they happened, compared with a definition on whole strokes. When
the timer gave up in the middle of a sequence only that nothing is lost or reordered is promised. The path
at EOF is not modelled. 3 strokes: an opened paste, a stroke in it, and one more.

## Sessions

Launchers that connect, register, reconnect, exit or die; a handler per connection that awaits between
reading, `_ensure_profile`, the hooks and the reply; the records and their files; the reaper's pass, which
awaits between records; a daemon that ends and starts. `route` is `wrapper_conns`, `bound` is
`conn.wrapper_id`, `provisional` the records loaded at the start.

`LauncherReachable`: a launcher that lives and was answered on the connection it has keeps its route and
its record. A register on a new connection comes after what older connections sent was read or lost (the
launcher waits at least 0.5 s before it reconnects). Two launchers, three connections, 2 faults.

## Broadcast

One connection with its topics, queue (`QUEUE_MAX`) and writer, the socket's room, the throttled snapshot
loop, and the two clients of `daemon/client.py`, which keep pushes apart from replies. `KeepsUp`: a
subscriber misses no event, is left with no outdated snapshot and is answered, or is cut off. Commands
and acks are PauseProtocol's. A snapshot that cannot be built clears the wanted flag
(`daemon/server.py:434`), and on a subscription adds the topics though the reply is an error
(`daemon/server.py:579`); `stale` excludes it from the promise. Queue of 2, room of 1, 2 changes, 2 events, 3
requests: a slow client overflows, and a snapshot is wanted during a write.


## Runs

| run | properties | distinct states |
|---|---|---|
| `PauseReliable` | `NotStuckPaused`, `NoSilentStop`, `DraftSafe`, `NoEscAfterOverride` | 1.4 M |
| `PauseLossy` | `SamePause`, `KeepsPromise`, `StepsOnce`, `PromptAfterEsc`, `NeverRepaused` | 4.1 M |
| `PauseLive` | `PauseSettles`, `PauseEnds`, `QuietAgain` | 0.3 M |
| `LimitWindows` | `FullIsHeld`, `ActsOnce`, `NoEarlyRelease` | 0.7 M |
| `LimitSessions` | `HoldBounded`, `OverrideKept` | 0.7 M |
| `Daemon` | `OneDaemon`, `FreshAnswer`, `OneConnection`, `StaysUp`, `EveryAnswered`, `DataFollowsDir`, `EndsAlone`, `CatchesUp` | 0.26 M |
| `Files` | `LogKept`, `Deduped`, `SettingsKept`, `ChangesKept`, `DaemonFollows`, `Followed`, `RevertRestores` | 3.5 M |
| `Claude` | `LauncherReachable`, `ScheduleKept`, `OwnersTerminal`, `AsTyped`, `OwnProcesses`, `KeepsUp`, `CooldownKept`, `ChainOnce` | 3.8 M |
| `SilentStopDrop`, `LimitSwitch`, `UnlockHours`, `StartMissesConfig` | one each, violated: see Findings | |

All passing runs explore their state space to the end. `Daemon` has the components whose liveness matters
(besides PauseLive), `Files` those that share files, `Claude` what is around a claude process; each checks
under one specification what would otherwise be a run per component. The three switch deadlock checking
off: a component whose bounds are used up has nothing to do. In `Files` keys, `ccs` processes and
profiles are symmetric and no liveness is checked.

What the properties of the pause mean: `SamePause`, once nothing is under way, daemon and launcher agree on
the pause, the launcher did start it, and the daemon knows of every submit; `StepsOnce`, no pause's keys are typed twice;
`PromptAfterEsc`, a prompt is only sent to a session that an ESC reached while it was known to be busy, and
once (an ESC in a session whose status was not known earns no prompt, whatever it ended);
`NeverRepaused`, an instance that was overridden pauses no more; `NotStuckPaused`, `NoSilentStop`,
`DraftSafe` and `NoEscAfterOverride` are said at their definitions. `ActsOnce` is one warning and one hold per
real window; `OverrideKept` the same promise as `NeverRepaused` over real windows.

Type invariants (`TypeOK`, `CliTypeOK`, `AppTypeOK`, ...) are stated in their modules. `TypeOK` of PauseProtocol
and `CliTypeOK` are proved; the others hold on the instances of the runs, where TLC was given them, and
no run repeats them.


## Findings

Each has a run whose counterexample TLC prints.

- `SilentStopDrop`: a pause in progress goes on with its ESC though a register reply ended it; its
  ack is lost with the old connection, so the interrupted turn gets neither prompt nor report.
- `LimitSwitch`: a session that leaves the scoped model while its hold is active loses the
  override, and is paused again for the same window when it returns.
- `UnlockHours`: when the machine wakes just after a scheduled time, the catch-up of the missed times decides
  on it before the tick does, and skips it for the active hours, which restrict only missed ones.
- `StartMissesConfig`: a config written between the daemon's first load and the stat that its
  watcher remembers is not loaded until the file changes again.

Four more differences between code and docs are visible in the model; no run shows them.

- A manual resume before the pause's ack arrived (`supervisor/engine.py:638`) does not know that the
  session was busy and resumes it without the prompt; ADR-0008:41 says that interrupted sessions get it.
  `PauseReliable` and `PauseLossy` have `ManualResume = FALSE`, `PauseLive` has it.
- The launcher learns of a missed pause while a resume waits in the typing guard; it forgets that the user
  typed (`launcher/commands.py:147`), and the resume pastes into the draft (`launcher/commands.py:314`),
  which ADR-0022:33 excludes. `DraftSafe` is checked on a connection that holds.
- The second and the last ESC of a pause are written without waiting for a typing gap
  (`launcher/commands.py:246`, `:257`), which ADR-0007:39 asks of every injection. `Verify` and `FinalEsc`
  of CommandHandler do as the code does.
- A Ctrl-C between the `os.replace` of an apply (`statusline/apply.py:210`) and the return of
  `_replace_if_unchanged` reaches `except BaseException: _drop(backup)` (`statusline/apply.py:385`-`387`) with the
  file replaced and no record written, although `_drop` says "Remove a backup whose write didn't happen."
  (`statusline/apply.py:264`). The user's line is then in no backup and no record, and the next apply records
  that there was none. The window is the `fsync` of a directory. `ReplaceInterrupted` of StatuslineSetting does as
  the code does; `OriginalKept` and the theorem `SettingsSurvive` except the directory.

Two things that look alike are documented: spill lets an instance pause again (manual, chapter 7),
and a record that the reaper dropped starts anew, without its overrides.


## Proofs

Every theorem is for all values of the constants under the module's assumption; the bounds of the runs
are constants too. TLC checked each inductive invariant on small instances before it was proved.

- `PauseProtocol_proofs`, `TypeCorrect`: `Spec => []TypeOK`. One lemma for each action, under it one for each
  operator that builds a record, a command or a message. `TypeOK` has one clause that is more than a
  type: a launcher whose link is down is not served and has no messages.
- `PauseSafety_proofs`, `OverrideRemembered`: if records are not reaped, `Spec => NeverRepaused`. The property is
  not inductive. `OverrideInv` adds that every instance the session was ever overridden for is in the
  record's overrides or over for good. `Evaluated` empties the overrides only when nothing is held,
  and an instance that is over never holds again (`HoldsMove`), so a new pause finds none of them.
- `PauseSafety_proofs`, `PauseStepsOnce`: `Spec => StepsOnce`. `OrderInv` follows a pause from the daemon's queue
  over the connection to the launcher's queue. Along this pipeline pause numbers never fall, none is
  behind a pause already started unless it is that same pause, and a pause that was started is
  either still being carried out or the one whose ack the launcher remembers. So a resend of a
  pause that was started is answered from memory.
- `PauseSafety_proofs`, `PromptsAfterEsc`: `Spec => PromptAfterEsc`. `PromptInv` follows one prompt from the engine's
  record to the terminal: the engine asks for a prompt only when it was told that the session was busy
  (`Known`: the one ack that can tell it answers the pause in flight, by its number, and came after an
  ESC), at most one asked-for prompt is anywhere, and none is left when a later pause begins.
- `PauseSafety_proofs`, `PromiseKept`: `Spec => KeepsPromise`. Each action of PauseProtocol is a step of
  SessionPause or a stutter under the mapping. `EvaluatedTo` says what an evaluation does to a record in the
  terms of the promise, `RecordKeeps` that each of its four outcomes is allowed; that pauses are begun in
  order comes from `OrderInv`.
- `PauseSafety_proofs`, `PausesAgree`: `Spec => []SamePause`, with all faults. The property is about a moment at which
  nothing is under way, so `AgreeInv` says what is under way to a session in pause k. All its commands are for
  pause k, and the record still wants an ack or the pause was begun (`CommandedInv`); as long as the
  launcher is served, pause k was begun or a command for it is on the way (`Underway`); only a launcher that
  began it answers the command in flight (`AnswersOf`). What the launcher was told of earlier pauses comes
  before what it is told of k, also in the `register_wrapper` reply (`ToldInv`), and no id is spoken of before
  it is issued (`Past`), so a new pause finds both sides without it. A submit in pause k is a report on its
  way, because the reply that brings a connection up starts an unsent one (`OverrideSent`, `Reporting`). The
  lemmas use `OrderInv` and, for command numbers, `PromptInv`.
- `PauseReliable_proofs`: `LauncherNotStuck` (`[]NotStuckPaused`), `NoTurnLost` (`[]NoSilentStop`), `DraftNotJoined`
  (`DraftSafe`) and `OverrideStopsEsc` (`NoEscAfterOverride`), with the hypotheses of `PauseReliable.cfg`: no drop, no
  timeout, no resume by hand; with a drop two of them are false (Findings). `OverrideStopsEsc` begins where the
  daemon's record says that the pause was overridden: an ESC between the user's submit and the daemon's
  reading of it is not excluded. `NoTurnLost` is about sessions known to be busy, for a lookup that failed
  earns no prompt. None is inductive: each is about a moment at which nothing is under way, or about what the launcher
  believes of the daemon. `ReliableInv` therefore follows what is under way. A command is in one place (on the
  socket, in the worker, or its ack on the way back: `SentInv`, `WorkInv`, `AckInv`) and is the first of the
  daemon's queue (`CommandsInv`); an override is in one message or its answer (`ReportInv`); whichever place it is
  says what the record and the launcher's memory are by now (`RecordInv`, `KnowsInv`). `DraftInv` keeps the typing
  since the first ESC with whatever may still become a prompt, `StopInv` the cut-off turn.
- `Claude_proofs`, `ScheduledOnce`: `WarmSpec => []ScheduleKept`. `ScheduleInv` says that the state file has exactly the
  times that were evaluated, once each, and that everything up to the last tick is done with or was over
  before a start; a look from any point the daemon remembers leaves none out (`ConsumeSees`).
- `Claude_proofs`, `ChainedOnce`: `WarmSpec => ChainOnce` if a window is longer than three times the tolerance, which
  five hours are against 60 s. `ChainInv`: every reset that is known to the daemon, in a report, armed, recorded or
  about to be tried, belongs to the current window or to one that began at least a window's length
  earlier; resets of two windows are `Spaced`; what is chained is later than all that was, and each
  chained reset is covered by `handled` or by a newer one (`Superseded`), so jitter does not arm it again.
- `Claude_proofs`, `AttemptsCool`: `WarmSpec => CooldownKept`. `CooldownInv`: the file knows the last attempt, and
  what is about to begin was decided at this clock with that file; the clock moves only in between.
- `Claude_proofs`, `ProcessesOwned`: `CliSpec => []OwnProcesses`. `CliInv` ties each call to the state of its process
  (`Owned`), and says that whatever a listing holds is still known or ended no longer ago than the listing is
  old (`Known`), which `ListTimeout <= RecentExit` makes recent enough.
- `Files_proofs`, `NoChangeLost`: `ConfigSpec => []ChangesKept`. `StoreInv`: one holder of the lock, and the document
  it is about to change is still the file's. `WatcherMissesNothing`: `[]DaemonFollows` if nobody writes
  while the daemon starts. `FollowInv`: the remembered stat is never newer than the file's, and what a
  starting daemon has loaded is still the file's config.
- `Files_proofs`, `UsageFollowsReports`: `LiveSpec => []Followed`. `LiveInv`: a write has a stamp that nobody has seen
  (`NewStamp`), so a noted stamp means that the file was read as it is or is being read (`ReadAsNoted`),
  and a profile whose usage differs from its reports is one that the scan has yet to apply (`Merged`).
- `Files_proofs`, `SettingsSurvive`: `LineSpec => []SettingsKept`. `KeptInv`: a user's line is in the file or in a backup
  that no process will take away (`LineFound`, `Settled`); a process takes away only the copy it made in
  the same attempt (`CopiesOwn`), and the last check before the replacement saw the line in the file. A Ctrl-C
  between an apply's replacement and its return is the one step that takes a copy that was needed; the
  theorem, like `OriginalKept`, leaves the directories in `unsaved` out.
- `Files_proofs`, `UserLineComesBack`: `LineSpec => RevertRestores`. `CalmInv` is what holds as long as `calm` does: one
  operation at a time, at most one file with the line of ccs, and each file has the user's line or stands
  for one (`Stands`): the record's, or that of the operation under way (`StoodFor`, `Operates`).
- `Files_proofs`, `RepeatsHaveReasons`: `LogSpec => []Deduped`. The property counts, so `LogInv` does: the repetitions
  in the log and the keys that memory or its file no longer know (`Uncovered`) are together not more
  than the reasons there were (`Excuses`). Only a crash, a failed write or an eviction lets a key be forgotten,
  one each; a repetition uses up the key that was forgotten before it.
- `Streams_proofs`, `SubscriberKeepsUp`: `CastSpec => []KeepsUp`. `CastInv` takes all that is on the way to the subscriber
  (its queue, the socket, what it has) as one sequence: events are in turn (`InTurn`) and go up to the last
  one as long as nothing was dropped (`UpTo`), the last snapshot is the current one (`Showing`), the request is
  in one place (`Awaited`), and nothing of it is there before the subscription (`Unsubscribed`).
- `Files_proofs`, `LogIsKept`: `ROTATE_KEEP = 2 => (LogSpec => []LogKept)`. `ReadableInv`: what can be read is a suffix of
  the numbers logged; the files together have no more lines than records to be read and faults; the first
  rotated file is empty or full, and something was dropped only when the second is full and one of the
  others is. During a rotation the current file is full and only the file being replaced may be empty.
  The two files are those of `events.py:30`. With three the second half of `LogKept` is false: a kill between two
  renames leaves a hole, and the next rotation drops the oldest file all the same.
- `Streams_proofs`, `TerminalIsOwners`: `TermSpec => []OwnersTerminal`. `TermInv` compares the terminal with the tracker
  across what is still buffered: in the foreground, a terminal that takes the buffer ends with the tracker's
  modes (`TakenTo`); while stopped, with the shell's (`Handed`, `Cleared`). `reset` clears whatever modes there are, and
  `replay` leads from cleared modes to the tracker's. That reads cut sequences does not matter, because
  what is pending and the rest of it join (`WholeAfter`).
- `Streams_proofs`, `KeysAsTyped`: `KeysSpec => []AsTyped`. `KeysInv` takes what was read and what is still to be read
  together: a filter that goes on with all of it has passed, and reported, what the history of strokes means
  (`AsMeant`). A read is a part of that run, put behind what was passed before (`OverRun`), and a start that is
  released at the end of a read and not held makes no difference to the rest of the run (`ReleasedAny`): of
  those that `Holds` lets go, none is a key that the filter acts on. So it does not matter where reads end. The
  detector has told typing from all up to the start it holds, and looks at no half of a report (`Told`). Once
  the timer gave up within a sequence, `KeysInv` only keeps that the same pieces come out in the same order.
- `Daemon_proofs`, `LockExcludes`: `LockSpec => []OneDaemon` if daemon.lock is not deleted around a start or stop.
  `LockInv` says for each place of a daemon what it holds (`Placed`) and that one at a time is past the probe
  of the socket (`Exclusive`).
- `Daemon_proofs`, `OneConversation`: `AppSpec => []OneConnection`. `ConnInv`: only a connection that the daemon answered
  or ended has anything to be received, and a stopped connection has nothing scheduled.
- `Daemon_proofs`, `AnswersFresh`: `PollSpec => []FreshAnswer`. `FreshInv`: what a running probe has taken was asked for
  before it began.
- `LimitPolicy_proofs`: `FullWindowsHeld` (`[]FullIsHeld`), `HoldsEnd` (`[]HoldBounded`), `OncePerWindow` (`ActsOnce`),
  `HeldUntilReset` (`NoEarlyRelease`), and `OverridesKept` (`OverrideKept`, if no session returns to the scoped
  model; `LimitSwitch` shows why). All rest on `LimitInv`. The code has only reset times that jitter and
  keys that it rounded from them, so the invariant says that there is a record `R` of all real windows
  there were (`Follows`) in which every key the policy knows, in holds, warnings, sessions and releases,
  belongs to exactly one window, and no window has two. Two windows of a kind start a period apart and
  the tolerance covers jitter and rounding: that is `LimitPolicyAssumption`, and the only place where the
  numbers count. `AllBounded` follows each hold's confirmation over restarts; `Memory` ties what a session
  overrode (`done`) to the keys in its record, for as long as a hold of that window may be there.
- `Claude_proofs`, `RegisteredStaysReachable`: `SessSpec => []LauncherReachable`. `ReachInv` adds that only a
  launcher's newest connection still has anything to be read or carried out (`Newest`), how far its register
  is (`Progress`), that unused connections are clean (`Unused`), and that a launcher without a connection
  is owed nothing (`Away`). So a late end, a late unregister and the reaper find the newer route.

Only model-checked: liveness and fairness, which the prover does not have (`PauseSettles`, `PauseEnds`,
`QuietAgain`, `StaysUp`, `EveryAnswered`, `DataFollowsDir`, `EndsAlone`, `CatchesUp`).

`LogKept`, `OwnersTerminal` and `AsTyped` are about folds and `FlattenSeq`, recursive functions of sequences. The
library's induction theorems take an operator, which the provers cannot instantiate; `Induction` in both
modules is induction for a set of numbers instead, from the well-foundedness of `<` (`WFMin`). With it
`FoldLeft`'s recursive function is shown to exist and to be unique (a run of the fold), and what a fold does is said
of its runs.


## Not modelled

- `doctor`, CLI output, templates, rendering, screenshots, widget views, the values and validation of
  the config's fields, the shapes of usage payloads: text, layout and checks of one value at a time,
  which unit tests reach.
- What the widget snapshot contains: a projection of state that other modules have. When it is built,
  written, pushed and read is in Broadcast and SnapshotStore.
- Installation of files, shells and the launchd plist: calls of other programs.
- In PauseProtocol: `failed` acks, the launcher's exit, the removal of a profile, and the time between a
  `register_wrapper` reply's reading of the record and its encoding.
- In CommandHandler: Claude's status `shell`, which the steps treat as `waiting`; pauses without an id, which the daemon
  never sends; that `paused_at` has whole seconds, so that input in the second before a pause that the launcher
  missed counts as later too.
- In LimitPolicy: the ledger; windows whose reset time is not known; that the merge's tolerance is strict (a reset time
  exactly that far away is another window); that a live report makes stale data fresh again; the overlay of live
  reports on a fresh poll; the eviction of keys from bounded lists (their bound is far above the windows of one profile).
- In ConfigStore: the app's edits of the fields of a profile that was removed meanwhile, documents that are JSON but
  not a valid config, `ccs profile add --default`.
- In Sessions: registers that the daemon refuses. In Broadcast: the drop of a push that cannot be encoded (a lone
  surrogate), and what happens in the hooks between a change and its request for a snapshot.
- fsync (but for the Ctrl-C during one in StatuslineSetting), modes of files, and that a rename is atomic, which
  is assumed.
- Window size, forwarding of signals and the exit status of the PTY proxy; what `notify.py` and the app's
  notifications show; the app's runner of processes and its buttons.


## Plan

1. PauseProtocol: `failed` acks, the launcher's exit with a pause under way, the removal of a profile.
2. Poller as the environment of Warmup's and LimitPolicy's confirmations, by an abstract
   specification of a poll that Poller implements.
3. AppConnection with several openings of the menu, and with SnapshotStore on one connection.
