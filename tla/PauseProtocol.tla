---------------------------- MODULE PauseProtocol ----------------------------
(***************************************************************************)
(* Pausing and resuming one session: the daemon's supervisor engine        *)
(* (supervisor/engine.py), the session's launcher (CommandHandler, and     *)
(* launcher/daemon_link.py), and the socket between them (`Conn` of        *)
(* daemon/server.py, `AsyncDaemonClient`).                                 *)
(*                                                                         *)
(* The daemon keeps the holds that apply to the session and the session's  *)
(* supervision record, both on disk.  It sends one command at a time and   *)
(* may be told `timeout` or `not_connected` instead of what the launcher   *)
(* did.  The connection breaks with messages under way, the daemon crashes *)
(* between two of its writes, the user types and submits at any moment.    *)
(*                                                                         *)
(* A hold is a window instance: it appears once, and never comes back      *)
(* (LimitPolicy says when the policy keeps that promise).                  *)
(***************************************************************************)
EXTENDS CommandHandler

CONSTANTS
    Instance,      \* the window instances that may hold this session
    MaxDrops,      \* how often the connection may break (or the daemon crash)
    MaxTimeouts,   \* how often an ack may come after the daemon stopped waiting
    ManualResume,  \* whether `ccs resume --session` is used
    Reaping        \* whether the launcher may stay away past the grace period

ASSUME PauseProtocolAssumption ==
    /\ MaxDrops \in Nat
    /\ MaxTimeouts \in Nat
    /\ ManualResume \in BOOLEAN
    /\ Reaping \in BOOLEAN

VARIABLES
    \* the daemon
    up,          \* the daemon runs
    hold,        \* each instance is "fresh", "held" or "over" (supervisor/<profile>.json)
    sup,         \* the session's supervision record (sessions/<id>.json)
    cmds,        \* commands of this wrapper: the first one holds the lock
    issued,      \* pauses issued so far
    sends,       \* commands sent so far
    provisional, \* the record was loaded from disk and its launcher is not back
    everOver,    \* history: instances the session was ever overridden for
    \* the connection
    link,        \* the launcher's side: "down", "open" (registering) or "up"
    served,      \* the daemon's side: the wrapper is registered on it
    c2d,         \* launcher to daemon
    d2c,         \* daemon to launcher
    conn,        \* number of the current connection
    drops,       \* connections broken so far
    timeouts,    \* answers that came too late so far
    \* the launcher
    first,       \* `started_overridden` is still to be sent
    queue        \* commands received and not begun

daemonVars == <<up, hold, sup, cmds, issued, sends, provisional, everOver>>
linkVars == <<link, served, c2d, d2c, conn, drops, timeouts>>
launcherVars == <<handlerVars, first, queue>>
vars == <<handlerVars, daemonVars, linkVars, first, queue>>

NoSup == [state |-> "none", id |-> 0, pend |-> FALSE, busy |-> "no", over |-> {}]
Held == {i \in Instance : hold[i] = "held"}

Init ==
    /\ HandlerInit
    /\ up = TRUE
    /\ hold \in [Instance -> {"fresh", "held"}]
    /\ sup = NoSup
    /\ cmds = <<>>
    /\ issued = 0
    /\ sends = 0
    /\ provisional = FALSE
    /\ everOver = {}
    /\ link = "down"
    /\ served = FALSE
    /\ c2d = <<>>
    /\ d2c = <<>>
    /\ conn = 0
    /\ drops = 0
    /\ timeouts = 0
    /\ first \in BOOLEAN
    /\ queue = <<>>

SupStates == {"none", "running", "paused", "overridden"}
DaemonCommand == [type : {"pause", "resume"}, id : Nat, prompt : BOOLEAN, no : Nat]
ToDaemon == [kind : {"register", "submitted", "ack"}, no : Nat, first : BOOLEAN,
             result : Results, busy : WasBusy]
ToLauncher == [kind : {"cmd"}, type : {"pause", "resume"}, id : Nat, prompt : BOOLEAN,
               no : Nat, ok : BOOLEAN]
              \cup [kind : {"registered", "noted"}, type : SupStates, id : Nat, prompt : BOOLEAN,
                    no : Nat, ok : BOOLEAN]
Supervision == [state : SupStates, id : Nat, pend : BOOLEAN, busy : WasBusy,
                over : SUBSET Instance]

DaemonTypeOK ==
    /\ up \in BOOLEAN
    /\ hold \in [Instance -> {"fresh", "held", "over"}]
    /\ sup \in Supervision
    /\ cmds \in Seq(DaemonCommand)
    /\ issued \in Nat /\ sends \in Nat
    /\ provisional \in BOOLEAN
    /\ everOver \subseteq Instance

\* Only a launcher that is up or registering has a connection with messages on it.
LinkTypeOK ==
    /\ link \in {"down", "open", "up"}
    /\ served \in BOOLEAN
    /\ link = "down" => ~served /\ c2d = <<>> /\ d2c = <<>>
    /\ c2d \in Seq(ToDaemon)
    /\ d2c \in Seq(ToLauncher)
    /\ conn \in Nat /\ drops \in Nat /\ timeouts \in Nat

TypeOK ==
    /\ HandlerTypeOK /\ DaemonTypeOK /\ LinkTypeOK
    /\ first \in BOOLEAN
    /\ queue \in Seq(Command)

-----------------------------------------------------------------------------
(* The supervisor engine. *)

\* A command in the engine's queue; `no` is 0 until it is sent.
Cmd(type, id, prompt) == [type |-> type, id |-> id, prompt |-> prompt, no |-> 0]

PausePending(s) == s.state = "paused" /\ s.pend

\* Mutant: a session nobody knows to have been busy gets a prompt.
WantsPromptOnGuess(s) == s.busy # "no"
\* Mutant: the record is reset before `was_busy_at_pause` is read.
WantsPromptAfterReset(s) == [s EXCEPT !.busy = "no"].busy = "yes"
\* Only a session that was known to be busy is told to continue.
WantsPrompt(s) == s.busy = "yes"

\* Mutant: the override ends as soon as nothing new holds the session.
OverrideEndsEarly(held, s) == s.state = "overridden" /\ held \subseteq s.over
\* An override ends when no hold is left.
OverrideEnds(held, s) == s.state = "overridden" /\ held = {}

\* `evaluate` as far as one session goes: holds `held`, record `s`, commands `c`.  A
\* session with a command in flight is left out; the command's end evaluates again.
Evaluated(held, s, c) ==
    LET same == [sup |-> s, cmds |-> c, issued |-> issued] IN
    CASE c # <<>> \/ s.state = "none" -> same
      [] c = <<>> /\ s.state = "paused" /\ held \subseteq s.over ->
            [same EXCEPT !.sup = [s EXCEPT !.state = "running", !.busy = "no", !.pend = FALSE],
                         !.cmds = <<Cmd("resume", 0, WantsPrompt(s))>>]
      [] c = <<>> /\ s.state \in {"running", "overridden"} /\ ~(held \subseteq s.over) ->
            [same EXCEPT !.sup = [s EXCEPT !.state = "paused", !.id = issued + 1,
                                           !.pend = TRUE, !.busy = "none"],
                         !.cmds = <<Cmd("pause", issued + 1, FALSE)>>,
                         !.issued = issued + 1]
      [] c = <<>> /\ OverrideEnds(held, s) ->
            [same EXCEPT !.sup = [s EXCEPT !.state = "running", !.over = {}]]
      [] OTHER -> same

Become(d) ==
    /\ sup' = d.sup
    /\ cmds' = d.cmds
    /\ issued' = d.issued
    /\ everOver' = everOver \cup d.sup.over

\* A hold appears (the policy, `ccs pause`), or holds end (a confirmed reset, spill,
\* `ccs resume --profile`); the state file is written before any command is sent.
HoldsChange(new) ==
    \/ \E i \in Instance : hold[i] = "fresh" /\ new = [hold EXCEPT ![i] = "held"]
    \/ \E S \in SUBSET Held \ {{}} :
          new = [i \in Instance |-> IF i \in S THEN "over" ELSE hold[i]]

HoldStep ==
    /\ up
    /\ HoldsChange(hold')
    /\ Become(Evaluated(Held', sup, cmds))
    /\ UNCHANGED <<up, sends, provisional, linkVars, launcherVars>>

Tick ==
    /\ up
    /\ Become(Evaluated(Held, sup, cmds))
    /\ UNCHANGED <<up, hold, sends, provisional, linkVars, launcherVars>>

\* `_resume_wrapper`: ends this session's own manual hold (`own`), if there is one.
OpResume(own) ==
    /\ ManualResume /\ up /\ sup.state # "none"
    /\ hold' = [i \in Instance |-> IF i \in own THEN "over" ELSE hold[i]]
    /\ IF sup.state = "paused"
       THEN Become([sup |-> [sup EXCEPT !.state = IF Held' = {} THEN "running" ELSE "overridden",
                                        !.over = @ \cup Held', !.busy = "no", !.pend = FALSE],
                    cmds |-> Append(cmds, Cmd("resume", 0, WantsPrompt(sup))),
                    issued |-> issued])
       ELSE UNCHANGED <<sup, cmds, issued, everOver>>
    /\ UNCHANGED <<up, sends, provisional, linkVars, launcherVars>>

\* The first command is over: `on_ack`, then evaluate.  A prompt that did not go in is
\* reported to the user.
CommandEnds(result, busy) ==
    LET c == Head(cmds)
        s == IF c.type = "pause" /\ sup.state = "paused" /\ sup.id = c.id
             THEN [sup EXCEPT !.pend = @ /\ result \notin {"injected", "skipped"},
                              !.busy = IF busy = "none" THEN @ ELSE busy]
             ELSE sup
    IN  /\ Become(Evaluated(Held, s, Tail(cmds)))
        /\ esc' = IF c.type = "resume" /\ c.prompt /\ result # "injected" /\ esc = "cut"
                  THEN "sent" ELSE esc

InFlight == cmds # <<>> /\ Head(cmds).no # 0

\* The first command's turn comes: skipped when no longer wanted, lost when nobody listens.
StartCmd ==
    /\ up /\ cmds # <<>> /\ ~InFlight
    /\ LET c == Head(cmds) IN
          IF c.type = "pause" /\ ~(PausePending(sup) /\ sup.id = c.id)
          THEN /\ Become(Evaluated(Held, sup, Tail(cmds)))
               /\ UNCHANGED <<sends, d2c, esc>>
          ELSE IF ~served
          THEN /\ CommandEnds("not_connected", "none")
               /\ UNCHANGED <<sends, d2c>>
          ELSE /\ sends' = sends + 1
               /\ cmds' = [cmds EXCEPT ![1].no = sends + 1]
               /\ d2c' = Append(d2c, [kind |-> "cmd", type |-> c.type, id |-> c.id,
                                      prompt |-> c.prompt, no |-> sends + 1, ok |-> TRUE])
               /\ UNCHANGED <<sup, issued, everOver, esc>>
    /\ UNCHANGED <<up, hold, provisional, link, served, c2d, conn, drops, timeouts,
                   h, w, screen, ran, touched, first, queue>>

AckTimeout ==
    /\ up /\ InFlight /\ timeouts < MaxTimeouts
    /\ timeouts' = timeouts + 1
    /\ CommandEnds("timeout", "none")
    /\ UNCHANGED <<up, hold, sends, provisional, link, served, c2d, d2c, conn, drops,
                   h, w, screen, ran, touched, first, queue>>

\* The record of a launcher that did not come back in time is dropped, and its own manual
\* hold (`own`) ends with it.
Reap(own) ==
    /\ Reaping /\ up /\ provisional /\ ~served
    /\ hold' = [i \in Instance |-> IF i \in own THEN "over" ELSE hold[i]]
    /\ sup' = NoSup
    /\ provisional' = FALSE
    /\ UNCHANGED <<up, cmds, issued, everOver, sends, linkVars, launcherVars>>

-----------------------------------------------------------------------------
(* The daemon reads one message of the connection. *)

Reply(kind, type, id) ==
    [kind |-> kind, type |-> type, id |-> id, prompt |-> FALSE, no |-> 0, ok |-> TRUE]

\* Mutant: a pause that was never acked is not resent.
ReadRegisterOnly(m) ==
    LET new == IF m.first
               THEN [NoSup EXCEPT !.state = IF Held = {} THEN "running" ELSE "overridden",
                                  !.over = Held]
               ELSE [NoSup EXCEPT !.state = "running"]
        d == Evaluated(Held, IF sup.state = "none" THEN new ELSE sup, cmds)
    IN  /\ Become(d)
        /\ d2c' = Append(d2c, Reply("registered", d.sup.state, d.sup.id))
        /\ served' = TRUE
        /\ provisional' = FALSE
        /\ UNCHANGED esc

\* `register_wrapper`: a new record (started anyway: overridden), evaluate, resend a pause
\* that was never acked, and answer with the record.
ReadRegister(m) ==
    LET new == IF m.first
               THEN [NoSup EXCEPT !.state = IF Held = {} THEN "running" ELSE "overridden",
                                  !.over = Held]
               ELSE [NoSup EXCEPT !.state = "running"]
        d == Evaluated(Held, IF sup.state = "none" THEN new ELSE sup, cmds)
    IN  /\ Become(IF PausePending(d.sup)
                  THEN [d EXCEPT !.cmds = Append(@, Cmd("pause", d.sup.id, FALSE))]
                  ELSE d)
        /\ d2c' = Append(d2c, Reply("registered", d.sup.state, d.sup.id))
        /\ served' = TRUE
        /\ provisional' = FALSE
        /\ UNCHANGED esc

\* `input_submitted_while_paused`: overrides what holds the session now.
ReadSubmitted(m) ==
    /\ IF sup.state = "paused"
       THEN Become(Evaluated(Held, [sup EXCEPT !.state = "overridden", !.pend = FALSE,
                                               !.over = @ \cup Held], cmds))
       ELSE UNCHANGED <<sup, cmds, issued, everOver>>
    /\ d2c' = Append(d2c, [Reply("noted", "none", 0) EXCEPT !.no = m.no,
                                                            !.ok = sup.state # "none"])
    /\ UNCHANGED <<served, provisional, esc>>

ReadAck(m) ==
    /\ IF InFlight /\ Head(cmds).no = m.no
       THEN CommandEnds(m.result, m.busy)
       ELSE UNCHANGED <<sup, cmds, issued, everOver, esc>>
    /\ UNCHANGED <<d2c, served, provisional>>

DaemonReads ==
    /\ up /\ c2d # <<>>
    /\ c2d' = Tail(c2d)
    /\ LET m == Head(c2d) IN
          CASE m.kind = "register"  -> ReadRegister(m)
            [] m.kind = "submitted" -> ReadSubmitted(m)
            [] m.kind = "ack"       -> ReadAck(m)
    /\ UNCHANGED <<up, hold, sends, link, conn, drops, timeouts,
                   h, w, screen, ran, touched, first, queue>>

-----------------------------------------------------------------------------
(* The launcher's link. *)

Message(kind, no) ==
    [kind |-> kind, no |-> no, first |-> FALSE, result |-> "none", busy |-> "none"]

Connect ==
    /\ up /\ link = "down"
    /\ link' = "open"
    /\ conn' = conn + 1
    /\ c2d' = <<[Message("register", 0) EXCEPT !.first = first]>>
    /\ UNCHANGED <<served, d2c, drops, timeouts, daemonVars, launcherVars>>

\* Both ends see the connection end; what is under way is lost.
Cut ==
    /\ drops < MaxDrops
    /\ drops' = drops + 1
    /\ link' = "down"
    /\ served' = FALSE
    /\ c2d' = <<>>
    /\ d2c' = <<>>
    /\ h' = IF h.sending THEN ReportReturns(h, FALSE) ELSE h
    /\ UNCHANGED <<conn, timeouts, sends, w, screen, ran, touched, first, queue>>

\* Mutant: the command in flight is not told that its connection closed.
DropUnanswered ==
    /\ link # "down"
    /\ Cut
    /\ UNCHANGED <<sup, cmds, issued, everOver, esc, up, hold, provisional>>

Drop ==
    /\ link # "down"
    /\ Cut
    /\ IF InFlight THEN CommandEnds("not_connected", "none")
                   ELSE UNCHANGED <<sup, cmds, issued, everOver, esc>>
    /\ UNCHANGED <<up, hold, provisional>>

\* The daemon dies, maybe between the two writes of an evaluation.
Crash ==
    /\ up
    /\ Cut
    /\ up' = FALSE
    /\ UNCHANGED hold \/ HoldsChange(hold')
    /\ cmds' = <<>>
    /\ provisional' = FALSE
    /\ UNCHANGED <<sup, issued, everOver, esc>>

Restart ==
    /\ ~up
    /\ up' = TRUE
    /\ provisional' = (sup.state # "none")
    /\ UNCHANGED <<hold, sup, cmds, issued, everOver, sends, linkVars, launcherVars>>

\* The handler becomes `f`; an override report it starts goes out at once or fails.
Reports(f, registered) ==
    IF f.sending /\ ~h.sending
    THEN IF registered
         THEN h' = f /\ c2d' = Append(c2d, Message("submitted", f.report))
         ELSE h' = ReportReturns(f, FALSE) /\ UNCHANGED c2d
    ELSE h' = f /\ UNCHANGED c2d

\* `_pump` and `_cmd_worker`: an idle worker begins a command as soon as it arrives, a
\* busy one takes it from the queue as soon as it is done.
LauncherReads ==
    /\ d2c # <<>>
    /\ d2c' = Tail(d2c)
    /\ LET m == Head(d2c)
           c == [type |-> m.type, id |-> m.id, prompt |-> m.prompt, no |-> m.no, conn |-> conn]
       IN CASE m.kind = "registered" ->
                 /\ Reports(ApplySupervision(h, m.type, m.id), TRUE)
                 /\ link' = "up"
                 /\ first' = FALSE
                 /\ UNCHANGED <<queue, w, screen, history>>
            [] m.kind = "cmd" /\ w.pc = "idle" ->
                 /\ Take(c)
                 /\ UNCHANGED <<c2d, link, first, queue>>
            [] m.kind = "cmd" /\ w.pc # "idle" ->
                 /\ queue' = Append(queue, c)
                 /\ UNCHANGED <<handlerVars, c2d, link, first>>
            [] m.kind = "noted" ->
                 /\ h' = IF h.sending /\ h.report = m.no
                         THEN ReportReturns(h, m.ok) ELSE h
                 /\ UNCHANGED <<c2d, link, first, queue, w, screen, history>>
    /\ UNCHANGED <<served, conn, drops, timeouts, daemonVars>>

\* The ack goes out on the connection that delivered the command, or is lost with it.
SendAck ==
    /\ w.pc = "ack"
    /\ c2d' = IF link # "down" /\ w.conn = conn
              THEN Append(c2d, [Message("ack", w.no) EXCEPT !.result = w.result,
                                                            !.busy = w.busy])
              ELSE c2d
    /\ IF queue = <<>>
       THEN w' = NoWork /\ UNCHANGED <<h, screen, history, queue>>
       ELSE Take(Head(queue)) /\ queue' = Tail(queue)
    /\ UNCHANGED <<link, served, d2c, conn, drops, timeouts, daemonVars, first>>

ReportTimeout ==
    /\ h.sending /\ timeouts < MaxTimeouts
    /\ timeouts' = timeouts + 1
    /\ h' = ReportReturns(h, FALSE)
    /\ UNCHANGED <<link, served, c2d, d2c, conn, drops, daemonVars, w, screen, history,
                   first, queue>>

Handle == HandlerStep /\ UNCHANGED <<daemonVars, linkVars, first, queue>>
User ==
    /\ \/ UserTypes(issued) /\ UNCHANGED c2d
       \/ UserSubmits /\ Reports(Submitted(issued), link = "up")
    /\ UNCHANGED <<daemonVars, link, served, d2c, conn, drops, timeouts, first, queue>>
Around ==
    /\ GapPasses \/ ClaudeMoves
    /\ UNCHANGED <<daemonVars, linkVars, first, queue>>

Own == {{}} \cup {{i} : i \in Held}
OpResumeStep == \E own \in Own : OpResume(own)
ReapStep == \E own \in Own : Reap(own)

Next ==
    \/ HoldStep \/ Tick \/ OpResumeStep \/ StartCmd \/ AckTimeout \/ ReapStep
    \/ DaemonReads \/ Connect \/ Drop \/ Crash \/ Restart
    \/ LauncherReads \/ SendAck \/ ReportTimeout
    \/ Handle \/ User \/ Around

Spec == Init /\ [][Next]_vars

\* What the two event loops and the daemon's ticks do as long as they run.  Nothing is
\* assumed of the user, of Claude, of holds, of faults or of timeouts; a typing gap ends
\* because the guard gives up (`Handle`).
FairSpec ==
    /\ Spec
    /\ WF_vars(Tick) /\ WF_vars(StartCmd) /\ WF_vars(DaemonReads)
    /\ WF_vars(Connect) /\ WF_vars(Restart)
    /\ WF_vars(LauncherReads) /\ WF_vars(SendAck) /\ WF_vars(Handle)

-----------------------------------------------------------------------------
(* Properties. *)

\* The connection is up and nothing is under way on either side of it.
Quiet ==
    /\ up /\ link = "up" /\ served
    /\ c2d = <<>> /\ d2c = <<>> /\ queue = <<>> /\ cmds = <<>>
    /\ w.pc = "idle" /\ ~h.sending

\* Once all messages arrived, launcher and daemon agree about a paused session, whatever was
\* lost: the launcher is in that very pause and did start it (engine.py: a pause that never
\* reached the launcher is resent), and no submit of the user's is left that the daemon does
\* not know of (apply_supervision, _send_override: a lost or late report is sent again).
SamePause ==
    Quiet /\ sup.state = "paused" =>
        /\ h.paused /\ h.pid = sup.id
        /\ sup.id \in ran
        /\ ~h.submitted

\* Over a connection that holds, the launcher does not go on believing in a pause that
\* the daemon ended, unless the user's own override ended it.
NotStuckPaused == Quiet /\ sup.state # "paused" => ~h.paused \/ h.reported

\* When a pause is over and all is quiet, no turn of a session known to be busy that an ESC cut
\* off is left without a prompt, a `limit.resume_skipped` report or a turn of the user's own.
NoSilentStop == Quiet /\ sup.state # "paused" => esc # "cut"

\* The steps of a pause are started at most once, though it is resent after a lost ack
\* (engine.py: "so ESC is never injected twice").
StepsOnce ==
    [][w.pc \in {"idle", "ack"} /\ w'.pc = "look" => w'.id \notin ran]_vars

\* A resume prompt is only submitted in a session that an ESC reached while it was known
\* to be busy, with no prompt since: no prompt on a guess, and none twice.
PromptAfterEsc == [][w.pc = "submit" /\ w'.pc = "ack" => esc # "none"]_vars

\* A resume prompt is never pasted after the user typed since the pause's first ESC
\* (_resume: "never merge with a draft").
DraftSafe == [][w.pc = "pasteguard" /\ w'.pc = "submit" => ~touched]_vars

EscWritten ==
    \/ w.pc = "guard" /\ w'.pc = "verify"
    \/ w.pc = "again" /\ w'.pc = "gap"
    \/ w.pc = "final" /\ w'.pc = "last"

\* Once the daemon recorded the user's override of a pause, that pause sends no more ESC.
NoEscAfterOverride == [][EscWritten => ~(sup.state = "overridden" /\ sup.id = w.id)]_vars

\* A new pause is never for instances of which one was overridden for this session
\* before (ADR-0008: after an override the same instance never re-pauses).
NeverRepaused == [][issued' # issued => (Held' \ sup'.over) \cap everOver = {}]_vars

\* A pause that was sent is acked or ends, though the connection breaks or the daemon
\* restarts on the way.
PauseSettles == PausePending(sup) ~> ~PausePending(sup)

\* A session that nothing holds any more does not stay paused, whatever happened to the
\* commands that were in flight.
PauseEnds ==
    sup.state = "paused" /\ Held \subseteq sup.over
        ~> sup.state # "paused" \/ ~(Held \subseteq sup.over)

\* Commands, acks, resends and reports do not chase each other for ever.
QuietAgain == []<>Quiet

Promise == INSTANCE SessionPause
           WITH phase <- sup.state, over <- sup.over, pauses <- issued, started <- ran

\* The whole protocol, with its queues, resends, lost acks and crashes, does to a session what
\* SessionPause allows: it pauses only for what the session was not overridden for, forgets
\* overrides only when nothing holds it, and begins its pauses in the terminal in order.
KeepsPromise == Promise!PromiseSpec

=============================================================================
