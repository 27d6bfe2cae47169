--------------------------- MODULE CommandHandler ---------------------------
(***************************************************************************)
(* The launcher's half of pause and resume: `CommandHandler` of            *)
(* launcher/commands.py, the keys it injects into Claude's terminal, the   *)
(* user at the same terminal, and Claude's own activity.                   *)
(*                                                                         *)
(* This module only has state and steps.  PauseProtocol takes commands     *)
(* from the daemon, hands them to `Take`, carries the acks back and closes *)
(* the specification.                                                      *)
(*                                                                         *)
(* Every `await` of the code is a point where other steps may run, so each *)
(* `pc` of the worker is one await and the code between two awaits is one  *)
(* step.  A pause id is the number of the pause in the order the daemon    *)
(* issued it.  Wall-clock times are only ever compared with the start of a *)
(* pause, so the "time" of a key is the number of pauses issued before it: *)
(* `typed_at >= paused_at` of pause k is `typedAt >= k`.                   *)
(***************************************************************************)
EXTENDS Naturals, Sequences

CONSTANTS
    Activities,   \* what Claude may be doing
    Unknown,      \* whether `claude agents --json` may fail
    ChordKeys,    \* keys of the stop-agents chord
    RowKeys,      \* keys that select, stop and clear one footer row
    SweepTries,   \* footer rows tried (sweep_rows * sweep_passes)
    TypingGap,    \* whether the typing guard's clock is modelled
    MaxInputs     \* bound: how often the user types or submits

ASSUME CommandHandlerAssumption ==
    /\ {"idle", "busy"} \subseteq Activities
    /\ Activities \subseteq {"idle", "busy", "background", "waiting"}
    /\ Unknown \in BOOLEAN
    /\ ChordKeys \in Nat \ {0}
    /\ RowKeys \in Nat \ {0}
    /\ SweepTries \in Nat
    /\ TypingGap \in BOOLEAN
    /\ MaxInputs \in Nat

VARIABLES
    h,        \* the handler's fields
    w,        \* the command being carried out and how far it got
    claude,   \* what Claude is doing
    recent,   \* the user typed less than `typing_gap_s` ago
    inputs,   \* how often the user typed or submitted so far
    ran,      \* history: the pauses whose steps were started
    esc,      \* history: "none"; "sent", a session known to be busy got an ESC and no prompt
              \* since; "cut", that ESC ended a turn that nothing continued yet
    touched   \* history: the user typed after the last pause's first ESC

screen == <<claude, recent, inputs>>
history == <<ran, esc, touched>>
handlerVars == <<h, w, claude, recent, inputs, ran, esc, touched>>

Statuses == {"idle", "busy", "waiting", "unknown"}
WasBusy == {"yes", "no", "none"}   \* `was_busy`: True, False or null
Results == {"none", "injected", "skipped"}
\* Where the worker waits while it carries out a pause.
PauseSteps == {"look", "guard", "verify", "again", "gap", "chord", "settle", "sweep", "row",
               "resettle", "final", "last", "end"}
ResumeSteps == {"waitidle", "pasteguard", "submit"}
Command == [type : {"pause", "resume"}, id : Nat, prompt : BOOLEAN, no : Nat, conn : Nat]

NoDone == [id |-> 0, result |-> "none", busy |-> "none"]
NoWork == [pc |-> "idle", id |-> 0, prompt |-> FALSE, no |-> 0, conn |-> 0,
           result |-> "none", busy |-> "none", draft |-> FALSE, seen |-> "idle",
           waited |-> FALSE, keys |-> 0, tries |-> 0]

HandlerInit ==
    /\ h = [paused |-> FALSE, pid |-> 0, submitted |-> FALSE, typed |-> FALSE,
            reported |-> FALSE, report |-> 0, sending |-> FALSE, stale |-> FALSE, typedAt |-> 0,
            submittedAt |-> 0, draft |-> FALSE, background |-> FALSE, done |-> NoDone]
    /\ w = NoWork
    /\ claude \in Activities
    /\ recent = FALSE
    /\ inputs = 0
    /\ ran = {}
    /\ esc = "none"
    /\ touched = FALSE

Memory == [paused : BOOLEAN, pid : Nat, submitted : BOOLEAN, typed : BOOLEAN,
           reported : BOOLEAN, report : Nat, sending : BOOLEAN, stale : BOOLEAN,
           typedAt : Nat, submittedAt : Nat, draft : BOOLEAN, background : BOOLEAN,
           done : [id : Nat, result : Results, busy : WasBusy]]
Work == [pc : {"idle", "ack"} \cup PauseSteps \cup ResumeSteps, id : Nat,
         prompt : BOOLEAN, no : Nat, conn : Nat, result : Results, busy : WasBusy,
         draft : BOOLEAN, seen : Statuses, waited : BOOLEAN, keys : Nat, tries : Nat]
HandlerTypeOK ==
    /\ h \in Memory
    /\ w \in Work
    /\ claude \in Activities
    /\ recent \in BOOLEAN
    /\ inputs \in Nat
    /\ ran \subseteq Nat
    /\ esc \in {"none", "sent", "cut"}
    /\ touched \in BOOLEAN

-----------------------------------------------------------------------------
(* What the handler remembers of a pause. *)

\* Mutant: any pause counts as the current one.
IsCurrentAny(f, id) == f.paused
\* The daemon names every pause it sends or tells of.
IsCurrent(f, id) == f.paused /\ f.pid = id

\* A report still on its way for the previous pause no longer counts for this one.
NewPause(f, id) ==
    [f EXCEPT !.pid = id, !.submitted = FALSE, !.typed = FALSE, !.reported = FALSE,
              !.background = FALSE, !.stale = f.sending]

\* `paused_at` has whole seconds: that input in the second before the pause counts as later too is
\* left out.
MissedPause(f, id) ==
    [NewPause(f, id) EXCEPT !.typed = (f.typedAt >= id), !.submitted = (f.submittedAt >= id)]

SendOverride(f) ==
    IF f.submitted /\ ~f.reported /\ ~f.sending
    THEN [f EXCEPT !.sending = TRUE, !.stale = FALSE, !.report = @ + 1]
    ELSE f

\* The `register_wrapper` reply: `state` and `id` of the daemon's record.
ApplySupervision(f, state, id) ==
    IF state = "paused"
    THEN SendOverride([(IF IsCurrent(f, id) THEN f ELSE MissedPause(f, id))
                         EXCEPT !.paused = TRUE])
    ELSE [f EXCEPT !.paused = FALSE, !.reported = (state = "overridden")]

\* Mutant: a failed report leaves "on its way" set.
ReportReturnsOnSuccess(f, accepted) ==
    IF accepted THEN [f EXCEPT !.sending = FALSE, !.reported = @ \/ ~f.stale] ELSE f

\* The override report came back (`accepted`), timed out or lost its connection.
ReportReturns(f, accepted) ==
    [f EXCEPT !.sending = FALSE, !.stale = FALSE,
              !.reported = @ \/ (accepted /\ ~f.stale)]

-----------------------------------------------------------------------------
(* The user and Claude. *)

\* A key that is not Enter.  `t` is the number of pauses issued so far.
UserTypes(t) ==
    /\ h' = [h EXCEPT !.typed = TRUE, !.typedAt = t, !.draft = TRUE]
    /\ inputs < MaxInputs
    /\ inputs' = inputs + 1
    /\ recent' = TypingGap
    /\ touched' = TRUE
    /\ UNCHANGED <<w, claude, ran, esc>>

\* Enter: the proxy reports typing first, then the submit.
Submitted(t) ==
    LET typed == [h EXCEPT !.typed = TRUE, !.typedAt = t, !.submittedAt = t, !.draft = FALSE]
    IN  IF h.paused THEN SendOverride([typed EXCEPT !.submitted = TRUE]) ELSE typed

\* Claude starts a turn on what the user submitted; the link sets `h`.
UserSubmits ==
    /\ inputs < MaxInputs
    /\ inputs' = inputs + 1
    /\ recent' = TypingGap
    /\ touched' = TRUE
    /\ claude' = "busy"
    /\ esc' = IF esc = "cut" THEN "sent" ELSE esc
    /\ UNCHANGED <<w, ran>>

GapPasses ==
    /\ recent
    /\ recent' = FALSE
    /\ UNCHANGED <<h, w, claude, inputs, ran, esc, touched>>

\* A turn ends, asks for permission, leaves background work, or that work starts a turn.
ClaudeMoves ==
    /\ \E a \in Activities \ {claude} :
          /\ \/ claude = "busy"
             \/ claude = "background"
             \/ claude = "waiting" /\ a \in {"busy", "idle"}
          /\ claude' = a
          /\ esc' = IF esc = "cut" /\ a = "busy" THEN "sent" ELSE esc
    /\ UNCHANGED <<h, w, recent, inputs, ran, touched>>

\* `claude agents --json`: background work makes the session `busy`.  The
\* status `shell` is left out: no step tells it from `waiting`.
Seen == (IF claude = "background" THEN {"busy"} ELSE {claude})
          \cup (IF Unknown THEN {"unknown"} ELSE {})
IsBusy(status) == status # "idle"
IsKnownBusy(status) == status \in {"busy", "waiting"}

\* What one ESC may do: end the main turn, get lost, never touch background work.
EscLeaves ==
    CASE claude = "busy"    -> {"idle", "background", "busy"}
      [] claude = "waiting" -> {"idle", "waiting"}
      [] OTHER              -> {claude}
\* Stopping background work may start a turn, and may miss some of it.
StopLeaves == IF claude = "background" THEN {"background", "idle", "busy"} ELSE {claude}

\* In a session not known to be busy an ESC earns no prompt, whatever it ended (_pause_steps).
PressEsc ==
    /\ claude' \in EscLeaves \cap Activities
    /\ esc' = IF w.busy # "yes" THEN esc
              ELSE IF claude \in {"busy", "waiting"} /\ claude' # claude THEN "cut"
              ELSE IF esc = "none" THEN "sent" ELSE esc

-----------------------------------------------------------------------------
(* The command worker. *)

\* The worker answers; `pc` stays "ack" until the link sent the ack.
Answer(work, result, busy) == [work EXCEPT !.pc = "ack", !.result = result, !.busy = busy]

\* A pause that was carried out is remembered with its ack.
FinishPause(result, busy) ==
    /\ w' = Answer(w, result, busy)
    /\ h' = [h EXCEPT !.done = [id |-> w.id, result |-> result, busy |-> busy]]

\* Mutant: the ack of a pause that was carried out is not remembered.
TakePauseAgain(c) ==
    /\ w' = [NoWork EXCEPT !.id = c.id, !.no = c.no, !.conn = c.conn, !.pc = "look"]
    /\ h' = [(IF IsCurrent(h, c.id) THEN h ELSE NewPause(h, c.id)) EXCEPT !.paused = TRUE]
    /\ ran' = ran \cup {c.id}

\* `handle`: a resent pause that was carried out answers with its first ack.
TakePause(c) ==
    LET work == [NoWork EXCEPT !.id = c.id, !.no = c.no, !.conn = c.conn] IN
    IF h.done.id = c.id
    THEN /\ w' = Answer(work, h.done.result, h.done.busy)
         /\ UNCHANGED <<h, ran>>
    ELSE /\ w' = [work EXCEPT !.pc = "look"]
         /\ h' = [(IF IsCurrent(h, c.id) THEN h ELSE NewPause(h, c.id)) EXCEPT !.paused = TRUE]
         /\ ran' = ran \cup {c.id}

\* Mutant: a resume without prompt returns before it clears the pause.
TakeResumeEarly(c) ==
    LET work == [NoWork EXCEPT !.no = c.no, !.conn = c.conn, !.prompt = c.prompt] IN
    /\ IF c.prompt /\ ~h.typed
       THEN h' = [h EXCEPT !.paused = FALSE] /\ w' = [work EXCEPT !.pc = "waitidle"]
       ELSE UNCHANGED h /\ w' = Answer(work, "skipped", "none")
    /\ UNCHANGED ran

TakeResume(c) ==
    LET work == [NoWork EXCEPT !.no = c.no, !.conn = c.conn, !.prompt = c.prompt] IN
    /\ h' = [h EXCEPT !.paused = FALSE]
    /\ w' = IF c.prompt /\ ~h.typed THEN [work EXCEPT !.pc = "waitidle"]
            ELSE Answer(work, "skipped", "none")
    /\ UNCHANGED ran

Take(c) ==
    /\ IF c.type = "pause" THEN TakePause(c) ELSE TakeResume(c)
    /\ UNCHANGED <<screen, esc, touched>>

Look ==
    /\ w.pc = "look"
    /\ \E status \in Seen :
          IF IsBusy(status)
          THEN /\ w' = [w EXCEPT !.pc = "guard", !.draft = h.draft,
                                 !.busy = IF IsKnownBusy(status) THEN "yes" ELSE "none"]
               /\ UNCHANGED h
          ELSE FinishPause("skipped", "no")
    /\ UNCHANGED <<screen, history>>

\* `_guard`: goes on after a typing gap, or gives up after `typing_max_s`.
GuardGivesUp ==
    /\ w.pc \in {"guard", "gap", "pasteguard"} /\ recent /\ ~w.waited
    /\ w' = [w EXCEPT !.waited = TRUE]
    /\ UNCHANGED <<h, screen, history>>
GuardPassed == ~recent \/ w.waited

\* Mutant: an override during the guard is not noticed.
FirstEscAnyway ==
    /\ w.pc = "guard" /\ GuardPassed
    /\ PressEsc
    /\ w' = [w EXCEPT !.pc = "verify", !.waited = FALSE]
    /\ touched' = FALSE
    /\ UNCHANGED <<h, recent, inputs, ran>>

FirstEsc ==
    /\ w.pc = "guard" /\ GuardPassed
    /\ IF h.submitted
       THEN FinishPause("skipped", "none") /\ UNCHANGED <<claude, esc, touched>>
       ELSE /\ PressEsc
            /\ w' = [w EXCEPT !.pc = "verify", !.waited = FALSE]
            /\ touched' = FALSE
            /\ UNCHANGED h
    /\ UNCHANGED <<recent, inputs, ran>>

\* A lookup after keys: the status is read, then the worker goes on with what it saw.
Verify ==
    /\ w.pc \in {"verify", "settle", "resettle", "last"}
    /\ \E status \in Seen :
          w' = [w EXCEPT !.seen = status,
                         !.pc = CASE w.pc = "verify"   -> "again"
                                  [] w.pc = "settle"   -> IF w.draft THEN "final" ELSE "sweep"
                                  [] w.pc = "resettle" -> "sweep"
                                  [] w.pc = "last"     -> "end"]
    /\ UNCHANGED <<h, screen, history>>

SecondEsc ==
    /\ w.pc = "again"
    /\ IF ~IsKnownBusy(w.seen)
       THEN FinishPause("injected", w.busy) /\ UNCHANGED <<claude, esc>>
       ELSE IF h.submitted
       THEN FinishPause("skipped", "none") /\ UNCHANGED <<claude, esc>>
       ELSE PressEsc /\ w' = [w EXCEPT !.pc = "gap"] /\ UNCHANGED h
    /\ UNCHANGED <<recent, inputs, ran, touched>>

Chord ==
    /\ w.pc = "gap" /\ GuardPassed
    /\ w' = [w EXCEPT !.pc = "chord", !.keys = ChordKeys, !.waited = FALSE]
    /\ UNCHANGED <<h, screen, history>>

SweepRow ==
    /\ w.pc = "sweep"
    /\ w' = IF w.seen # "busy" \/ h.typed \/ h.submitted \/ w.tries = SweepTries
            THEN [w EXCEPT !.pc = "final"]
            ELSE [w EXCEPT !.pc = "row", !.keys = RowKeys, !.tries = @ + 1]
    /\ UNCHANGED <<h, screen, history>>

\* `_inject` writes its keys one at a time, `key_gap_s` apart; the last one acts.
Key ==
    /\ w.pc \in {"chord", "row"}
    /\ IF w.keys > 1
       THEN w' = [w EXCEPT !.keys = @ - 1] /\ UNCHANGED <<h, claude>>
       ELSE /\ w' = [w EXCEPT !.keys = 0, !.pc = IF w.pc = "chord" THEN "settle" ELSE "resettle"]
            /\ claude' \in StopLeaves \cap Activities
            /\ h' = [h EXCEPT !.background = @ \/ (w.pc = "chord")]
    /\ UNCHANGED <<recent, inputs, history>>

FinalEsc ==
    /\ w.pc = "final"
    /\ IF w.seen = "busy" /\ ~h.submitted /\ ~h.typed
       THEN PressEsc /\ w' = [w EXCEPT !.pc = "last"] /\ UNCHANGED h
       ELSE FinishPause("injected", w.busy) /\ UNCHANGED <<claude, esc>>
    /\ UNCHANGED <<recent, inputs, ran, touched>>

EndPause ==
    /\ w.pc = "end"
    /\ FinishPause("injected", w.busy)
    /\ UNCHANGED <<screen, history>>

\* `_resume` waits until Claude is not known busy, up to `resume_max_s`.
WaitIdle ==
    /\ w.pc = "waitidle"
    /\ \E status \in Seen :
          w' = IF IsKnownBusy(status) THEN Answer(w, "skipped", "none")
               ELSE [w EXCEPT !.pc = "pasteguard"]
    /\ UNCHANGED <<h, screen, history>>

\* Mutant: typing during the wait for idle is not noticed.
PasteAnyway ==
    /\ w.pc = "pasteguard" /\ GuardPassed
    /\ w' = [w EXCEPT !.pc = "submit", !.waited = FALSE]
    /\ UNCHANGED <<h, screen, history>>

Paste ==
    /\ w.pc = "pasteguard" /\ GuardPassed
    /\ w' = IF h.typed THEN Answer(w, "skipped", "none")
            ELSE [w EXCEPT !.pc = "submit", !.waited = FALSE]
    /\ UNCHANGED <<h, screen, history>>

Submit ==
    /\ w.pc = "submit"
    /\ w' = Answer(w, "injected", "none")
    /\ claude' = "busy"
    /\ esc' = "none"
    /\ UNCHANGED <<h, recent, inputs, ran, touched>>

HandlerStep ==
    \/ Look \/ GuardGivesUp \/ FirstEsc \/ Verify \/ SecondEsc \/ Chord \/ Key
    \/ SweepRow \/ FinalEsc \/ EndPause \/ WaitIdle \/ Paste \/ Submit

=============================================================================
