------------------------ MODULE PauseProtocol_proofs ------------------------
(***************************************************************************)
(* Proofs about PauseProtocol, for any instances, any bounds on faults and *)
(* inputs, and any activities of Claude.                                   *)
(***************************************************************************)
EXTENDS PauseProtocol, SequenceTheorems, TLAPS

Decision == [sup : Supervision, cmds : Seq(DaemonCommand), issued : Nat]

LEMMA AppendType ==
    ASSUME NEW S, NEW s \in Seq(S), NEW e \in S
    PROVE  Append(s, e) \in Seq(S)
OBVIOUS

LEMMA SingletonType ==
    ASSUME NEW S, NEW e \in S
    PROVE  <<e>> \in Seq(S)
OBVIOUS

LEMMA HeadTailType ==
    ASSUME NEW S, NEW s \in Seq(S), s # <<>>
    PROVE  Head(s) \in S /\ Tail(s) \in Seq(S)
OBVIOUS

LEMMA CmdType ==
    ASSUME NEW type \in {"pause", "resume"}, NEW id \in Nat, NEW prompt \in BOOLEAN
    PROVE  Cmd(type, id, prompt) \in DaemonCommand
BY DEF Cmd, DaemonCommand

LEMMA EvaluatedType ==
    ASSUME NEW held, NEW s \in Supervision, NEW c \in Seq(DaemonCommand), issued \in Nat
    PROVE  Evaluated(held, s, c) \in Decision
<1> DEFINE same == [sup |-> s, cmds |-> c, issued |-> issued]
           resumed == [s EXCEPT !.state = "running", !.busy = "no", !.pend = FALSE]
           paused == [s EXCEPT !.state = "paused", !.id = issued + 1, !.pend = TRUE, !.busy = "none"]
           marked == [s EXCEPT !.state = "running", !.over = {}]
           resume == <<Cmd("resume", 0, WantsPrompt(s))>>
           pause == <<Cmd("pause", issued + 1, FALSE)>>
<1>0. issued + 1 \in Nat
  OBVIOUS
<1>1. resume \in Seq(DaemonCommand) /\ pause \in Seq(DaemonCommand)
  <2>1. WantsPrompt(s) \in BOOLEAN
    BY DEF WantsPrompt
  <2>2. Cmd("resume", 0, WantsPrompt(s)) \in DaemonCommand
    BY <2>1, CmdType
  <2>3. Cmd("pause", issued + 1, FALSE) \in DaemonCommand
    BY <1>0, CmdType, Zenon
  <2> QED
    BY <2>2, <2>3, SingletonType, Zenon
<1>2. resumed \in Supervision /\ paused \in Supervision /\ marked \in Supervision
  <2>1. resumed \in Supervision
    BY DEF Supervision, SupStates, WasBusy
  <2>2. paused \in Supervision
    BY <1>0 DEF Supervision, SupStates, WasBusy
  <2>3. marked \in Supervision
    BY DEF Supervision, SupStates, WasBusy
  <2> QED
    BY <2>1, <2>2, <2>3
<1>3. /\ same \in Decision
      /\ [same EXCEPT !.sup = resumed, !.cmds = resume] \in Decision
      /\ [same EXCEPT !.sup = paused, !.cmds = pause, !.issued = issued + 1] \in Decision
      /\ [same EXCEPT !.sup = marked] \in Decision
  <2> HIDE DEF resumed, paused, marked, resume, pause
  <2> QED
    BY <1>0, <1>1, <1>2 DEF Decision
<1> HIDE DEF resumed, paused, marked, resume, pause
<1>4. Evaluated(held, s, c) \in
        {same, [same EXCEPT !.sup = resumed, !.cmds = resume],
         [same EXCEPT !.sup = paused, !.cmds = pause, !.issued = issued + 1],
         [same EXCEPT !.sup = marked]}
  BY Zenon DEF Evaluated, resumed, paused, marked, resume, pause
<1> QED
  BY <1>3, <1>4, Zenon

LEMMA BecomeType ==
    ASSUME NEW d \in Decision, everOver \subseteq Instance, Become(d)
    PROVE  /\ sup' \in Supervision /\ cmds' \in Seq(DaemonCommand) /\ issued' \in Nat
           /\ everOver' \subseteq Instance
BY DEF Become, Decision, Supervision

LEMMA ReportReturnsType ==
    ASSUME NEW f \in Memory, NEW accepted \in BOOLEAN
    PROVE  ReportReturns(f, accepted) \in Memory
<1> DEFINE reported == f.reported \/ (accepted /\ ~f.stale)
<1>1. reported \in BOOLEAN
  OBVIOUS
<1>2. \A b \in BOOLEAN :
        [f EXCEPT !.sending = FALSE, !.stale = FALSE, !.reported = b] \in Memory
  BY DEF Memory
<1> QED
  BY <1>1, <1>2, Zenon DEF ReportReturns

LEMMA SendOverrideType ==
    ASSUME NEW f \in Memory
    PROVE  SendOverride(f) \in Memory
<1> DEFINE sent == [f EXCEPT !.sending = TRUE, !.stale = FALSE, !.report = @ + 1]
<1>1. f.report \in Nat /\ f.report + 1 \in Nat
  BY DEF Memory
<1>2. \A n \in Nat : [f EXCEPT !.sending = TRUE, !.stale = FALSE, !.report = n] \in Memory
  BY DEF Memory
<1>3. sent \in Memory
  BY <1>1, <1>2, Zenon
<1> QED
  BY <1>3, Zenon DEF SendOverride

LEMMA ApplySupervisionType ==
    ASSUME NEW f \in Memory, NEW state, NEW id \in Nat
    PROVE  ApplySupervision(f, state, id) \in Memory
<1>1. NewPause(f, id) \in Memory
  BY DEF Memory, NewPause
<1>2. MissedPause(f, id) \in Memory
  <2>1. (f.typedAt >= id) \in BOOLEAN /\ (f.submittedAt >= id) \in BOOLEAN
    OBVIOUS
  <2>2. \A g \in Memory, a, b \in BOOLEAN : [g EXCEPT !.typed = a, !.submitted = b] \in Memory
    BY DEF Memory
  <2> QED
    BY <1>1, <2>1, <2>2, Zenon DEF MissedPause
<1>3. \A g \in Memory, a, b \in BOOLEAN : /\ [g EXCEPT !.paused = a] \in Memory
                                       /\ [g EXCEPT !.paused = a, !.reported = b] \in Memory
  <2>1. \A g \in Memory, a \in BOOLEAN : [g EXCEPT !.paused = a] \in Memory
    BY DEF Memory
  <2>2. \A g \in Memory, a, b \in BOOLEAN : [g EXCEPT !.paused = a, !.reported = b] \in Memory
    BY DEF Memory
  <2> QED
    BY <2>1, <2>2
<1>4. CASE state = "paused"
  <2>1. [(IF IsCurrent(f, id) THEN f ELSE MissedPause(f, id)) EXCEPT !.paused = TRUE] \in Memory
    BY <1>2, <1>3, Zenon
  <2> QED
    BY <1>4, <2>1, SendOverrideType, Zenon DEF ApplySupervision
<1>5. CASE state # "paused"
  <2>1. (state = "overridden") \in BOOLEAN
    OBVIOUS
  <2> QED
    BY <1>3, <1>5, <2>1, Zenon DEF ApplySupervision
<1> QED
  BY <1>4, <1>5

PCs == {"idle", "ack"} \cup PauseSteps \cup ResumeSteps

LEMMA AnswerType ==
    ASSUME NEW work \in Work, NEW result \in Results, NEW busy \in WasBusy
    PROVE  Answer(work, result, busy) \in Work
BY DEF Answer, Work

LEMMA WaitsType ==
    ASSUME NEW work \in Work, NEW pc \in PCs
    PROVE  [work EXCEPT !.pc = pc] \in Work
BY DEF Work, PCs

LEMMA NoWorkType == NoWork \in Work
BY DEF NoWork, Work, Statuses, Results, WasBusy

LEMMA TakePauseType ==
    ASSUME HandlerTypeOK, NEW c \in Command, TakePause(c)
    PROVE  h' \in Memory /\ w' \in Work /\ ran' \subseteq Nat
<1> DEFINE work == [NoWork EXCEPT !.id = c.id, !.no = c.no, !.conn = c.conn]
<1>1. work \in Work
  BY NoWorkType DEF Work, Command
<1>2. h \in Memory /\ h.done.result \in Results /\ h.done.busy \in WasBusy
  BY DEF HandlerTypeOK, Memory
<1>3. \A g \in Memory : [g EXCEPT !.paused = TRUE] \in Memory
  BY DEF Memory
<1>4. NewPause(h, c.id) \in Memory
  BY <1>2 DEF Memory, NewPause, Command
<1>5. ran \cup {c.id} \subseteq Nat
  BY DEF HandlerTypeOK, Command
<1>6. CASE h.done.id = c.id
  <2>1. w' = Answer(work, h.done.result, h.done.busy) /\ h' = h /\ ran' = ran
    BY <1>6 DEF TakePause
  <2> QED
    BY <1>1, <1>2, <1>5, <2>1, AnswerType
<1>7. CASE h.done.id # c.id
  <2>1. /\ w' = [work EXCEPT !.pc = "look"]
        /\ h' = [(IF IsCurrent(h, c.id) THEN h ELSE NewPause(h, c.id)) EXCEPT !.paused = TRUE]
        /\ ran' = ran \cup {c.id}
    BY <1>7 DEF TakePause
  <2>2. "look" \in PCs
    BY DEF PCs, PauseSteps
  <2>3. h' \in Memory
    BY <1>2, <1>3, <1>4, <2>1, Zenon
  <2>4. w' \in Work
    BY <1>1, <2>1, <2>2, WaitsType
  <2> QED
    BY <1>5, <2>1, <2>3, <2>4
<1> QED
  BY <1>6, <1>7

LEMMA TakeResumeType ==
    ASSUME HandlerTypeOK, NEW c \in Command, TakeResume(c)
    PROVE  h' \in Memory /\ w' \in Work /\ ran' \subseteq Nat
<1> DEFINE work == [NoWork EXCEPT !.no = c.no, !.conn = c.conn, !.prompt = c.prompt]
<1>1. work \in Work
  BY NoWorkType DEF Work, Command
<1>2. /\ [work EXCEPT !.pc = "waitidle"] \in Work
      /\ Answer(work, "skipped", "none") \in Work
  BY <1>1, WaitsType, AnswerType DEF PCs, ResumeSteps, Results, WasBusy
<1>3. w' \in {[work EXCEPT !.pc = "waitidle"], Answer(work, "skipped", "none")}
  BY Zenon DEF TakeResume
<1>4. h' \in Memory
  BY DEF TakeResume, HandlerTypeOK, Memory
<1> QED
  BY <1>2, <1>3, <1>4 DEF TakeResume, HandlerTypeOK

LEMMA TakeType ==
    ASSUME HandlerTypeOK, NEW c \in Command, Take(c)
    PROVE  HandlerTypeOK'
<1>1. h' \in Memory /\ w' \in Work /\ ran' \subseteq Nat
  BY TakePauseType, TakeResumeType, Zenon DEF Take
<1> QED
  BY <1>1 DEF Take, HandlerTypeOK, screen

LEMMA FinishPauseType ==
    ASSUME HandlerTypeOK, NEW result \in Results, NEW busy \in WasBusy, FinishPause(result, busy)
    PROVE  h' \in Memory /\ w' \in Work
<1>1. [id |-> w.id, result |-> result, busy |-> busy] \in [id : Nat, result : Results, busy : WasBusy]
  BY DEF HandlerTypeOK, Work
<1>2. \A d \in [id : Nat, result : Results, busy : WasBusy] : [h EXCEPT !.done = d] \in Memory
  BY DEF HandlerTypeOK, Memory
<1>3. h' \in Memory
  BY <1>1, <1>2, Zenon DEF FinishPause
<1> QED
  BY <1>3, AnswerType DEF FinishPause, HandlerTypeOK

LEMMA PressEscType ==
    ASSUME HandlerTypeOK, PressEsc
    PROVE  claude' \in Activities /\ esc' \in {"none", "sent", "cut"}
BY DEF HandlerTypeOK, PressEsc

LEMMA LookType ==
    ASSUME HandlerTypeOK, Look
    PROVE  HandlerTypeOK'
<1>1. PICK status \in Seen :
          IF IsBusy(status)
          THEN /\ w' = [w EXCEPT !.pc = "guard", !.draft = h.draft,
                                 !.busy = IF IsKnownBusy(status) THEN "yes" ELSE "none"]
               /\ UNCHANGED h
          ELSE FinishPause("skipped", "no")
  BY DEF Look
<1>2. CASE IsBusy(status)
  <2>1. /\ h.draft \in BOOLEAN
        /\ (IF IsKnownBusy(status) THEN "yes" ELSE "none") \in WasBusy
    BY DEF HandlerTypeOK, Memory, WasBusy
  <2>2. \A draft \in BOOLEAN, busy \in WasBusy :
           [w EXCEPT !.pc = "guard", !.draft = draft, !.busy = busy] \in Work
    BY DEF HandlerTypeOK, Work, PauseSteps
  <2>3. w' \in Work /\ h' = h
    BY <1>1, <1>2, <2>1, <2>2, Zenon
  <2> QED
    BY <2>3 DEF Look, HandlerTypeOK, screen, history
<1>3. CASE ~IsBusy(status)
  <2>1. h' \in Memory /\ w' \in Work
    BY <1>1, <1>3, FinishPauseType DEF Results, WasBusy
  <2> QED
    BY <2>1 DEF Look, HandlerTypeOK, screen, history
<1> QED
  BY <1>2, <1>3

LEMMA GuardGivesUpType ==
    ASSUME HandlerTypeOK, GuardGivesUp
    PROVE  HandlerTypeOK'
<1>1. w' \in Work
  BY DEF GuardGivesUp, HandlerTypeOK, Work
<1> QED
  BY <1>1 DEF GuardGivesUp, HandlerTypeOK, screen, history

LEMMA FirstEscType ==
    ASSUME HandlerTypeOK, FirstEsc
    PROVE  HandlerTypeOK'
<1>1. CASE h.submitted
  <2>1. h' \in Memory /\ w' \in Work
    BY <1>1, FinishPauseType DEF FirstEsc, Results, WasBusy
  <2>2. UNCHANGED <<claude, recent, inputs, ran, esc, touched>>
    BY <1>1 DEF FirstEsc
  <2> QED
    BY <2>1, <2>2, Zenon DEF HandlerTypeOK
<1>2. CASE ~h.submitted
  <2>1. claude' \in Activities /\ esc' \in {"none", "sent", "cut"}
    BY <1>2, PressEscType DEF FirstEsc
  <2>2. w' \in Work
    <3>1. w' = [w EXCEPT !.pc = "verify", !.waited = FALSE]
      BY <1>2 DEF FirstEsc
    <3> QED
      BY <3>1 DEF HandlerTypeOK, Work, PauseSteps
  <2> QED
    BY <1>2, <2>1, <2>2 DEF FirstEsc, HandlerTypeOK
<1> QED
  BY <1>1, <1>2

LEMMA VerifyType ==
    ASSUME HandlerTypeOK, CommandHandlerAssumption, Verify
    PROVE  HandlerTypeOK'
<1> DEFINE next == CASE w.pc = "verify"   -> "again"
                     [] w.pc = "settle"   -> IF w.draft THEN "final" ELSE "sweep"
                     [] w.pc = "resettle" -> "sweep"
                     [] w.pc = "last"     -> "end"
<1>1. next \in PauseSteps
  BY DEF Verify, PauseSteps
<1>2. Seen \subseteq Statuses
  BY DEF Seen, Statuses, HandlerTypeOK, CommandHandlerAssumption
<1>3. \A status \in Statuses, pc \in PauseSteps : [w EXCEPT !.seen = status, !.pc = pc] \in Work
  BY DEF HandlerTypeOK, Work
<1>4. PICK status \in Seen : w' = [w EXCEPT !.seen = status, !.pc = next]
  BY Zenon DEF Verify
<1>5. w' \in Work
  BY <1>1, <1>2, <1>3, <1>4, Zenon
<1> QED
  BY <1>5 DEF Verify, HandlerTypeOK, screen, history

LEMMA SecondEscType ==
    ASSUME HandlerTypeOK, SecondEsc
    PROVE  HandlerTypeOK'
<1>1. w.busy \in WasBusy /\ {"injected", "skipped"} \subseteq Results /\ "none" \in WasBusy
  BY DEF HandlerTypeOK, Work, Results, WasBusy
<1>2. CASE ~IsKnownBusy(w.seen) \/ h.submitted
  <2>1. h' \in Memory /\ w' \in Work
    BY <1>1, <1>2, FinishPauseType DEF SecondEsc
  <2> QED
    BY <1>2, <2>1 DEF SecondEsc, HandlerTypeOK
<1>3. CASE IsKnownBusy(w.seen) /\ ~h.submitted
  <2>1. claude' \in Activities /\ esc' \in {"none", "sent", "cut"}
    BY <1>3, PressEscType DEF SecondEsc
  <2>2. w' \in Work
    BY <1>3 DEF SecondEsc, HandlerTypeOK, Work, PauseSteps
  <2> QED
    BY <1>3, <2>1, <2>2 DEF SecondEsc, HandlerTypeOK
<1> QED
  BY <1>2, <1>3

LEMMA KeysType ==
    ASSUME HandlerTypeOK, CommandHandlerAssumption, Chord \/ SweepRow \/ Key
    PROVE  HandlerTypeOK'
<1>1. CASE Chord
  <2>1. w' \in Work
    BY <1>1 DEF Chord, HandlerTypeOK, Work, PauseSteps, CommandHandlerAssumption
  <2> QED
    BY <1>1, <2>1 DEF Chord, HandlerTypeOK, screen, history
<1>2. CASE SweepRow
  <2>1. w.tries + 1 \in Nat /\ RowKeys \in Nat
    BY DEF HandlerTypeOK, Work, CommandHandlerAssumption
  <2>2. /\ [w EXCEPT !.pc = "final"] \in Work
        /\ [w EXCEPT !.pc = "row", !.keys = RowKeys, !.tries = @ + 1] \in Work
    BY <2>1 DEF HandlerTypeOK, Work, PauseSteps
  <2>3. w' \in {[w EXCEPT !.pc = "final"], [w EXCEPT !.pc = "row", !.keys = RowKeys, !.tries = @ + 1]}
    BY <1>2, Zenon DEF SweepRow
  <2> QED
    BY <1>2, <2>2, <2>3 DEF SweepRow, HandlerTypeOK, screen, history
<1>3. CASE Key
  <2>1. CASE w.keys > 1
    <3>1. w.keys - 1 \in Nat
      BY <2>1 DEF HandlerTypeOK, Work
    <3>2. w' \in Work
      BY <1>3, <2>1, <3>1 DEF Key, HandlerTypeOK, Work
    <3> QED
      BY <1>3, <2>1, <3>2 DEF Key, HandlerTypeOK, history
  <2>2. CASE ~(w.keys > 1)
    <3>1. w' \in Work
      <4>1. \A pc \in {"settle", "resettle"} : [w EXCEPT !.keys = 0, !.pc = pc] \in Work
        BY DEF HandlerTypeOK, Work, PauseSteps
      <4>2. (IF w.pc = "chord" THEN "settle" ELSE "resettle") \in {"settle", "resettle"}
        OBVIOUS
      <4>3. w' = [w EXCEPT !.keys = 0, !.pc = IF w.pc = "chord" THEN "settle" ELSE "resettle"]
        BY <1>3, <2>2 DEF Key
      <4> QED
        BY <4>1, <4>2, <4>3, Zenon
    <3>2. (h.background \/ (w.pc = "chord")) \in BOOLEAN
      OBVIOUS
    <3>3. \A b \in BOOLEAN : [h EXCEPT !.background = b] \in Memory
      BY DEF HandlerTypeOK, Memory
    <3>4. h' = [h EXCEPT !.background = @ \/ (w.pc = "chord")]
      BY <1>3, <2>2 DEF Key
    <3>5. h' \in Memory
      BY <3>2, <3>3, <3>4, Zenon
    <3> QED
      BY <1>3, <2>2, <3>1, <3>5 DEF Key, HandlerTypeOK, history
  <2> QED
    BY <2>1, <2>2
<1> QED
  BY <1>1, <1>2, <1>3

LEMMA FinalEscType ==
    ASSUME HandlerTypeOK, FinalEsc \/ EndPause
    PROVE  HandlerTypeOK'
<1>1. w.busy \in WasBusy /\ "injected" \in Results
  BY DEF HandlerTypeOK, Work, Results
<1>2. CASE EndPause \/ (FinalEsc /\ ~(w.seen = "busy" /\ ~h.submitted /\ ~h.typed))
  <2>1. h' \in Memory /\ w' \in Work
    BY <1>1, <1>2, FinishPauseType DEF FinalEsc, EndPause
  <2> QED
    BY <1>2, <2>1 DEF FinalEsc, EndPause, HandlerTypeOK, screen, history
<1>3. CASE FinalEsc /\ w.seen = "busy" /\ ~h.submitted /\ ~h.typed
  <2>1. claude' \in Activities /\ esc' \in {"none", "sent", "cut"}
    BY <1>3, PressEscType DEF FinalEsc
  <2>2. w' \in Work
    BY <1>3 DEF FinalEsc, HandlerTypeOK, Work, PauseSteps
  <2> QED
    BY <1>3, <2>1, <2>2 DEF FinalEsc, HandlerTypeOK
<1> QED
  BY <1>2, <1>3

LEMMA ResumeStepsType ==
    ASSUME HandlerTypeOK, CommandHandlerAssumption, WaitIdle \/ Paste \/ Submit
    PROVE  HandlerTypeOK'
<1>1. /\ Answer(w, "skipped", "none") \in Work /\ Answer(w, "injected", "none") \in Work
      /\ [w EXCEPT !.pc = "pasteguard"] \in Work
  BY AnswerType, WaitsType DEF HandlerTypeOK, Results, WasBusy, PCs, ResumeSteps
<1>2. [w EXCEPT !.pc = "submit", !.waited = FALSE] \in Work
  BY DEF HandlerTypeOK, Work, ResumeSteps
<1>3. CASE WaitIdle
  BY <1>1, <1>3 DEF WaitIdle, HandlerTypeOK, screen, history
<1>4. CASE Paste
  BY <1>1, <1>2, <1>4 DEF Paste, HandlerTypeOK, screen, history
<1>5. CASE Submit
  BY <1>1, <1>5 DEF Submit, HandlerTypeOK, CommandHandlerAssumption
<1> QED
  BY <1>3, <1>4, <1>5

LEMMA HandlerStepType ==
    ASSUME HandlerTypeOK, CommandHandlerAssumption, HandlerStep
    PROVE  HandlerTypeOK'
BY LookType, GuardGivesUpType, FirstEscType, VerifyType, SecondEscType, KeysType, FinalEscType,
   ResumeStepsType DEF HandlerStep

-----------------------------------------------------------------------------
(* The types of the daemon's state. *)

LEMMA EvaluatesType ==
    ASSUME TypeOK, NEW held, NEW s \in Supervision, NEW c \in Seq(DaemonCommand),
           Become(Evaluated(held, s, c))
    PROVE  /\ sup' \in Supervision /\ cmds' \in Seq(DaemonCommand) /\ issued' \in Nat
           /\ everOver' \subseteq Instance
BY EvaluatedType, BecomeType DEF TypeOK, DaemonTypeOK

LEMMA CommandEndsType ==
    ASSUME TypeOK, cmds # <<>>, NEW result, NEW busy \in WasBusy, CommandEnds(result, busy)
    PROVE  /\ sup' \in Supervision /\ cmds' \in Seq(DaemonCommand) /\ issued' \in Nat
           /\ everOver' \subseteq Instance
           /\ esc' \in {"none", "sent", "cut"}
<1> DEFINE c == Head(cmds)
           s == IF c.type = "pause" /\ sup.state = "paused" /\ sup.id = c.id
                THEN [sup EXCEPT !.pend = @ /\ result \notin {"injected", "skipped"},
                                 !.busy = IF busy = "none" THEN @ ELSE busy]
                ELSE sup
<1>1. Tail(cmds) \in Seq(DaemonCommand)
  BY HeadTailType DEF TypeOK, DaemonTypeOK
<1>2. s \in Supervision
  <2>1. /\ (sup.pend /\ result \notin {"injected", "skipped"}) \in BOOLEAN
        /\ (IF busy = "none" THEN sup.busy ELSE busy) \in WasBusy
    BY DEF TypeOK, DaemonTypeOK, Supervision
  <2>2. \A a \in BOOLEAN, b \in WasBusy : [sup EXCEPT !.pend = a, !.busy = b] \in Supervision
    BY DEF TypeOK, DaemonTypeOK, Supervision
  <2>3. [sup EXCEPT !.pend = @ /\ result \notin {"injected", "skipped"},
                    !.busy = IF busy = "none" THEN @ ELSE busy] \in Supervision
    BY <2>1, <2>2, Zenon
  <2> QED
    BY <2>3, Zenon DEF TypeOK, DaemonTypeOK
<1>3. Become(Evaluated(Held, s, Tail(cmds)))
  BY Zenon DEF CommandEnds
<1>4. esc' \in {"none", "sent", "cut"}
  BY Zenon DEF CommandEnds, TypeOK, HandlerTypeOK
<1> HIDE DEF s
<1> QED
  BY <1>1, <1>2, <1>3, <1>4, EvaluatesType

LEMMA HoldsChangeType ==
    ASSUME TypeOK, HoldsChange(hold')
    PROVE  hold' \in [Instance -> {"fresh", "held", "over"}]
BY DEF TypeOK, DaemonTypeOK, HoldsChange

\* What a step of the daemon alone leaves typed.
LEMMA UnchangedType ==
    ASSUME TypeOK, UNCHANGED <<linkVars, handlerVars, first, queue>>, DaemonTypeOK'
    PROVE  TypeOK'
<1>1. HandlerTypeOK'
  BY DEF TypeOK, HandlerTypeOK, handlerVars
<1>2. LinkTypeOK'
  BY DEF TypeOK, LinkTypeOK, linkVars
<1> QED
  BY <1>1, <1>2 DEF TypeOK

LEMMA HoldStepType ==
    ASSUME TypeOK, HoldStep \/ Tick
    PROVE  TypeOK'
<1>1. hold' \in [Instance -> {"fresh", "held", "over"}]
  BY HoldsChangeType DEF HoldStep, Tick, TypeOK, DaemonTypeOK
<1>2. /\ sup' \in Supervision /\ cmds' \in Seq(DaemonCommand) /\ issued' \in Nat
      /\ everOver' \subseteq Instance
  <2>1. sup \in Supervision /\ cmds \in Seq(DaemonCommand)
    BY DEF TypeOK, DaemonTypeOK
  <2> QED
    BY <2>1, EvaluatesType DEF HoldStep, Tick
<1>3. up' \in BOOLEAN /\ sends' \in Nat /\ provisional' \in BOOLEAN
  BY DEF HoldStep, Tick, TypeOK, DaemonTypeOK
<1>4. UNCHANGED <<linkVars, launcherVars>>
  BY DEF HoldStep, Tick
<1> QED
  BY <1>1, <1>2, <1>3, <1>4, UnchangedType DEF DaemonTypeOK, launcherVars

LEMMA OpResumeType ==
    ASSUME TypeOK, NEW own, OpResume(own)
    PROVE  TypeOK'
<1>1. hold' \in [Instance -> {"fresh", "held", "over"}]
  BY DEF OpResume, TypeOK, DaemonTypeOK
<1>2. /\ up' \in BOOLEAN /\ sends' \in Nat /\ provisional' \in BOOLEAN
      /\ UNCHANGED <<linkVars, handlerVars, first, queue>>
  BY DEF OpResume, TypeOK, DaemonTypeOK, launcherVars
<1>3. CASE sup.state = "paused"
  <2> DEFINE s == [sup EXCEPT !.state = IF Held' = {} THEN "running" ELSE "overridden",
                              !.over = @ \cup Held', !.busy = "no", !.pend = FALSE]
             c == Append(cmds, Cmd("resume", 0, WantsPrompt(sup)))
  <2>1. s \in Supervision
    <3>1. Held' \subseteq Instance
      BY DEF Held
    <3>2. \A state \in {"running", "overridden"}, over \in SUBSET Instance :
             [sup EXCEPT !.state = state, !.over = over, !.busy = "no", !.pend = FALSE]
                \in Supervision
      BY DEF TypeOK, DaemonTypeOK, Supervision, SupStates, WasBusy
    <3>3. sup.over \cup Held' \in SUBSET Instance
      BY <3>1 DEF TypeOK, DaemonTypeOK, Supervision
    <3>4. (IF Held' = {} THEN "running" ELSE "overridden") \in {"running", "overridden"}
      OBVIOUS
    <3> QED
      BY <3>2, <3>3, <3>4, Zenon
  <2>2. c \in Seq(DaemonCommand)
    <3>1. WantsPrompt(sup) \in BOOLEAN
      BY DEF WantsPrompt
    <3>2. Cmd("resume", 0, WantsPrompt(sup)) \in DaemonCommand
      BY <3>1, CmdType
    <3> QED
      BY <3>2, AppendType, Zenon DEF TypeOK, DaemonTypeOK
  <2>3. Become([sup |-> s, cmds |-> c, issued |-> issued])
    BY <1>3, Zenon DEF OpResume
  <2> HIDE DEF s, c
  <2>4. [sup |-> s, cmds |-> c, issued |-> issued] \in Decision
    BY <2>1, <2>2 DEF Decision, TypeOK, DaemonTypeOK
  <2>5. /\ sup' \in Supervision /\ cmds' \in Seq(DaemonCommand) /\ issued' \in Nat
        /\ everOver' \subseteq Instance
    BY <2>3, <2>4, BecomeType DEF TypeOK, DaemonTypeOK
  <2> QED
    BY <1>1, <1>2, <2>5, UnchangedType DEF DaemonTypeOK
<1>4. CASE sup.state # "paused"
  <2>1. UNCHANGED <<sup, cmds, issued, everOver>>
    BY <1>4 DEF OpResume
  <2> QED
    BY <1>1, <1>2, <2>1, UnchangedType DEF TypeOK, DaemonTypeOK
<1> QED
  BY <1>3, <1>4

\* What a step of the daemon leaves typed that may send, and report a resume to the user.
LEMMA DaemonStepType ==
    ASSUME TypeOK, DaemonTypeOK', esc' \in {"none", "sent", "cut"}, d2c' \in Seq(ToLauncher),
           link # "down" \/ d2c' = <<>>,
           UNCHANGED <<link, served, c2d, conn, drops, h, w, screen, ran, touched, first, queue>>,
           timeouts' \in Nat
    PROVE  TypeOK'
<1>1. HandlerTypeOK'
  BY DEF TypeOK, HandlerTypeOK, screen
<1>2. LinkTypeOK'
  BY DEF TypeOK, LinkTypeOK
<1> QED
  BY <1>1, <1>2 DEF TypeOK

LEMMA StartCmdType ==
    ASSUME TypeOK, StartCmd
    PROVE  TypeOK'
<1> DEFINE c == Head(cmds)
           unwanted == c.type = "pause" /\ ~(PausePending(sup) /\ sup.id = c.id)
           message == [kind |-> "cmd", type |-> c.type, id |-> c.id, prompt |-> c.prompt,
                       no |-> sends + 1, ok |-> TRUE]
<1>1. cmds # <<>> /\ sup \in Supervision /\ esc \in {"none", "sent", "cut"}
  BY DEF StartCmd, TypeOK, DaemonTypeOK, HandlerTypeOK
<1>2. c \in DaemonCommand /\ Tail(cmds) \in Seq(DaemonCommand) /\ Len(cmds) \in Nat \ {0}
  BY <1>1, HeadTailType, EmptySeq DEF TypeOK, DaemonTypeOK
<1>3. /\ UNCHANGED <<up, hold, provisional, link, served, c2d, conn, drops, timeouts>>
      /\ UNCHANGED <<h, w, screen, ran, touched, first, queue>>
  BY DEF StartCmd, screen
<1>4. /\ up' \in BOOLEAN /\ hold' \in [Instance -> {"fresh", "held", "over"}]
      /\ provisional' \in BOOLEAN /\ timeouts' \in Nat
      /\ sends \in Nat /\ d2c \in Seq(ToLauncher) /\ (link # "down" \/ d2c = <<>>)
  BY <1>3 DEF TypeOK, DaemonTypeOK, LinkTypeOK
<1>5. CASE unwanted
  <2>1. Become(Evaluated(Held, sup, Tail(cmds))) /\ UNCHANGED <<sends, d2c, esc>>
    BY <1>5, Zenon DEF StartCmd
  <2>2. DaemonTypeOK'
    BY <1>1, <1>2, <1>4, <2>1, EvaluatesType DEF DaemonTypeOK
  <2> QED
    BY <1>1, <1>3, <1>4, <2>1, <2>2, DaemonStepType
<1>6. CASE ~unwanted /\ ~served
  <2>1. CommandEnds("not_connected", "none") /\ UNCHANGED <<sends, d2c>>
    BY <1>6, Zenon DEF StartCmd
  <2>2. DaemonTypeOK' /\ esc' \in {"none", "sent", "cut"}
    BY <1>1, <1>4, <2>1, CommandEndsType DEF DaemonTypeOK, WasBusy
  <2> QED
    BY <1>3, <1>4, <2>1, <2>2, DaemonStepType
<1>7. CASE ~unwanted /\ served
  <2>1. /\ sends' = sends + 1
        /\ cmds' = [cmds EXCEPT ![1].no = sends + 1]
        /\ d2c' = Append(d2c, message)
        /\ UNCHANGED <<sup, issued, everOver, esc>>
    BY <1>7, Zenon DEF StartCmd
  <2>2. message \in ToLauncher
    BY <1>2, <1>4 DEF ToLauncher, DaemonCommand
  <2>3. d2c' \in Seq(ToLauncher)
    BY <1>4, <2>1, <2>2, AppendType, Zenon
  <2>4. cmds' \in Seq(DaemonCommand)
    <3>1. 1 \in 1 .. Len(cmds) /\ cmds \in Seq(DaemonCommand)
      BY <1>2 DEF TypeOK, DaemonTypeOK
    <3>2. cmds[1] \in DaemonCommand
      BY <3>1, ElementOfSeq
    <3>3. sends + 1 \in Nat
      BY <1>4
    <3>4. \A x \in DaemonCommand, n \in Nat : [x EXCEPT !.no = n] \in DaemonCommand
      BY DEF DaemonCommand
    <3>5. [cmds[1] EXCEPT !.no = sends + 1] \in DaemonCommand
      BY <3>2, <3>3, <3>4, Zenon
    <3>6. \A x \in DaemonCommand : [cmds EXCEPT ![1] = x] \in Seq(DaemonCommand)
      BY <3>1, ExceptSeq, Zenon
    <3> QED
      BY <2>1, <3>5, <3>6, Zenon
  <2>5. link # "down"
    BY <1>7 DEF TypeOK, LinkTypeOK
  <2>6. DaemonTypeOK'
    BY <1>1, <1>4, <2>1, <2>4 DEF TypeOK, DaemonTypeOK
  <2> QED
    BY <1>1, <1>3, <1>4, <2>1, <2>3, <2>5, <2>6, DaemonStepType
<1> QED
  BY <1>5, <1>6, <1>7

LEMMA AckTimeoutType ==
    ASSUME TypeOK, AckTimeout
    PROVE  TypeOK'
<1>1. cmds # <<>> /\ CommandEnds("timeout", "none")
  BY DEF AckTimeout, InFlight
<1>2. /\ UNCHANGED <<up, hold, sends, provisional, link, served, c2d, d2c, conn, drops>>
      /\ UNCHANGED <<h, w, screen, ran, touched, first, queue>>
      /\ timeouts' = timeouts + 1
  BY DEF AckTimeout
<1>3. DaemonTypeOK' /\ esc' \in {"none", "sent", "cut"}
  BY <1>1, <1>2, CommandEndsType DEF TypeOK, DaemonTypeOK, WasBusy
<1>4. timeouts' \in Nat /\ d2c' \in Seq(ToLauncher) /\ (link # "down" \/ d2c' = <<>>)
  BY <1>2 DEF TypeOK, LinkTypeOK
<1> QED
  BY <1>2, <1>3, <1>4, DaemonStepType

LEMMA NoSupType == NoSup \in Supervision
BY DEF NoSup, Supervision, SupStates, WasBusy

\* The record of a session that starts while some launchers are held, or none.
LEMMA NewRecordType ==
    ASSUME NEW state \in {"running", "overridden"}, NEW over \in SUBSET Instance
    PROVE  LET n == [NoSup EXCEPT !.state = state, !.over = over]
           IN  n \in Supervision /\ n.state = state /\ n.state # "paused" /\ n.over = over
<1>1. state \in SupStates /\ state # "paused"
  BY DEF SupStates
<1>2. ASSUME NEW s \in Supervision
      PROVE  LET n == [s EXCEPT !.state = state, !.over = over]
             IN  n \in Supervision /\ n.state = state /\ n.state # "paused" /\ n.over = over
  BY <1>1 DEF Supervision
<1>3. PICK s : s = NoSup
  OBVIOUS
<1> QED
  BY <1>2, <1>3, NoSupType, Zenon

LEMMA ReapType ==
    ASSUME TypeOK, NEW own, Reap(own)
    PROVE  TypeOK'
<1>1. DaemonTypeOK'
  BY NoSupType DEF Reap, TypeOK, DaemonTypeOK
<1> QED
  BY <1>1, UnchangedType DEF Reap, launcherVars

-----------------------------------------------------------------------------
(* The types of the connection. *)

LEMMA ReplyType ==
    ASSUME NEW kind \in {"registered", "noted"}, NEW type \in SupStates, NEW id \in Nat
    PROVE  Reply(kind, type, id) \in ToLauncher
BY DEF Reply, ToLauncher

LEMMA MessageType ==
    ASSUME NEW kind \in {"register", "submitted", "ack"}, NEW no \in Nat
    PROVE  Message(kind, no) \in ToDaemon
BY DEF Message, ToDaemon, Results, WasBusy

LEMMA ReadRegisterType ==
    ASSUME TypeOK, NEW m, ReadRegister(m)
    PROVE  /\ sup' \in Supervision /\ cmds' \in Seq(DaemonCommand) /\ issued' \in Nat
           /\ everOver' \subseteq Instance
           /\ d2c' \in Seq(ToLauncher) /\ served' = TRUE /\ provisional' = FALSE /\ esc' = esc
<1> DEFINE new == IF m.first
                  THEN [NoSup EXCEPT !.state = IF Held = {} THEN "running" ELSE "overridden",
                                     !.over = Held]
                  ELSE [NoSup EXCEPT !.state = "running"]
           record == IF sup.state = "none" THEN new ELSE sup
           d == Evaluated(Held, record, cmds)
           resent == [d EXCEPT !.cmds = Append(@, Cmd("pause", d.sup.id, FALSE))]
<1>1. record \in Supervision
  <2>1. \A state \in {"running", "overridden"}, over \in SUBSET Instance :
           /\ [NoSup EXCEPT !.state = state, !.over = over] \in Supervision
           /\ [NoSup EXCEPT !.state = state] \in Supervision
    BY NoSupType DEF Supervision, SupStates
  <2>2. Held \in SUBSET Instance
    BY DEF Held
  <2>3. (IF Held = {} THEN "running" ELSE "overridden") \in {"running", "overridden"}
    OBVIOUS
  <2>4. new \in Supervision
    BY <2>1, <2>2, <2>3, Zenon
  <2> QED
    BY <2>4, Zenon DEF TypeOK, DaemonTypeOK
<1> HIDE DEF record
<1>2. d \in Decision
  BY <1>1, EvaluatedType DEF TypeOK, DaemonTypeOK
<1>3. Cmd("pause", d.sup.id, FALSE) \in DaemonCommand
  BY <1>2, CmdType DEF Decision, Supervision
<1>4. resent \in Decision
  <2>1. Append(d.cmds, Cmd("pause", d.sup.id, FALSE)) \in Seq(DaemonCommand)
    BY <1>2, <1>3, AppendType DEF Decision
  <2>2. \A c \in Seq(DaemonCommand) : [d EXCEPT !.cmds = c] \in Decision
    <3> HIDE DEF d
    <3> QED
      BY <1>2 DEF Decision
  <2> QED
    BY <2>1, <2>2, Zenon
<1>5. /\ Become(IF PausePending(d.sup) THEN resent ELSE d)
      /\ d2c' = Append(d2c, Reply("registered", d.sup.state, d.sup.id))
      /\ served' = TRUE /\ provisional' = FALSE /\ esc' = esc
  BY Zenon DEF ReadRegister, record
<1>6. Reply("registered", d.sup.state, d.sup.id) \in ToLauncher
  BY <1>2, ReplyType DEF Decision, Supervision
<1>7. d2c' \in Seq(ToLauncher)
  BY <1>5, <1>6, AppendType DEF TypeOK, LinkTypeOK
<1>8. (IF PausePending(d.sup) THEN resent ELSE d) \in Decision
  BY <1>2, <1>4, Zenon
<1> HIDE DEF d, resent
<1> QED
  BY <1>5, <1>7, <1>8, BecomeType DEF TypeOK, DaemonTypeOK

LEMMA ReadSubmittedType ==
    ASSUME TypeOK, NEW m \in ToDaemon, ReadSubmitted(m)
    PROVE  /\ sup' \in Supervision /\ cmds' \in Seq(DaemonCommand) /\ issued' \in Nat
           /\ everOver' \subseteq Instance
           /\ d2c' \in Seq(ToLauncher)
<1> DEFINE s == [sup EXCEPT !.state = "overridden", !.pend = FALSE, !.over = @ \cup Held]
           reply == [Reply("noted", "none", 0) EXCEPT !.no = m.no, !.ok = sup.state # "none"]
<1>1. s \in Supervision
  BY DEF TypeOK, DaemonTypeOK, Supervision, SupStates, Held
<1>2. reply \in ToLauncher
  <2>1. \A no \in Nat, ok \in BOOLEAN :
           [Reply("noted", "none", 0) EXCEPT !.no = no, !.ok = ok] \in ToLauncher
    BY DEF Reply, ToLauncher, SupStates
  <2>2. m.no \in Nat /\ (sup.state # "none") \in BOOLEAN
    BY DEF ToDaemon
  <2> QED
    BY <2>1, <2>2, Zenon
<1>3. d2c' \in Seq(ToLauncher)
  <2>1. d2c' = Append(d2c, reply)
    BY Zenon DEF ReadSubmitted
  <2> HIDE DEF reply
  <2> QED
    BY <1>2, <2>1, AppendType DEF TypeOK, LinkTypeOK
<1>4. CASE sup.state = "paused"
  <2>1. Become(Evaluated(Held, s, cmds))
    BY <1>4, Zenon DEF ReadSubmitted
  <2> HIDE DEF s
  <2>2. cmds \in Seq(DaemonCommand)
    BY DEF TypeOK, DaemonTypeOK
  <2> QED
    BY <1>1, <1>3, <2>1, <2>2, EvaluatesType
<1>5. CASE sup.state # "paused"
  BY <1>3, <1>5 DEF ReadSubmitted, TypeOK, DaemonTypeOK
<1> QED
  BY <1>4, <1>5

LEMMA ReadAckType ==
    ASSUME TypeOK, NEW m \in ToDaemon, ReadAck(m)
    PROVE  /\ sup' \in Supervision /\ cmds' \in Seq(DaemonCommand) /\ issued' \in Nat
           /\ everOver' \subseteq Instance
           /\ esc' \in {"none", "sent", "cut"}
<1>1. CASE InFlight /\ Head(cmds).no = m.no
  <2>1. cmds # <<>> /\ CommandEnds(m.result, m.busy) /\ m.busy \in WasBusy
    BY <1>1 DEF ReadAck, InFlight, ToDaemon
  <2> QED
    BY <2>1, CommandEndsType
<1>2. CASE ~(InFlight /\ Head(cmds).no = m.no)
  BY <1>2 DEF ReadAck, TypeOK, DaemonTypeOK, HandlerTypeOK
<1> QED
  BY <1>1, <1>2

LEMMA DaemonReadsType ==
    ASSUME TypeOK, DaemonReads
    PROVE  TypeOK'
<1> DEFINE m == Head(c2d)
<1>1. m \in ToDaemon /\ Tail(c2d) \in Seq(ToDaemon) /\ link # "down"
  BY HeadTailType DEF DaemonReads, TypeOK, LinkTypeOK
<1>2. /\ c2d' = Tail(c2d)
      /\ UNCHANGED <<up, hold, sends, link, conn, drops, timeouts>>
      /\ UNCHANGED <<h, w, screen, ran, touched, first, queue>>
  BY DEF DaemonReads
<1>3. m.kind \in {"register", "submitted", "ack"}
  BY <1>1 DEF ToDaemon
<1>4. /\ m.kind = "register" => ReadRegister(m)
      /\ m.kind = "submitted" => ReadSubmitted(m)
      /\ m.kind = "ack" => ReadAck(m)
  BY Zenon DEF DaemonReads
<1>5. /\ DaemonTypeOK' /\ esc' \in {"none", "sent", "cut"}
      /\ served' \in BOOLEAN /\ d2c' \in Seq(ToLauncher)
  <2>1. CASE m.kind = "register"
    <3>1. ReadRegister(m)
      BY <1>4, <2>1
    <3> QED
      BY <1>2, <3>1, ReadRegisterType DEF TypeOK, DaemonTypeOK, HandlerTypeOK
  <2>2. CASE m.kind = "submitted"
    <3>1. ReadSubmitted(m)
      BY <1>4, <2>2
    <3>2. UNCHANGED <<served, provisional, esc>>
      BY <3>1 DEF ReadSubmitted
    <3> QED
      BY <1>1, <1>2, <3>1, <3>2, ReadSubmittedType
         DEF TypeOK, DaemonTypeOK, LinkTypeOK, HandlerTypeOK
  <2>3. CASE m.kind = "ack"
    <3>1. ReadAck(m)
      BY <1>4, <2>3
    <3>2. UNCHANGED <<d2c, served, provisional>>
      BY <3>1 DEF ReadAck
    <3> QED
      BY <1>1, <1>2, <3>1, <3>2, ReadAckType DEF TypeOK, DaemonTypeOK, LinkTypeOK
  <2> QED
    BY <1>3, <2>1, <2>2, <2>3
<1>6. HandlerTypeOK'
  BY <1>2, <1>5 DEF TypeOK, HandlerTypeOK, screen
<1>7. LinkTypeOK'
  BY <1>1, <1>2, <1>5 DEF TypeOK, LinkTypeOK
<1> QED
  BY <1>2, <1>5, <1>6, <1>7 DEF TypeOK

LEMMA ConnectType ==
    ASSUME TypeOK, Connect
    PROVE  TypeOK'
<1> DEFINE register == [Message("register", 0) EXCEPT !.first = first]
<1>1. register \in ToDaemon
  BY DEF Message, ToDaemon, Results, WasBusy, TypeOK
<1>2. c2d' = <<register>> /\ c2d' \in Seq(ToDaemon)
  BY <1>1, SingletonType, Zenon DEF Connect
<1>3. DaemonTypeOK' /\ HandlerTypeOK' /\ first' \in BOOLEAN /\ queue' \in Seq(Command)
  BY DEF Connect, TypeOK, DaemonTypeOK, HandlerTypeOK, daemonVars, launcherVars, handlerVars
<1>4. LinkTypeOK'
  BY <1>2 DEF Connect, TypeOK, LinkTypeOK
<1> QED
  BY <1>3, <1>4 DEF TypeOK

LEMMA CutType ==
    ASSUME TypeOK, Cut
    PROVE  /\ h' \in Memory /\ LinkTypeOK' /\ sends' \in Nat
           /\ UNCHANGED <<w, screen, ran, touched, first, queue>>
<1>1. h' \in Memory
  BY ReportReturnsType DEF Cut, TypeOK, HandlerTypeOK
<1>2. /\ drops' = drops + 1 /\ link' = "down" /\ served' = FALSE /\ c2d' = <<>> /\ d2c' = <<>>
      /\ UNCHANGED <<conn, timeouts>>
  BY DEF Cut
<1>3. LinkTypeOK'
  <2>1. c2d' \in Seq(ToDaemon) /\ d2c' \in Seq(ToLauncher)
    BY <1>2, EmptySeq, Zenon
  <2>2. conn' \in Nat /\ drops' \in Nat /\ timeouts' \in Nat
    BY <1>2 DEF TypeOK, LinkTypeOK
  <2> QED
    BY <1>2, <2>1, <2>2 DEF LinkTypeOK
<1> QED
  BY <1>1, <1>3 DEF Cut, TypeOK, DaemonTypeOK

\* What a step that breaks the connection leaves typed.
LEMMA CutStepType ==
    ASSUME TypeOK, Cut, DaemonTypeOK', esc' \in {"none", "sent", "cut"}
    PROVE  TypeOK'
BY CutType DEF TypeOK, HandlerTypeOK, screen

LEMMA DropType ==
    ASSUME TypeOK, Drop
    PROVE  TypeOK'
<1>1. Cut /\ UNCHANGED <<up, hold, provisional>>
  BY DEF Drop
<1>2. CASE InFlight
  <2>1. cmds # <<>> /\ CommandEnds("not_connected", "none")
    BY <1>2 DEF Drop, InFlight
  <2>2. DaemonTypeOK' /\ esc' \in {"none", "sent", "cut"}
    BY <1>1, <2>1, CommandEndsType, CutType DEF TypeOK, DaemonTypeOK, WasBusy
  <2> QED
    BY <1>1, <2>2, CutStepType
<1>3. CASE ~InFlight
  <2>1. UNCHANGED <<sup, cmds, issued, everOver, esc>>
    BY <1>3 DEF Drop
  <2>2. DaemonTypeOK' /\ esc' \in {"none", "sent", "cut"}
    BY <1>1, <2>1, CutType DEF TypeOK, DaemonTypeOK, HandlerTypeOK
  <2> QED
    BY <1>1, <2>2, CutStepType
<1> QED
  BY <1>2, <1>3

LEMMA CrashType ==
    ASSUME TypeOK, Crash
    PROVE  TypeOK'
<1>1. Cut /\ up' = FALSE /\ cmds' = <<>> /\ provisional' = FALSE
      /\ UNCHANGED <<sup, issued, everOver, esc>>
  BY DEF Crash
<1>2. hold' \in [Instance -> {"fresh", "held", "over"}]
  BY HoldsChangeType DEF Crash, TypeOK, DaemonTypeOK
<1>3. DaemonTypeOK' /\ esc' \in {"none", "sent", "cut"}
  <2>1. sends' \in Nat /\ cmds' \in Seq(DaemonCommand)
    BY <1>1, CutType, EmptySeq
  <2> QED
    BY <1>1, <1>2, <2>1 DEF TypeOK, DaemonTypeOK, HandlerTypeOK
<1> QED
  BY <1>1, <1>3, CutStepType

LEMMA RestartType ==
    ASSUME TypeOK, Restart
    PROVE  TypeOK'
<1>1. (sup.state # "none") \in BOOLEAN
  OBVIOUS
<1>2. DaemonTypeOK'
  BY <1>1 DEF Restart, TypeOK, DaemonTypeOK
<1> QED
  BY <1>2, UnchangedType DEF Restart, launcherVars

-----------------------------------------------------------------------------
(* The types of the launcher. *)

LEMMA ReportsOnceType ==
    ASSUME TypeOK, NEW f \in Memory, NEW registered, Reports(f, registered)
    PROVE  h' \in Memory /\ c2d' \in Seq(ToDaemon)
<1>1. Message("submitted", f.report) \in ToDaemon
  BY MessageType DEF Memory
<1>2. c2d \in Seq(ToDaemon) /\ Append(c2d, Message("submitted", f.report)) \in Seq(ToDaemon)
  BY <1>1, AppendType DEF TypeOK, LinkTypeOK
<1>3. ReportReturns(f, FALSE) \in Memory
  BY ReportReturnsType
<1>4. h' \in {f, ReportReturns(f, FALSE)}
  BY DEF Reports
<1>5. c2d' \in {c2d, Append(c2d, Message("submitted", f.report))}
  BY DEF Reports
<1> QED
  BY <1>2, <1>3, <1>4, <1>5

LEMMA LauncherReadsType ==
    ASSUME TypeOK, LauncherReads
    PROVE  TypeOK'
<1> DEFINE m == Head(d2c)
           c == [type |-> m.type, id |-> m.id, prompt |-> m.prompt, no |-> m.no, conn |-> conn]
<1>1. m \in ToLauncher /\ Tail(d2c) \in Seq(ToLauncher) /\ link # "down"
  BY HeadTailType DEF LauncherReads, TypeOK, LinkTypeOK
<1>2. d2c' = Tail(d2c) /\ UNCHANGED <<served, conn, drops, timeouts, daemonVars>>
  BY DEF LauncherReads
<1>3. DaemonTypeOK'
  BY <1>2 DEF TypeOK, DaemonTypeOK, daemonVars
<1>4. CASE m.kind = "registered"
  <2>1. /\ Reports(ApplySupervision(h, m.type, m.id), TRUE)
        /\ link' = "up" /\ first' = FALSE /\ UNCHANGED <<queue, w, screen, history>>
    BY <1>4 DEF LauncherReads
  <2>2. ApplySupervision(h, m.type, m.id) \in Memory
    BY <1>1, ApplySupervisionType DEF TypeOK, HandlerTypeOK, ToLauncher
  <2>3. h' \in Memory /\ c2d' \in Seq(ToDaemon)
    BY <2>1, <2>2, ReportsOnceType
  <2>4. HandlerTypeOK'
    BY <2>1, <2>3 DEF TypeOK, HandlerTypeOK, screen, history
  <2>5. LinkTypeOK'
    BY <1>1, <1>2, <2>1, <2>3 DEF TypeOK, LinkTypeOK
  <2> QED
    BY <1>3, <2>1, <2>4, <2>5 DEF TypeOK
<1>5. CASE m.kind = "cmd"
  <2>1. c \in Command
    BY <1>1, <1>5 DEF ToLauncher, Command, TypeOK, LinkTypeOK
  <2>2. UNCHANGED <<c2d, link, first>>
    BY <1>5 DEF LauncherReads
  <2>3. LinkTypeOK'
    BY <1>1, <1>2, <2>2 DEF TypeOK, LinkTypeOK
  <2>4. CASE w.pc = "idle"
    <3>1. Take(c) /\ UNCHANGED queue
      BY <1>5, <2>4 DEF LauncherReads
    <3> QED
      BY <1>3, <2>1, <2>2, <2>3, <3>1, TakeType DEF TypeOK
  <2>5. CASE w.pc # "idle"
    <3>1. queue' = Append(queue, c) /\ UNCHANGED handlerVars
      BY <1>5, <2>5 DEF LauncherReads
    <3>2. queue' \in Seq(Command)
      BY <2>1, <3>1, AppendType DEF TypeOK
    <3>3. HandlerTypeOK'
      BY <3>1 DEF TypeOK, HandlerTypeOK, handlerVars
    <3> QED
      BY <1>3, <2>2, <2>3, <3>2, <3>3 DEF TypeOK
  <2> QED
    BY <2>4, <2>5
<1>6. CASE m.kind = "noted"
  <2>1. /\ h' = IF h.sending /\ h.report = m.no THEN ReportReturns(h, m.ok) ELSE h
        /\ UNCHANGED <<c2d, link, first, queue, w, screen, history>>
    BY <1>6, Zenon DEF LauncherReads
  <2>2. h \in Memory /\ m.ok \in BOOLEAN
    BY <1>1 DEF TypeOK, HandlerTypeOK, ToLauncher
  <2>3. h' \in Memory
    BY <2>1, <2>2, ReportReturnsType
  <2>4. HandlerTypeOK'
    BY <2>1, <2>3 DEF TypeOK, HandlerTypeOK, screen, history
  <2>5. LinkTypeOK'
    BY <1>1, <1>2, <2>1 DEF TypeOK, LinkTypeOK
  <2> QED
    BY <1>3, <2>1, <2>4, <2>5 DEF TypeOK
<1> QED
  BY <1>1, <1>4, <1>5, <1>6 DEF ToLauncher

LEMMA SendAckType ==
    ASSUME TypeOK, SendAck
    PROVE  TypeOK'
<1> DEFINE ack == [Message("ack", w.no) EXCEPT !.result = w.result, !.busy = w.busy]
<1>1. ack \in ToDaemon
  BY DEF Message, ToDaemon, TypeOK, HandlerTypeOK, Work
<1>2. c2d' \in Seq(ToDaemon) /\ (link = "down" => c2d' = c2d)
  <2>1. Append(c2d, ack) \in Seq(ToDaemon) /\ c2d \in Seq(ToDaemon)
    BY <1>1, AppendType DEF TypeOK, LinkTypeOK
  <2>2. c2d' = IF link # "down" /\ w.conn = conn THEN Append(c2d, ack) ELSE c2d
    BY Zenon DEF SendAck
  <2> QED
    BY <2>1, <2>2
<1>3. UNCHANGED <<link, served, d2c, conn, drops, timeouts, daemonVars, first>>
  BY DEF SendAck
<1>4. DaemonTypeOK'
  BY <1>3 DEF TypeOK, DaemonTypeOK, daemonVars
<1>5. LinkTypeOK'
  BY <1>2, <1>3 DEF TypeOK, LinkTypeOK
<1>6. CASE queue = <<>>
  <2>1. w' = NoWork /\ UNCHANGED <<h, screen, history, queue>>
    BY <1>6 DEF SendAck
  <2>2. HandlerTypeOK'
    BY <2>1, NoWorkType DEF TypeOK, HandlerTypeOK, screen, history
  <2> QED
    BY <1>3, <1>4, <1>5, <2>1, <2>2 DEF TypeOK
<1>7. CASE queue # <<>>
  <2>1. Take(Head(queue)) /\ queue' = Tail(queue)
    BY <1>7 DEF SendAck
  <2>2. Head(queue) \in Command /\ Tail(queue) \in Seq(Command)
    BY <1>7, HeadTailType DEF TypeOK
  <2> QED
    BY <1>3, <1>4, <1>5, <2>1, <2>2, TakeType DEF TypeOK
<1> QED
  BY <1>6, <1>7

LEMMA ReportTimeoutType ==
    ASSUME TypeOK, ReportTimeout
    PROVE  TypeOK'
<1>1. h' \in Memory
  BY ReportReturnsType DEF ReportTimeout, TypeOK, HandlerTypeOK
<1>2. HandlerTypeOK'
  BY <1>1 DEF ReportTimeout, TypeOK, HandlerTypeOK, screen, history
<1>3. DaemonTypeOK' /\ LinkTypeOK'
  BY DEF ReportTimeout, TypeOK, DaemonTypeOK, LinkTypeOK, daemonVars
<1> QED
  BY <1>2, <1>3 DEF ReportTimeout, TypeOK

LEMMA UserType ==
    ASSUME TypeOK, CommandHandlerAssumption, User
    PROVE  TypeOK'
<1>1. DaemonTypeOK' /\ first' \in BOOLEAN /\ queue' \in Seq(Command)
  BY DEF User, TypeOK, DaemonTypeOK, daemonVars
<1>2. UNCHANGED <<link, served, d2c, conn, drops, timeouts>> /\ issued \in Nat
  BY DEF User, TypeOK, DaemonTypeOK
<1>3. CASE UserTypes(issued) /\ UNCHANGED c2d
  <2>1. h' \in Memory
    BY <1>2, <1>3 DEF UserTypes, TypeOK, HandlerTypeOK, Memory
  <2>2. HandlerTypeOK'
    BY <1>3, <2>1 DEF UserTypes, TypeOK, HandlerTypeOK, CommandHandlerAssumption
  <2>3. LinkTypeOK'
    BY <1>2, <1>3 DEF TypeOK, LinkTypeOK
  <2> QED
    BY <1>1, <2>2, <2>3 DEF TypeOK
<1>4. CASE UserSubmits /\ Reports(Submitted(issued), link = "up")
  <2> DEFINE typed == [h EXCEPT !.typed = TRUE, !.typedAt = issued, !.submittedAt = issued,
                                !.draft = FALSE]
  <2>1. typed \in Memory
    BY <1>2 DEF TypeOK, HandlerTypeOK, Memory
  <2>2. \A f \in Memory : [f EXCEPT !.submitted = TRUE] \in Memory
    BY DEF Memory
  <2>3. Submitted(issued) \in Memory
    BY <2>1, <2>2, SendOverrideType, Zenon DEF Submitted
  <2>4. h' \in Memory /\ c2d' \in Seq(ToDaemon)
    BY <1>4, <2>3, ReportsOnceType
  <2>5. HandlerTypeOK'
    BY <1>4, <2>4 DEF UserSubmits, TypeOK, HandlerTypeOK, CommandHandlerAssumption
  <2>6. LinkTypeOK'
    <3>1. link = "down" => c2d' = c2d
      BY <1>4 DEF Reports
    <3> QED
      BY <1>2, <2>4, <3>1 DEF TypeOK, LinkTypeOK
  <2> QED
    BY <1>1, <2>5, <2>6 DEF TypeOK
<1> QED
  BY <1>3, <1>4 DEF User

LEMMA AroundType ==
    ASSUME TypeOK, Around
    PROVE  TypeOK'
<1>1. HandlerTypeOK'
  BY DEF Around, GapPasses, ClaudeMoves, TypeOK, HandlerTypeOK
<1>2. DaemonTypeOK' /\ LinkTypeOK' /\ first' \in BOOLEAN /\ queue' \in Seq(Command)
  BY DEF Around, TypeOK, DaemonTypeOK, LinkTypeOK, daemonVars, linkVars
<1> QED
  BY <1>1, <1>2 DEF TypeOK

LEMMA HandleType ==
    ASSUME TypeOK, CommandHandlerAssumption, Handle
    PROVE  TypeOK'
<1>1. HandlerTypeOK'
  BY HandlerStepType DEF Handle, TypeOK
<1>2. DaemonTypeOK' /\ LinkTypeOK' /\ first' \in BOOLEAN /\ queue' \in Seq(Command)
  BY DEF Handle, TypeOK, DaemonTypeOK, LinkTypeOK, daemonVars, linkVars
<1> QED
  BY <1>1, <1>2 DEF TypeOK

-----------------------------------------------------------------------------

LEMMA InitType ==
    ASSUME CommandHandlerAssumption, Init
    PROVE  TypeOK
<1>1. h \in Memory
  BY DEF Init, HandlerInit, Memory, NoDone, Results, WasBusy
<1>2. HandlerTypeOK
  BY <1>1, NoWorkType DEF Init, HandlerInit, HandlerTypeOK
<1>3. DaemonTypeOK
  BY NoSupType, EmptySeq DEF Init, DaemonTypeOK
<1>4. LinkTypeOK
  BY EmptySeq DEF Init, LinkTypeOK
<1> QED
  BY <1>2, <1>3, <1>4, EmptySeq DEF Init, TypeOK

LEMMA NextType ==
    ASSUME TypeOK, CommandHandlerAssumption, Next
    PROVE  TypeOK'
BY HoldStepType, OpResumeType, StartCmdType, AckTimeoutType, ReapType, DaemonReadsType,
   ConnectType, DropType, CrashType, RestartType, LauncherReadsType, SendAckType,
   ReportTimeoutType, HandleType, UserType, AroundType DEF Next, OpResumeStep, ReapStep

LEMMA StutterType ==
    ASSUME TypeOK, UNCHANGED vars
    PROVE  TypeOK'
BY DEF vars, daemonVars, linkVars, handlerVars, TypeOK, HandlerTypeOK, DaemonTypeOK, LinkTypeOK

\* Every reachable state is well-typed, and a launcher that is neither up nor registering
\* has no message on the connection and no place among the daemon's wrappers.
THEOREM TypeCorrect == Spec => []TypeOK
<1>1. Init => TypeOK
  BY InitType, CommandHandlerAssumption
<1>2. TypeOK /\ [Next]_vars => TypeOK'
  BY NextType, StutterType, CommandHandlerAssumption
<1> QED
  BY <1>1, <1>2, PTL DEF Spec
=============================================================================
