------------------------- MODULE PauseSafety_proofs -------------------------
(***************************************************************************)
(* Safety properties of PauseProtocol, for any instances, bounds and       *)
(* faults: an instance that was overridden never pauses its session again  *)
(* (NeverRepaused), the steps of a pause are never started twice           *)
(* (StepsOnce), a resume prompt is only submitted after an ESC of a        *)
(* session that was known to be busy (PromptAfterEsc), and launcher and    *)
(* daemon agree on a pause when nothing is under way (SamePause).  And the *)
(* refinement of SessionPause: every step of the daemon, of the            *)
(* connection, of the launcher and of the user is a step of the promise or *)
(* leaves it as it is.                                                     *)
(***************************************************************************)
EXTENDS PauseProtocol_proofs

-----------------------------------------------------------------------------
(* Overrides. *)

\* What `Evaluated` may do to a record: it never adds an override, ends all of them only
\* when nothing is held, and a pause it issues is the last one.
Changes(held, s, e) ==
    /\ e.sup.over = s.over \/ (e.sup.over = {} /\ held = {})
    /\ e.sup.state = "none" <=> s.state = "none"
    /\ e.sup.state = "none" => e.sup = s
    /\ e.issued \in {issued, issued + 1}
    /\ (s.state = "paused" => s.id = issued) => (e.sup.state = "paused" => e.sup.id = e.issued)

LEMMA EvaluatedChanges ==
    ASSUME NEW held, NEW s \in Supervision, NEW c, issued \in Nat,
           NEW e, e = Evaluated(held, s, c)
    PROVE  Changes(held, s, e)
<1> DEFINE same == [sup |-> s, cmds |-> c, issued |-> issued]
           resumed == [s EXCEPT !.state = "running", !.busy = "no", !.pend = FALSE]
           paused == [s EXCEPT !.state = "paused", !.id = issued + 1, !.pend = TRUE, !.busy = "none"]
           marked == [s EXCEPT !.state = "running", !.over = {}]
           resume == <<Cmd("resume", 0, WantsPrompt(s))>>
           pause == <<Cmd("pause", issued + 1, FALSE)>>
<1>1. /\ resumed.over = s.over /\ resumed.state = "running"
      /\ paused.over = s.over /\ paused.state = "paused" /\ paused.id = issued + 1
      /\ marked.over = {} /\ marked.state = "running"
  BY DEF Supervision
<1> HIDE DEF resumed, paused, marked, resume, pause
<1>2. \/ e = same
      \/ e = [same EXCEPT !.sup = resumed, !.cmds = resume] /\ s.state = "paused"
      \/ /\ e = [same EXCEPT !.sup = paused, !.cmds = pause, !.issued = issued + 1]
         /\ s.state \in {"running", "overridden"}
      \/ e = [same EXCEPT !.sup = marked] /\ held = {} /\ s.state = "overridden"
  BY Zenon DEF Evaluated, OverrideEnds, resumed, paused, marked, resume, pause
<1>r. same \in [sup : {s}, cmds : {c}, issued : {issued}]
  OBVIOUS
<1> HIDE DEF same
<1>3. \/ e.sup = s /\ e.issued = issued
      \/ e.sup = resumed /\ e.issued = issued /\ s.state = "paused"
      \/ e.sup = paused /\ e.issued = issued + 1 /\ s.state \in {"running", "overridden"}
      \/ e.sup = marked /\ e.issued = issued /\ held = {} /\ s.state = "overridden"
  BY <1>2, <1>r
<1> QED
  BY <1>1, <1>3 DEF Changes

\* What was ever overridden and is still held is in the record, and nothing overridden
\* can appear again.
OverrideInv ==
    /\ sup.over \subseteq everOver
    /\ \A i \in everOver : hold[i] # "fresh" /\ (hold[i] = "held" => i \in sup.over)
    /\ sup.state = "none" => everOver = {}

\* A step of one session's overrides.
OverridesMove ==
    /\ everOver' = everOver \cup sup'.over
    /\ sup.over \subseteq sup'.over \/ (sup'.over = {} /\ Held' = {})
    /\ \A i \in sup'.over : i \in sup.over \/ hold'[i] # "fresh"
    /\ sup.state # "none" => sup'.state # "none"
    /\ sup'.state = "none" => sup'.over = sup.over
\* No instance comes back.
HoldsMove ==
    \A i \in Instance : /\ hold[i] # "fresh" => hold'[i] # "fresh"
                        /\ hold'[i] = "held" => hold[i] # "over"

LEMMA OverrideKept ==
    ASSUME TypeOK, TypeOK', OverrideInv, OverridesMove, HoldsMove
    PROVE  OverrideInv'
<1>1. everOver \subseteq Instance /\ sup.over \subseteq Instance /\ sup'.over \subseteq Instance
  BY DEF TypeOK, DaemonTypeOK, Supervision
<1>2. \A i \in Instance : hold[i] \in {"fresh", "held", "over"}
  BY DEF TypeOK, DaemonTypeOK
<1>3. sup'.over \subseteq everOver'
  BY DEF OverridesMove
<1>4. ASSUME NEW i \in everOver'
      PROVE  hold'[i] # "fresh" /\ (hold'[i] = "held" => i \in sup'.over)
  <2>1. CASE i \in everOver
    <3>1. i \in Instance /\ hold[i] # "fresh" /\ (hold[i] = "held" => i \in sup.over)
      BY <1>1, <2>1 DEF OverrideInv
    <3>2. hold'[i] # "fresh" /\ (hold'[i] = "held" => hold[i] = "held")
      BY <1>2, <3>1 DEF HoldsMove
    <3>3. ASSUME hold'[i] = "held" PROVE i \in sup'.over
      <4>1. i \in sup.over /\ i \in Held'
        BY <3>1, <3>2, <3>3 DEF Held
      <4> QED
        BY <4>1 DEF OverridesMove
    <3> QED
      BY <3>2, <3>3
  <2>2. CASE i \in sup'.over
    BY <1>1, <2>1, <2>2 DEF OverridesMove, OverrideInv
  <2> QED
    BY <2>1, <2>2 DEF OverridesMove
<1>5. sup'.state = "none" => everOver' = {}
  BY DEF OverridesMove, OverrideInv
<1> QED
  BY <1>3, <1>4, <1>5 DEF OverrideInv

\* A paused record names the last pause that was issued.
LastPause == sup.state = "paused" => sup.id = issued

IssueMoves ==
    /\ issued' \in Nat /\ issued' >= issued
    /\ LastPause => LastPause'
\* What the steps of the daemon do to the session's record, except the reaper's.
RecordMoves == IssueMoves /\ (OverrideInv => OverridesMove)

LEMMA SameRecord ==
    ASSUME TypeOK, UNCHANGED <<sup, issued, everOver>>
    PROVE  RecordMoves
<1>1. issued \in Nat
  BY DEF TypeOK, DaemonTypeOK
<1> QED
  BY <1>1 DEF RecordMoves, IssueMoves, OverridesMove, OverrideInv, LastPause

\* An evaluation of a record `s` that may have more overrides than `sup`.
LEMMA EvaluationMoves ==
    ASSUME TypeOK, NEW held, held = Held', NEW s \in Supervision, NEW c,
           NEW d, d = Evaluated(held, s, c),
           sup' = d.sup, issued' = d.issued, everOver' = everOver \cup d.sup.over,
           OverrideInv => sup.over \subseteq s.over,
           \A i \in s.over : i \in sup.over \/ hold'[i] # "fresh",
           s.state = "none" => sup.state = "none" /\ s.over = sup.over,
           s.state = "paused" => sup.state = "paused" /\ s.id = sup.id
    PROVE  RecordMoves
<1>1. issued \in Nat
  BY DEF TypeOK, DaemonTypeOK
<1>2. Changes(held, s, d)
  BY <1>1, EvaluatedChanges, Zenon
<1>3. OverrideInv => OverridesMove
  BY <1>2 DEF OverridesMove, Changes
<1>4. LastPause => LastPause'
  BY <1>2 DEF LastPause, Changes
<1> QED
  BY <1>1, <1>2, <1>3, <1>4 DEF RecordMoves, IssueMoves, Changes

LEMMA SameHolds ==
    ASSUME UNCHANGED hold
    PROVE  Held' = Held /\ HoldsMove
BY DEF Held, HoldsMove

\* An evaluation of the record as it is, or with what an ack says of its pause.
LEMMA EvaluatesMoves ==
    ASSUME TypeOK, NEW held, held = Held', HoldsMove, NEW s \in Supervision, NEW c,
           s.over = sup.over, s.state = sup.state, s.id = sup.id, Become(Evaluated(held, s, c))
    PROVE  RecordMoves
<1>1. PICK d : d = Evaluated(held, s, c)
  OBVIOUS
<1>2. sup' = d.sup /\ issued' = d.issued /\ everOver' = everOver \cup d.sup.over
  BY <1>1 DEF Become
<1> QED
  BY <1>1, <1>2, EvaluationMoves

LEMMA CommandEndsMoves ==
    ASSUME TypeOK, UNCHANGED hold, cmds # <<>>, NEW result, NEW busy \in WasBusy,
           CommandEnds(result, busy)
    PROVE  RecordMoves
<1> DEFINE c == Head(cmds)
           s == IF c.type = "pause" /\ sup.state = "paused" /\ sup.id = c.id
                THEN [sup EXCEPT !.pend = @ /\ result \notin {"injected", "skipped"},
                                 !.busy = IF busy = "none" THEN @ ELSE busy]
                ELSE sup
<1>1. s \in Supervision /\ s.over = sup.over /\ s.state = sup.state /\ s.id = sup.id
  <2>1. sup \in Supervision
    BY DEF TypeOK, DaemonTypeOK
  <2>2. /\ (sup.pend /\ result \notin {"injected", "skipped"}) \in BOOLEAN
        /\ (IF busy = "none" THEN sup.busy ELSE busy) \in WasBusy
    BY <2>1 DEF Supervision
  <2>3. \A a \in BOOLEAN, b \in WasBusy :
          LET n == [sup EXCEPT !.pend = a, !.busy = b]
          IN  n \in Supervision /\ n.over = sup.over /\ n.state = sup.state /\ n.id = sup.id
    BY <2>1 DEF Supervision
  <2> QED
    BY <2>1, <2>2, <2>3, Zenon
<1>2. Become(Evaluated(Held, s, Tail(cmds)))
  BY Zenon DEF CommandEnds
<1> HIDE DEF s
<1> QED
  BY <1>1, <1>2, SameHolds, EvaluatesMoves

LEMMA OpResumeMoves ==
    ASSUME TypeOK, NEW own, OpResume(own)
    PROVE  RecordMoves /\ HoldsMove
<1>1. HoldsMove
  BY DEF OpResume, HoldsMove, TypeOK, DaemonTypeOK
<1>2. CASE sup.state = "paused"
  <2> DEFINE s == [sup EXCEPT !.state = IF Held' = {} THEN "running" ELSE "overridden",
                              !.over = @ \cup Held', !.busy = "no", !.pend = FALSE]
             d == [sup |-> s, cmds |-> Append(cmds, Cmd("resume", 0, WantsPrompt(sup))),
                   issued |-> issued]
  <2>1. Become(d)
    BY <1>2, Zenon DEF OpResume
  <2>2. s.over = sup.over \cup Held' /\ s.state \in {"running", "overridden"}
    BY DEF TypeOK, DaemonTypeOK, Supervision
  <2>3. sup' = s /\ issued' = issued /\ everOver' = everOver \cup s.over
    BY <2>1, Zenon DEF Become
  <2> HIDE DEF s
  <2>4. \A i \in Held' : hold'[i] # "fresh"
    BY DEF Held
  <2>5. OverridesMove
    BY <2>2, <2>3, <2>4 DEF OverridesMove
  <2>6. IssueMoves
    BY <2>2, <2>3 DEF IssueMoves, LastPause, TypeOK, DaemonTypeOK
  <2> QED
    BY <1>1, <2>5, <2>6 DEF RecordMoves
<1>3. CASE sup.state # "paused"
  BY <1>1, <1>3, SameRecord DEF OpResume
<1> QED
  BY <1>2, <1>3

LEMMA ReadRegisterMoves ==
    ASSUME TypeOK, UNCHANGED hold, NEW m, ReadRegister(m)
    PROVE  RecordMoves
<1> DEFINE new == IF m.first
                  THEN [NoSup EXCEPT !.state = IF Held = {} THEN "running" ELSE "overridden",
                                     !.over = Held]
                  ELSE [NoSup EXCEPT !.state = "running"]
           record == IF sup.state = "none" THEN new ELSE sup
           d == Evaluated(Held, record, cmds)
           resent == [d EXCEPT !.cmds = Append(@, Cmd("pause", d.sup.id, FALSE))]
<1>1. /\ new \in Supervision /\ new.state \in {"running", "overridden"}
      /\ new.over \in {{}, Held}
  <2>1. \A state \in {"running", "overridden"}, over \in SUBSET Instance :
           LET n == [NoSup EXCEPT !.state = state, !.over = over]
           IN  n \in Supervision /\ n.state = state /\ n.over = over
    BY NewRecordType, Zenon
  <2>2. LET n == [NoSup EXCEPT !.state = "running"]
        IN  n \in Supervision /\ n.state = "running" /\ n.over = {}
    BY NoSupType DEF NoSup, Supervision, SupStates
  <2>3. Held \in SUBSET Instance
    BY DEF Held
  <2>4. (IF Held = {} THEN "running" ELSE "overridden") \in {"running", "overridden"}
    OBVIOUS
  <2>5. CASE m.first
    <3>1. PICK st \in {"running", "overridden"} : st = IF Held = {} THEN "running" ELSE "overridden"
      BY <2>4, Zenon
    <3>2. PICK n : n = [NoSup EXCEPT !.state = st, !.over = Held]
      OBVIOUS
    <3>3. n \in Supervision /\ n.state \in {"running", "overridden"} /\ n.over = Held
      BY <2>1, <2>3, <3>2, Zenon
    <3>4. new = n
      BY <2>5, <3>1, <3>2
    <3> HIDE DEF new
    <3> QED
      BY <3>3, <3>4
  <2>6. CASE ~m.first
    BY <2>2, <2>6, Zenon
  <2> QED
    BY <2>5, <2>6
<1> HIDE DEF new
<1>2. record \in Supervision
  BY <1>1 DEF TypeOK, DaemonTypeOK
<1>3. d \in Decision
  BY <1>2, EvaluatedType DEF TypeOK, DaemonTypeOK
<1>4. Become(IF PausePending(d.sup) THEN resent ELSE d)
  BY Zenon DEF ReadRegister, record, new
<1>5. /\ OverrideInv => sup.over \subseteq record.over
      /\ \A i \in record.over : i \in sup.over \/ hold'[i] # "fresh"
      /\ record.state = "none" => sup.state = "none" /\ record.over = sup.over
      /\ record.state = "paused" => sup.state = "paused" /\ record.id = sup.id
  <2>1. CASE sup.state = "none"
    <3>1. OverrideInv => sup.over = {}
      BY <2>1 DEF OverrideInv
    <3>2. \A i \in Held : hold'[i] # "fresh"
      BY DEF Held
    <3> QED
      BY <1>1, <2>1, <3>1, <3>2
  <2>2. CASE sup.state # "none"
    BY <2>2
  <2> QED
    BY <2>1, <2>2
<1> HIDE DEF record
<1>6. Held' = Held
  BY SameHolds
<1>7. PICK e : e = d
  OBVIOUS
<1>8. e = Evaluated(Held, record, cmds)
  BY <1>7
<1> HIDE DEF d
<1>9. sup' = d.sup /\ issued' = d.issued /\ everOver' = everOver \cup d.sup.over
  BY <1>3, <1>4 DEF Become, Decision
<1> QED
  BY <1>2, <1>5, <1>6, <1>7, <1>8, <1>9, EvaluationMoves

LEMMA ReadSubmittedMoves ==
    ASSUME TypeOK, UNCHANGED hold, NEW m, ReadSubmitted(m)
    PROVE  RecordMoves
<1> DEFINE s == [sup EXCEPT !.state = "overridden", !.pend = FALSE, !.over = @ \cup Held]
<1>1. CASE sup.state = "paused"
  <2>1. s \in Supervision /\ s.over = sup.over \cup Held /\ s.state = "overridden"
    BY DEF TypeOK, DaemonTypeOK, Supervision, SupStates, Held
  <2>2. Become(Evaluated(Held, s, cmds))
    BY <1>1, Zenon DEF ReadSubmitted
  <2> HIDE DEF s
  <2>3. PICK d : d = Evaluated(Held, s, cmds)
    OBVIOUS
  <2>4. sup' = d.sup /\ issued' = d.issued /\ everOver' = everOver \cup d.sup.over
    BY <2>2, <2>3 DEF Become
  <2>5. \A i \in s.over : i \in sup.over \/ hold'[i] # "fresh"
    BY <2>1 DEF Held
  <2> QED
    BY <2>1, <2>3, <2>4, <2>5, SameHolds, EvaluationMoves
<1>2. CASE sup.state # "paused"
  BY <1>2, SameRecord DEF ReadSubmitted
<1> QED
  BY <1>1, <1>2

LEMMA DaemonReadsMoves ==
    ASSUME TypeOK, DaemonReads
    PROVE  RecordMoves /\ HoldsMove
<1> DEFINE m == Head(c2d)
<1>1. m \in ToDaemon /\ UNCHANGED hold
  BY HeadTailType DEF DaemonReads, TypeOK, LinkTypeOK
<1>2. CASE m.kind = "register"
  BY <1>1, <1>2, ReadRegisterMoves, SameHolds DEF DaemonReads
<1>3. CASE m.kind = "submitted"
  BY <1>1, <1>3, ReadSubmittedMoves, SameHolds DEF DaemonReads
<1>4. CASE m.kind = "ack"
  <2>1. ReadAck(m)
    BY <1>4 DEF DaemonReads
  <2>2. m.busy \in WasBusy
    BY <1>1 DEF ToDaemon
  <2>3. RecordMoves
    BY <1>1, <2>1, <2>2, CommandEndsMoves, SameRecord DEF ReadAck, InFlight
  <2> QED
    BY <1>1, <2>3, SameHolds
<1> QED
  BY <1>1, <1>2, <1>3, <1>4 DEF ToDaemon

LEMMA StartCmdMoves ==
    ASSUME TypeOK, StartCmd
    PROVE  RecordMoves /\ HoldsMove
<1> DEFINE c == Head(cmds)
           unwanted == c.type = "pause" /\ ~(PausePending(sup) /\ sup.id = c.id)
<1>1. UNCHANGED hold /\ cmds # <<>> /\ sup \in Supervision
  BY DEF StartCmd, TypeOK, DaemonTypeOK
<1>2. CASE unwanted
  <2>1. Become(Evaluated(Held, sup, Tail(cmds)))
    BY <1>2, Zenon DEF StartCmd
  <2> QED
    BY <1>1, <2>1, SameHolds, EvaluatesMoves
<1>3. CASE ~unwanted /\ ~served
  <2>1. CommandEnds("not_connected", "none")
    BY <1>3, Zenon DEF StartCmd
  <2> QED
    BY <1>1, <2>1, SameHolds, CommandEndsMoves DEF WasBusy
<1>4. CASE ~unwanted /\ served
  <2>1. UNCHANGED <<sup, issued, everOver>>
    BY <1>4, Zenon DEF StartCmd
  <2> QED
    BY <1>1, <2>1, SameHolds, SameRecord
<1> QED
  BY <1>2, <1>3, <1>4

LEMMA HoldStepMoves ==
    ASSUME TypeOK, HoldStep \/ Tick
    PROVE  RecordMoves /\ HoldsMove
<1>1. HoldsMove
  BY SameHolds DEF HoldStep, Tick, HoldsChange, HoldsMove, Held, TypeOK, DaemonTypeOK
<1>2. sup \in Supervision
  BY DEF TypeOK, DaemonTypeOK
<1>3. CASE HoldStep
  BY <1>1, <1>2, <1>3, EvaluatesMoves DEF HoldStep
<1>4. CASE Tick
  <2>1. Become(Evaluated(Held, sup, cmds)) /\ Held' = Held
    BY <1>4, SameHolds DEF Tick
  <2> QED
    BY <1>1, <1>2, <2>1, EvaluatesMoves
<1> QED
  BY <1>3, <1>4

LEMMA DropMoves ==
    ASSUME TypeOK, Drop \/ AckTimeout
    PROVE  RecordMoves /\ HoldsMove
<1>1. UNCHANGED hold
  BY DEF Drop, AckTimeout
<1>2. \/ cmds # <<>> /\ CommandEnds("not_connected", "none")
      \/ cmds # <<>> /\ CommandEnds("timeout", "none")
      \/ UNCHANGED <<sup, issued, everOver>>
  BY DEF Drop, AckTimeout, InFlight
<1>3. "none" \in WasBusy
  BY DEF WasBusy
<1> QED
  BY <1>1, <1>2, <1>3, SameHolds, CommandEndsMoves, SameRecord

LEMMA CrashMoves ==
    ASSUME TypeOK, Crash
    PROVE  RecordMoves /\ HoldsMove
<1>1. UNCHANGED <<sup, issued, everOver>> /\ (UNCHANGED hold \/ HoldsChange(hold'))
  BY DEF Crash
<1>2. HoldsMove
  BY <1>1 DEF HoldsChange, HoldsMove, Held, TypeOK, DaemonTypeOK
<1> QED
  BY <1>1, <1>2, SameRecord

\* Every step but the reaper's is one of these.
LEMMA NextMoves ==
    ASSUME TypeOK, [Next]_vars
    PROVE  (RecordMoves /\ HoldsMove) \/ ReapStep
<1>1. CASE \/ Restart \/ Connect \/ LauncherReads \/ SendAck \/ ReportTimeout \/ Handle
           \/ User \/ Around \/ UNCHANGED vars
  <2>1. UNCHANGED <<hold, sup, issued, everOver>>
    BY <1>1 DEF Restart, Connect, LauncherReads, SendAck, ReportTimeout, Handle, User, Around,
                vars, daemonVars
  <2> QED
    BY <2>1, SameHolds, SameRecord
<1> QED
  BY <1>1, HoldStepMoves, OpResumeMoves, StartCmdMoves, DropMoves, DaemonReadsMoves, CrashMoves
     DEF Next, OpResumeStep

\* When launchers always come back in time, a new pause is never for an instance that the
\* user overrode for this session before: neither a lost report, a reconnect, a crash
\* between two writes nor a resume by hand lets the engine forget it.
THEOREM OverrideRemembered ==
    ASSUME Reaping = FALSE
    PROVE  Spec => NeverRepaused
<1>1. Init => OverrideInv
  BY DEF Init, OverrideInv, NoSup
<1>2. ASSUME TypeOK, TypeOK', OverrideInv, [Next]_vars
      PROVE  OverrideInv' /\ everOver \subseteq everOver'
  <2>1. ~ReapStep
    BY DEF ReapStep, Reap
  <2>2. OverridesMove /\ HoldsMove
    BY <1>2, <2>1, NextMoves DEF RecordMoves
  <2> QED
    BY <1>2, <2>2, OverrideKept DEF OverridesMove
<1>3. OverrideInv' /\ everOver \subseteq everOver'
        => (issued' # issued => (Held' \ sup'.over) \cap everOver = {})
  BY DEF OverrideInv, Held
<1>4. TypeOK /\ TypeOK' /\ OverrideInv /\ [Next]_vars
        => [issued' # issued => (Held' \ sup'.over) \cap everOver = {}]_vars
  BY <1>2, <1>3
<1> QED
  BY <1>1, <1>2, <1>4, TypeCorrect, PTL DEF Spec, NeverRepaused

-----------------------------------------------------------------------------
(* The order of pauses on their way to the launcher's worker. *)

\* No pause in `s` is later than `n`.
UpTo(s, n) == \A i \in 1 .. Len(s) : s[i].type = "pause" => s[i].id <= n
\* No pause in `s` is earlier than one in `S`.
NotBefore(S, s) == \A r \in S, i \in 1 .. Len(s) : s[i].type = "pause" => r <= s[i].id
\* The pauses in `s` are in the order in which they were issued, resent ones included.
Sorted(s) ==
    \A i, j \in 1 .. Len(s) : i < j /\ s[i].type = "pause" /\ s[j].type = "pause"
                                => s[i].id <= s[j].id
\* No pause in `s` is later than one in `t`.
Follows(s, t) ==
    \A i \in 1 .. Len(s), j \in 1 .. Len(t) :
        s[i].type = "pause" /\ t[j].type = "pause" => s[i].id <= t[j].id

\* The launcher's queue comes before what is still on the connection, and both after what
\* was started.
PipelineInv ==
    /\ w.pc = "idle" => queue = <<>>
    /\ UpTo(queue, issued) /\ UpTo(d2c, issued)
    /\ Sorted(queue) /\ Sorted(d2c) /\ Follows(queue, d2c)
    /\ NotBefore(ran, queue) /\ NotBefore(ran, d2c) /\ \A r \in ran : r <= issued

\* The pause that is being carried out is the last one started; after it, the remembered one.
StartedInv ==
    /\ h.done.id \in ran \cup {0}
    /\ IF w.pc \in PauseSteps THEN w.id \in ran /\ \A r \in ran : r <= w.id
       ELSE \A r \in ran : r <= h.done.id

OrderInv == LastPause /\ PipelineInv /\ StartedInv

LEMMA AppendKeeps ==
    ASSUME NEW S, NEW s \in Seq(S), NEW e \in S, NEW T, NEW t \in Seq(T), NEW R, NEW n
    PROVE  /\ UpTo(s, n) /\ (e.type = "pause" => e.id <= n) => UpTo(Append(s, e), n)
           /\ NotBefore(R, s) /\ (e.type = "pause" => \A r \in R : r <= e.id)
                => NotBefore(R, Append(s, e))
           /\ Sorted(s) /\ (e.type = "pause" => UpTo(s, e.id)) => Sorted(Append(s, e))
           /\ Follows(s, t) /\ (e.type = "pause" => NotBefore({e.id}, t))
                => Follows(Append(s, e), t)
           /\ Follows(t, s) /\ (e.type = "pause" => UpTo(t, e.id)) => Follows(t, Append(s, e))
<1>1. /\ Len(Append(s, e)) = Len(s) + 1 /\ Len(s) \in Nat
      /\ \A i \in 1 .. Len(s) : Append(s, e)[i] = s[i]
      /\ Append(s, e)[Len(s) + 1] = e
  OBVIOUS
<1>2. \A i \in 1 .. Len(Append(s, e)) :
        \/ i \in 1 .. Len(s) /\ Append(s, e)[i] = s[i]
        \/ i = Len(s) + 1 /\ Append(s, e)[i] = e
  BY <1>1
<1>3. UpTo(s, n) /\ (e.type = "pause" => e.id <= n) => UpTo(Append(s, e), n)
  BY <1>2, Zenon DEF UpTo
<1>4. NotBefore(R, s) /\ (e.type = "pause" => \A r \in R : r <= e.id)
        => NotBefore(R, Append(s, e))
  BY <1>2, Zenon DEF NotBefore
<1>5. ASSUME Sorted(s), e.type = "pause" => UpTo(s, e.id)
      PROVE  Sorted(Append(s, e))
  <2>1. SUFFICES ASSUME NEW i \in 1 .. Len(Append(s, e)), NEW k \in 1 .. Len(Append(s, e)), i < k,
                        Append(s, e)[i].type = "pause", Append(s, e)[k].type = "pause"
                 PROVE  Append(s, e)[i].id <= Append(s, e)[k].id
    BY Zenon DEF Sorted
  <2>2. i \in 1 .. Len(s) /\ Append(s, e)[i] = s[i]
    BY <1>1, <2>1
  <2>3. CASE k \in 1 .. Len(s)
    BY <1>1, <1>5, <2>1, <2>2, <2>3, Zenon DEF Sorted
  <2>4. CASE Append(s, e)[k] = e
    BY <1>5, <2>1, <2>2, <2>4, Zenon DEF UpTo
  <2> QED
    BY <1>2, <2>3, <2>4
<1>6. Follows(s, t) /\ (e.type = "pause" => NotBefore({e.id}, t)) => Follows(Append(s, e), t)
  BY <1>2, Zenon DEF Follows, NotBefore
<1>7. Follows(t, s) /\ (e.type = "pause" => UpTo(t, e.id)) => Follows(t, Append(s, e))
  BY <1>2, Zenon DEF Follows, UpTo
<1> QED
  BY <1>3, <1>4, <1>5, <1>6, <1>7

LEMMA TailKeeps ==
    ASSUME NEW S, NEW s \in Seq(S), s # <<>>, NEW T, NEW t \in Seq(T), NEW R, NEW n
    PROVE  /\ UpTo(s, n) => UpTo(Tail(s), n) /\ (Head(s).type = "pause" => Head(s).id <= n)
           /\ NotBefore(R, s) => /\ NotBefore(R, Tail(s))
                                 /\ Head(s).type = "pause" => \A r \in R : r <= Head(s).id
           /\ Sorted(s) => /\ Sorted(Tail(s))
                           /\ Head(s).type = "pause" => NotBefore({Head(s).id}, Tail(s))
           /\ Follows(s, t) => /\ Follows(Tail(s), t)
                               /\ Head(s).type = "pause" => NotBefore({Head(s).id}, t)
           /\ Follows(t, s) => /\ Follows(t, Tail(s))
                               /\ Head(s).type = "pause" => UpTo(t, Head(s).id)
<1>1. /\ Head(s) = s[1] /\ 1 \in 1 .. Len(s) /\ Len(s) \in Nat
      /\ \A i \in 1 .. Len(Tail(s)) :
            /\ i + 1 \in 1 .. Len(s) /\ 1 < i + 1 /\ Tail(s)[i] = s[i + 1]
            /\ \A k \in 1 .. Len(Tail(s)) : i < k => i + 1 < k + 1
  OBVIOUS
<1>2. UpTo(s, n) => UpTo(Tail(s), n) /\ (Head(s).type = "pause" => Head(s).id <= n)
  BY <1>1, Zenon DEF UpTo
<1>3. NotBefore(R, s) => /\ NotBefore(R, Tail(s))
                         /\ Head(s).type = "pause" => \A r \in R : r <= Head(s).id
  BY <1>1, Zenon DEF NotBefore
<1>4. Sorted(s) => /\ Sorted(Tail(s))
                   /\ Head(s).type = "pause" => NotBefore({Head(s).id}, Tail(s))
  BY <1>1, Zenon DEF Sorted, NotBefore
<1>5. Follows(s, t) => /\ Follows(Tail(s), t)
                       /\ Head(s).type = "pause" => NotBefore({Head(s).id}, t)
  BY <1>1, Zenon DEF Follows, NotBefore
<1>6. Follows(t, s) => /\ Follows(t, Tail(s))
                       /\ Head(s).type = "pause" => UpTo(t, Head(s).id)
  BY <1>1, Zenon DEF Follows, UpTo
<1> QED
  BY <1>2, <1>3, <1>4, <1>5, <1>6

LEMMA EmptyKeeps ==
    ASSUME NEW s, NEW R, NEW n
    PROVE  /\ UpTo(<<>>, n) /\ NotBefore(R, <<>>) /\ Sorted(<<>>)
           /\ Follows(s, <<>>) /\ Follows(<<>>, s)
<1>1. 1 .. Len(<<>>) = {}
  OBVIOUS
<1> QED
  BY <1>1 DEF UpTo, NotBefore, Sorted, Follows

\* Later pauses do not change the order of what is under way.
LEMMA UpToMonotone ==
    ASSUME NEW S, \A e \in S : e.type = "pause" => e.id \in Nat, NEW s \in Seq(S),
           NEW n \in Nat, NEW m \in Nat, n <= m, UpTo(s, n)
    PROVE  UpTo(s, m)
<1>1. SUFFICES ASSUME NEW i \in 1 .. Len(s), s[i].type = "pause" PROVE s[i].id <= m
  BY Zenon DEF UpTo
<1>2. s[i] \in S
  BY ElementOfSeq
<1>3. s[i].id <= n /\ s[i].id \in Nat
  BY <1>1, <1>2 DEF UpTo
<1> QED
  BY <1>3

LEMMA PauseIds ==
    /\ \A e \in Command : e.id \in Nat
    /\ \A e \in ToLauncher : e.id \in Nat
BY DEF Command, ToLauncher

\* A step that sends nothing but the last pause, and does not touch the launcher's worker.
LEMMA DaemonOrder ==
    ASSUME TypeOK, OrderInv, IssueMoves, UNCHANGED <<queue, w, ran>>, h'.done = h.done,
           \/ d2c' = <<>>
           \/ d2c' = d2c
           \/ \E e \in ToLauncher : d2c' = Append(d2c, e) /\ (e.type = "pause" => e.id = issued)
    PROVE  OrderInv'
<1>1. /\ queue \in Seq(Command) /\ d2c \in Seq(ToLauncher)
      /\ issued \in Nat /\ issued' \in Nat /\ issued <= issued' /\ ran \subseteq Nat
  BY DEF TypeOK, LinkTypeOK, DaemonTypeOK, HandlerTypeOK, IssueMoves
<1>2. LastPause' /\ StartedInv'
  BY DEF IssueMoves, OrderInv, StartedInv
<1>3. UpTo(queue, issued') /\ \A r \in ran : r <= issued'
  <2>1. UpTo(queue, issued')
    BY <1>1, PauseIds, UpToMonotone, Zenon DEF OrderInv, PipelineInv
  <2>2. \A r \in ran : r \in Nat /\ r <= issued
    BY <1>1 DEF OrderInv, PipelineInv
  <2> QED
    BY <1>1, <2>1, <2>2
<1>4. /\ UpTo(d2c', issued) /\ Sorted(d2c') /\ Follows(queue, d2c') /\ NotBefore(ran, d2c')
      /\ d2c' \in Seq(ToLauncher)
  <2>1. CASE d2c' = <<>>
    BY <2>1, EmptyKeeps, EmptySeq
  <2>2. CASE d2c' = d2c
    BY <1>1, <2>2 DEF OrderInv, PipelineInv
  <2>3. CASE \E e \in ToLauncher : d2c' = Append(d2c, e) /\ (e.type = "pause" => e.id = issued)
    <3>1. PICK e \in ToLauncher : d2c' = Append(d2c, e) /\ (e.type = "pause" => e.id = issued)
      BY <2>3
    <3>2. /\ UpTo(queue, issued) /\ UpTo(d2c, issued) /\ Sorted(d2c) /\ Follows(queue, d2c)
          /\ NotBefore(ran, d2c) /\ \A r \in ran : r <= issued
      BY DEF OrderInv, PipelineInv
    <3>3. e.type = "pause" => UpTo(queue, e.id) /\ UpTo(d2c, e.id) /\ e.id <= issued
                              /\ \A r \in ran : r <= e.id
      BY <1>1, <3>1, <3>2
    <3>4. /\ UpTo(Append(d2c, e), issued) /\ Sorted(Append(d2c, e))
          /\ Follows(queue, Append(d2c, e)) /\ NotBefore(ran, Append(d2c, e))
      BY <1>1, <3>2, <3>3, AppendKeeps, Zenon
    <3> QED
      BY <1>1, <3>1, <3>4, AppendType, Zenon
  <2> QED
    BY <2>1, <2>2, <2>3
<1>5. UpTo(d2c', issued')
  BY <1>1, <1>4, PauseIds, UpToMonotone, Zenon
<1>6. PipelineInv'
  BY <1>3, <1>4, <1>5 DEF OrderInv, PipelineInv
<1> QED
  BY <1>2, <1>6 DEF OrderInv

\* The worker takes command `c`, after which `rest` waits for it.
LEMMA TakeOrder ==
    ASSUME TypeOK, StartedInv, w.pc \in {"idle", "ack"}, NEW c \in Command, Take(c),
           c.type = "pause" => (\A r \in ran : r <= c.id) /\ c.id <= issued,
           \A r \in ran : r <= issued
    PROVE  /\ StartedInv' /\ w'.pc # "idle"
           /\ w'.pc = "look" => w'.id \notin ran
           /\ ran' \subseteq ran \cup (IF c.type = "pause" THEN {c.id} ELSE {})
           /\ \A r \in ran' : r <= issued
<1> DEFINE work == [NoWork EXCEPT !.id = c.id, !.no = c.no, !.conn = c.conn]
<1>1. /\ c.id \in Nat /\ h.done.id \in Nat /\ ran \subseteq Nat /\ h \in Memory
      /\ w.pc \notin PauseSteps
  BY DEF TypeOK, HandlerTypeOK, Memory, Command, PauseSteps
<1>2. h.done.id \in ran \cup {0} /\ \A r \in ran : r <= h.done.id
  BY <1>1 DEF StartedInv
<1>3. CASE c.type = "pause" /\ h.done.id # c.id
  <2>1. /\ w' = [work EXCEPT !.pc = "look"]
        /\ h' = [(IF IsCurrent(h, c.id) THEN h ELSE NewPause(h, c.id)) EXCEPT !.paused = TRUE]
        /\ ran' = ran \cup {c.id}
    BY <1>3, Zenon DEF Take, TakePause
  <2>2. w'.pc = "look" /\ w'.id = c.id
    <3>1. work \in Work /\ work.id = c.id
      BY NoWorkType DEF Work, Command, NoWork
    <3> HIDE DEF work
    <3> QED
      BY <2>1, <3>1 DEF Work
  <2>3. h'.done = h.done
    <3>1. NewPause(h, c.id) \in Memory /\ NewPause(h, c.id).done = h.done
      BY <1>1 DEF Memory, NewPause
    <3> QED
      BY <1>1, <2>1, <3>1 DEF Memory
  <2>4. c.id \notin ran
    BY <1>1, <1>2, <1>3
  <2>5. \A r \in ran' : r <= w'.id
    BY <1>1, <1>3, <2>1, <2>2
  <2>6. StartedInv'
    BY <1>2, <2>1, <2>2, <2>3, <2>5 DEF StartedInv, PauseSteps
  <2> QED
    BY <1>3, <2>1, <2>2, <2>4, <2>6
<1>4. CASE c.type = "pause" /\ h.done.id = c.id
  <2>1. w' = Answer(work, h.done.result, h.done.busy) /\ UNCHANGED <<h, ran>>
    BY <1>4, Zenon DEF Take, TakePause
  <2>2. w'.pc = "ack"
    BY <2>1, NoWorkType DEF Answer, Work, NoWork
  <2> QED
    BY <1>2, <2>1, <2>2 DEF StartedInv, PauseSteps
<1>5. CASE c.type # "pause"
  <2>1. UNCHANGED ran /\ h' = [h EXCEPT !.paused = FALSE] /\ w'.pc \in {"waitidle", "ack"}
    BY <1>5, NoWorkType DEF Take, TakeResume, Answer, Work, NoWork
  <2>2. h'.done = h.done
    BY <1>1, <2>1 DEF Memory
  <2> QED
    BY <1>2, <2>1, <2>2 DEF StartedInv, PauseSteps
<1> QED
  BY <1>3, <1>4, <1>5

\* What StepsOnce says of a step.
StartsNew == w.pc \in {"idle", "ack"} /\ w'.pc = "look" => w'.id \notin ran

LEMMA ReportsDone ==
    ASSUME TypeOK, NEW f \in Memory, f.done = h.done, NEW registered, Reports(f, registered)
    PROVE  h'.done = h.done
<1>1. h' = f \/ h' = ReportReturns(f, FALSE)
  BY DEF Reports
<1>2. ReportReturns(f, FALSE).done = f.done
  BY DEF ReportReturns, Memory
<1> QED
  BY <1>1, <1>2

LEMMA SupervisionDone ==
    ASSUME NEW f \in Memory, NEW state, NEW id \in Nat
    PROVE  ApplySupervision(f, state, id).done = f.done
<1>1. MissedPause(f, id).done = f.done /\ MissedPause(f, id) \in Memory
  <2>1. NewPause(f, id).done = f.done /\ NewPause(f, id) \in Memory
    BY DEF NewPause, Memory
  <2>2. (f.typedAt >= id) \in BOOLEAN /\ (f.submittedAt >= id) \in BOOLEAN
    BY DEF Memory
  <2>3. \A n \in Memory, a \in BOOLEAN, b \in BOOLEAN :
          LET g == [n EXCEPT !.typed = a, !.submitted = b] IN g.done = n.done /\ g \in Memory
    <3> SUFFICES ASSUME NEW n \in Memory, NEW a \in BOOLEAN, NEW b \in BOOLEAN
                 PROVE  LET g == [n EXCEPT !.typed = a, !.submitted = b] IN g.done = n.done /\ g \in Memory
      OBVIOUS
    <3>1. [n EXCEPT !.typed = a, !.submitted = b].done = n.done
      BY DEF Memory
    <3>2. [n EXCEPT !.typed = a, !.submitted = b] \in Memory
      BY DEF Memory
    <3> QED
      BY <3>1, <3>2
  <2> QED
    BY <2>1, <2>2, <2>3, Zenon DEF MissedPause
<1>2. \A n \in Memory : SendOverride(n).done = n.done
  BY DEF SendOverride, Memory
<1>3. \A n \in Memory : [n EXCEPT !.paused = TRUE] \in Memory /\ [n EXCEPT !.paused = TRUE].done = n.done
  BY DEF Memory
<1>4. \A b \in BOOLEAN : [f EXCEPT !.paused = FALSE, !.reported = b].done = f.done
  BY DEF Memory
<1>5. CASE state = "paused"
  <2>1. (IF IsCurrent(f, id) THEN f ELSE MissedPause(f, id)) \in Memory
        /\ (IF IsCurrent(f, id) THEN f ELSE MissedPause(f, id)).done = f.done
    BY <1>1, Zenon
  <2> QED
    BY <1>2, <1>3, <1>5, <2>1, Zenon DEF ApplySupervision
<1>6. CASE state # "paused"
  <2>1. (state = "overridden") \in BOOLEAN
    OBVIOUS
  <2> QED
    BY <1>4, <1>6, <2>1, Zenon DEF ApplySupervision
<1> QED
  BY <1>5, <1>6

LEMMA LauncherReadsOrder ==
    ASSUME TypeOK, OrderInv, LauncherReads
    PROVE  OrderInv' /\ StartsNew
<1> DEFINE m == Head(d2c)
           c == [type |-> m.type, id |-> m.id, prompt |-> m.prompt, no |-> m.no, conn |-> conn]
<1>1. /\ d2c \in Seq(ToLauncher) /\ d2c # <<>> /\ m \in ToLauncher /\ d2c' = Tail(d2c)
      /\ queue \in Seq(Command) /\ UNCHANGED <<sup, issued>> /\ h \in Memory
  BY HeadTailType DEF LauncherReads, TypeOK, LinkTypeOK, HandlerTypeOK, daemonVars
<1>2. LastPause'
  BY <1>1 DEF OrderInv, LastPause
<1>3. IssueMoves
  BY <1>1, <1>2 DEF IssueMoves, TypeOK, DaemonTypeOK
<1>4. /\ UpTo(d2c', issued) /\ Sorted(d2c') /\ Follows(queue, d2c') /\ NotBefore(ran, d2c')
      /\ m.type = "pause" => /\ NotBefore({m.id}, d2c') /\ UpTo(queue, m.id) /\ m.id <= issued
                             /\ \A r \in ran : r <= m.id
  BY <1>1, TailKeeps, Zenon DEF OrderInv, PipelineInv
<1>5. CASE m.kind # "cmd"
  <2>1. UNCHANGED <<queue, w, ran>>
    BY <1>1, <1>5, Zenon DEF LauncherReads, history, ToLauncher
  <2>2. h'.done = h.done
    <3>1. CASE m.kind = "registered"
      <4>1. Reports(ApplySupervision(h, m.type, m.id), TRUE) /\ m.id \in Nat
        BY <1>1, <3>1, PauseIds DEF LauncherReads
      <4> QED
        BY <1>1, <4>1, ApplySupervisionType, SupervisionDone, ReportsDone
    <3>2. CASE m.kind = "noted"
      <4>1. h' = h \/ h' = ReportReturns(h, m.ok)
        BY <3>2 DEF LauncherReads
      <4> QED
        BY <1>1, <4>1 DEF ReportReturns, Memory
    <3> QED
      BY <1>1, <1>5, <3>1, <3>2 DEF ToLauncher
  <2>3. StartedInv'
    BY <2>1, <2>2 DEF OrderInv, StartedInv
  <2>4. PipelineInv'
    BY <1>1, <1>4, <2>1 DEF OrderInv, PipelineInv
  <2> QED
    BY <1>2, <2>1, <2>3, <2>4 DEF OrderInv, StartsNew
<1>6. CASE m.kind = "cmd"
  <2>1. c \in Command /\ c.type = m.type /\ c.id = m.id
    BY <1>1, <1>6 DEF ToLauncher, Command, TypeOK, LinkTypeOK
  <2>2. CASE w.pc = "idle"
    <3>1. Take(c) /\ queue' = queue /\ queue = <<>>
      BY <1>6, <2>2 DEF LauncherReads, OrderInv, PipelineInv
    <3>2. StartedInv /\ \A r \in ran : r <= issued
      BY DEF OrderInv, PipelineInv
    <3> HIDE DEF c
    <3>3. /\ StartedInv' /\ w'.pc # "idle" /\ (w'.pc = "look" => w'.id \notin ran)
          /\ ran' \subseteq ran \cup (IF c.type = "pause" THEN {c.id} ELSE {})
          /\ \A r \in ran' : r <= issued
      BY <1>4, <2>1, <2>2, <3>1, <3>2, TakeOrder
    <3>4. NotBefore(ran', d2c')
      BY <1>4, <2>1, <3>3 DEF NotBefore
    <3>5. PipelineInv'
      BY <1>1, <1>4, <3>1, <3>3, <3>4, EmptyKeeps DEF PipelineInv
    <3> QED
      BY <1>2, <3>3, <3>5 DEF OrderInv, StartsNew
  <2>3. CASE w.pc # "idle"
    <3>1. queue' = Append(queue, c) /\ UNCHANGED <<h, w, ran>>
      BY <1>6, <2>3, Zenon DEF LauncherReads, handlerVars
    <3>2. StartedInv'
      BY <3>1 DEF OrderInv, StartedInv
    <3>3. /\ UpTo(queue, issued) /\ Sorted(queue) /\ NotBefore(ran, queue)
          /\ \A r \in ran : r <= issued
      BY DEF OrderInv, PipelineInv
    <3>4. d2c' \in Seq(ToLauncher)
      BY <1>1, HeadTailType
    <3> HIDE DEF c
    <3>5. /\ UpTo(queue', issued) /\ Sorted(queue') /\ NotBefore(ran, queue')
          /\ Follows(queue', d2c')
      BY <1>1, <1>4, <2>1, <3>1, <3>3, <3>4, AppendKeeps, Zenon
    <3>6. PipelineInv'
      BY <1>1, <1>4, <2>3, <3>1, <3>3, <3>5 DEF PipelineInv
    <3> QED
      BY <1>2, <3>1, <3>2, <3>6 DEF OrderInv, StartsNew
  <2> QED
    BY <2>2, <2>3
<1> QED
  BY <1>5, <1>6

LEMMA SendAckOrder ==
    ASSUME TypeOK, OrderInv, SendAck
    PROVE  OrderInv' /\ StartsNew
<1>1. /\ queue \in Seq(Command) /\ d2c \in Seq(ToLauncher) /\ w.pc = "ack"
      /\ UNCHANGED <<sup, issued, d2c>>
  BY DEF SendAck, TypeOK, LinkTypeOK, daemonVars
<1>2. LastPause'
  BY <1>1 DEF OrderInv, LastPause
<1>3. CASE queue = <<>>
  <2>1. w' = NoWork /\ UNCHANGED <<h, ran, queue>>
    BY <1>3 DEF SendAck, history
  <2>2. w'.pc = "idle"
    BY <2>1 DEF NoWork
  <2>3. StartedInv'
    BY <1>1, <2>1, <2>2 DEF OrderInv, StartedInv, PauseSteps
  <2>4. PipelineInv'
    BY <1>1, <1>3, <2>1 DEF OrderInv, PipelineInv
  <2> QED
    BY <1>2, <2>2, <2>3, <2>4 DEF OrderInv, StartsNew
<1>4. CASE queue # <<>>
  <2> DEFINE c == Head(queue)
  <2>1. Take(c) /\ queue' = Tail(queue) /\ c \in Command /\ Tail(queue) \in Seq(Command)
    BY <1>1, <1>4, HeadTailType DEF SendAck
  <2>2. /\ StartedInv /\ (\A r \in ran : r <= issued)
        /\ UpTo(d2c, issued) /\ Sorted(d2c) /\ NotBefore(ran, d2c)
    BY DEF OrderInv, PipelineInv
  <2>3. /\ UpTo(queue', issued) /\ Sorted(queue') /\ NotBefore(ran, queue')
        /\ Follows(queue', d2c)
        /\ c.type = "pause" => /\ NotBefore({c.id}, queue') /\ NotBefore({c.id}, d2c)
                               /\ c.id <= issued /\ \A r \in ran : r <= c.id
    BY <1>1, <1>4, <2>1, TailKeeps, Zenon DEF OrderInv, PipelineInv
  <2> HIDE DEF c
  <2>4. /\ StartedInv' /\ w'.pc # "idle" /\ (w'.pc = "look" => w'.id \notin ran)
        /\ ran' \subseteq ran \cup (IF c.type = "pause" THEN {c.id} ELSE {})
        /\ \A r \in ran' : r <= issued
    BY <1>1, <2>1, <2>2, <2>3, TakeOrder
  <2>5. NotBefore(ran', d2c) /\ NotBefore(ran', queue')
    BY <2>2, <2>3, <2>4 DEF NotBefore
  <2>6. PipelineInv'
    BY <1>1, <2>2, <2>3, <2>4, <2>5 DEF PipelineInv
  <2> QED
    BY <1>2, <2>4, <2>6 DEF OrderInv, StartsNew
<1> QED
  BY <1>3, <1>4

\* One await of the worker: a pause goes on, a pause ends, or a resume goes on.
GoesOn == w.pc \in PauseSteps /\ w'.pc \in PauseSteps /\ w'.id = w.id /\ h'.done = h.done
Ends == w.pc \in PauseSteps /\ w'.pc = "ack" /\ h'.done.id = w.id
Resumes == w.pc \in ResumeSteps /\ w'.pc \in ResumeSteps \cup {"ack"} /\ h'.done = h.done

\* A busy session got an ESC, and no prompt since.
Pressed == esc # "none"
\* The worker is past the first ESC of pause k, which a busy session got.
EscDone(k) == w.id = k /\ w.pc \in PauseSteps \ {"look", "guard"} /\ w.busy = "yes"

\* One await of the worker, and what it means for prompts: the first ESC of a busy session is
\* recorded, and nobody says "busy" of a pause that did not get that far.
PauseGoesOn ==
    /\ GoesOn /\ w'.no = w.no /\ (Pressed => Pressed')
    /\ \A k : EscDone(k)' => EscDone(k) \/ Pressed'
PauseEndsAs ==
    /\ Ends /\ w'.id = w.id /\ w'.no = w.no /\ esc' = esc
    /\ h'.done.busy = w'.busy /\ (w'.busy = "yes" => EscDone(w.id))
ResumeGoesOn ==
    /\ Resumes /\ w'.id = w.id /\ w'.no = w.no /\ (w'.pc = "ack" => w'.busy = "none")
    /\ esc' = esc \/ (w.pc = "submit" /\ w'.pc = "ack")

LEMMA FinishPauseAs ==
    ASSUME w \in Work, h \in Memory, w.pc \in PauseSteps, NEW result, NEW busy,
           FinishPause(result, busy), esc' = esc, busy = "yes" => EscDone(w.id)
    PROVE  PauseEndsAs
<1>1. /\ w'.pc = "ack" /\ w'.id = w.id /\ w'.no = w.no /\ w'.busy = busy
  BY DEF FinishPause, Answer, Work
<1>2. h'.done.id = w.id /\ h'.done.busy = busy
  BY DEF FinishPause, Memory
<1> QED
  BY <1>1, <1>2 DEF Ends, PauseEndsAs

\* The worker writes an ESC, or does something else that leaves it in its pause.
LEMMA StaysAs ==
    ASSUME w \in Work, w.pc \in PauseSteps, w'.pc \in PauseSteps, w'.id = w.id, w'.no = w.no,
           w'.busy = w.busy, h'.done = h.done,
           \/ esc' = esc /\ w.pc \notin {"look", "guard"}
           \/ PressEsc
    PROVE  PauseGoesOn
<1>1. Pressed => Pressed'
  BY DEF PressEsc, Pressed
<1>2. ASSUME NEW k, EscDone(k)'
      PROVE  EscDone(k) \/ Pressed'
  BY <1>2 DEF EscDone, PressEsc, Pressed
<1> QED
  BY <1>1, <1>2 DEF GoesOn, PauseGoesOn

LEMMA HandlerStepAsks ==
    ASSUME HandlerTypeOK, HandlerStep
    PROVE  PauseGoesOn \/ PauseEndsAs \/ ResumeGoesOn
<1>1. w \in Work /\ h \in Memory
  BY DEF HandlerTypeOK
<1>2. CASE Look
  <2>1. w.pc = "look" /\ w.pc \in PauseSteps /\ esc' = esc
    BY <1>2 DEF Look, PauseSteps, history
  <2>2. \/ FinishPause("skipped", "no")
        \/ UNCHANGED h /\ \E b \in WasBusy : w' = [w EXCEPT !.pc = "guard", !.draft = h.draft, !.busy = b]
    BY <1>2 DEF Look, WasBusy
  <2>3. ASSUME NEW b \in WasBusy, w' = [w EXCEPT !.pc = "guard", !.draft = h.draft, !.busy = b]
        PROVE  w'.pc = "guard" /\ w'.id = w.id /\ w'.no = w.no
    BY <1>1, <2>3 DEF Work
  <2>4. CASE UNCHANGED h /\ w'.pc = "guard" /\ w'.id = w.id /\ w'.no = w.no
    BY <2>1, <2>4 DEF PauseGoesOn, GoesOn, EscDone, Pressed, PauseSteps
  <2> QED
    BY <1>1, <2>1, <2>2, <2>3, <2>4, FinishPauseAs
<1>3. CASE GuardGivesUp
  <2>1. /\ w.pc \in {"guard", "gap", "pasteguard"} /\ w'.pc = w.pc /\ w'.id = w.id /\ w'.no = w.no
        /\ w'.busy = w.busy /\ UNCHANGED <<h, esc>>
    BY <1>1, <1>3 DEF GuardGivesUp, Work, history
  <2>2. CASE w.pc \in {"guard", "gap"}
    BY <2>1, <2>2 DEF PauseGoesOn, GoesOn, EscDone, Pressed, PauseSteps
  <2>3. CASE w.pc = "pasteguard"
    BY <2>1, <2>3 DEF ResumeGoesOn, Resumes, ResumeSteps
  <2> QED
    BY <2>1, <2>2, <2>3
<1>4. CASE FirstEsc
  <2>1. w.pc \in PauseSteps /\ "verify" \in PauseSteps
    BY <1>4 DEF FirstEsc, PauseSteps
  <2>2. \/ FinishPause("skipped", "none") /\ esc' = esc
        \/ PressEsc /\ UNCHANGED h /\ w' = [w EXCEPT !.pc = "verify", !.waited = FALSE]
    BY <1>4 DEF FirstEsc
  <2>3. w' = [w EXCEPT !.pc = "verify", !.waited = FALSE]
          => w'.pc = "verify" /\ w'.id = w.id /\ w'.no = w.no /\ w'.busy = w.busy
    BY <1>1 DEF Work
  <2> QED
    BY <1>1, <2>1, <2>2, <2>3, FinishPauseAs, StaysAs
<1>5. CASE Verify
  <2>1. w.pc \in PauseSteps \ {"look", "guard"} /\ UNCHANGED <<h, esc>>
    BY <1>5 DEF Verify, PauseSteps, history
  <2>2. \E status \in Seen, pc \in {"again", "final", "sweep", "end"} :
          w' = [w EXCEPT !.seen = status, !.pc = pc]
    BY <1>5 DEF Verify
  <2>3. w'.pc \in PauseSteps /\ w'.id = w.id /\ w'.no = w.no /\ w'.busy = w.busy
    BY <1>1, <2>2 DEF Work, PauseSteps
  <2> QED
    BY <1>1, <2>1, <2>3, StaysAs
<1>6. CASE SecondEsc
  <2>1. w.pc \in PauseSteps \ {"look", "guard"} /\ "gap" \in PauseSteps
    BY <1>6 DEF SecondEsc, PauseSteps
  <2>2. \/ FinishPause("injected", w.busy) /\ esc' = esc
        \/ FinishPause("skipped", "none") /\ esc' = esc
        \/ PressEsc /\ UNCHANGED h /\ w' = [w EXCEPT !.pc = "gap"]
    BY <1>6 DEF SecondEsc
  <2>3. w.busy = "yes" => EscDone(w.id)
    BY <2>1 DEF EscDone
  <2>4. w' = [w EXCEPT !.pc = "gap"]
          => w'.pc = "gap" /\ w'.id = w.id /\ w'.no = w.no /\ w'.busy = w.busy
    BY <1>1 DEF Work
  <2> QED
    BY <1>1, <2>1, <2>2, <2>3, <2>4, FinishPauseAs, StaysAs
<1>7. CASE Chord \/ SweepRow
  <2>1. w.pc \in PauseSteps \ {"look", "guard"} /\ UNCHANGED <<h, esc>>
    BY <1>7 DEF Chord, SweepRow, PauseSteps, history
  <2>2. w'.pc \in PauseSteps /\ w'.id = w.id /\ w'.no = w.no /\ w'.busy = w.busy
    BY <1>1, <1>7 DEF Chord, SweepRow, PauseSteps, Work
  <2> QED
    BY <1>1, <2>1, <2>2, StaysAs
<1>8. CASE Key
  <2>1. w.pc \in PauseSteps \ {"look", "guard"} /\ esc' = esc
    BY <1>8 DEF Key, PauseSteps, history
  <2>2. w'.pc \in PauseSteps /\ w'.id = w.id /\ w'.no = w.no /\ w'.busy = w.busy
    BY <1>1, <1>8 DEF Key, PauseSteps, Work
  <2>3. h'.done = h.done
    <3>1. \A b \in BOOLEAN : [h EXCEPT !.background = b].done = h.done
      BY <1>1 DEF Memory
    <3>2. (h.background \/ (w.pc = "chord")) \in BOOLEAN
      OBVIOUS
    <3>3. UNCHANGED h \/ h' = [h EXCEPT !.background = @ \/ (w.pc = "chord")]
      BY <1>8, Zenon DEF Key
    <3> QED
      BY <3>1, <3>2, <3>3, Zenon
  <2> QED
    BY <1>1, <2>1, <2>2, <2>3, StaysAs
<1>9. CASE FinalEsc \/ EndPause
  <2>1. w.pc \in PauseSteps \ {"look", "guard"} /\ "last" \in PauseSteps
    BY <1>9 DEF FinalEsc, EndPause, PauseSteps
  <2>2. \/ FinishPause("injected", w.busy) /\ esc' = esc
        \/ PressEsc /\ UNCHANGED h /\ w' = [w EXCEPT !.pc = "last"]
    BY <1>9 DEF FinalEsc, EndPause, history
  <2>3. w.busy = "yes" => EscDone(w.id)
    BY <2>1 DEF EscDone
  <2>4. w' = [w EXCEPT !.pc = "last"]
          => w'.pc = "last" /\ w'.id = w.id /\ w'.no = w.no /\ w'.busy = w.busy
    BY <1>1 DEF Work
  <2> QED
    BY <1>1, <2>1, <2>2, <2>3, <2>4, FinishPauseAs, StaysAs
<1>10. CASE WaitIdle \/ Paste
  <2>1. w.pc \in ResumeSteps /\ UNCHANGED <<h, esc>>
    BY <1>10 DEF WaitIdle, Paste, ResumeSteps, history
  <2>2. /\ w'.pc \in ResumeSteps \cup {"ack"} /\ w'.id = w.id /\ w'.no = w.no
        /\ w'.pc = "ack" => w'.busy = "none"
    BY <1>1, <1>10 DEF WaitIdle, Paste, Answer, Work, ResumeSteps
  <2> QED
    BY <2>1, <2>2 DEF ResumeGoesOn, Resumes
<1>11. CASE Submit
  <2>1. w.pc = "submit" /\ w.pc \in ResumeSteps /\ UNCHANGED h
    BY <1>11 DEF Submit, ResumeSteps
  <2>2. w'.pc = "ack" /\ w'.id = w.id /\ w'.no = w.no /\ w'.busy = "none"
    BY <1>1, <1>11 DEF Submit, Answer, Work
  <2> QED
    BY <2>1, <2>2 DEF ResumeGoesOn, Resumes
<1> QED
  BY <1>2, <1>3, <1>4, <1>5, <1>6, <1>7, <1>8, <1>9, <1>10, <1>11 DEF HandlerStep

LEMMA HandlerStepKinds ==
    ASSUME HandlerTypeOK, HandlerStep
    PROVE  (GoesOn \/ Ends \/ Resumes) /\ UNCHANGED ran
<1>1. UNCHANGED ran
  BY DEF HandlerStep, Look, GuardGivesUp, FirstEsc, Verify, SecondEsc, Chord, Key, SweepRow,
         FinalEsc, EndPause, WaitIdle, Paste, Submit, history
<1> QED
  BY <1>1, HandlerStepAsks DEF PauseGoesOn, PauseEndsAs, ResumeGoesOn

LEMMA HandleOrder ==
    ASSUME TypeOK, OrderInv, Handle
    PROVE  OrderInv' /\ StartsNew
<1>1. UNCHANGED <<sup, issued, d2c, queue, ran>> /\ (GoesOn \/ Ends \/ Resumes)
  BY HandlerStepKinds DEF Handle, TypeOK, daemonVars, linkVars
<1>2. w.pc \notin {"idle", "ack"} /\ w'.pc # "idle"
  BY <1>1 DEF GoesOn, Ends, Resumes, PauseSteps, ResumeSteps
<1>3. LastPause' /\ PipelineInv'
  BY <1>1, <1>2 DEF OrderInv, LastPause, PipelineInv
<1>4. StartedInv'
  <2>1. CASE GoesOn
    BY <1>1, <2>1 DEF OrderInv, StartedInv, GoesOn
  <2>2. CASE Ends
    BY <1>1, <2>2 DEF OrderInv, StartedInv, Ends, PauseSteps
  <2>3. CASE Resumes
    BY <1>1, <2>3 DEF OrderInv, StartedInv, Resumes, PauseSteps, ResumeSteps
  <2> QED
    BY <1>1, <2>1, <2>2, <2>3
<1> QED
  BY <1>2, <1>3, <1>4 DEF OrderInv, StartsNew

LEMMA StartCmdSends ==
    ASSUME TypeOK, OrderInv, StartCmd
    PROVE  \/ d2c' = d2c
           \/ \E e \in ToLauncher : d2c' = Append(d2c, e) /\ (e.type = "pause" => e.id = issued)
<1> DEFINE c == Head(cmds)
           unwanted == c.type = "pause" /\ ~(PausePending(sup) /\ sup.id = c.id)
           message == [kind |-> "cmd", type |-> c.type, id |-> c.id, prompt |-> c.prompt,
                       no |-> sends + 1, ok |-> TRUE]
<1>1. CASE unwanted \/ ~served
  BY <1>1, Zenon DEF StartCmd
<1>2. CASE ~unwanted /\ served
  <2>1. d2c' = Append(d2c, message)
    BY <1>2, Zenon DEF StartCmd
  <2>2. c \in DaemonCommand
    BY HeadTailType DEF StartCmd, TypeOK, DaemonTypeOK
  <2>3. message \in ToLauncher /\ message.type = c.type /\ message.id = c.id
    BY <2>2 DEF ToLauncher, DaemonCommand, TypeOK, DaemonTypeOK
  <2>4. c.type = "pause" => c.id = issued
    BY <1>2 DEF PausePending, OrderInv, LastPause
  <2> HIDE DEF message
  <2> QED
    BY <2>1, <2>3, <2>4
<1> QED
  BY <1>1, <1>2

LEMMA DaemonReadsSends ==
    ASSUME TypeOK, OrderInv, DaemonReads
    PROVE  \/ d2c' = d2c
           \/ \E e \in ToLauncher : d2c' = Append(d2c, e) /\ e.type \notin {"pause", "resume"}
<1> DEFINE m == Head(c2d)
<1>1. m \in ToDaemon /\ sup \in Supervision
  BY HeadTailType DEF DaemonReads, TypeOK, DaemonTypeOK, LinkTypeOK
<1>2. CASE m.kind = "register"
  <2> DEFINE new == IF m.first
                    THEN [NoSup EXCEPT !.state = IF Held = {} THEN "running" ELSE "overridden",
                                       !.over = Held]
                    ELSE [NoSup EXCEPT !.state = "running"]
             d == Evaluated(Held, IF sup.state = "none" THEN new ELSE sup, cmds)
  <2>1. ReadRegister(m)
    BY <1>2 DEF DaemonReads
  <2>2. d2c' = Append(d2c, Reply("registered", d.sup.state, d.sup.id))
    BY <2>1, Zenon DEF ReadRegister
  <2>3. sup' = d.sup
    <3>1. new \in Supervision
      <4>1. \A state \in {"running", "overridden"}, over \in SUBSET Instance :
               /\ [NoSup EXCEPT !.state = state, !.over = over] \in Supervision
               /\ [NoSup EXCEPT !.state = state] \in Supervision
        BY NoSupType DEF Supervision, SupStates
      <4>2. Held \in SUBSET Instance
        BY DEF Held
      <4>3. (IF Held = {} THEN "running" ELSE "overridden") \in {"running", "overridden"}
        OBVIOUS
      <4> QED
        BY <4>1, <4>2, <4>3, Zenon
    <3> HIDE DEF new
    <3>2. d \in Decision
      BY <1>1, <3>1, EvaluatedType DEF TypeOK, DaemonTypeOK
    <3>3. Become(IF PausePending(d.sup)
                 THEN [d EXCEPT !.cmds = Append(@, Cmd("pause", d.sup.id, FALSE))] ELSE d)
      BY <2>1, Zenon DEF ReadRegister, new
    <3> HIDE DEF d
    <3> QED
      BY <3>2, <3>3 DEF Become, Decision
  <2> HIDE DEF d
  <2>4. sup' \in Supervision
    BY <2>1, ReadRegisterType
  <2>5. Reply("registered", sup'.state, sup'.id) \in ToLauncher
    BY <2>4, ReplyType DEF Supervision
  <2>6. Reply("registered", sup'.state, sup'.id).type \notin {"pause", "resume"}
    BY <2>4 DEF Reply, Supervision, SupStates
  <2> QED
    BY <2>2, <2>3, <2>5, <2>6
<1>3. CASE m.kind = "submitted"
  <2> DEFINE reply == [Reply("noted", "none", 0) EXCEPT !.no = m.no, !.ok = sup.state # "none"]
  <2>1. d2c' = Append(d2c, reply)
    BY <1>3, Zenon DEF DaemonReads, ReadSubmitted
  <2>2. reply \in ToLauncher /\ reply.type \notin {"pause", "resume"}
    <3>1. \A no \in Nat, ok \in BOOLEAN :
             LET r == [Reply("noted", "none", 0) EXCEPT !.no = no, !.ok = ok]
             IN  r \in ToLauncher /\ r.type \notin {"pause", "resume"}
      BY DEF Reply, ToLauncher, SupStates
    <3>2. m.no \in Nat /\ (sup.state # "none") \in BOOLEAN
      BY <1>1 DEF ToDaemon
    <3> QED
      BY <3>1, <3>2, Zenon
  <2> HIDE DEF reply
  <2> QED
    BY <2>1, <2>2
<1>4. CASE m.kind = "ack"
  BY <1>4 DEF DaemonReads, ReadAck
<1> QED
  BY <1>1, <1>2, <1>3, <1>4 DEF ToDaemon

LEMMA DaemonStepOrder ==
    ASSUME TypeOK, OrderInv,
           \/ HoldStep \/ Tick \/ OpResumeStep \/ StartCmd \/ AckTimeout \/ ReapStep
           \/ DaemonReads \/ Connect \/ Restart
    PROVE  OrderInv' /\ StartsNew
<1>1. UNCHANGED <<queue, w, ran, h>>
  BY DEF HoldStep, Tick, OpResumeStep, OpResume, StartCmd, AckTimeout, ReapStep, Reap,
         DaemonReads, Connect, Restart, launcherVars, handlerVars
<1>2. IssueMoves
  <2>1. CASE ReapStep
    BY <2>1 DEF ReapStep, Reap, IssueMoves, LastPause, NoSup, TypeOK, DaemonTypeOK
  <2>2. CASE Connect \/ Restart
    BY <2>2, SameRecord DEF Connect, Restart, daemonVars, RecordMoves
  <2> QED
    BY <2>1, <2>2, HoldStepMoves, OpResumeMoves, StartCmdMoves, DropMoves, DaemonReadsMoves
       DEF OpResumeStep, RecordMoves
<1>3. \/ d2c' = d2c
      \/ \E e \in ToLauncher : d2c' = Append(d2c, e) /\ (e.type = "pause" => e.id = issued)
  <2>1. CASE \/ HoldStep \/ Tick \/ OpResumeStep \/ AckTimeout \/ ReapStep \/ Connect \/ Restart
    BY <2>1 DEF HoldStep, Tick, OpResumeStep, OpResume, AckTimeout, ReapStep, Reap, Connect,
                Restart, linkVars
  <2> QED
    BY <2>1, StartCmdSends, DaemonReadsSends
<1> QED
  BY <1>1, <1>2, <1>3, DaemonOrder DEF StartsNew

\* A connection that ends, a report that is late and the user change no remembered ack.
LEMMA OtherStepDone ==
    ASSUME TypeOK, Drop \/ Crash \/ ReportTimeout \/ User \/ Around \/ UNCHANGED vars
    PROVE  h'.done = h.done
<1>1. h \in Memory
  BY DEF TypeOK, HandlerTypeOK
<1>2. ReportReturns(h, FALSE).done = h.done
  BY <1>1 DEF ReportReturns, Memory
<1>3. CASE Drop \/ Crash \/ ReportTimeout \/ Around \/ UNCHANGED vars
  BY <1>2, <1>3 DEF Drop, Crash, Cut, ReportTimeout, Around, GapPasses, ClaudeMoves, vars,
                    handlerVars
<1>4. CASE UserTypes(issued)
  BY <1>1, <1>4 DEF UserTypes, Memory
<1>5. CASE Reports(Submitted(issued), link = "up")
  <2> DEFINE typed == [h EXCEPT !.typed = TRUE, !.typedAt = issued, !.submittedAt = issued,
                                !.draft = FALSE]
  <2>1. typed \in Memory /\ typed.done = h.done
    BY <1>1 DEF Memory, TypeOK, DaemonTypeOK
  <2>2. \A f \in Memory : /\ [f EXCEPT !.submitted = TRUE] \in Memory
                          /\ [f EXCEPT !.submitted = TRUE].done = f.done
                          /\ SendOverride(f).done = f.done
    BY DEF Memory, SendOverride
  <2>3. Submitted(issued) \in Memory /\ Submitted(issued).done = h.done
    BY <2>1, <2>2, SendOverrideType, Zenon DEF Submitted
  <2> QED
    BY <1>5, <2>3, ReportsDone
<1> QED
  BY <1>3, <1>4, <1>5 DEF User

LEMMA OtherStepOrder ==
    ASSUME TypeOK, OrderInv, Drop \/ Crash \/ ReportTimeout \/ User \/ Around \/ UNCHANGED vars
    PROVE  OrderInv' /\ StartsNew
<1>1. UNCHANGED <<queue, w, ran>> /\ (d2c' = <<>> \/ d2c' = d2c)
  BY DEF Drop, Crash, Cut, ReportTimeout, User, Around, UserTypes, UserSubmits, GapPasses,
         ClaudeMoves, vars, handlerVars, linkVars, history
<1>2. h'.done = h.done
  BY OtherStepDone
<1>3. IssueMoves
  <2>1. CASE Drop \/ Crash
    BY <2>1, DropMoves, CrashMoves DEF RecordMoves
  <2>2. CASE ReportTimeout \/ User \/ Around \/ UNCHANGED vars
    BY <2>2, SameRecord DEF ReportTimeout, User, Around, vars, daemonVars, RecordMoves
  <2> QED
    BY <2>1, <2>2
<1> QED
  BY <1>1, <1>2, <1>3, DaemonOrder DEF StartsNew

LEMMA InitOrder ==
    ASSUME Init
    PROVE  OrderInv
<1>1. queue = <<>> /\ d2c = <<>> /\ ran = {} /\ h.done.id = 0 /\ w.pc = "idle" /\ sup.state = "none"
  BY DEF Init, HandlerInit, NoDone, NoWork, NoSup
<1> QED
  BY <1>1, EmptyKeeps DEF OrderInv, LastPause, PipelineInv, StartedInv, PauseSteps

\* The steps of a pause are started at most once, for any number of instances, faults,
\* timeouts and inputs: a pause that is resent because its ack was lost is answered from
\* memory, and one that waits in the queue while a later one arrives stays before it.
THEOREM PauseStepsOnce == Spec => StepsOnce
<1>1. Init => OrderInv
  BY InitOrder
<1>2. TypeOK /\ OrderInv /\ [Next]_vars => OrderInv' /\ StartsNew
  BY DaemonStepOrder, OtherStepOrder, LauncherReadsOrder, SendAckOrder, HandleOrder DEF Next
<1>3. StartsNew => [w.pc \in {"idle", "ack"} /\ w'.pc = "look" => w'.id \notin ran]_vars
  BY DEF StartsNew
<1> QED
  BY <1>1, <1>2, <1>3, TypeCorrect, PTL DEF Spec, StepsOnce

-----------------------------------------------------------------------------
(* Prompts.                                                                *)

Prompting(c) == c.type = "resume" /\ c.prompt
NoPrompts(s) == \A i \in 1 .. Len(s) : ~Prompting(s[i])
OnePrompt(s) == \A i, j \in 1 .. Len(s) : Prompting(s[i]) /\ Prompting(s[j]) => i = j
\* No prompt comes after a command of pause k.
NoneAfter(s, k) ==
    \A i, j \in 1 .. Len(s) : i < j /\ s[i].type = "pause" /\ s[i].id = k => ~Prompting(s[j])
HasNot(s, k) == \A i \in 1 .. Len(s) : s[i].type = "pause" => s[i].id # k

Resuming == w.pc \in ResumeSteps
NoneSent == NoPrompts(queue) /\ NoPrompts(d2c) /\ ~Resuming
NoneUnsent(c) == \A i \in 1 .. Len(c) : c[i].no = 0 => ~Prompting(c[i])
\* A prompt that is still on its way to the user was issued before pause k and comes before it.
Behind(k) == NoneAfter(queue, k) /\ NoneAfter(d2c, k) /\ (HasNot(queue, k) \/ NoPrompts(d2c))

\* The launcher has at most one prompt to submit.
OneSent ==
    /\ OnePrompt(queue) /\ OnePrompt(d2c) /\ (NoPrompts(queue) \/ NoPrompts(d2c))
    /\ Resuming => NoPrompts(queue) /\ NoPrompts(d2c)

\* The engine, with record `s` and commands `c`, asks for one more only when that one is submitted or
\* given up, and only after an ESC; none is left when a later pause begins.
Asked(s, c) ==
    /\ OnePrompt(c) /\ (NoneUnsent(c) \/ NoneSent)
    /\ (NoneUnsent(c) /\ NoneSent) \/ Pressed
    /\ s.state = "paused" =>
        /\ NoPrompts(c)
        /\ IF s.id \in ran THEN NoneSent ELSE Behind(s.id)

Flying(c) == c # <<>> /\ Head(c).no # 0
PauseFlies(c, no) == Flying(c) /\ Head(c).type = "pause" /\ Head(c).no = no
Numbered(t, c) ==
    \A i \in 1 .. Len(t) : t[i].type \in {"pause", "resume"} =>
        t[i].no <= sends /\ (PauseFlies(c, t[i].no) => t[i].type = "pause" /\ t[i].id = Head(c).id)

\* The number of a command tells it from every other one.
NumbersTell(c) ==
    /\ Numbered(queue, c) /\ Numbered(d2c, c) /\ w.no <= sends
    /\ w.pc # "idle" /\ PauseFlies(c, w.no) => w.id = Head(c).id
    /\ \A i \in 1 .. Len(c2d) : c2d[i].kind = "ack" => c2d[i].no <= sends
    /\ \A i \in 1 .. Len(c) : c[i].no # 0 => i = 1

\* An ack tells the engine that the session was busy when pause k began.
TellsBusy(m, c, k) == m.kind = "ack" /\ m.busy = "yes" /\ PauseFlies(c, m.no) /\ Head(c).id = k

\* Whoever says that a paused session was busy says it after an ESC.
Known(s, c) ==
    s.state = "paused" =>
        /\ s.busy = "yes" => s.id \in ran /\ Pressed
        /\ h.done.id = s.id /\ h.done.busy = "yes" => Pressed
        /\ EscDone(s.id) => Pressed
        /\ \A i \in 1 .. Len(c2d) : TellsBusy(c2d[i], c, s.id) => s.id \in ran /\ Pressed

DoneKnown ==
    /\ h.done.busy = "yes" => h.done.id \in ran
    /\ w.pc = "ack" /\ w.busy = "yes" => h.done.id = w.id /\ h.done.busy = "yes"

EngineAsks(s, c) == Asked(s, c) /\ NumbersTell(c) /\ Known(s, c)
PromptInv == OneSent /\ DoneKnown /\ EngineAsks(sup, cmds)

LEMMA AppendAsks ==
    ASSUME NEW S, NEW s \in Seq(S), NEW e \in S, NEW k
    PROVE  /\ NoPrompts(Append(s, e)) <=> NoPrompts(s) /\ ~Prompting(e)
           /\ OnePrompt(s) /\ (Prompting(e) => NoPrompts(s)) => OnePrompt(Append(s, e))
           /\ NoneAfter(s, k) /\ (Prompting(e) => HasNot(s, k)) => NoneAfter(Append(s, e), k)
           /\ HasNot(Append(s, e), k) <=> HasNot(s, k) /\ (e.type = "pause" => e.id # k)
<1>1. /\ Len(Append(s, e)) = Len(s) + 1 /\ Len(s) \in Nat
      /\ \A i \in 1 .. Len(s) : i \in 1 .. Len(Append(s, e)) /\ Append(s, e)[i] = s[i]
      /\ Len(s) + 1 \in 1 .. Len(Append(s, e)) /\ Append(s, e)[Len(s) + 1] = e
  OBVIOUS
<1>2. \A i \in 1 .. Len(Append(s, e)) :
        \/ i \in 1 .. Len(s) /\ Append(s, e)[i] = s[i]
        \/ i = Len(s) + 1 /\ Append(s, e)[i] = e
  BY <1>1
<1>3. NoPrompts(Append(s, e)) <=> NoPrompts(s) /\ ~Prompting(e)
  BY <1>1, <1>2, Zenon DEF NoPrompts
<1>4. HasNot(Append(s, e), k) <=> HasNot(s, k) /\ (e.type = "pause" => e.id # k)
  BY <1>1, <1>2, Zenon DEF HasNot
<1>5. ASSUME OnePrompt(s), Prompting(e) => NoPrompts(s)
      PROVE  OnePrompt(Append(s, e))
  <2> SUFFICES ASSUME NEW i \in 1 .. Len(Append(s, e)), NEW j \in 1 .. Len(Append(s, e)),
                      Prompting(Append(s, e)[i]), Prompting(Append(s, e)[j])
               PROVE  i = j
    BY Zenon DEF OnePrompt
  <2>1. CASE Prompting(e)
    BY <1>2, <1>5, <2>1, Zenon DEF NoPrompts
  <2>2. CASE ~Prompting(e)
    BY <1>2, <1>5, <2>2, Zenon DEF OnePrompt
  <2> QED
    BY <2>1, <2>2
<1>6. ASSUME NoneAfter(s, k), Prompting(e) => HasNot(s, k)
      PROVE  NoneAfter(Append(s, e), k)
  <2> SUFFICES ASSUME NEW i \in 1 .. Len(Append(s, e)), NEW j \in 1 .. Len(Append(s, e)), i < j,
                      Append(s, e)[i].type = "pause", Append(s, e)[i].id = k
               PROVE  ~Prompting(Append(s, e)[j])
    BY Zenon DEF NoneAfter
  <2>1. i \in 1 .. Len(s) /\ Append(s, e)[i] = s[i]
    BY <1>1
  <2>2. CASE j \in 1 .. Len(s) /\ Append(s, e)[j] = s[j]
    BY <1>6, <2>1, <2>2, Zenon DEF NoneAfter
  <2>3. CASE Append(s, e)[j] = e
    BY <1>6, <2>1, <2>3, Zenon DEF HasNot
  <2> QED
    BY <1>2, <2>2, <2>3
<1> QED
  BY <1>3, <1>4, <1>5, <1>6

LEMMA TailAsks ==
    ASSUME NEW S, NEW s \in Seq(S), s # <<>>, NEW k
    PROVE  /\ NoPrompts(s) => NoPrompts(Tail(s)) /\ ~Prompting(Head(s))
           /\ NoPrompts(Tail(s)) /\ ~Prompting(Head(s)) => NoPrompts(s)
           /\ OnePrompt(s) => OnePrompt(Tail(s)) /\ (Prompting(Head(s)) => NoPrompts(Tail(s)))
           /\ NoneAfter(s, k) => /\ NoneAfter(Tail(s), k)
                                 /\ Head(s).type = "pause" /\ Head(s).id = k => NoPrompts(Tail(s))
           /\ HasNot(s, k) => HasNot(Tail(s), k) /\ (Head(s).type = "pause" => Head(s).id # k)
<1>1. /\ Head(s) = s[1] /\ 1 \in 1 .. Len(s) /\ Len(s) \in Nat
      /\ \A i \in 1 .. Len(Tail(s)) :
            /\ i + 1 \in 1 .. Len(s) /\ 1 < i + 1 /\ 1 # i + 1 /\ Tail(s)[i] = s[i + 1]
            /\ \A j \in 1 .. Len(Tail(s)) : (i < j => i + 1 < j + 1) /\ (i + 1 = j + 1 => i = j)
      /\ \A i \in 1 .. Len(s) : i = 1 \/ (i - 1 \in 1 .. Len(Tail(s)) /\ Tail(s)[i - 1] = s[i])
  OBVIOUS
<1>2. NoPrompts(s) => NoPrompts(Tail(s)) /\ ~Prompting(Head(s))
  BY <1>1, Zenon DEF NoPrompts
<1>3. NoPrompts(Tail(s)) /\ ~Prompting(Head(s)) => NoPrompts(s)
  BY <1>1, Zenon DEF NoPrompts
<1>4. OnePrompt(s) => OnePrompt(Tail(s)) /\ (Prompting(Head(s)) => NoPrompts(Tail(s)))
  BY <1>1, Zenon DEF OnePrompt, NoPrompts
<1>5. NoneAfter(s, k) => /\ NoneAfter(Tail(s), k)
                         /\ Head(s).type = "pause" /\ Head(s).id = k => NoPrompts(Tail(s))
  BY <1>1 DEF NoneAfter, NoPrompts
<1>6. HasNot(s, k) => HasNot(Tail(s), k) /\ (Head(s).type = "pause" => Head(s).id # k)
  BY <1>1 DEF HasNot
<1> QED
  BY <1>2, <1>3, <1>4, <1>5, <1>6

LEMMA EmptyAsks ==
    ASSUME NEW k
    PROVE  NoPrompts(<<>>) /\ OnePrompt(<<>>) /\ NoneAfter(<<>>, k) /\ HasNot(<<>>, k)
<1>1. 1 .. Len(<<>>) = {}
  OBVIOUS
<1> QED
  BY <1>1 DEF NoPrompts, OnePrompt, NoneAfter, HasNot

\* Numbered, as the sequence grows and shrinks.
LEMMA NumberedKeeps ==
    ASSUME NEW S, NEW s \in Seq(S), NEW e \in S, NEW c
    PROVE  /\ /\ Numbered(s, c)
              /\ e.type \in {"pause", "resume"} =>
                    e.no <= sends /\ (PauseFlies(c, e.no) => e.type = "pause" /\ e.id = Head(c).id)
              => Numbered(Append(s, e), c)
           /\ Numbered(s, c) /\ s # <<>> =>
                /\ Numbered(Tail(s), c)
                /\ Head(s).type \in {"pause", "resume"} =>
                     /\ Head(s).no <= sends
                     /\ PauseFlies(c, Head(s).no) => Head(s).type = "pause" /\ Head(s).id = Head(c).id
           /\ Numbered(<<>>, c)
<1>1. \A i \in 1 .. Len(Append(s, e)) : (i \in 1 .. Len(s) /\ Append(s, e)[i] = s[i]) \/ Append(s, e)[i] = e
  OBVIOUS
<1>2. s # <<>> => /\ Head(s) = s[1] /\ 1 \in 1 .. Len(s)
                  /\ \A i \in 1 .. Len(Tail(s)) : i + 1 \in 1 .. Len(s) /\ Tail(s)[i] = s[i + 1]
  OBVIOUS
<1>3. 1 .. Len(<<>>) = {}
  OBVIOUS
<1>4. Numbered(<<>>, c)
  BY <1>3 DEF Numbered
<1>5. s # <<>> /\ Numbered(s, c) => Numbered(Tail(s), c)
  BY <1>2, Zenon DEF Numbered
<1>6. ASSUME s # <<>>, Numbered(s, c), Head(s).type \in {"pause", "resume"}
      PROVE  /\ Head(s).no <= sends
             /\ PauseFlies(c, Head(s).no) => Head(s).type = "pause" /\ Head(s).id = Head(c).id
  BY <1>2, <1>6, Zenon DEF Numbered
<1>7. ASSUME Numbered(s, c),
             e.type \in {"pause", "resume"} =>
                e.no <= sends /\ (PauseFlies(c, e.no) => e.type = "pause" /\ e.id = Head(c).id)
      PROVE  Numbered(Append(s, e), c)
  BY <1>1, <1>7, Zenon DEF Numbered
<1> QED
  BY <1>4, <1>5, <1>6, <1>7

-----------------------------------------------------------------------------
(* The engine and the prompts.                                             *)

LEMMA OneCommand ==
    ASSUME NEW x, x.no = 0
    PROVE  /\ OnePrompt(<<x>>) /\ ~Flying(<<x>>) /\ (\A i \in 1 .. Len(<<x>>) : <<x>>[i].no # 0 => i = 1)
           /\ ~Prompting(x) => NoPrompts(<<x>>) /\ NoneUnsent(<<x>>)
<1>1. Len(<<x>>) = 1 /\ <<x>>[1] = x /\ Head(<<x>>) = x /\ \A i \in 1 .. Len(<<x>>) : i = 1
  OBVIOUS
<1> QED
  BY <1>1 DEF OnePrompt, Flying, NoPrompts, NoneUnsent

\* Commands that are not sent have no answer under way.
LEMMA NotFlying ==
    ASSUME NEW c, NumbersTell(c), NEW n, ~Flying(n), \A i \in 1 .. Len(n) : n[i].no # 0 => i = 1
    PROVE  NumbersTell(n) /\ \A m, k : ~TellsBusy(m, n, k)
  BY DEF NumbersTell, Numbered, PauseFlies, TellsBusy

LEMMA LaterPause ==
    ASSUME NEW S, \A e \in S : e.type = "pause" => e.id \in Nat, NEW s \in Seq(S),
           NEW n \in Nat, UpTo(s, n)
    PROVE  HasNot(s, n + 1) /\ NoneAfter(s, n + 1)
<1>1. ASSUME NEW i \in 1 .. Len(s), s[i].type = "pause"
      PROVE  s[i].id # n + 1
  <2>1. s[i] \in S
    BY ElementOfSeq
  <2>2. s[i].id <= n /\ s[i].id \in Nat
    BY <1>1, <2>1 DEF UpTo
  <2> QED
    BY <2>2
<1> QED
  BY <1>1 DEF HasNot, NoneAfter

\* What `Evaluated` does: nothing, a resume, a new pause, or the end of an override.
EvaluatesTo(s, c, e) ==
    \/ e.sup = s /\ e.cmds = c
    \/ /\ c = <<>> /\ s.state = "paused" /\ e.sup.state # "paused"
       /\ e.cmds = <<Cmd("resume", 0, WantsPrompt(s))>>
    \/ /\ c = <<>> /\ e.sup.state = "paused" /\ e.sup.id = issued + 1 /\ e.sup.busy = "none"
       /\ e.cmds = <<Cmd("pause", issued + 1, FALSE)>>
    \/ e.sup.state # "paused" /\ e.cmds = c

LEMMA EvaluatedKinds ==
    ASSUME NEW held, NEW s \in Supervision, NEW c, issued \in Nat,
           NEW e, e = Evaluated(held, s, c)
    PROVE  EvaluatesTo(s, c, e)
<1> DEFINE same == [sup |-> s, cmds |-> c, issued |-> issued]
           resumed == [s EXCEPT !.state = "running", !.busy = "no", !.pend = FALSE]
           paused == [s EXCEPT !.state = "paused", !.id = issued + 1, !.pend = TRUE, !.busy = "none"]
           marked == [s EXCEPT !.state = "running", !.over = {}]
           resume == <<Cmd("resume", 0, WantsPrompt(s))>>
           pause == <<Cmd("pause", issued + 1, FALSE)>>
<1>1. /\ resumed.state # "paused" /\ marked.state # "paused"
      /\ paused.state = "paused" /\ paused.id = issued + 1 /\ paused.busy = "none"
  BY DEF Supervision
<1> HIDE DEF resumed, paused, marked, resume, pause
<1>2. \/ e = same
      \/ e = [same EXCEPT !.sup = resumed, !.cmds = resume] /\ c = <<>> /\ s.state = "paused"
      \/ e = [same EXCEPT !.sup = paused, !.cmds = pause, !.issued = issued + 1] /\ c = <<>>
      \/ e = [same EXCEPT !.sup = marked]
  BY Zenon DEF Evaluated, OverrideEnds, resumed, paused, marked, resume, pause
<1>r. same \in [sup : {s}, cmds : {c}, issued : {issued}]
  OBVIOUS
<1> HIDE DEF same
<1>3. \/ e.sup = s /\ e.cmds = c
      \/ e.sup = resumed /\ e.cmds = resume /\ c = <<>> /\ s.state = "paused"
      \/ e.sup = paused /\ e.cmds = pause /\ c = <<>>
      \/ e.sup = marked /\ e.cmds = c
  BY <1>2, <1>r
<1> QED
  BY <1>1, <1>3 DEF resume, pause, EvaluatesTo

\* The engine asks for a prompt only for a pause that was begun, and so after every other one.
LEMMA EvaluationAsks ==
    ASSUME TypeOK, OrderInv, DoneKnown, NEW held, NEW s \in Supervision, NEW c, EngineAsks(s, c),
           NEW d, d = Evaluated(held, s, c)
    PROVE  EngineAsks(d.sup, d.cmds)
<1>1. issued \in Nat /\ queue \in Seq(Command) /\ d2c \in Seq(ToLauncher) /\ ran \subseteq Nat
  BY DEF TypeOK, DaemonTypeOK, LinkTypeOK, HandlerTypeOK
<1>2. CASE d.sup = s /\ d.cmds = c
  BY <1>2
<1>3. CASE d.sup.state # "paused" /\ d.cmds = c
  BY <1>3 DEF EngineAsks, Asked, Known
<1>4. CASE /\ c = <<>> /\ s.state = "paused" /\ d.sup.state # "paused"
           /\ d.cmds = <<Cmd("resume", 0, WantsPrompt(s))>>
  <2>0. PICK x : x = Cmd("resume", 0, WantsPrompt(s))
    OBVIOUS
  <2>1. x = Cmd("resume", 0, WantsPrompt(s)) /\ x.prompt = WantsPrompt(s) /\ x.no = 0
    BY <2>0 DEF Cmd
  <2>2. d.cmds = <<x>>
    BY <1>4, <2>1
  <2>3. /\ OnePrompt(<<x>>) /\ ~Flying(<<x>>) /\ (\A i \in 1 .. Len(<<x>>) : <<x>>[i].no # 0 => i = 1)
        /\ ~Prompting(x) => NoneUnsent(<<x>>)
    BY <2>1, OneCommand
  <2>4. NumbersTell(<<x>>)
    BY <2>3, NotFlying DEF EngineAsks
  <2>5. CASE s.busy = "yes"
    BY <1>4, <2>2, <2>3, <2>4, <2>5 DEF EngineAsks, Asked, Known
  <2>6. CASE s.busy # "yes"
    <3>1. ~Prompting(x)
      BY <2>1, <2>6 DEF WantsPrompt, Prompting
    <3>2. 1 .. Len(<<>>) = {}
      OBVIOUS
    <3>3. NoneUnsent(<<x>>) /\ NoneUnsent(<<>>)
      BY <2>3, <3>1, <3>2 DEF NoneUnsent
    <3> QED
      BY <1>4, <2>2, <2>3, <2>4, <3>3 DEF EngineAsks, Asked, Known
  <2> QED
    BY <2>5, <2>6
<1>5. CASE /\ c = <<>> /\ d.sup.state = "paused" /\ d.sup.id = issued + 1 /\ d.sup.busy = "none"
           /\ d.cmds = <<Cmd("pause", issued + 1, FALSE)>>
  <2>0. PICK x : x = Cmd("pause", issued + 1, FALSE)
    OBVIOUS
  <2>1. x = Cmd("pause", issued + 1, FALSE) /\ x.type = "pause" /\ x.no = 0
    BY <2>0 DEF Cmd
  <2>2. d.cmds = <<x>> /\ ~Prompting(x)
    BY <1>5, <2>1 DEF Prompting
  <2>3. /\ OnePrompt(<<x>>) /\ ~Flying(<<x>>) /\ (\A i \in 1 .. Len(<<x>>) : <<x>>[i].no # 0 => i = 1)
        /\ NoPrompts(<<x>>) /\ NoneUnsent(<<x>>)
    BY <2>1, <2>2, OneCommand
  <2>4. NumbersTell(<<x>>) /\ \A m, k : ~TellsBusy(m, <<x>>, k)
    BY <2>3, NotFlying DEF EngineAsks
  <2>5. d.sup.id \notin ran
    BY <1>1, <1>5 DEF OrderInv, PipelineInv
  <2>6. Behind(d.sup.id)
    BY <1>1, <1>5, PauseIds, LaterPause DEF OrderInv, PipelineInv, Behind
  <2>7. Asked(d.sup, <<x>>)
    BY <1>5, <2>3, <2>5, <2>6 DEF EngineAsks, Asked, NoneUnsent
  <2>8. Known(d.sup, <<x>>)
    BY <1>5, <2>4, <2>5 DEF Known, DoneKnown, EscDone, OrderInv, StartedInv
  <2> QED
    BY <2>2, <2>4, <2>7, <2>8 DEF EngineAsks
<1>6. EvaluatesTo(s, c, d)
  BY <1>1, EvaluatedKinds, Zenon
<1> QED
  BY <1>2, <1>3, <1>4, <1>5, <1>6, Zenon DEF EvaluatesTo

\* The first command is over, and the record knows what an answer told.
LEMMA FirstOver ==
    ASSUME TypeOK, NEW c \in Seq(DaemonCommand), EngineAsks(sup, c), c # <<>>, NEW s,
           s.state = sup.state, s.id = sup.id,
           sup.state = "paused" /\ s.busy = "yes" => sup.busy = "yes" \/ (sup.id \in ran /\ Pressed)
    PROVE  EngineAsks(s, Tail(c))
<1>1. \A i \in 1 .. Len(Tail(c)) : i + 1 \in 1 .. Len(c) /\ i + 1 # 1 /\ Tail(c)[i] = c[i + 1]
  OBVIOUS
<1>2. \A i \in 1 .. Len(Tail(c)) : Tail(c)[i].no = 0
  BY <1>1 DEF EngineAsks, NumbersTell
<1>3. Tail(c) # <<>> => 1 \in 1 .. Len(Tail(c)) /\ Head(Tail(c)) = Tail(c)[1]
  OBVIOUS
<1>4. ~Flying(Tail(c))
  BY <1>2, <1>3 DEF Flying
<1>5. NumbersTell(Tail(c)) /\ \A m, k : ~TellsBusy(m, Tail(c), k)
  BY <1>2, <1>4, NotFlying DEF EngineAsks
<1>6. NoneUnsent(c) => NoneUnsent(Tail(c))
  BY <1>1, Zenon DEF NoneUnsent
<1>7. (OnePrompt(c) => OnePrompt(Tail(c))) /\ (NoPrompts(c) => NoPrompts(Tail(c)))
  BY TailAsks
<1>8. Asked(s, Tail(c))
  BY <1>6, <1>7 DEF EngineAsks, Asked
<1>9. Known(s, Tail(c))
  BY <1>5 DEF EngineAsks, Known
<1> QED
  BY <1>5, <1>8, <1>9 DEF EngineAsks

\* What the daemon reads and writes on the connection, or loses, changes nothing of this, and
\* neither does what the launcher reads that is no command.
LinkMoves ==
    /\ UNCHANGED <<queue, w, ran, sends>> /\ h'.done = h.done /\ (Pressed => Pressed')
    /\ \A i \in 1 .. Len(c2d') :
          c2d'[i].kind = "ack" => \E j \in 1 .. Len(c2d) : c2d'[i] = c2d[j]
    /\ \/ d2c' = <<>> \/ d2c' = d2c
       \/ d2c # <<>> /\ d2c' = Tail(d2c)
       \/ \E e \in ToLauncher : d2c' = Append(d2c, e) /\ e.type \notin {"pause", "resume"}

LEMMA LinkAsks ==
    ASSUME TypeOK, NEW s, NEW c, EngineAsks(s, c), OneSent, DoneKnown, LinkMoves
    PROVE  EngineAsks(s, c)' /\ OneSent' /\ DoneKnown'
<1>1. d2c \in Seq(ToLauncher)
  BY DEF TypeOK, LinkTypeOK
<1>e. d2c # <<>> => Head(d2c) \in ToLauncher
  BY <1>1, HeadTailType
<1>2. /\ NoPrompts(d2c) => NoPrompts(d2c')
      /\ OnePrompt(d2c) => OnePrompt(d2c')
      /\ \A k : NoneAfter(d2c, k) => NoneAfter(d2c', k)
      /\ \A n : Numbered(d2c, n) => Numbered(d2c', n)
  <2>1. CASE d2c' = <<>>
    <3>1. 1 .. Len(<<>>) = {}
      OBVIOUS
    <3> QED
      BY <2>1, <3>1, EmptyAsks DEF Numbered
  <2>2. CASE d2c' = d2c
    BY <2>2
  <2>3. CASE \E e \in ToLauncher : d2c' = Append(d2c, e) /\ e.type \notin {"pause", "resume"}
    <3>1. PICK e \in ToLauncher : d2c' = Append(d2c, e) /\ e.type \notin {"pause", "resume"}
      BY <2>3
    <3>2. ~Prompting(e)
      BY <3>1 DEF Prompting
    <3>3. /\ NoPrompts(d2c) => NoPrompts(Append(d2c, e))
          /\ OnePrompt(d2c) => OnePrompt(Append(d2c, e))
          /\ \A k : NoneAfter(d2c, k) => NoneAfter(Append(d2c, e), k)
      BY <1>1, <3>2, AppendAsks
    <3>4. \A n : Numbered(d2c, n) => Numbered(Append(d2c, e), n)
      BY <1>1, <3>1, NumberedKeeps
    <3> QED
      BY <3>1, <3>3, <3>4
  <2>4. CASE d2c # <<>> /\ d2c' = Tail(d2c)
    <3>1. /\ NoPrompts(d2c) => NoPrompts(Tail(d2c))
          /\ OnePrompt(d2c) => OnePrompt(Tail(d2c))
          /\ \A k : NoneAfter(d2c, k) => NoneAfter(Tail(d2c), k)
      BY <1>1, <2>4, TailAsks
    <3>2. \A n : Numbered(d2c, n) => Numbered(Tail(d2c), n)
      BY <1>1, <1>e, <2>4, NumberedKeeps
    <3> QED
      BY <2>4, <3>1, <3>2
  <2> QED
    BY <2>1, <2>2, <2>3, <2>4 DEF LinkMoves
<1>3. (NoneSent => NoneSent') /\ \A k : Behind(k) => Behind(k)'
  BY <1>2 DEF NoneSent, Resuming, Behind, LinkMoves
<1>4. OneSent' /\ DoneKnown'
  BY <1>2 DEF OneSent, Resuming, DoneKnown, LinkMoves
<1>5. Asked(s, c)'
  BY <1>3 DEF EngineAsks, Asked, LinkMoves
<1>6. NumbersTell(c)'
  <2>1. \A t, n : Numbered(t, n)' <=> Numbered(t, n)
    BY DEF Numbered, LinkMoves, PauseFlies, Flying
  <2>2. Numbered(queue, c)' /\ Numbered(d2c, c)'
    BY <1>2, <2>1 DEF EngineAsks, NumbersTell, LinkMoves
  <2> QED
    BY <2>2 DEF EngineAsks, NumbersTell, LinkMoves
<1>7. Known(s, c)'
  <2> SUFFICES ASSUME s.state = "paused"
               PROVE  /\ s.busy = "yes" => s.id \in ran' /\ Pressed'
                      /\ h'.done.id = s.id /\ h'.done.busy = "yes" => Pressed'
                      /\ EscDone(s.id)' => Pressed'
                      /\ \A i \in 1 .. Len(c2d') : TellsBusy(c2d'[i], c, s.id) => s.id \in ran' /\ Pressed'
    BY DEF Known, LinkMoves
  <2>1. \A i \in 1 .. Len(c2d') : TellsBusy(c2d'[i], c, s.id) => s.id \in ran /\ Pressed
    BY DEF EngineAsks, Known, TellsBusy, LinkMoves
  <2>2. EscDone(s.id)' <=> EscDone(s.id)
    BY DEF EscDone, LinkMoves
  <2> QED
    BY <2>1, <2>2 DEF EngineAsks, Known, LinkMoves
<1> QED
  BY <1>4, <1>5, <1>6, <1>7 DEF EngineAsks

\* The engine's record becomes `s` and its commands `c`.
LEMMA EngineMoves ==
    ASSUME TypeOK, PromptInv, NEW s, NEW c, EngineAsks(s, c), LinkMoves, sup' = s, cmds' = c
    PROVE  PromptInv'
<1>1. EngineAsks(s, c)' /\ OneSent' /\ DoneKnown'
  BY LinkAsks DEF PromptInv
<1>2. EngineAsks(sup, cmds)'
  BY <1>1
<1> QED
  BY <1>1, <1>2 DEF PromptInv

LEMMA EvaluatesAsks ==
    ASSUME TypeOK, OrderInv, PromptInv, LinkMoves, NEW held, NEW s \in Supervision, NEW c,
           EngineAsks(s, c), Become(Evaluated(held, s, c))
    PROVE  PromptInv'
<1>1. PICK d : d = Evaluated(held, s, c)
  OBVIOUS
<1>2. sup' = d.sup /\ cmds' = d.cmds
  BY <1>1 DEF Become
<1>3. EngineAsks(d.sup, d.cmds)
  BY <1>1, EvaluationAsks DEF PromptInv
<1> QED
  BY <1>2, <1>3, EngineMoves

\* A command that is not sent yet, and asks for no prompt, changes nothing.
LEMMA AppendCommand ==
    ASSUME NEW c \in Seq(DaemonCommand), NEW e \in DaemonCommand, e.no = 0, NumbersTell(c)
    PROVE  /\ NumbersTell(Append(c, e))
           /\ \A m, k : TellsBusy(m, Append(c, e), k) => TellsBusy(m, c, k)
           /\ ~Prompting(e) /\ NoneUnsent(c) => NoneUnsent(Append(c, e))
<1>1. /\ \A i \in 1 .. Len(Append(c, e)) :
           (i \in 1 .. Len(c) /\ Append(c, e)[i] = c[i]) \/ Append(c, e)[i] = e
      /\ c # <<>> => Head(Append(c, e)) = Head(c)
      /\ c = <<>> => Head(Append(c, e)) = e
      /\ Append(c, e) # <<>>
  OBVIOUS
<1>2. /\ Flying(Append(c, e)) <=> Flying(c)
      /\ Flying(c) => Head(Append(c, e)) = Head(c)
  BY <1>1 DEF Flying
<1>3. \A n : PauseFlies(Append(c, e), n) <=> PauseFlies(c, n)
  BY <1>2 DEF PauseFlies
<1>4. \A i \in 1 .. Len(Append(c, e)) : Append(c, e)[i].no # 0 => i = 1
  BY <1>1 DEF NumbersTell
<1>5. \A t : Numbered(t, c) => Numbered(t, Append(c, e))
  BY <1>2, <1>3 DEF Numbered, PauseFlies
<1>6. NumbersTell(Append(c, e))
  BY <1>2, <1>3, <1>4, <1>5 DEF NumbersTell, PauseFlies
<1>7. \A m, k : TellsBusy(m, Append(c, e), k) => TellsBusy(m, c, k)
  BY <1>2, <1>3 DEF TellsBusy, PauseFlies
<1>8. ~Prompting(e) /\ NoneUnsent(c) => NoneUnsent(Append(c, e))
  BY <1>1, Zenon DEF NoneUnsent
<1> QED
  BY <1>6, <1>7, <1>8

LEMMA AppendedAsks ==
    ASSUME NEW c \in Seq(DaemonCommand), NEW e \in DaemonCommand, e.no = 0, ~Prompting(e),
           NEW s, EngineAsks(s, c)
    PROVE  EngineAsks(s, Append(c, e))
<1>1. /\ NumbersTell(Append(c, e))
      /\ \A m, k : TellsBusy(m, Append(c, e), k) => TellsBusy(m, c, k)
      /\ NoneUnsent(c) => NoneUnsent(Append(c, e))
  BY AppendCommand DEF EngineAsks
<1>2. /\ NoPrompts(c) => NoPrompts(Append(c, e))
      /\ OnePrompt(c) => OnePrompt(Append(c, e))
  BY AppendAsks
<1>3. Asked(s, Append(c, e))
  BY <1>1, <1>2 DEF EngineAsks, Asked
<1>4. Known(s, Append(c, e))
  BY <1>1 DEF EngineAsks, Known
<1> QED
  BY <1>1, <1>3, <1>4 DEF EngineAsks

LEMMA HoldStepAsks ==
    ASSUME TypeOK, OrderInv, PromptInv, HoldStep \/ Tick
    PROVE  PromptInv'
<1>1. LinkMoves
  BY DEF HoldStep, Tick, LinkMoves, linkVars, launcherVars, handlerVars, Pressed
<1>2. PICK held : Become(Evaluated(held, sup, cmds))
  BY DEF HoldStep, Tick
<1>3. sup \in Supervision
  BY DEF TypeOK, DaemonTypeOK
<1> QED
  BY <1>1, <1>2, <1>3, EvaluatesAsks DEF PromptInv

LEMMA OpResumeAsks ==
    ASSUME TypeOK, OrderInv, PromptInv, NEW own, OpResume(own)
    PROVE  PromptInv'
<1>1. LinkMoves
  BY DEF OpResume, LinkMoves, linkVars, launcherVars, handlerVars, Pressed
<1>2. CASE sup.state = "paused"
  <2> DEFINE s == [sup EXCEPT !.state = IF Held' = {} THEN "running" ELSE "overridden",
                              !.over = @ \cup Held', !.busy = "no", !.pend = FALSE]
  <2>0. PICK e : e = Cmd("resume", 0, WantsPrompt(sup))
    OBVIOUS
  <2>1. e \in DaemonCommand /\ e.no = 0 /\ (Prompting(e) => sup.busy = "yes")
    <3>1. WantsPrompt(sup) \in BOOLEAN
      BY DEF WantsPrompt
    <3>2. e \in DaemonCommand
      BY <2>0, <3>1, CmdType
    <3> QED
      BY <2>0, <3>2 DEF Cmd, Prompting, WantsPrompt
  <2>2. Become([sup |-> s, cmds |-> Append(cmds, e), issued |-> issued])
    BY <1>2, <2>0, Zenon DEF OpResume
  <2>3. s.state # "paused"
    BY DEF TypeOK, DaemonTypeOK, Supervision
  <2> HIDE DEF s
  <2>4. sup' = s /\ cmds' = Append(cmds, e)
    BY <2>2 DEF Become
  <2>5. cmds \in Seq(DaemonCommand)
    BY DEF TypeOK, DaemonTypeOK
  <2>6. /\ NumbersTell(Append(cmds, e))
        /\ ~Prompting(e) /\ NoneUnsent(cmds) => NoneUnsent(Append(cmds, e))
    BY <2>1, <2>5, AppendCommand DEF PromptInv, EngineAsks
  <2>7. OnePrompt(Append(cmds, e))
    BY <1>2, <2>1, <2>5, AppendAsks DEF PromptInv, EngineAsks, Asked
  <2>8. Prompting(e) => NoneSent /\ Pressed
    BY <1>2, <2>1 DEF PromptInv, EngineAsks, Asked, Known
  <2>9. EngineAsks(s, Append(cmds, e))
    BY <2>3, <2>6, <2>7, <2>8 DEF PromptInv, EngineAsks, Asked, Known
  <2> QED
    BY <1>1, <2>4, <2>9, EngineMoves
<1>3. CASE sup.state # "paused"
  BY <1>1, <1>3, EngineMoves DEF OpResume, PromptInv
<1> QED
  BY <1>2, <1>3

LEMMA CommandEndsAsks ==
    ASSUME TypeOK, OrderInv, PromptInv, LinkMoves, cmds # <<>>, NEW result, NEW busy \in WasBusy,
           busy = "yes" /\ sup.state = "paused" /\ sup.id = Head(cmds).id /\ Head(cmds).type = "pause"
              => sup.id \in ran /\ Pressed,
           CommandEnds(result, busy)
    PROVE  PromptInv'
<1> DEFINE c == Head(cmds)
           s == IF c.type = "pause" /\ sup.state = "paused" /\ sup.id = c.id
                THEN [sup EXCEPT !.pend = @ /\ result \notin {"injected", "skipped"},
                                 !.busy = IF busy = "none" THEN @ ELSE busy]
                ELSE sup
<1>1. /\ s \in Supervision /\ s.state = sup.state /\ s.id = sup.id
      /\ sup.state = "paused" /\ s.busy = "yes" => sup.busy = "yes" \/ (sup.id \in ran /\ Pressed)
  <2>1. sup \in Supervision
    BY DEF TypeOK, DaemonTypeOK
  <2>2. /\ (sup.pend /\ result \notin {"injected", "skipped"}) \in BOOLEAN
        /\ (IF busy = "none" THEN sup.busy ELSE busy) \in WasBusy
    BY <2>1 DEF Supervision
  <2>3. \A a \in BOOLEAN, b \in WasBusy :
          LET n == [sup EXCEPT !.pend = a, !.busy = b]
          IN  n \in Supervision /\ n.state = sup.state /\ n.id = sup.id /\ n.busy = b
    BY <2>1 DEF Supervision
  <2>4. CASE c.type = "pause" /\ sup.state = "paused" /\ sup.id = c.id
    <3>1. /\ s \in Supervision /\ s.state = sup.state /\ s.id = sup.id
          /\ s.busy = IF busy = "none" THEN sup.busy ELSE busy
      BY <2>2, <2>3, <2>4, Zenon
    <3> QED
      BY <2>4, <3>1
  <2>5. CASE ~(c.type = "pause" /\ sup.state = "paused" /\ sup.id = c.id)
    BY <2>1, <2>5
  <2> QED
    BY <2>4, <2>5
<1>2. Become(Evaluated(Held, s, Tail(cmds)))
  BY Zenon DEF CommandEnds
<1> HIDE DEF s
<1>3. cmds \in Seq(DaemonCommand)
  BY DEF TypeOK, DaemonTypeOK
<1>4. EngineAsks(s, Tail(cmds))
  BY <1>1, <1>3, FirstOver DEF PromptInv
<1> QED
  BY <1>1, <1>2, <1>4, EvaluatesAsks

\* A command ends without an answer.
LEMMA UnansweredAsks ==
    ASSUME TypeOK, OrderInv, PromptInv, LinkMoves, cmds # <<>>, NEW result,
           CommandEnds(result, "none")
    PROVE  PromptInv'
<1>1. "none" \in WasBusy /\ "none" # "yes"
  BY DEF WasBusy
<1> QED
  BY <1>1, CommandEndsAsks

LEMMA FaultsAsk ==
    ASSUME TypeOK, OrderInv, PromptInv,
           AckTimeout \/ ReapStep \/ Connect \/ Restart \/ Drop \/ Crash
    PROVE  PromptInv'
<1>c. 1 .. Len(<<>>) = {}
  OBVIOUS
<1>h. ReportReturns(h, FALSE).done = h.done
  BY DEF TypeOK, HandlerTypeOK, Memory, ReportReturns
<1>p. \A r, b : CommandEnds(r, b) /\ Pressed => Pressed'
  BY DEF CommandEnds, Pressed
<1>1. CASE AckTimeout
  <2>1. cmds # <<>> /\ CommandEnds("timeout", "none")
    BY <1>1 DEF AckTimeout, InFlight
  <2>2. LinkMoves
    BY <1>1, <1>p, <2>1 DEF AckTimeout, LinkMoves
  <2> QED
    BY <2>1, <2>2, UnansweredAsks
<1>2. CASE ReapStep
  <2>1. LinkMoves /\ sup' = NoSup /\ cmds' = cmds
    BY <1>2 DEF ReapStep, Reap, LinkMoves, linkVars, launcherVars, handlerVars, Pressed
  <2>2. NoSup.state # "paused"
    BY DEF NoSup
  <2>3. EngineAsks(NoSup, cmds)
    BY <2>2 DEF PromptInv, EngineAsks, Asked, Known
  <2> QED
    BY <2>1, <2>3, EngineMoves
<1>3. CASE Connect
  <2> DEFINE register == [Message("register", 0) EXCEPT !.first = first]
  <2>1. register.kind # "ack"
    BY DEF Message
  <2>2. c2d' = <<register>> /\ UNCHANGED <<d2c, daemonVars, launcherVars>>
    BY <1>3 DEF Connect
  <2> HIDE DEF register
  <2>3. \A i \in 1 .. Len(c2d') : c2d'[i] = register
    BY <2>2
  <2>4. LinkMoves
    BY <2>1, <2>2, <2>3 DEF LinkMoves, daemonVars, launcherVars, handlerVars, Pressed
  <2> QED
    BY <2>2, <2>4, EngineMoves DEF PromptInv, daemonVars
<1>4. CASE Restart
  <2>1. LinkMoves
    BY <1>4 DEF Restart, LinkMoves, linkVars, launcherVars, handlerVars, Pressed
  <2> QED
    BY <1>4, <2>1, EngineMoves DEF PromptInv, Restart
<1>5. CASE Drop
  <2>1. Cut
    BY <1>5 DEF Drop
  <2>2. CASE InFlight
    <3>1. cmds # <<>> /\ CommandEnds("not_connected", "none")
      BY <1>5, <2>2 DEF Drop, InFlight
    <3>2. LinkMoves
      BY <1>c, <1>h, <1>p, <2>1, <3>1 DEF Cut, LinkMoves
    <3> QED
      BY <3>1, <3>2, UnansweredAsks
  <2>3. CASE ~InFlight
    <3>1. LinkMoves
      BY <1>c, <1>h, <1>5, <2>1, <2>3 DEF Cut, LinkMoves, Drop, Pressed
    <3> QED
      BY <1>5, <2>3, <3>1, EngineMoves DEF Drop, PromptInv
  <2> QED
    BY <2>2, <2>3
<1>6. CASE Crash
  <2>1. LinkMoves /\ sup' = sup /\ cmds' = <<>>
    BY <1>c, <1>h, <1>6 DEF Cut, LinkMoves, Crash, Pressed
  <2>2. /\ ~Flying(<<>>) /\ NoneUnsent(<<>>)
        /\ \A i \in 1 .. Len(<<>>) : <<>>[i].no # 0 => i = 1
    BY <1>c DEF Flying, NoneUnsent
  <2>3. NumbersTell(<<>>) /\ \A m, k : ~TellsBusy(m, <<>>, k)
    BY <2>2, NotFlying DEF PromptInv, EngineAsks
  <2>4. EngineAsks(sup, <<>>)
    BY <2>2, <2>3, EmptyAsks DEF PromptInv, EngineAsks, Asked, Known
  <2> QED
    BY <2>1, <2>4, EngineMoves
<1> QED
  BY <1>1, <1>2, <1>3, <1>4, <1>5, <1>6

LEMMA ReadRegisterAsks ==
    ASSUME TypeOK, OrderInv, PromptInv, LinkMoves, NEW m, ReadRegister(m)
    PROVE  PromptInv'
<1> DEFINE new == IF m.first
                  THEN [NoSup EXCEPT !.state = IF Held = {} THEN "running" ELSE "overridden",
                                     !.over = Held]
                  ELSE [NoSup EXCEPT !.state = "running"]
           record == IF sup.state = "none" THEN new ELSE sup
           d == Evaluated(Held, record, cmds)
           resent == [d EXCEPT !.cmds = Append(@, Cmd("pause", d.sup.id, FALSE))]
<1>1. new \in Supervision /\ new.state # "paused"
  <2>1. \A state \in {"running", "overridden"}, over \in SUBSET Instance :
           LET n == [NoSup EXCEPT !.state = state, !.over = over]
           IN  n \in Supervision /\ n.state # "paused"
    BY NewRecordType, Zenon
  <2>2. LET n == [NoSup EXCEPT !.state = "running"] IN n \in Supervision /\ n.state # "paused"
    BY NoSupType DEF NoSup, Supervision, SupStates
  <2>3. Held \in SUBSET Instance
    BY DEF Held
  <2>4. (IF Held = {} THEN "running" ELSE "overridden") \in {"running", "overridden"}
    OBVIOUS
  <2>5. CASE m.first
    BY <2>1, <2>3, <2>4, <2>5, Zenon
  <2>6. CASE ~m.first
    BY <2>2, <2>6, Zenon
  <2> QED
    BY <2>5, <2>6
<1> HIDE DEF new
<1>2. record \in Supervision /\ EngineAsks(record, cmds)
  BY <1>1 DEF TypeOK, DaemonTypeOK, PromptInv, EngineAsks, Asked, Known
<1>3. Become(IF PausePending(d.sup) THEN resent ELSE d)
  BY Zenon DEF ReadRegister, record, new
<1>4. d \in Decision
  BY <1>2, EvaluatedType DEF TypeOK, DaemonTypeOK
<1> HIDE DEF record
<1>5. EngineAsks(d.sup, d.cmds)
  <2>1. PICK e : e = d
    OBVIOUS
  <2>2. EngineAsks(e.sup, e.cmds)
    BY <1>2, <2>1, EvaluationAsks DEF PromptInv
  <2> QED
    BY <2>1, <2>2
<1> HIDE DEF d
<1>6. CASE PausePending(d.sup)
  <2>0. PICK e : e = Cmd("pause", d.sup.id, FALSE)
    OBVIOUS
  <2>1. e \in DaemonCommand /\ e.no = 0 /\ ~Prompting(e)
    BY <1>4, <2>0, CmdType DEF Cmd, Prompting, Decision, Supervision
  <2>2. sup' = d.sup /\ cmds' = Append(d.cmds, e)
    BY <1>3, <1>4, <1>6, <2>0 DEF Become, Decision
  <2>3. EngineAsks(d.sup, Append(d.cmds, e))
    BY <1>4, <1>5, <2>1, AppendedAsks DEF Decision
  <2> QED
    BY <2>2, <2>3, EngineMoves
<1>7. CASE ~PausePending(d.sup)
  <2>1. sup' = d.sup /\ cmds' = d.cmds
    BY <1>3, <1>7 DEF Become
  <2> QED
    BY <1>5, <2>1, EngineMoves
<1> QED
  BY <1>6, <1>7

LEMMA ReadSubmittedAsks ==
    ASSUME TypeOK, OrderInv, PromptInv, LinkMoves, NEW m, ReadSubmitted(m)
    PROVE  PromptInv'
<1> DEFINE s == [sup EXCEPT !.state = "overridden", !.pend = FALSE, !.over = @ \cup Held]
<1>1. CASE sup.state = "paused"
  <2>1. s \in Supervision /\ s.state # "paused"
    BY DEF TypeOK, DaemonTypeOK, Supervision, SupStates, Held
  <2>2. Become(Evaluated(Held, s, cmds))
    BY <1>1, Zenon DEF ReadSubmitted
  <2> HIDE DEF s
  <2>3. EngineAsks(s, cmds)
    BY <2>1 DEF PromptInv, EngineAsks, Asked, Known
  <2> QED
    BY <2>1, <2>2, <2>3, EvaluatesAsks
<1>2. CASE sup.state # "paused"
  BY <1>2, EngineMoves DEF ReadSubmitted, PromptInv
<1> QED
  BY <1>1, <1>2

LEMMA ReadAckAsks ==
    ASSUME TypeOK, OrderInv, PromptInv, LinkMoves, c2d # <<>>, NEW m, m = Head(c2d),
           m.kind = "ack", ReadAck(m)
    PROVE  PromptInv'
<1>1. /\ m \in ToDaemon /\ 1 \in 1 .. Len(c2d) /\ m = c2d[1]
  BY HeadTailType DEF TypeOK, LinkTypeOK
<1>2. CASE InFlight /\ Head(cmds).no = m.no
  <2>1. cmds # <<>> /\ CommandEnds(m.result, m.busy) /\ m.busy \in WasBusy
    BY <1>1, <1>2 DEF ReadAck, InFlight, ToDaemon
  <2>2. ASSUME m.busy = "yes", sup.state = "paused", sup.id = Head(cmds).id, Head(cmds).type = "pause"
        PROVE  sup.id \in ran /\ Pressed
    <3>1. TellsBusy(m, cmds, sup.id)
      BY <1>2, <2>2 DEF TellsBusy, PauseFlies, Flying, InFlight
    <3> QED
      BY <1>1, <2>2, <3>1 DEF PromptInv, EngineAsks, Known
  <2> QED
    BY <2>1, <2>2, CommandEndsAsks
<1>3. CASE ~(InFlight /\ Head(cmds).no = m.no)
  BY <1>3, EngineMoves DEF ReadAck, PromptInv
<1> QED
  BY <1>2, <1>3

LEMMA DaemonReadsAsks ==
    ASSUME TypeOK, OrderInv, PromptInv, DaemonReads
    PROVE  PromptInv'
<1>1. PICK m : m = Head(c2d)
  OBVIOUS
<1>2. m \in ToDaemon /\ c2d # <<>> /\ c2d \in Seq(ToDaemon) /\ c2d' = Tail(c2d)
  BY <1>1, HeadTailType DEF DaemonReads, TypeOK, LinkTypeOK
<1>3. \A i \in 1 .. Len(Tail(c2d)) : i + 1 \in 1 .. Len(c2d) /\ Tail(c2d)[i] = c2d[i + 1]
  BY <1>2
<1>4. /\ m.kind = "register" => ReadRegister(m)
      /\ m.kind = "submitted" => ReadSubmitted(m)
      /\ m.kind = "ack" => ReadAck(m)
  BY <1>1, <1>2 DEF DaemonReads, ToDaemon
<1>5. Pressed => Pressed'
  BY <1>2, <1>4 DEF ToDaemon, ReadRegister, ReadSubmitted, ReadAck, CommandEnds, Pressed
<1>6. d2c' = d2c \/ \E e \in ToLauncher : d2c' = Append(d2c, e) /\ e.type \notin {"pause", "resume"}
  BY DaemonReadsSends
<1>7. LinkMoves
  <2>1. UNCHANGED <<queue, w, ran, sends, h>>
    BY DEF DaemonReads
  <2> QED
    BY <1>2, <1>3, <1>5, <1>6, <2>1 DEF LinkMoves
<1> QED
  BY <1>1, <1>2, <1>4, <1>7, ReadRegisterAsks, ReadSubmittedAsks, ReadAckAsks DEF ToDaemon

\* The first command of `c` is sent as number `n`.
Sent(c, n) == [c EXCEPT ![1].no = n]
SentKeeps(c, x, n) ==
    /\ x # <<>> /\ Head(x).type = Head(c).type /\ Head(x).id = Head(c).id /\ Head(x).no = n
    /\ OnePrompt(c) => OnePrompt(x)
    /\ NoPrompts(c) => NoPrompts(x) /\ ~Prompting(Head(c))
    /\ NoneUnsent(c) => NoneUnsent(x)
    /\ OnePrompt(c) /\ Prompting(Head(c)) => NoneUnsent(x)
    /\ NoneUnsent(c) /\ Head(c).no = 0 => ~Prompting(Head(c))
    /\ (\A i \in 1 .. Len(c) : c[i].no # 0 => i = 1)
         => \A i \in 1 .. Len(x) : x[i].no # 0 => i = 1
LEMMA SentCommand ==
    ASSUME NEW c \in Seq(DaemonCommand), c # <<>>, NEW n \in Nat \ {0}, NEW x,
           x = Sent(c, n)
    PROVE  SentKeeps(c, x, n)
<1> DEFINE f == [c[1] EXCEPT !.no = n]
<1>1. /\ Head(c) = c[1] /\ 1 \in 1 .. Len(c) /\ c[1] \in DaemonCommand
      /\ \A i \in 1 .. Len(c) : c[i] \in DaemonCommand
  OBVIOUS
<1>2. f.type = c[1].type /\ f.id = c[1].id /\ f.prompt = c[1].prompt /\ f.no = n
  BY <1>1 DEF DaemonCommand
<1>3. x = [c EXCEPT ![1] = f]
  BY DEF Sent
<1> HIDE DEF f
<1>4. /\ Len(x) = Len(c) /\ x # <<>> /\ Head(x) = f /\ x[1] = f
      /\ \A i \in 1 .. Len(x) : i # 1 => x[i] = c[i]
  BY <1>1, <1>3
<1>5. \A i \in 1 .. Len(x) : i \in 1 .. Len(c) /\ (Prompting(x[i]) <=> Prompting(c[i]))
  BY <1>1, <1>2, <1>4 DEF Prompting
<1>6. OnePrompt(c) => OnePrompt(x)
  BY <1>5, Zenon DEF OnePrompt
<1>7. NoPrompts(c) => NoPrompts(x) /\ ~Prompting(Head(c))
  BY <1>1, <1>5, Zenon DEF NoPrompts
<1>8. NoneUnsent(c) => NoneUnsent(x)
  <2> SUFFICES ASSUME NoneUnsent(c), NEW i \in 1 .. Len(x), x[i].no = 0, Prompting(x[i])
               PROVE  FALSE
    BY DEF NoneUnsent
  <2>1. CASE i = 1
    BY <1>2, <1>4, <2>1
  <2>2. CASE i # 1
    BY <1>4, <1>5, <2>2 DEF NoneUnsent
  <2> QED
    BY <2>1, <2>2
<1>9. OnePrompt(c) /\ Prompting(Head(c)) => NoneUnsent(x)
  <2> SUFFICES ASSUME OnePrompt(c), Prompting(Head(c)), NEW i \in 1 .. Len(x), x[i].no = 0,
                      Prompting(x[i])
               PROVE  FALSE
    BY DEF NoneUnsent
  <2>0. Prompting(c[1]) /\ Prompting(c[i]) /\ i \in 1 .. Len(c)
    BY <1>1, <1>5
  <2>1. i = 1
    BY <1>1, <2>0, Zenon DEF OnePrompt
  <2> QED
    BY <1>2, <1>4, <2>1
<1>10. NoneUnsent(c) /\ Head(c).no = 0 => ~Prompting(Head(c))
  BY <1>1 DEF NoneUnsent
<1>11. (\A i \in 1 .. Len(c) : c[i].no # 0 => i = 1) => \A i \in 1 .. Len(x) : x[i].no # 0 => i = 1
  BY <1>4, <1>5
<1> QED
  BY <1>1, <1>2, <1>4, <1>6, <1>7, <1>8, <1>9, <1>10, <1>11 DEF SentKeeps

\* The first command goes out.
LEMMA SendAsks ==
    ASSUME TypeOK, PromptInv, cmds # <<>>, ~InFlight, NEW e \in ToLauncher,
           e.type = Head(cmds).type, e.id = Head(cmds).id, e.prompt = Head(cmds).prompt,
           e.no = sends + 1, sends' = sends + 1, cmds' = [cmds EXCEPT ![1].no = sends + 1],
           d2c' = Append(d2c, e), UNCHANGED <<sup, esc, c2d, h, w, ran, queue>>
    PROVE  PromptInv'
<1>1. /\ cmds \in Seq(DaemonCommand) /\ d2c \in Seq(ToLauncher) /\ sends \in Nat
      /\ queue \in Seq(Command) /\ c2d \in Seq(ToDaemon) /\ w.no \in Nat
  BY DEF TypeOK, DaemonTypeOK, LinkTypeOK, HandlerTypeOK, Work
<1>n. /\ \A i \in 1 .. Len(queue) : queue[i].no \in Nat
      /\ \A i \in 1 .. Len(d2c) : d2c[i].no \in Nat
      /\ \A i \in 1 .. Len(c2d) : c2d[i].no \in Nat
  <2>1. /\ \A i \in 1 .. Len(queue) : queue[i] \in Command
        /\ \A i \in 1 .. Len(d2c) : d2c[i] \in ToLauncher
        /\ \A i \in 1 .. Len(c2d) : c2d[i] \in ToDaemon
    BY <1>1
  <2> QED
    BY <2>1 DEF Command, ToLauncher, ToDaemon
<1>2. Head(cmds).no = 0 /\ (Prompting(e) <=> Prompting(Head(cmds)))
  BY DEF InFlight, Prompting
<1>3. PICK n \in Nat \ {0} : n = sends + 1 /\ n > sends
  BY <1>1
<1>4. PICK x : x = Sent(cmds, n)
  OBVIOUS
<1>5. /\ cmds' = x /\ x # <<>> /\ Head(x).type = e.type /\ Head(x).id = e.id /\ Head(x).no = n
      /\ OnePrompt(cmds) => OnePrompt(x)
      /\ NoPrompts(cmds) => NoPrompts(x) /\ ~Prompting(e)
      /\ NoneUnsent(cmds) => NoneUnsent(x) /\ ~Prompting(e)
      /\ OnePrompt(cmds) /\ Prompting(e) => NoneUnsent(x)
      /\ (\A i \in 1 .. Len(cmds) : cmds[i].no # 0 => i = 1)
           => \A i \in 1 .. Len(x) : x[i].no # 0 => i = 1
  <2>1. SentKeeps(cmds, x, n)
    BY <1>1, <1>4, SentCommand
  <2>2. cmds' = x
    BY <1>3, <1>4 DEF Sent
  <2> QED
    BY <1>2, <2>1, <2>2, Zenon DEF SentKeeps
<1>6. \A k : /\ NoPrompts(Append(d2c, e)) <=> NoPrompts(d2c) /\ ~Prompting(e)
             /\ OnePrompt(d2c) /\ (Prompting(e) => NoPrompts(d2c)) => OnePrompt(Append(d2c, e))
             /\ NoneAfter(d2c, k) /\ ~Prompting(e) => NoneAfter(Append(d2c, e), k)
  BY <1>1, AppendAsks
<1>7. Prompting(e) => NoneSent
  BY <1>5 DEF PromptInv, EngineAsks, Asked
<1>8. OneSent' /\ DoneKnown'
  BY <1>6, <1>7 DEF PromptInv, OneSent, NoneSent, Resuming, DoneKnown
<1>9. (NoneSent /\ ~Prompting(e) => NoneSent') /\ \A k : Behind(k) /\ ~Prompting(e) => Behind(k)'
  BY <1>6 DEF NoneSent, Resuming, Behind
<1>10. Asked(sup, cmds)'
  BY <1>5, <1>7, <1>9 DEF PromptInv, EngineAsks, Asked, Pressed
<1>11. \A m \in Nat : m <= sends => ~PauseFlies(x, m)
  BY <1>1, <1>3, <1>5 DEF PauseFlies
<1>12. NumbersTell(cmds)'
  <2>2. Numbered(queue, x)' /\ Numbered(d2c, x)'
    <3>1. \A i \in 1 .. Len(queue) : queue[i].no \in Nat
      BY <1>n
    <3>2. \A i \in 1 .. Len(d2c) : d2c[i].no \in Nat
      BY <1>n
    <3>3. Numbered(queue, x)'
      BY <1>1, <1>3, <1>11, <3>1 DEF PromptInv, EngineAsks, NumbersTell, Numbered
    <3>4. \A i \in 1 .. Len(d2c') : (i \in 1 .. Len(d2c) /\ d2c'[i] = d2c[i]) \/ d2c'[i] = e
      BY <1>1
    <3>5. PauseFlies(x, e.no) => e.type = "pause" /\ e.id = Head(x).id
      BY <1>5 DEF PauseFlies
    <3>6. \A i \in 1 .. Len(d2c) : d2c[i].type \in {"pause", "resume"} => d2c[i].no <= sends
      BY DEF PromptInv, EngineAsks, NumbersTell, Numbered
    <3>7. Numbered(d2c, x)'
      BY <1>1, <1>3, <1>11, <3>2, <3>4, <3>5, <3>6 DEF Numbered
    <3> QED
      BY <3>3, <3>7
  <2>3. w.no <= sends /\ \A i \in 1 .. Len(c2d) : c2d[i].kind = "ack" => c2d[i].no <= sends
    BY DEF PromptInv, EngineAsks, NumbersTell
  <2>4. w.no <= n /\ ~PauseFlies(x, w.no)
    BY <1>1, <1>3, <1>11, <2>3
  <2>5. \A i \in 1 .. Len(c2d) : c2d[i].kind = "ack" => c2d[i].no <= n
    BY <1>1, <1>3, <1>n, <2>3
  <2>6. \A i \in 1 .. Len(x) : x[i].no # 0 => i = 1
    BY <1>5 DEF PromptInv, EngineAsks, NumbersTell
  <2> QED
    BY <1>3, <1>5, <2>2, <2>4, <2>5, <2>6 DEF NumbersTell, PauseFlies
<1>13. \A i \in 1 .. Len(c2d) : ~TellsBusy(c2d[i], x, sup.id)
  <2>1. \A i \in 1 .. Len(c2d) : c2d[i].no \in Nat /\ (c2d[i].kind = "ack" => c2d[i].no <= sends)
    BY <1>n DEF PromptInv, EngineAsks, NumbersTell
  <2> QED
    BY <1>11, <2>1 DEF TellsBusy
<1>14. Known(sup, cmds)'
  BY <1>5, <1>13 DEF PromptInv, EngineAsks, Known, EscDone, Pressed
<1> QED
  BY <1>8, <1>10, <1>12, <1>14 DEF PromptInv, EngineAsks

LEMMA StartCmdAsks ==
    ASSUME TypeOK, OrderInv, PromptInv, StartCmd
    PROVE  PromptInv'
<1> DEFINE c == Head(cmds)
           unwanted == c.type = "pause" /\ ~(PausePending(sup) /\ sup.id = c.id)
           message == [kind |-> "cmd", type |-> c.type, id |-> c.id, prompt |-> c.prompt,
                       no |-> sends + 1, ok |-> TRUE]
<1>1. /\ cmds # <<>> /\ ~InFlight /\ UNCHANGED <<c2d, h, w, ran, queue>>
      /\ cmds \in Seq(DaemonCommand) /\ sup \in Supervision /\ c \in DaemonCommand
  BY HeadTailType DEF StartCmd, TypeOK, DaemonTypeOK
<1>2. CASE unwanted
  <2>1. Become(Evaluated(Held, sup, Tail(cmds))) /\ UNCHANGED <<sends, d2c, esc>>
    BY <1>2, Zenon DEF StartCmd
  <2>2. LinkMoves
    BY <1>1, <2>1 DEF LinkMoves, Pressed
  <2>3. EngineAsks(sup, Tail(cmds))
    BY <1>1, FirstOver DEF PromptInv
  <2> QED
    BY <1>1, <2>1, <2>2, <2>3, EvaluatesAsks
<1>3. CASE ~unwanted /\ ~served
  <2>1. CommandEnds("not_connected", "none") /\ UNCHANGED <<sends, d2c>>
    BY <1>3, Zenon DEF StartCmd
  <2>2. LinkMoves
    BY <1>1, <2>1 DEF LinkMoves, Pressed, CommandEnds
  <2> QED
    BY <1>1, <2>1, <2>2, UnansweredAsks
<1>4. CASE ~unwanted /\ served
  <2>1. /\ d2c' = Append(d2c, message) /\ sends' = sends + 1
        /\ cmds' = [cmds EXCEPT ![1].no = sends + 1] /\ UNCHANGED <<sup, esc>>
    BY <1>4, Zenon DEF StartCmd
  <2>2. /\ message \in ToLauncher /\ message.type = c.type /\ message.id = c.id
        /\ message.prompt = c.prompt /\ message.no = sends + 1
    BY <1>1 DEF ToLauncher, DaemonCommand, TypeOK, DaemonTypeOK
  <2> HIDE DEF message
  <2> QED
    BY <1>1, <2>1, <2>2, SendAsks
<1> QED
  BY <1>2, <1>3, <1>4

-----------------------------------------------------------------------------
(* The launcher and the prompts.                                           *)

\* What the worker does with command `c`.
Begins(c) == /\ c.type = "pause" /\ w'.pc = "look" /\ w'.id = c.id
             /\ h'.done = h.done /\ ran' = ran \cup {c.id}
AnswersAgain(c) == /\ c.type = "pause" /\ w'.pc = "ack" /\ w'.id = c.id /\ c.id = h.done.id
                   /\ w'.busy = h.done.busy /\ h'.done = h.done /\ ran' = ran
Continues(c) == /\ c.type = "resume" /\ w'.pc \in {"waitidle", "ack"} /\ w'.busy = "none"
                /\ w'.pc = "waitidle" => c.prompt
                /\ h'.done = h.done /\ ran' = ran
Takes(c) == (Begins(c) \/ AnswersAgain(c) \/ Continues(c)) /\ w'.no = c.no /\ esc' = esc

LEMMA TakeTakes ==
    ASSUME HandlerTypeOK, NEW c \in Command, Take(c)
    PROVE  Takes(c)
<1> DEFINE work == [NoWork EXCEPT !.id = c.id, !.no = c.no, !.conn = c.conn]
           asked == [NoWork EXCEPT !.no = c.no, !.conn = c.conn, !.prompt = c.prompt]
<1>1. h \in Memory /\ c.type \in {"pause", "resume"} /\ c.id \in Nat
  BY DEF HandlerTypeOK, Command
<1>2. /\ work \in Work /\ work.id = c.id /\ work.no = c.no
      /\ asked \in Work /\ asked.no = c.no
  BY NoWorkType DEF Work, Command, NoWork
<1>3. esc' = esc
  BY DEF Take
<1>4. CASE c.type = "pause" /\ h.done.id # c.id
  <2>1. /\ w' = [work EXCEPT !.pc = "look"]
        /\ h' = [(IF IsCurrent(h, c.id) THEN h ELSE NewPause(h, c.id)) EXCEPT !.paused = TRUE]
        /\ ran' = ran \cup {c.id}
    BY <1>4, Zenon DEF Take, TakePause
  <2> HIDE DEF work
  <2>2. w'.pc = "look" /\ w'.id = c.id /\ w'.no = c.no
    BY <1>2, <2>1 DEF Work
  <2>3. h'.done = h.done
    <3>1. NewPause(h, c.id) \in Memory /\ NewPause(h, c.id).done = h.done
      BY <1>1 DEF Memory, NewPause
    <3>2. \A f \in Memory : [f EXCEPT !.paused = TRUE].done = f.done
      BY DEF Memory
    <3> QED
      BY <1>1, <2>1, <3>1, <3>2, Zenon
  <2> QED
    BY <1>3, <1>4, <2>1, <2>2, <2>3 DEF Takes, Begins
<1>5. CASE c.type = "pause" /\ h.done.id = c.id
  <2>1. w' = Answer(work, h.done.result, h.done.busy) /\ UNCHANGED <<h, ran>>
    BY <1>5, Zenon DEF Take, TakePause
  <2> HIDE DEF work
  <2>2. w'.pc = "ack" /\ w'.id = c.id /\ w'.no = c.no /\ w'.busy = h.done.busy
    BY <1>2, <2>1 DEF Answer, Work
  <2> QED
    BY <1>3, <1>5, <2>1, <2>2 DEF Takes, AnswersAgain
<1>6. CASE c.type = "resume"
  <2>1. /\ h' = [h EXCEPT !.paused = FALSE] /\ ran' = ran
        /\ \/ c.prompt /\ w' = [asked EXCEPT !.pc = "waitidle"]
           \/ w' = Answer(asked, "skipped", "none")
    BY <1>6, Zenon DEF Take, TakeResume
  <2>2. asked.busy = "none"
    BY DEF NoWork
  <2> HIDE DEF asked
  <2>3. /\ w'.pc \in {"waitidle", "ack"} /\ (w'.pc = "waitidle" => c.prompt)
        /\ w'.busy = "none" /\ w'.no = c.no
    BY <1>2, <2>1, <2>2 DEF Answer, Work
  <2>4. h'.done = h.done
    BY <1>1, <2>1 DEF Memory
  <2> QED
    BY <1>3, <1>6, <2>1, <2>3, <2>4 DEF Takes, Continues
<1> QED
  BY <1>1, <1>4, <1>5, <1>6

\* A prompt gets no nearer than the worker, and none is left behind a pause that is begun.
Nearer ==
    /\ UNCHANGED <<sup, cmds, sends, esc>>
    /\ ran \subseteq ran' /\ (NoneSent => NoneSent')
    /\ \A k : Behind(k) => IF k \in ran' THEN k \in ran \/ NoneSent' ELSE Behind(k)'

LEMMA NearerAsks ==
    ASSUME Asked(sup, cmds), Nearer
    PROVE  Asked(sup, cmds)'
<1>1. sup.state = "paused" => IF sup.id \in ran' THEN NoneSent' ELSE Behind(sup.id)'
  BY DEF Asked, Nearer
<1> QED
  BY <1>1 DEF Asked, Nearer, Pressed

\* The worker takes the next command: the first of the queue or, when it is empty, of the
\* connection.
LEMMA TakeAsks ==
    ASSUME TypeOK, OrderInv, PromptInv, w.pc \in {"idle", "ack"}, UNCHANGED <<sup, cmds, sends>>,
           NEW e, NEW c \in Command, c.type = e.type, c.id = e.id, c.prompt = e.prompt, c.no = e.no,
           Takes(c),
           \/ d2c # <<>> /\ queue = <<>> /\ e = Head(d2c) /\ d2c' = Tail(d2c) /\ queue' = queue
           \/ queue # <<>> /\ e = Head(queue) /\ queue' = Tail(queue) /\ d2c' = d2c,
           \A i \in 1 .. Len(c2d') :
              c2d'[i].kind = "ack" =>
                  \/ \E j \in 1 .. Len(c2d) : c2d'[i] = c2d[j]
                  \/ w.pc = "ack" /\ c2d'[i].no = w.no /\ c2d'[i].busy = w.busy
    PROVE  PromptInv'
<1>1. /\ d2c \in Seq(ToLauncher) /\ queue \in Seq(Command)
      /\ d2c # <<>> => Head(d2c) \in ToLauncher
      /\ queue # <<>> => Head(queue) \in Command
      /\ e.type \in {"pause", "resume"} /\ e.id \in Nat /\ ran \subseteq Nat
  BY HeadTailType DEF TypeOK, LinkTypeOK, HandlerTypeOK, Command
<1>2. /\ ~Resuming /\ w'.pc \notin PauseSteps \ {"look", "guard"}
      /\ Resuming' => Prompting(e)
      /\ e.type = "pause" => ~Prompting(e)
      /\ w'.pc # "idle"
  BY DEF Takes, Begins, AnswersAgain, Continues, Resuming, Prompting, ResumeSteps, PauseSteps
<1>3. /\ (NoPrompts(queue') /\ NoPrompts(d2c')) \/ ~Prompting(e)
      /\ NoPrompts(queue) => NoPrompts(queue')
      /\ NoPrompts(d2c) => NoPrompts(d2c')
      /\ OnePrompt(queue') /\ OnePrompt(d2c')
      /\ NoPrompts(queue) /\ NoPrompts(d2c) => ~Prompting(e)
      /\ \A k : Behind(k) =>
            /\ NoneAfter(queue', k) /\ NoneAfter(d2c', k) /\ (HasNot(queue', k) \/ NoPrompts(d2c'))
            /\ e.type = "pause" /\ e.id = k => NoPrompts(queue') /\ NoPrompts(d2c')
  <2>1. CASE d2c # <<>> /\ queue = <<>> /\ e = Head(d2c) /\ d2c' = Tail(d2c) /\ queue' = queue
    <3>1. \A k : /\ NoPrompts(d2c) => NoPrompts(Tail(d2c)) /\ ~Prompting(Head(d2c))
                 /\ OnePrompt(d2c) => OnePrompt(Tail(d2c)) /\ (Prompting(Head(d2c)) => NoPrompts(Tail(d2c)))
                 /\ NoneAfter(d2c, k) =>
                      /\ NoneAfter(Tail(d2c), k)
                      /\ Head(d2c).type = "pause" /\ Head(d2c).id = k => NoPrompts(Tail(d2c))
      BY <1>1, <2>1, TailAsks
    <3>2. \A k : NoPrompts(<<>>) /\ OnePrompt(<<>>) /\ NoneAfter(<<>>, k) /\ HasNot(<<>>, k)
      BY EmptyAsks
    <3>3. OnePrompt(d2c) /\ queue' = <<>> /\ e = Head(d2c) /\ d2c' = Tail(d2c)
      BY <2>1 DEF PromptInv, OneSent
    <3>4. /\ (NoPrompts(queue') /\ NoPrompts(d2c')) \/ ~Prompting(e)
          /\ OnePrompt(queue') /\ OnePrompt(d2c')
          /\ NoPrompts(queue) => NoPrompts(queue')
          /\ NoPrompts(d2c) => NoPrompts(d2c')
          /\ NoPrompts(queue) /\ NoPrompts(d2c) => ~Prompting(e)
      BY <3>1, <3>2, <3>3, Zenon
    <3>5. ASSUME NEW k, Behind(k)
          PROVE  /\ NoneAfter(queue', k) /\ NoneAfter(d2c', k) /\ HasNot(queue', k)
                 /\ e.type = "pause" /\ e.id = k => NoPrompts(queue') /\ NoPrompts(d2c')
      BY <3>1, <3>2, <3>3, <3>5, Zenon DEF Behind
    <3> QED
      BY <3>4, <3>5, Zenon
  <2>2. CASE queue # <<>> /\ e = Head(queue) /\ queue' = Tail(queue) /\ d2c' = d2c
    <3>1. \A k : /\ NoPrompts(queue) => NoPrompts(Tail(queue)) /\ ~Prompting(Head(queue))
                 /\ OnePrompt(queue) =>
                      OnePrompt(Tail(queue)) /\ (Prompting(Head(queue)) => NoPrompts(Tail(queue)))
                 /\ NoneAfter(queue, k) =>
                      /\ NoneAfter(Tail(queue), k)
                      /\ Head(queue).type = "pause" /\ Head(queue).id = k => NoPrompts(Tail(queue))
                 /\ HasNot(queue, k) =>
                      HasNot(Tail(queue), k) /\ (Head(queue).type = "pause" => Head(queue).id # k)
      BY <1>1, <2>2, TailAsks
    <3>2. OnePrompt(queue) /\ OnePrompt(d2c) /\ (NoPrompts(queue) \/ NoPrompts(d2c))
      BY DEF PromptInv, OneSent
    <3>3. /\ (NoPrompts(queue') /\ NoPrompts(d2c')) \/ ~Prompting(e)
          /\ OnePrompt(queue') /\ OnePrompt(d2c')
          /\ NoPrompts(queue) => NoPrompts(queue')
          /\ NoPrompts(d2c) => NoPrompts(d2c')
          /\ NoPrompts(queue) /\ NoPrompts(d2c) => ~Prompting(e)
      BY <2>2, <3>1, <3>2, Zenon
    <3>4. ASSUME NEW k, Behind(k)
          PROVE  /\ NoneAfter(queue', k) /\ NoneAfter(d2c', k) /\ (HasNot(queue', k) \/ NoPrompts(d2c'))
                 /\ e.type = "pause" /\ e.id = k => NoPrompts(queue') /\ NoPrompts(d2c')
      BY <2>2, <3>1, <3>4, Zenon DEF Behind
    <3> QED
      BY <3>3, <3>4, Zenon
  <2> QED
    BY <2>1, <2>2
<1>4. OneSent'
  BY <1>2, <1>3 DEF PromptInv, OneSent
<1>5. NoneSent => NoneSent'
  BY <1>2, <1>3 DEF NoneSent
<1>6. \A k : k \in ran' /\ k \notin ran => e.type = "pause" /\ e.id = k /\ w'.pc = "look"
  BY DEF Takes, Begins, AnswersAgain, Continues
<1>7. Nearer
  <2>1. UNCHANGED <<sup, cmds, sends, esc>> /\ ran \subseteq ran'
    BY DEF Takes, Begins, AnswersAgain, Continues
  <2>2. "look" \notin ResumeSteps
    BY DEF ResumeSteps
  <2>3. ASSUME NEW k, Behind(k)
        PROVE  IF k \in ran' THEN k \in ran \/ NoneSent' ELSE Behind(k)'
    BY <1>3, <1>6, <2>2, <2>3 DEF Behind, NoneSent, Resuming
  <2> QED
    BY <1>5, <2>1, <2>3 DEF Nearer
<1>8. Asked(sup, cmds)'
  BY <1>7, NearerAsks DEF PromptInv, EngineAsks
<1>9. DoneKnown'
  BY DEF PromptInv, DoneKnown, Takes, Begins, AnswersAgain, Continues
<1>10. NumbersTell(cmds)'
  <2>1. /\ Numbered(queue', cmds) /\ Numbered(d2c', cmds) /\ e.no <= sends
        /\ PauseFlies(cmds, e.no) => e.type = "pause" /\ e.id = Head(cmds).id
    <3>1. Numbered(queue, cmds) /\ Numbered(d2c, cmds)
      BY DEF PromptInv, EngineAsks, NumbersTell
    <3>2. d2c # <<>> =>
            /\ Numbered(Tail(d2c), cmds)
            /\ Head(d2c).type \in {"pause", "resume"} =>
                 /\ Head(d2c).no <= sends
                 /\ PauseFlies(cmds, Head(d2c).no) =>
                      Head(d2c).type = "pause" /\ Head(d2c).id = Head(cmds).id
      BY <1>1, <3>1, NumberedKeeps
    <3>3. queue # <<>> =>
            /\ Numbered(Tail(queue), cmds)
            /\ Head(queue).type \in {"pause", "resume"} =>
                 /\ Head(queue).no <= sends
                 /\ PauseFlies(cmds, Head(queue).no) =>
                      Head(queue).type = "pause" /\ Head(queue).id = Head(cmds).id
      BY <1>1, <3>1, NumberedKeeps
    <3> QED
      BY <1>1, <3>1, <3>2, <3>3
  <2>2. Numbered(queue, cmds)' /\ Numbered(d2c, cmds)'
    BY <2>1 DEF Numbered, PauseFlies, Flying
  <2>3. w'.no = e.no /\ (PauseFlies(cmds, e.no) => w'.id = Head(cmds).id)
    BY <2>1 DEF Takes, Begins, AnswersAgain, Continues
  <2>4. \A i \in 1 .. Len(c2d') : c2d'[i].kind = "ack" => c2d'[i].no <= sends
    BY DEF PromptInv, EngineAsks, NumbersTell
  <2>5. \A i \in 1 .. Len(cmds) : cmds[i].no # 0 => i = 1
    BY DEF PromptInv, EngineAsks, NumbersTell
  <2> QED
    BY <2>1, <2>2, <2>3, <2>4, <2>5 DEF NumbersTell, PauseFlies, Flying
<1>11. Known(sup, cmds)'
  <2>1. SUFFICES ASSUME sup.state = "paused"
                 PROVE  /\ sup.busy = "yes" => sup.id \in ran' /\ Pressed'
                        /\ h'.done.id = sup.id /\ h'.done.busy = "yes" => Pressed'
                        /\ EscDone(sup.id)' => Pressed'
                        /\ \A i \in 1 .. Len(c2d') :
                              TellsBusy(c2d'[i], cmds, sup.id) => sup.id \in ran' /\ Pressed'
    BY DEF Known, TellsBusy, PauseFlies, Flying
  <2>2. /\ sup.busy = "yes" => sup.id \in ran /\ Pressed
        /\ h.done.id = sup.id /\ h.done.busy = "yes" => Pressed
        /\ \A i \in 1 .. Len(c2d) : TellsBusy(c2d[i], cmds, sup.id) => sup.id \in ran /\ Pressed
    BY <2>1 DEF PromptInv, EngineAsks, Known
  <2>3. ran \subseteq ran' /\ (Pressed => Pressed') /\ h'.done = h.done /\ ~EscDone(sup.id)'
    BY <1>2, <1>7 DEF Nearer, Pressed, EscDone, Takes, Begins, AnswersAgain, Continues
  <2>4. ASSUME NEW i \in 1 .. Len(c2d'), TellsBusy(c2d'[i], cmds, sup.id)
        PROVE  sup.id \in ran /\ Pressed
    <3>1. CASE \E j \in 1 .. Len(c2d) : c2d'[i] = c2d[j]
      BY <2>2, <2>4, <3>1
    <3>2. CASE w.pc = "ack" /\ c2d'[i].no = w.no /\ c2d'[i].busy = w.busy
      <4>1. w.id = sup.id /\ w.busy = "yes"
        BY <2>4, <3>2 DEF TellsBusy, PromptInv, EngineAsks, NumbersTell
      <4> QED
        BY <2>2, <3>2, <4>1 DEF PromptInv, DoneKnown
    <3> QED
      BY <2>4, <3>1, <3>2 DEF TellsBusy
  <2> QED
    BY <2>2, <2>3, <2>4
<1> QED
  BY <1>4, <1>8, <1>9, <1>10, <1>11 DEF PromptInv, EngineAsks

\* An override report is no ack.
LEMMA NoAckAppended ==
    ASSUME c2d \in Seq(ToDaemon), c2d' = c2d \/ \E no : c2d' = Append(c2d, Message("submitted", no)),
           NEW i \in 1 .. Len(c2d'), c2d'[i].kind = "ack"
    PROVE  \E j \in 1 .. Len(c2d) : c2d'[i] = c2d[j]
<1>1. \A no : Message("submitted", no).kind # "ack"
  BY DEF Message
<1>2. CASE c2d' = c2d
  BY <1>2
<1>3. CASE \E no : c2d' = Append(c2d, Message("submitted", no))
  <2>1. PICK no, x : x = Message("submitted", no) /\ c2d' = Append(c2d, x)
    BY <1>3
  <2>2. (i \in 1 .. Len(c2d) /\ c2d'[i] = c2d[i]) \/ c2d'[i] = x
    BY <2>1
  <2> QED
    BY <1>1, <2>1, <2>2
<1> QED
  BY <1>2, <1>3

\* A busy worker leaves the command in the queue.
LEMMA QueueAsks ==
    ASSUME TypeOK, PromptInv, UNCHANGED <<sup, cmds, sends, esc, h, w, ran, c2d>>,
           d2c # <<>>, d2c' = Tail(d2c), NEW c \in Command, queue' = Append(queue, c),
           c.type = Head(d2c).type, c.id = Head(d2c).id, c.prompt = Head(d2c).prompt,
           c.no = Head(d2c).no
    PROVE  PromptInv'
<1> DEFINE e == Head(d2c)
<1>1. /\ d2c \in Seq(ToLauncher) /\ queue \in Seq(Command) /\ e \in ToLauncher
      /\ c.type \in {"pause", "resume"}
  BY HeadTailType DEF TypeOK, LinkTypeOK, Command
<1>2. Prompting(c) <=> Prompting(e)
  BY DEF Prompting
<1>3. \A k : /\ NoPrompts(d2c) => NoPrompts(Tail(d2c)) /\ ~Prompting(e)
             /\ OnePrompt(d2c) => OnePrompt(Tail(d2c)) /\ (Prompting(e) => NoPrompts(Tail(d2c)))
             /\ NoneAfter(d2c, k) =>
                  /\ NoneAfter(Tail(d2c), k)
                  /\ e.type = "pause" /\ e.id = k => NoPrompts(Tail(d2c))
  BY <1>1, TailAsks
<1>4. \A k : /\ NoPrompts(queue') <=> NoPrompts(queue) /\ ~Prompting(c)
             /\ OnePrompt(queue) /\ (Prompting(c) => NoPrompts(queue)) => OnePrompt(queue')
             /\ NoneAfter(queue, k) /\ (Prompting(c) => HasNot(queue, k)) => NoneAfter(queue', k)
             /\ HasNot(queue', k) <=> HasNot(queue, k) /\ (c.type = "pause" => c.id # k)
  BY <1>1, AppendAsks
<1> HIDE DEF e
<1>5. OneSent' /\ DoneKnown'
  <2>1. DoneKnown'
    BY DEF PromptInv, DoneKnown
  <2>2. OneSent'
    BY <1>2, <1>3, <1>4, Zenon DEF PromptInv, OneSent, Resuming
  <2> QED
    BY <2>1, <2>2
<1>6. NoneSent => NoneSent'
  BY <1>2, <1>3, <1>4, Zenon DEF NoneSent, Resuming
<1>7. ASSUME NEW k, Behind(k)
      PROVE  Behind(k)'
  <2>1. Prompting(c) => HasNot(queue, k)
    BY <1>2, <1>3, <1>7, Zenon DEF Behind
  <2>2. NoneAfter(queue, k)' /\ NoneAfter(d2c, k)'
    BY <1>3, <1>4, <1>7, <2>1, Zenon DEF Behind
  <2>3. HasNot(queue, k)' \/ NoPrompts(d2c)'
    BY <1>3, <1>4, <1>7, Zenon DEF Behind, e
  <2> QED
    BY <2>2, <2>3, Zenon DEF Behind
<1>8. Asked(sup, cmds)'
  <2>1. Nearer
    BY <1>6, <1>7 DEF Nearer
  <2> QED
    BY <2>1, NearerAsks DEF PromptInv, EngineAsks
<1>9. NumbersTell(cmds)'
  <2>1. Numbered(queue, cmds) /\ Numbered(d2c, cmds)
    BY DEF PromptInv, EngineAsks, NumbersTell
  <2>2. /\ Numbered(Tail(d2c), cmds)
        /\ e.type \in {"pause", "resume"} =>
             /\ e.no <= sends
             /\ PauseFlies(cmds, e.no) => e.type = "pause" /\ e.id = Head(cmds).id
    BY <1>1, <2>1, NumberedKeeps DEF e
  <2>3. Numbered(Append(queue, c), cmds)
    BY <1>1, <2>1, <2>2, NumberedKeeps DEF e
  <2>4. Numbered(queue, cmds)' /\ Numbered(d2c, cmds)'
    BY <2>2, <2>3 DEF Numbered, PauseFlies, Flying
  <2> QED
    BY <2>4 DEF PromptInv, EngineAsks, NumbersTell, PauseFlies, Flying
<1>10. Known(sup, cmds)'
  BY DEF PromptInv, EngineAsks, Known, EscDone, Pressed, TellsBusy, PauseFlies, Flying
<1> QED
  BY <1>5, <1>8, <1>9, <1>10 DEF PromptInv, EngineAsks

LEMMA LauncherReadsAsks ==
    ASSUME TypeOK, OrderInv, PromptInv, LauncherReads
    PROVE  PromptInv'
<1> DEFINE m == Head(d2c)
           c == [type |-> m.type, id |-> m.id, prompt |-> m.prompt, no |-> m.no, conn |-> conn]
<1>1. /\ d2c \in Seq(ToLauncher) /\ d2c # <<>> /\ m \in ToLauncher /\ d2c' = Tail(d2c)
      /\ UNCHANGED <<sup, cmds, sends>> /\ h \in Memory
  BY HeadTailType DEF LauncherReads, TypeOK, LinkTypeOK, HandlerTypeOK, daemonVars
<1>2. CASE m.kind # "cmd"
  <2>1. UNCHANGED <<queue, w, ran, esc>>
    BY <1>1, <1>2, Zenon DEF LauncherReads, history, ToLauncher
  <2>2. h'.done = h.done
    <3>1. CASE m.kind = "registered"
      <4>1. Reports(ApplySupervision(h, m.type, m.id), TRUE) /\ m.id \in Nat
        BY <1>1, <3>1, PauseIds DEF LauncherReads
      <4> QED
        BY <1>1, <4>1, ApplySupervisionType, SupervisionDone, ReportsDone
    <3>2. CASE m.kind = "noted"
      <4>1. h' = h \/ h' = ReportReturns(h, m.ok)
        BY <3>2 DEF LauncherReads
      <4> QED
        BY <1>1, <4>1 DEF ReportReturns, Memory
    <3> QED
      BY <1>1, <1>2, <3>1, <3>2 DEF ToLauncher
  <2>3. \A i \in 1 .. Len(c2d') :
           c2d'[i].kind = "ack" => \E j \in 1 .. Len(c2d) : c2d'[i] = c2d[j]
    <3>1. c2d' = c2d \/ \E no : c2d' = Append(c2d, Message("submitted", no))
      BY <1>1, <1>2 DEF LauncherReads, Reports, ToLauncher
    <3> QED
      BY <3>1, NoAckAppended DEF TypeOK, LinkTypeOK
  <2>4. LinkMoves
    BY <1>1, <2>1, <2>2, <2>3 DEF LinkMoves, Pressed
  <2> QED
    BY <1>1, <2>4, EngineMoves DEF PromptInv
<1>3. CASE m.kind = "cmd"
  <2>1. /\ c \in Command /\ c.type = m.type /\ c.id = m.id /\ c.prompt = m.prompt /\ c.no = m.no
    BY <1>1, <1>3 DEF ToLauncher, Command, TypeOK, LinkTypeOK
  <2>2. CASE w.pc = "idle"
    <3>1. Take(c) /\ queue' = queue /\ queue = <<>> /\ c2d' = c2d
      BY <1>3, <2>2 DEF LauncherReads, OrderInv, PipelineInv
    <3> HIDE DEF c
    <3>2. Takes(c)
      BY <2>1, <3>1, TakeTakes DEF TypeOK
    <3>3. PICK e : e = m
      OBVIOUS
    <3> QED
      BY <1>1, <2>1, <2>2, <3>1, <3>2, <3>3, TakeAsks
  <2>3. CASE w.pc # "idle"
    <3>1. queue' = Append(queue, c) /\ UNCHANGED <<h, w, ran, esc, c2d>>
      BY <1>3, <2>3, Zenon DEF LauncherReads, handlerVars
    <3> HIDE DEF c
    <3> QED
      BY <1>1, <2>1, <3>1, QueueAsks
  <2> QED
    BY <2>2, <2>3
<1> QED
  BY <1>2, <1>3

LEMMA SendAckAsks ==
    ASSUME TypeOK, OrderInv, PromptInv, SendAck
    PROVE  PromptInv'
<1> DEFINE ack == [Message("ack", w.no) EXCEPT !.result = w.result, !.busy = w.busy]
<1>1. /\ queue \in Seq(Command) /\ c2d \in Seq(ToDaemon) /\ w.pc = "ack" /\ w \in Work
      /\ UNCHANGED <<sup, cmds, sends, d2c>> /\ (c2d' = c2d \/ c2d' = Append(c2d, ack))
  BY DEF SendAck, TypeOK, HandlerTypeOK, LinkTypeOK, daemonVars
<1>2. ack.no = w.no /\ ack.busy = w.busy
  BY DEF Message
<1> HIDE DEF ack
<1>3. \A i \in 1 .. Len(c2d') :
         c2d'[i].kind = "ack" =>
             \/ \E j \in 1 .. Len(c2d) : c2d'[i] = c2d[j]
             \/ w.pc = "ack" /\ c2d'[i].no = w.no /\ c2d'[i].busy = w.busy
  <2>1. \A i \in 1 .. Len(Append(c2d, ack)) :
           (i \in 1 .. Len(c2d) /\ Append(c2d, ack)[i] = c2d[i]) \/ Append(c2d, ack)[i] = ack
    BY <1>1
  <2> QED
    BY <1>1, <1>2, <2>1
<1>4. CASE queue # <<>>
  <2>0. PICK c : c = Head(queue)
    OBVIOUS
  <2>1. Take(c) /\ queue' = Tail(queue) /\ c \in Command
    BY <1>1, <1>4, <2>0, HeadTailType DEF SendAck
  <2>2. Takes(c)
    BY <2>1, TakeTakes DEF TypeOK
  <2> QED
    BY <1>1, <1>3, <1>4, <2>0, <2>1, <2>2, TakeAsks
<1>5. CASE queue = <<>>
  <2>1. w' = NoWork /\ UNCHANGED <<h, ran, esc, queue>>
    BY <1>5 DEF SendAck, history
  <2>2. /\ w'.pc = "idle" /\ w'.no = 0 /\ ~Resuming' /\ ~Resuming /\ \A k : ~EscDone(k)'
    BY <1>1, <2>1 DEF NoWork, Resuming, ResumeSteps, EscDone, PauseSteps
  <2>3. OneSent' /\ DoneKnown' /\ (NoneSent => NoneSent') /\ \A k : Behind(k) => Behind(k)'
    BY <1>1, <2>1, <2>2 DEF PromptInv, OneSent, DoneKnown, NoneSent, Behind
  <2>4. Asked(sup, cmds)'
    <3>1. Nearer
      BY <1>1, <2>1, <2>3 DEF Nearer
    <3> QED
      BY <3>1, NearerAsks DEF PromptInv, EngineAsks
  <2>5. NumbersTell(cmds)'
    <3>1. Numbered(queue, cmds)' /\ Numbered(d2c, cmds)'
      BY <1>1, <2>1 DEF PromptInv, EngineAsks, NumbersTell, Numbered, PauseFlies, Flying
    <3>2. \A i \in 1 .. Len(c2d') : c2d'[i].kind = "ack" => c2d'[i].no <= sends
      BY <1>3 DEF PromptInv, EngineAsks, NumbersTell
    <3>3. 0 <= sends
      BY DEF TypeOK, DaemonTypeOK
    <3> QED
      BY <1>1, <2>2, <3>1, <3>2, <3>3 DEF PromptInv, EngineAsks, NumbersTell, PauseFlies, Flying
  <2>6. Known(sup, cmds)'
    <3>1. ASSUME sup.state = "paused", NEW i \in 1 .. Len(c2d'), TellsBusy(c2d'[i], cmds, sup.id)
          PROVE  sup.id \in ran /\ Pressed
      <4>1. CASE \E j \in 1 .. Len(c2d) : c2d'[i] = c2d[j]
        BY <3>1, <4>1 DEF PromptInv, EngineAsks, Known
      <4>2. CASE w.pc = "ack" /\ c2d'[i].no = w.no /\ c2d'[i].busy = w.busy
        <5>1. w.id = sup.id /\ w.busy = "yes"
          BY <3>1, <4>2 DEF TellsBusy, PromptInv, EngineAsks, NumbersTell
        <5> QED
          BY <3>1, <4>2, <5>1 DEF PromptInv, EngineAsks, Known, DoneKnown
      <4> QED
        BY <1>3, <3>1, <4>1, <4>2 DEF TellsBusy
    <3> QED
      BY <1>1, <2>1, <2>2, <3>1 DEF PromptInv, EngineAsks, Known, Pressed, TellsBusy, PauseFlies, Flying
  <2> QED
    BY <2>3, <2>4, <2>5, <2>6 DEF PromptInv, EngineAsks
<1> QED
  BY <1>4, <1>5

LEMMA HandleAsks ==
    ASSUME TypeOK, OrderInv, PromptInv, Handle
    PROVE  PromptInv'
<1>1. /\ UNCHANGED <<sup, cmds, sends, c2d, d2c, queue, ran>>
      /\ PauseGoesOn \/ PauseEndsAs \/ ResumeGoesOn
  BY HandlerStepKinds, HandlerStepAsks DEF Handle, TypeOK, daemonVars, linkVars
<1>2. w'.no = w.no /\ w'.id = w.id /\ w.pc # "idle"
  BY <1>1 DEF PauseGoesOn, PauseEndsAs, ResumeGoesOn, GoesOn, Ends, Resumes, PauseSteps, ResumeSteps
<1>3. Resuming' => Resuming
  BY <1>1 DEF PauseGoesOn, PauseEndsAs, ResumeGoesOn, GoesOn, Ends, Resumes, PauseSteps,
              ResumeSteps, Resuming
<1>4. OneSent' /\ (NoneSent => NoneSent') /\ \A k : Behind(k)' <=> Behind(k)
  BY <1>1, <1>3 DEF PromptInv, OneSent, NoneSent, Behind
<1>5. NumbersTell(cmds)'
  <2>1. Numbered(queue, cmds)' /\ Numbered(d2c, cmds)'
    BY <1>1 DEF PromptInv, EngineAsks, NumbersTell, Numbered, PauseFlies, Flying
  <2> QED
    BY <1>1, <1>2, <2>1 DEF PromptInv, EngineAsks, NumbersTell, PauseFlies, Flying
<1>6. ASSUME Pressed => Pressed', h'.done = h.done \/ PauseEndsAs,
             \A k : EscDone(k)' => EscDone(k) \/ Pressed'
      PROVE  Asked(sup, cmds)' /\ Known(sup, cmds)'
  <2>1. Asked(sup, cmds)'
    BY <1>1, <1>4, <1>6 DEF PromptInv, EngineAsks, Asked
  <2>2. ASSUME PauseEndsAs, sup.state = "paused", h'.done.id = sup.id, h'.done.busy = "yes"
        PROVE  Pressed'
    BY <1>6, <2>2 DEF PauseEndsAs, Ends, PromptInv, EngineAsks, Known
  <2>3. \A i : TellsBusy(c2d[i], cmds, sup.id)' <=> TellsBusy(c2d[i], cmds, sup.id)
    BY <1>1 DEF TellsBusy, PauseFlies, Flying
  <2>4. Known(sup, cmds)'
    BY <1>1, <1>6, <2>2, <2>3 DEF PromptInv, EngineAsks, Known
  <2> QED
    BY <2>1, <2>4
<1>7. CASE PauseGoesOn
  <2>1. DoneKnown'
    BY <1>1, <1>7 DEF PromptInv, DoneKnown, PauseGoesOn, GoesOn, PauseSteps
  <2> QED
    BY <1>4, <1>5, <1>6, <1>7, <2>1 DEF PromptInv, EngineAsks, PauseGoesOn, GoesOn
<1>8. CASE PauseEndsAs
  <2>1. DoneKnown'
    BY <1>1, <1>8 DEF OrderInv, StartedInv, DoneKnown, PauseEndsAs, Ends
  <2>2. \A k : ~EscDone(k)'
    BY <1>8 DEF PauseEndsAs, Ends, EscDone, PauseSteps
  <2>3. Pressed => Pressed'
    BY <1>8 DEF PauseEndsAs, Pressed
  <2> QED
    BY <1>4, <1>5, <1>6, <1>8, <2>1, <2>2, <2>3 DEF PromptInv, EngineAsks
<1>9. CASE ResumeGoesOn
  <2>1. DoneKnown'
    BY <1>1, <1>9 DEF PromptInv, DoneKnown, ResumeGoesOn, Resumes, ResumeSteps
  <2>2. h'.done = h.done /\ \A k : ~EscDone(k)'
    BY <1>9 DEF ResumeGoesOn, Resumes, EscDone, PauseSteps, ResumeSteps
  <2>3. CASE esc' = esc
    <3>1. Pressed => Pressed'
      BY <2>3 DEF Pressed
    <3> QED
      BY <1>4, <1>5, <1>6, <2>1, <2>2, <3>1 DEF PromptInv, EngineAsks
  <2>4. CASE w.pc = "submit" /\ w'.pc = "ack"
    <3>1. Resuming /\ ~NoneSent /\ ~Resuming'
      BY <2>4 DEF Resuming, NoneSent, ResumeSteps
    <3>2. NoneUnsent(cmds) /\ NoneSent'
      BY <1>1, <3>1 DEF PromptInv, EngineAsks, Asked, OneSent, NoneSent
    <3>3. sup.state = "paused" => NoPrompts(cmds) /\ sup.id \notin ran /\ Behind(sup.id)
      BY <3>1 DEF PromptInv, EngineAsks, Asked
    <3>4. Asked(sup, cmds)'
      BY <1>1, <1>4, <3>2, <3>3 DEF PromptInv, EngineAsks, Asked, NoneUnsent
    <3>5. \A i : TellsBusy(c2d[i], cmds, sup.id)' <=> TellsBusy(c2d[i], cmds, sup.id)
      BY <1>1 DEF TellsBusy, PauseFlies, Flying
    <3>6. Known(sup, cmds)'
      BY <1>1, <2>2, <3>3, <3>5 DEF PromptInv, EngineAsks, Known, DoneKnown
    <3> QED
      BY <1>4, <1>5, <2>1, <3>4, <3>6 DEF PromptInv, EngineAsks
  <2> QED
    BY <1>9, <2>3, <2>4 DEF ResumeGoesOn
<1> QED
  BY <1>1, <1>7, <1>8, <1>9

LEMMA UserStepAsks ==
    ASSUME TypeOK, OrderInv, PromptInv, ReportTimeout \/ User \/ Around \/ UNCHANGED vars
    PROVE  PromptInv'
<1>1. UNCHANGED <<queue, w, ran, sends, sup, cmds, d2c>> /\ (Pressed => Pressed')
  BY DEF ReportTimeout, User, Around, UserTypes, UserSubmits, GapPasses, ClaudeMoves, vars,
         handlerVars, daemonVars, linkVars, history, Pressed
<1>2. h'.done = h.done
  BY OtherStepDone
<1>3. \A i \in 1 .. Len(c2d') :
         c2d'[i].kind = "ack" => \E j \in 1 .. Len(c2d) : c2d'[i] = c2d[j]
  <2>1. c2d' = c2d \/ \E no : c2d' = Append(c2d, Message("submitted", no))
    BY DEF ReportTimeout, User, Around, Reports, vars, linkVars
  <2> QED
    BY <2>1, NoAckAppended DEF TypeOK, LinkTypeOK
<1>4. LinkMoves
  BY <1>1, <1>2, <1>3 DEF LinkMoves
<1> QED
  BY <1>1, <1>4, EngineMoves DEF PromptInv

LEMMA InitAsks ==
    ASSUME Init
    PROVE  PromptInv
<1>1. /\ queue = <<>> /\ d2c = <<>> /\ c2d = <<>> /\ cmds = <<>> /\ sends = 0
      /\ h.done.busy = "none" /\ w.pc = "idle" /\ w.no = 0 /\ sup.state = "none"
  BY DEF Init, HandlerInit, NoDone, NoWork, NoSup
<1>2. 1 .. Len(<<>>) = {}
  OBVIOUS
<1>3. NumbersTell(cmds)
  BY <1>1, <1>2 DEF NumbersTell, Numbered
<1> QED
  BY <1>1, <1>2, <1>3, EmptyAsks
     DEF PromptInv, OneSent, DoneKnown, EngineAsks, Asked, Known, NoneSent, NoneUnsent, Resuming,
         ResumeSteps

\* A resume prompt is only ever submitted in a session that an ESC reached while it was known to
\* be busy, and once for that ESC, for any number of instances, lost or late acks, reconnects,
\* crashes and resumes by hand.
THEOREM PromptsAfterEsc == Spec => PromptAfterEsc
<1>1. Init => OrderInv /\ PromptInv
  BY InitOrder, InitAsks
<1>2. TypeOK /\ OrderInv /\ [Next]_vars => OrderInv'
  BY DaemonStepOrder, OtherStepOrder, LauncherReadsOrder, SendAckOrder, HandleOrder DEF Next
<1>3. ASSUME TypeOK, OrderInv, PromptInv, [Next]_vars
      PROVE  PromptInv'
  BY <1>3, HoldStepAsks, OpResumeAsks, StartCmdAsks, FaultsAsk, DaemonReadsAsks,
     LauncherReadsAsks, SendAckAsks, HandleAsks, UserStepAsks DEF Next, OpResumeStep
<1>4. PromptInv => [w.pc = "submit" /\ w'.pc = "ack" => esc # "none"]_vars
  BY DEF PromptInv, EngineAsks, Asked, NoneSent, Resuming, ResumeSteps, Pressed
<1> QED
  BY <1>1, <1>2, <1>3, <1>4, TypeCorrect, PTL DEF Spec, PromptAfterEsc

-----------------------------------------------------------------------------
(* The promise. *)

\* What a step does to the record and to the holds, in the terms of the promise.
RecordKeeps ==
    \/ UNCHANGED <<sup.state, sup.over, issued>>
    \/ Promise!Begins \/ Promise!Pauses \/ Promise!Resumes \/ Promise!Overrides
    \/ Promise!Forgets \/ Promise!IsDropped

LEMMA PromiseHolding == Promise!Holding = Held /\ Promise!Holding' = Held'
BY DEF Promise!Holding, Held

LEMMA HoldsKeep ==
    ASSUME TypeOK, TypeOK', HoldsMove
    PROVE  Promise!HoldsGoOn
BY DEF Promise!HoldsGoOn, HoldsMove, TypeOK, DaemonTypeOK

\* The four things that `Evaluated` does to a record.
EvaluatedTo(held, s, e) ==
    \/ e.sup = s /\ e.issued = issued
    \/ /\ s.state = "paused" /\ held \subseteq s.over
       /\ e.sup.state = "running" /\ e.sup.over = s.over /\ e.issued = issued
    \/ /\ s.state \in {"running", "overridden"} /\ ~(held \subseteq s.over)
       /\ e.sup.state = "paused" /\ e.sup.over = s.over /\ e.issued = issued + 1
    \/ /\ s.state = "overridden" /\ held = {}
       /\ e.sup.state = "running" /\ e.sup.over = {} /\ e.issued = issued

LEMMA EvaluatedCases ==
    ASSUME NEW held, NEW s \in Supervision, NEW c, issued \in Nat,
           NEW e, e = Evaluated(held, s, c)
    PROVE  EvaluatedTo(held, s, e)
<1> DEFINE same == [sup |-> s, cmds |-> c, issued |-> issued]
           resumed == [s EXCEPT !.state = "running", !.busy = "no", !.pend = FALSE]
           paused == [s EXCEPT !.state = "paused", !.id = issued + 1, !.pend = TRUE, !.busy = "none"]
           marked == [s EXCEPT !.state = "running", !.over = {}]
           resume == <<Cmd("resume", 0, WantsPrompt(s))>>
           pause == <<Cmd("pause", issued + 1, FALSE)>>
<1>1. /\ resumed.over = s.over /\ resumed.state = "running"
      /\ paused.over = s.over /\ paused.state = "paused"
      /\ marked.over = {} /\ marked.state = "running"
  BY DEF Supervision
<1> HIDE DEF resumed, paused, marked, resume, pause
<1>2. \/ e = same
      \/ /\ e = [same EXCEPT !.sup = resumed, !.cmds = resume]
         /\ s.state = "paused" /\ held \subseteq s.over
      \/ /\ e = [same EXCEPT !.sup = paused, !.cmds = pause, !.issued = issued + 1]
         /\ s.state \in {"running", "overridden"} /\ ~(held \subseteq s.over)
      \/ e = [same EXCEPT !.sup = marked] /\ held = {} /\ s.state = "overridden"
  BY Zenon DEF Evaluated, OverrideEnds, resumed, paused, marked, resume, pause
<1>3. same \in [sup : {s}, cmds : {c}, issued : {issued}]
  OBVIOUS
<1> HIDE DEF same
<1>4. \/ e.sup = s /\ e.issued = issued
      \/ /\ e.sup = resumed /\ e.issued = issued
         /\ s.state = "paused" /\ held \subseteq s.over
      \/ /\ e.sup = paused /\ e.issued = issued + 1
         /\ s.state \in {"running", "overridden"} /\ ~(held \subseteq s.over)
      \/ e.sup = marked /\ e.issued = issued /\ held = {} /\ s.state = "overridden"
  BY <1>2, <1>3
<1> QED
  BY <1>1, <1>4 DEF EvaluatedTo

\* An evaluation of the record as it is, or with what an ack says of its pause.
LEMMA EvaluationKeeps ==
    ASSUME TypeOK, NEW held, held = Held', NEW s \in Supervision, NEW c,
           s.over = sup.over, s.state = sup.state, Become(Evaluated(held, s, c))
    PROVE  RecordKeeps
<1>1. PICK e : e = Evaluated(held, s, c)
  OBVIOUS
<1>2. sup' = e.sup /\ issued' = e.issued
  BY <1>1 DEF Become
<1>3. issued \in Nat
  BY DEF TypeOK, DaemonTypeOK
<1>4. Promise!Holding' = held
  BY PromiseHolding
<1>5. EvaluatedTo(held, s, e)
  BY <1>1, <1>3, EvaluatedCases, Zenon
<1> QED
  BY <1>2, <1>4, <1>5
  DEF EvaluatedTo, RecordKeeps, Promise!Pauses, Promise!Resumes, Promise!Forgets, Promise!Record

LEMMA CommandEndsKeeps ==
    ASSUME TypeOK, UNCHANGED hold, cmds # <<>>, NEW result, NEW busy \in WasBusy,
           CommandEnds(result, busy)
    PROVE  RecordKeeps
<1> DEFINE c == Head(cmds)
           s == IF c.type = "pause" /\ sup.state = "paused" /\ sup.id = c.id
                THEN [sup EXCEPT !.pend = @ /\ result \notin {"injected", "skipped"},
                                 !.busy = IF busy = "none" THEN @ ELSE busy]
                ELSE sup
<1>1. s \in Supervision /\ s.over = sup.over /\ s.state = sup.state
  <2>1. sup \in Supervision
    BY DEF TypeOK, DaemonTypeOK
  <2>2. /\ (sup.pend /\ result \notin {"injected", "skipped"}) \in BOOLEAN
        /\ (IF busy = "none" THEN sup.busy ELSE busy) \in WasBusy
    BY <2>1 DEF Supervision
  <2>3. \A a \in BOOLEAN, b \in WasBusy :
          LET n == [sup EXCEPT !.pend = a, !.busy = b]
          IN  n \in Supervision /\ n.over = sup.over /\ n.state = sup.state
    BY <2>1 DEF Supervision
  <2> QED
    BY <2>1, <2>2, <2>3, Zenon
<1>2. Become(Evaluated(Held, s, Tail(cmds)))
  BY Zenon DEF CommandEnds
<1> HIDE DEF s
<1> QED
  BY <1>1, <1>2, SameHolds, EvaluationKeeps

LEMMA SameRecordKeeps ==
    ASSUME UNCHANGED <<sup, issued>>
    PROVE  RecordKeeps
BY DEF RecordKeeps

LEMMA OpResumeKeeps ==
    ASSUME TypeOK, NEW own, OpResume(own)
    PROVE  RecordKeeps
<1>1. CASE sup.state = "paused"
  <2> DEFINE s == [sup EXCEPT !.state = IF Held' = {} THEN "running" ELSE "overridden",
                              !.over = @ \cup Held', !.busy = "no", !.pend = FALSE]
             d == [sup |-> s, cmds |-> Append(cmds, Cmd("resume", 0, WantsPrompt(sup))),
                   issued |-> issued]
  <2>1. Become(d)
    BY <1>1, Zenon DEF OpResume
  <2>2. /\ s.over = sup.over \cup Held'
        /\ s.state = IF Held' = {} THEN "running" ELSE "overridden"
    BY DEF TypeOK, DaemonTypeOK, Supervision
  <2>3. sup' = s /\ issued' = issued
    BY <2>1, Zenon DEF Become
  <2> HIDE DEF s
  <2> QED
    BY <1>1, <2>2, <2>3, PromiseHolding DEF RecordKeeps, Promise!Overrides, Promise!Record
<1>2. CASE sup.state # "paused"
  BY <1>2, SameRecordKeeps DEF OpResume
<1> QED
  BY <1>1, <1>2

LEMMA ReadSubmittedKeeps ==
    ASSUME TypeOK, UNCHANGED hold, NEW m, ReadSubmitted(m)
    PROVE  RecordKeeps
<1> DEFINE s == [sup EXCEPT !.state = "overridden", !.pend = FALSE, !.over = @ \cup Held]
<1>1. CASE sup.state = "paused"
  <2>1. s \in Supervision /\ s.over = sup.over \cup Held /\ s.state = "overridden"
    BY DEF TypeOK, DaemonTypeOK, Supervision, SupStates, Held
  <2>2. Become(Evaluated(Held, s, cmds)) /\ issued \in Nat
    BY <1>1, Zenon DEF ReadSubmitted, TypeOK, DaemonTypeOK
  <2> HIDE DEF s
  <2>3. PICK e : e = Evaluated(Held, s, cmds)
    OBVIOUS
  <2>4. sup' = e.sup /\ issued' = e.issued
    BY <2>2, <2>3 DEF Become
  <2>5. EvaluatedTo(Held, s, e)
    BY <2>1, <2>2, <2>3, EvaluatedCases, Zenon
  <2> QED
    BY <1>1, <2>1, <2>4, <2>5, SameHolds, PromiseHolding
    DEF EvaluatedTo, RecordKeeps, Promise!Overrides, Promise!Record
<1>2. CASE sup.state # "paused"
  BY <1>2, SameRecordKeeps DEF ReadSubmitted
<1> QED
  BY <1>1, <1>2

LEMMA ReadRegisterKeeps ==
    ASSUME TypeOK, UNCHANGED hold, NEW m, ReadRegister(m)
    PROVE  RecordKeeps
<1> DEFINE new == IF m.first
                  THEN [NoSup EXCEPT !.state = IF Held = {} THEN "running" ELSE "overridden",
                                     !.over = Held]
                  ELSE [NoSup EXCEPT !.state = "running"]
           record == IF sup.state = "none" THEN new ELSE sup
           d == Evaluated(Held, record, cmds)
           resent == [d EXCEPT !.cmds = Append(@, Cmd("pause", d.sup.id, FALSE))]
<1>1. /\ new \in Supervision
      /\ \/ new.state = "running" /\ new.over = {}
         \/ new.state = "overridden" /\ new.over = Held /\ Held # {}
  <2>1. \A state \in {"running", "overridden"}, over \in SUBSET Instance :
           LET n == [NoSup EXCEPT !.state = state, !.over = over]
           IN  n \in Supervision /\ n.state = state /\ n.over = over
    BY NewRecordType, Zenon
  <2>2. LET n == [NoSup EXCEPT !.state = "running"]
        IN  n \in Supervision /\ n.state = "running" /\ n.over = {}
    BY NoSupType DEF NoSup, Supervision, SupStates
  <2>3. Held \in SUBSET Instance
    BY DEF Held
  <2>4. CASE m.first
    <3>1. CASE Held = {}
      BY <2>1, <2>3, <2>4, <3>1, Zenon
    <3>2. CASE Held # {}
      BY <2>1, <2>3, <2>4, <3>2, Zenon
    <3> QED
      BY <3>1, <3>2
  <2>5. CASE ~m.first
    BY <2>2, <2>5, Zenon
  <2> QED
    BY <2>4, <2>5
<1> HIDE DEF new
<1>2. record \in Supervision
  BY <1>1 DEF TypeOK, DaemonTypeOK
<1>3. d \in Decision /\ issued \in Nat
  BY <1>2, EvaluatedType DEF TypeOK, DaemonTypeOK
<1>4. Become(IF PausePending(d.sup) THEN resent ELSE d)
  BY Zenon DEF ReadRegister, record, new
<1>5. Held' = Held
  BY SameHolds
<1>6. PICK e : e = d
  OBVIOUS
<1>7. e = Evaluated(Held, record, cmds)
  BY <1>6
<1> HIDE DEF d
<1>8. sup' = e.sup /\ issued' = e.issued
  BY <1>3, <1>4, <1>6 DEF Become, Decision
<1> HIDE DEF record
<1>9. EvaluatedTo(Held, record, e)
  BY <1>2, <1>3, <1>7, EvaluatedCases, Zenon
<1>10. CASE sup.state = "none"
  <2>1. record = new
    BY <1>10 DEF record
  <2>2. \/ sup'.state = "running" /\ sup'.over = {} /\ issued' = issued
        \/ Held # {} /\ sup'.state = "overridden" /\ sup'.over = Held /\ issued' = issued
        \/ Held # {} /\ sup'.state = "paused" /\ sup'.over = {} /\ issued' = issued + 1
    BY <1>1, <1>8, <1>9, <2>1 DEF EvaluatedTo
  <2> QED
    BY <1>5, <1>10, <2>2, PromiseHolding DEF RecordKeeps, Promise!Begins, Promise!Record
<1>11. CASE sup.state # "none"
  <2>1. record = sup
    BY <1>11 DEF record
  <2> QED
    BY <1>5, <1>8, <1>9, <2>1, PromiseHolding
    DEF EvaluatedTo, RecordKeeps, Promise!Pauses, Promise!Resumes, Promise!Forgets, Promise!Record
<1> QED
  BY <1>10, <1>11

LEMMA DaemonReadsKeeps ==
    ASSUME TypeOK, DaemonReads
    PROVE  RecordKeeps /\ UNCHANGED <<hold, ran>>
<1> DEFINE m == Head(c2d)
<1>1. m \in ToDaemon /\ UNCHANGED <<hold, ran>>
  BY HeadTailType DEF DaemonReads, TypeOK, LinkTypeOK
<1>2. CASE m.kind = "register"
  BY <1>1, <1>2, ReadRegisterKeeps DEF DaemonReads
<1>3. CASE m.kind = "submitted"
  BY <1>1, <1>3, ReadSubmittedKeeps DEF DaemonReads
<1>4. CASE m.kind = "ack"
  <2>1. ReadAck(m)
    BY <1>4 DEF DaemonReads
  <2>2. m.busy \in WasBusy
    BY <1>1 DEF ToDaemon
  <2>3. RecordKeeps
    BY <1>1, <2>1, <2>2, CommandEndsKeeps, SameRecordKeeps DEF ReadAck, InFlight
  <2> QED
    BY <1>1, <2>3
<1> QED
  BY <1>1, <1>2, <1>3, <1>4 DEF ToDaemon

LEMMA StartCmdKeeps ==
    ASSUME TypeOK, StartCmd
    PROVE  RecordKeeps /\ UNCHANGED <<hold, ran>>
<1> DEFINE c == Head(cmds)
           unwanted == c.type = "pause" /\ ~(PausePending(sup) /\ sup.id = c.id)
<1>1. UNCHANGED <<hold, ran>> /\ cmds # <<>> /\ sup \in Supervision /\ Held' = Held
  BY SameHolds DEF StartCmd, TypeOK, DaemonTypeOK
<1>2. CASE unwanted
  <2>1. Become(Evaluated(Held, sup, Tail(cmds)))
    BY <1>2, Zenon DEF StartCmd
  <2> QED
    BY <1>1, <2>1, EvaluationKeeps
<1>3. CASE ~unwanted /\ ~served
  <2>1. CommandEnds("not_connected", "none")
    BY <1>3, Zenon DEF StartCmd
  <2> QED
    BY <1>1, <2>1, CommandEndsKeeps DEF WasBusy
<1>4. CASE ~unwanted /\ served
  <2>1. UNCHANGED <<sup, issued>>
    BY <1>4, Zenon DEF StartCmd
  <2> QED
    BY <1>1, <2>1, SameRecordKeeps
<1> QED
  BY <1>2, <1>3, <1>4

LEMMA DropKeeps ==
    ASSUME TypeOK, Drop \/ AckTimeout
    PROVE  RecordKeeps /\ UNCHANGED <<hold, ran>>
<1>1. UNCHANGED <<hold, ran>>
  BY DEF Drop, AckTimeout, Cut
<1>2. \/ cmds # <<>> /\ CommandEnds("not_connected", "none")
      \/ cmds # <<>> /\ CommandEnds("timeout", "none")
      \/ UNCHANGED <<sup, issued>>
  BY DEF Drop, AckTimeout, InFlight
<1>3. "none" \in WasBusy
  BY DEF WasBusy
<1> QED
  BY <1>1, <1>2, <1>3, CommandEndsKeeps, SameRecordKeeps

\* Every step that begins no pause.
LEMMA OtherKeeps ==
    ASSUME TypeOK,
           \/ HoldStep \/ Tick \/ OpResumeStep \/ ReapStep \/ Crash \/ Restart \/ Connect
           \/ ReportTimeout \/ User \/ Around \/ UNCHANGED vars
    PROVE  RecordKeeps /\ HoldsMove /\ UNCHANGED ran
<1>1. sup \in Supervision
  BY DEF TypeOK, DaemonTypeOK
<1>2. CASE HoldStep \/ Tick
  <2>1. Become(Evaluated(Held', sup, cmds)) /\ UNCHANGED ran
    BY <1>2, SameHolds DEF HoldStep, Tick, launcherVars, handlerVars
  <2> QED
    BY <1>1, <1>2, <2>1, EvaluationKeeps, HoldStepMoves
<1>3. CASE OpResumeStep
  <2>1. UNCHANGED ran
    BY <1>3 DEF OpResumeStep, OpResume, launcherVars, handlerVars
  <2> QED
    BY <1>3, <2>1, OpResumeKeeps, OpResumeMoves DEF OpResumeStep
<1>4. CASE ReapStep
  <2>1. PICK own \in Own : Reap(own)
    BY <1>4 DEF ReapStep
  <2>2. sup' = NoSup /\ UNCHANGED <<issued, ran>>
    BY <2>1 DEF Reap, launcherVars, handlerVars
  <2>3. HoldsMove
    BY <2>1 DEF Reap, HoldsMove, TypeOK, DaemonTypeOK
  <2>4. RecordKeeps
    BY <2>2 DEF RecordKeeps, NoSup, Promise!IsDropped, Promise!Record
  <2> QED
    BY <2>2, <2>3, <2>4
<1>5. CASE Crash
  <2>1. UNCHANGED <<sup, issued, ran>>
    BY <1>5 DEF Crash, Cut
  <2> QED
    BY <1>5, <2>1, CrashMoves, SameRecordKeeps
<1>6. CASE Restart \/ Connect \/ ReportTimeout \/ User \/ Around \/ UNCHANGED vars
  <2>1. UNCHANGED <<hold, sup, issued, ran>>
    BY <1>6 DEF Restart, Connect, ReportTimeout, User, Around, UserTypes, UserSubmits, GapPasses,
                ClaudeMoves, vars, daemonVars, launcherVars, handlerVars, history
  <2> QED
    BY <2>1, SameHolds, SameRecordKeeps
<1> QED
  BY <1>2, <1>3, <1>4, <1>5, <1>6

\* The worker takes command `c`: it begins a pause that is later than all before, or none.
LEMMA TakeStarts ==
    ASSUME TypeOK, StartedInv, w.pc \in {"idle", "ack"}, NEW c \in Command, Take(c),
           c.type = "pause" => (\A r \in ran : r <= c.id) /\ c.id <= issued
    PROVE  UNCHANGED ran \/ Promise!Starts
<1>1. /\ c.id \in Nat /\ h.done.id \in Nat /\ ran \subseteq Nat /\ w.pc \notin PauseSteps
      /\ issued \in Nat
  BY DEF TypeOK, HandlerTypeOK, DaemonTypeOK, Memory, Command, PauseSteps
<1>2. h.done.id \in ran \cup {0} /\ \A r \in ran : r <= h.done.id
  BY <1>1 DEF StartedInv
<1>3. CASE c.type = "pause" /\ h.done.id # c.id
  <2>1. ran' = ran \cup {c.id}
    BY <1>3, Zenon DEF Take, TakePause
  <2>2. h.done.id < c.id
    BY <1>1, <1>2, <1>3
  <2>3. c.id \in 1 .. issued
    BY <1>1, <1>3, <2>2
  <2>4. ASSUME NEW r \in ran PROVE r < c.id
    <3>1. r \in Nat /\ r <= h.done.id
      BY <1>1, <1>2
    <3> QED
      BY <1>1, <2>2, <3>1
  <2> QED
    BY <2>1, <2>3, <2>4 DEF Promise!Starts
<1>4. CASE ~(c.type = "pause" /\ h.done.id # c.id)
  BY <1>4, Zenon DEF Take, TakePause, TakeResume
<1> QED
  BY <1>3, <1>4

\* The steps of the launcher's worker.
LEMMA WorkerKeeps ==
    ASSUME TypeOK, OrderInv, LauncherReads \/ SendAck \/ Handle
    PROVE  UNCHANGED <<hold, sup, issued>> /\ (UNCHANGED ran \/ Promise!Starts)
<1>1. UNCHANGED <<hold, sup, issued>>
  BY DEF LauncherReads, SendAck, Handle, daemonVars
<1>2. CASE LauncherReads
  <2> DEFINE m == Head(d2c)
             c == [type |-> m.type, id |-> m.id, prompt |-> m.prompt, no |-> m.no, conn |-> conn]
  <2>1. m \in ToLauncher /\ d2c \in Seq(ToLauncher) /\ d2c # <<>>
    BY <1>2, HeadTailType DEF LauncherReads, TypeOK, LinkTypeOK
  <2>2. m.type = "pause" => m.id <= issued /\ \A r \in ran : r <= m.id
    BY <2>1, TailKeeps, Zenon DEF OrderInv, PipelineInv
  <2>3. CASE m.kind = "cmd" /\ w.pc = "idle"
    <3>1. Take(c) /\ c \in Command /\ c.type = m.type /\ c.id = m.id
      BY <1>2, <2>1, <2>3 DEF LauncherReads, ToLauncher, Command, TypeOK, LinkTypeOK
    <3> HIDE DEF c
    <3> QED
      BY <1>1, <2>2, <2>3, <3>1, TakeStarts DEF OrderInv
  <2>4. CASE ~(m.kind = "cmd" /\ w.pc = "idle")
    BY <1>1, <1>2, <2>1, <2>4 DEF LauncherReads, history, handlerVars, ToLauncher
  <2> QED
    BY <2>3, <2>4
<1>3. CASE SendAck
  <2>1. CASE queue = <<>>
    BY <1>1, <1>3, <2>1 DEF SendAck, history
  <2>2. CASE queue # <<>>
    <3> DEFINE c == Head(queue)
    <3>1. Take(c) /\ c \in Command /\ queue \in Seq(Command) /\ w.pc = "ack"
      BY <1>3, <2>2, HeadTailType DEF SendAck, TypeOK
    <3>2. c.type = "pause" => c.id <= issued /\ \A r \in ran : r <= c.id
      BY <2>2, <3>1, TailKeeps, Zenon DEF OrderInv, PipelineInv
    <3> HIDE DEF c
    <3> QED
      BY <1>1, <3>1, <3>2, TakeStarts DEF OrderInv
  <2> QED
    BY <2>1, <2>2
<1>4. CASE Handle
  BY <1>1, <1>4, HandlerStepKinds DEF Handle, TypeOK
<1> QED
  BY <1>2, <1>3, <1>4

LEMMA StepKeeps ==
    ASSUME TypeOK, TypeOK', OrderInv, [Next]_vars
    PROVE  [Promise!PromiseNext]_(Promise!promiseVars)
<1>1. CASE LauncherReads \/ SendAck \/ Handle
  <2>1. UNCHANGED <<hold, sup, issued>> /\ (UNCHANGED ran \/ Promise!Starts)
    BY <1>1, WorkerKeeps
  <2> QED
    BY <2>1 DEF Promise!PromiseNext, Promise!promiseVars
<1>2. CASE ~(LauncherReads \/ SendAck \/ Handle)
  <2>1. RecordKeeps /\ HoldsMove /\ UNCHANGED ran
    BY <1>2, OtherKeeps, DaemonReadsKeeps, StartCmdKeeps, DropKeeps, SameHolds DEF Next
  <2> QED
    BY <2>1, HoldsKeep DEF RecordKeeps, Promise!PromiseNext
<1> QED
  BY <1>1, <1>2

\* The protocol implements the promise: pauses for instances that the session was not
\* overridden for, overrides that last while anything is held, and pauses that are begun in
\* the terminal in order, whatever is lost, late, resent or restarted in between.
THEOREM PromiseKept == Spec => KeepsPromise
<1>1. Init => Promise!PromiseInit /\ OrderInv
  <2>1. Init => Promise!PromiseInit
    BY DEF Init, HandlerInit, NoSup, Promise!PromiseInit
  <2> QED
    BY <2>1, InitOrder
<1>2. TypeOK /\ OrderInv /\ [Next]_vars => OrderInv'
  BY DaemonStepOrder, OtherStepOrder, LauncherReadsOrder, SendAckOrder, HandleOrder DEF Next
<1>3. TypeOK /\ TypeOK' /\ OrderInv /\ [Next]_vars
        => [Promise!PromiseNext]_(Promise!promiseVars)
  BY StepKeeps
<1> QED
  BY <1>1, <1>2, <1>3, TypeCorrect, PTL DEF Spec, KeepsPromise, Promise!PromiseSpec

-----------------------------------------------------------------------------
(* Agreement on a pause: while a session is paused, all of its commands are  *)
(* for that pause, and the launcher hears of it last.                        *)

\* A command or a reply that tells the launcher of pause k.
TellsOf(m, k) == m.type \in {"pause", "paused"} /\ m.id = k
AllTell(s, k) == \A i \in 1 .. Len(s) : TellsOf(s[i], k)
NoneTells(s, k) == \A i \in 1 .. Len(s) : ~TellsOf(s[i], k)
\* Once pause k is told, nothing else is told after it.
TellsOn(s, k) == \A i, j \in 1 .. Len(s) : i < j /\ TellsOf(s[i], k) => TellsOf(s[j], k)

HasPause(s, k) == \E i \in 1 .. Len(s) : s[i].type = "pause" /\ s[i].id = k
Unsent(c) == \E i \in 1 .. Len(c) : c[i].no = 0
Carries(s, kind, no) == \E i \in 1 .. Len(s) : s[i].kind = kind /\ s[i].no = no
Submits(s) == \E i \in 1 .. Len(s) : s[i].kind = "submitted"

\* What the launcher was told before pause k comes before it, and a launcher that is told of
\* pause k hears of nothing else while the session stays in it.
ToldInv(k) ==
    /\ k > 0
    /\ TellsOn(queue, k) /\ TellsOn(d2c, k)
    /\ h.pid = k \/ ~NoneTells(queue, k) => AllTell(d2c, k)
    /\ k \in ran => AllTell(queue, k) /\ h.paused /\ h.pid = k

\* Pause k was begun, or a command on its way will begin it.
Underway(c, k) == k \in ran \/ HasPause(queue, k) \/ HasPause(d2c, k) \/ Unsent(c)
\* An answer to command `no` says that pause k was begun.
AnswersOf(no, k) ==
    /\ w.pc # "idle" /\ w.no = no => k \in ran
    /\ Carries(c2d, "ack", no) => k \in ran

\* All commands of a paused session are for its pause, and the engine does not stop sending
\* them to a launcher that is there (`on`) before the pause was begun.
CommandedInv(s, c, on) ==
    /\ AllTell(c, s.id)
    /\ s.pend \/ s.id \in ran
    /\ on => Underway(c, s.id)
    /\ Flying(c) => AnswersOf(Head(c).no, s.id)

\* A submit in pause k is on its way to the daemon as soon as the connection is up.
OverrideSent(k) ==
    h.pid = k => /\ ~h.reported
                 /\ h.submitted /\ link = "up" => Submits(c2d)

Agrees(s, c, on) == s.state = "paused" => ToldInv(s.id) /\ CommandedInv(s, c, on) /\ OverrideSent(s.id)

\* A report that the launcher waits for is under way, or its answer is.
Reporting == h.sending => Carries(c2d, "submitted", h.report) \/ Carries(d2c, "noted", h.report)
\* Nobody speaks of a pause that was not issued yet.
Past ==
    /\ h.pid <= issued
    /\ \A i \in 1 .. Len(d2c) : d2c[i].type = "paused" => d2c[i].kind = "registered" /\ d2c[i].id <= issued

AgreeInv == Past /\ Reporting /\ Agrees(sup, cmds, served)

LEMMA TellAppend ==
    ASSUME NEW S, NEW s \in Seq(S), NEW e \in S, NEW k
    PROVE  /\ AllTell(s, k) /\ TellsOf(e, k) => AllTell(Append(s, e), k)
           /\ NoneTells(s, k) /\ ~TellsOf(e, k) => NoneTells(Append(s, e), k)
           /\ TellsOn(s, k) /\ (NoneTells(s, k) \/ TellsOf(e, k)) => TellsOn(Append(s, e), k)
           /\ HasPause(Append(s, e), k) <=> HasPause(s, k) \/ (e.type = "pause" /\ e.id = k)
<1>1. /\ \A i \in 1 .. Len(s) : i \in 1 .. Len(Append(s, e)) /\ Append(s, e)[i] = s[i]
      /\ Len(Append(s, e)) \in 1 .. Len(Append(s, e)) /\ Append(s, e)[Len(Append(s, e))] = e
  OBVIOUS
<1>2. \A i \in 1 .. Len(Append(s, e)) :
        \/ i \in 1 .. Len(s) /\ Append(s, e)[i] = s[i]
        \/ i = Len(s) + 1 /\ Append(s, e)[i] = e
  OBVIOUS
<1>3. AllTell(s, k) /\ TellsOf(e, k) => AllTell(Append(s, e), k)
  BY <1>2, Zenon DEF AllTell
<1>4. NoneTells(s, k) /\ ~TellsOf(e, k) => NoneTells(Append(s, e), k)
  BY <1>2, Zenon DEF NoneTells
<1>5. ASSUME TellsOn(s, k), NoneTells(s, k) \/ TellsOf(e, k)
      PROVE  TellsOn(Append(s, e), k)
  <2>1. SUFFICES ASSUME NEW i \in 1 .. Len(Append(s, e)), NEW j \in 1 .. Len(Append(s, e)), i < j,
                        TellsOf(Append(s, e)[i], k)
                 PROVE  TellsOf(Append(s, e)[j], k)
    BY Zenon DEF TellsOn
  <2>2. i \in 1 .. Len(s)
    BY <2>1
  <2>3. TellsOf(s[i], k)
    BY <1>1, <2>1, <2>2
  <2>4. CASE j \in 1 .. Len(s) /\ Append(s, e)[j] = s[j]
    BY <1>5, <2>1, <2>2, <2>3, <2>4, Zenon DEF TellsOn
  <2>5. CASE Append(s, e)[j] = e
    BY <1>5, <2>2, <2>3, <2>5, Zenon DEF NoneTells
  <2> QED
    BY <1>2, <2>4, <2>5
<1>6. HasPause(Append(s, e), k) <=> HasPause(s, k) \/ (e.type = "pause" /\ e.id = k)
  BY <1>1, <1>2, Zenon DEF HasPause
<1> QED
  BY <1>3, <1>4, <1>5, <1>6

LEMMA TellTail ==
    ASSUME NEW S, NEW s \in Seq(S), s # <<>>, NEW k
    PROVE  /\ AllTell(s, k) => AllTell(Tail(s), k) /\ TellsOf(Head(s), k)
           /\ NoneTells(s, k) => NoneTells(Tail(s), k) /\ ~TellsOf(Head(s), k)
           /\ TellsOn(s, k) => TellsOn(Tail(s), k) /\ (TellsOf(Head(s), k) => AllTell(Tail(s), k))
           /\ HasPause(s, k) => HasPause(Tail(s), k) \/ (Head(s).type = "pause" /\ Head(s).id = k)
<1>1. /\ Head(s) = s[1] /\ 1 \in 1 .. Len(s)
      /\ \A i \in 1 .. Len(Tail(s)) :
            /\ i + 1 \in 1 .. Len(s) /\ 1 < i + 1 /\ Tail(s)[i] = s[i + 1]
            /\ \A j \in 1 .. Len(Tail(s)) : i < j => i + 1 < j + 1
  OBVIOUS
<1>2. AllTell(s, k) => AllTell(Tail(s), k) /\ TellsOf(Head(s), k)
  BY <1>1, Zenon DEF AllTell
<1>3. NoneTells(s, k) => NoneTells(Tail(s), k) /\ ~TellsOf(Head(s), k)
  BY <1>1, Zenon DEF NoneTells
<1>4. TellsOn(s, k) => TellsOn(Tail(s), k)
  BY <1>1, Zenon DEF TellsOn
<1>5. TellsOn(s, k) /\ TellsOf(Head(s), k) => AllTell(Tail(s), k)
  BY <1>1, Zenon DEF TellsOn, AllTell
<1>6. \A i \in 1 .. Len(s) : i = 1 \/ (i - 1 \in 1 .. Len(Tail(s)) /\ Tail(s)[i - 1] = s[i])
  OBVIOUS
<1>7. HasPause(s, k) => HasPause(Tail(s), k) \/ (Head(s).type = "pause" /\ Head(s).id = k)
  BY <1>1, <1>6, Zenon DEF HasPause
<1> QED
  BY <1>2, <1>3, <1>4, <1>5, <1>7

LEMMA TellNothing ==
    ASSUME NEW k, NEW kind, NEW no
    PROVE  /\ AllTell(<<>>, k) /\ NoneTells(<<>>, k) /\ TellsOn(<<>>, k) /\ ~HasPause(<<>>, k)
           /\ ~Unsent(<<>>) /\ ~Carries(<<>>, kind, no) /\ ~Submits(<<>>)
<1>1. 1 .. Len(<<>>) = {}
  OBVIOUS
<1> QED
  BY <1>1 DEF AllTell, NoneTells, TellsOn, HasPause, Unsent, Carries, Submits

LEMMA CarriesAppend ==
    ASSUME NEW S, NEW s \in Seq(S), NEW e \in S, NEW kind, NEW no
    PROVE  /\ Carries(Append(s, e), kind, no) <=> Carries(s, kind, no) \/ (e.kind = kind /\ e.no = no)
           /\ Submits(Append(s, e)) <=> Submits(s) \/ e.kind = "submitted"
<1>1. /\ \A i \in 1 .. Len(s) : i \in 1 .. Len(Append(s, e)) /\ Append(s, e)[i] = s[i]
      /\ Len(Append(s, e)) \in 1 .. Len(Append(s, e)) /\ Append(s, e)[Len(Append(s, e))] = e
      /\ \A i \in 1 .. Len(Append(s, e)) :
           (i \in 1 .. Len(s) /\ Append(s, e)[i] = s[i]) \/ Append(s, e)[i] = e
  OBVIOUS
<1>2. Carries(Append(s, e), kind, no) <=> Carries(s, kind, no) \/ (e.kind = kind /\ e.no = no)
  BY <1>1, Zenon DEF Carries
<1>3. Submits(Append(s, e)) <=> Submits(s) \/ e.kind = "submitted"
  BY <1>1, Zenon DEF Submits
<1> QED
  BY <1>2, <1>3

LEMMA CarriesTail ==
    ASSUME NEW S, NEW s \in Seq(S), s # <<>>, NEW kind, NEW no
    PROVE  /\ Carries(s, kind, no) <=> Carries(Tail(s), kind, no) \/ (Head(s).kind = kind /\ Head(s).no = no)
           /\ Submits(s) <=> Submits(Tail(s)) \/ Head(s).kind = "submitted"
<1>1. /\ Head(s) = s[1] /\ 1 \in 1 .. Len(s)
      /\ \A i \in 1 .. Len(Tail(s)) : i + 1 \in 1 .. Len(s) /\ Tail(s)[i] = s[i + 1]
      /\ \A i \in 1 .. Len(s) : i = 1 \/ (i - 1 \in 1 .. Len(Tail(s)) /\ Tail(s)[i - 1] = s[i])
  OBVIOUS
<1>2. Carries(s, kind, no) <=> Carries(Tail(s), kind, no) \/ (Head(s).kind = kind /\ Head(s).no = no)
  <2>1. ASSUME NEW i \in 1 .. Len(s), s[i].kind = kind, s[i].no = no
        PROVE  Carries(Tail(s), kind, no) \/ (Head(s).kind = kind /\ Head(s).no = no)
    <3>1. CASE i = 1
      BY <1>1, <2>1, <3>1
    <3>2. CASE i - 1 \in 1 .. Len(Tail(s)) /\ Tail(s)[i - 1] = s[i]
      BY <2>1, <3>2, Zenon DEF Carries
    <3> QED
      BY <1>1, <3>1, <3>2
  <2>2. ASSUME NEW i \in 1 .. Len(Tail(s)), Tail(s)[i].kind = kind, Tail(s)[i].no = no
        PROVE  Carries(s, kind, no)
    <3>1. i + 1 \in 1 .. Len(s) /\ s[i + 1].kind = kind /\ s[i + 1].no = no
      BY <1>1, <2>2
    <3> QED
      BY <3>1, Zenon DEF Carries
  <2>3. Head(s).kind = kind /\ Head(s).no = no => Carries(s, kind, no)
    BY <1>1, Zenon DEF Carries
  <2> QED
    BY <2>1, <2>2, <2>3, Zenon DEF Carries
<1>3. Submits(s) <=> Submits(Tail(s)) \/ Head(s).kind = "submitted"
  <2>1. ASSUME NEW i \in 1 .. Len(s), s[i].kind = "submitted"
        PROVE  Submits(Tail(s)) \/ Head(s).kind = "submitted"
    <3>1. CASE i = 1
      BY <1>1, <2>1, <3>1
    <3>2. CASE i - 1 \in 1 .. Len(Tail(s)) /\ Tail(s)[i - 1] = s[i]
      BY <2>1, <3>2, Zenon DEF Submits
    <3> QED
      BY <1>1, <3>1, <3>2
  <2>2. ASSUME NEW i \in 1 .. Len(Tail(s)), Tail(s)[i].kind = "submitted"
        PROVE  Submits(s)
    <3>1. i + 1 \in 1 .. Len(s) /\ s[i + 1].kind = "submitted"
      BY <1>1, <2>2
    <3> QED
      BY <3>1, Zenon DEF Submits
  <2>3. Head(s).kind = "submitted" => Submits(s)
    BY <1>1, Zenon DEF Submits
  <2> QED
    BY <2>1, <2>2, <2>3, Zenon DEF Submits
<1> QED
  BY <1>2, <1>3

\* A record that `Evaluated` leaves in a pause: it was in it before, or the pause is new.
PausesAs(s, c, e) ==
    \/ e.sup = s /\ e.cmds = c
    \/ /\ s.state # "paused" /\ e.sup.id = issued + 1 /\ e.sup.pend
       /\ e.cmds = <<Cmd("pause", issued + 1, FALSE)>> /\ e.issued = issued + 1

LEMMA EvaluatedPauses ==
    ASSUME NEW held, NEW s \in Supervision, NEW c, issued \in Nat,
           NEW e, e = Evaluated(held, s, c), e.sup.state = "paused"
    PROVE  PausesAs(s, c, e)
<1> DEFINE same == [sup |-> s, cmds |-> c, issued |-> issued]
           resumed == [s EXCEPT !.state = "running", !.busy = "no", !.pend = FALSE]
           paused == [s EXCEPT !.state = "paused", !.id = issued + 1, !.pend = TRUE, !.busy = "none"]
           marked == [s EXCEPT !.state = "running", !.over = {}]
           resume == <<Cmd("resume", 0, WantsPrompt(s))>>
           pause == <<Cmd("pause", issued + 1, FALSE)>>
<1>1. /\ resumed.state # "paused" /\ marked.state # "paused"
      /\ paused.id = issued + 1 /\ paused.pend
  BY DEF Supervision
<1> HIDE DEF resumed, paused, marked, resume, pause
<1>2. \/ e = same
      \/ e = [same EXCEPT !.sup = resumed, !.cmds = resume]
      \/ /\ e = [same EXCEPT !.sup = paused, !.cmds = pause, !.issued = issued + 1]
         /\ s.state \in {"running", "overridden"}
      \/ e = [same EXCEPT !.sup = marked]
  BY Zenon DEF Evaluated, OverrideEnds, resumed, paused, marked, resume, pause
<1>r. same \in [sup : {s}, cmds : {c}, issued : {issued}]
  OBVIOUS
<1> HIDE DEF same
<1>3. \/ e.sup = s /\ e.cmds = c
      \/ e.sup = resumed
      \/ e.sup = paused /\ e.cmds = pause /\ e.issued = issued + 1 /\ s.state \in {"running", "overridden"}
      \/ e.sup = marked
  BY <1>2, <1>r
<1> QED
  BY <1>1, <1>3 DEF pause, PausesAs

\* Nobody was told of a pause that is not issued yet.
LEMMA NextPauseUntold ==
    ASSUME TypeOK, OrderInv, Past
    PROVE  /\ NoneTells(queue, issued + 1) /\ NoneTells(d2c, issued + 1)
           /\ h.pid # issued + 1 /\ issued + 1 \notin ran /\ issued + 1 > 0
<1>1. /\ queue \in Seq(Command) /\ d2c \in Seq(ToLauncher) /\ issued \in Nat /\ h.pid \in Nat
      /\ ran \subseteq Nat
  BY DEF TypeOK, LinkTypeOK, DaemonTypeOK, HandlerTypeOK, Memory
<1>2. ASSUME NEW i \in 1 .. Len(queue), TellsOf(queue[i], issued + 1)
      PROVE  FALSE
  <2>1. queue[i] \in Command
    BY <1>1
  <2>2. queue[i].type = "pause" /\ queue[i].id = issued + 1
    BY <1>2, <2>1 DEF TellsOf, Command
  <2>3. queue[i].id <= issued
    BY <2>2 DEF OrderInv, PipelineInv, UpTo
  <2> QED
    BY <1>1, <2>2, <2>3
<1>3. ASSUME NEW i \in 1 .. Len(d2c), TellsOf(d2c[i], issued + 1)
      PROVE  FALSE
  <2>1. d2c[i].id <= issued
    BY <1>3 DEF TellsOf, Past, OrderInv, PipelineInv, UpTo
  <2> QED
    BY <1>1, <1>3, <2>1 DEF TellsOf
<1>4. issued + 1 \notin ran
  BY <1>1 DEF OrderInv, PipelineInv
<1>5. h.pid # issued + 1 /\ issued + 1 > 0
  BY <1>1 DEF Past
<1> QED
  BY <1>2, <1>3, <1>4, <1>5 DEF NoneTells

LEMMA EvaluationAgrees ==
    ASSUME TypeOK, OrderInv, Past, NEW held, NEW s \in Supervision, NEW c, NEW on,
           Agrees(s, c, on), NEW e, e = Evaluated(held, s, c)
    PROVE  Agrees(e.sup, e.cmds, on)
<1>0. issued \in Nat
  BY DEF TypeOK, DaemonTypeOK
<1> SUFFICES ASSUME e.sup.state = "paused"
             PROVE  ToldInv(e.sup.id) /\ CommandedInv(e.sup, e.cmds, on) /\ OverrideSent(e.sup.id)
  BY DEF Agrees
<1>1. PausesAs(s, c, e)
  BY <1>0, EvaluatedPauses
<1>2. CASE e.sup = s /\ e.cmds = c
  BY <1>2 DEF Agrees
<1>3. CASE /\ e.sup.id = issued + 1 /\ e.sup.pend
           /\ e.cmds = <<Cmd("pause", issued + 1, FALSE)>>
  <2>1. PICK k : k = issued + 1
    OBVIOUS
  <2>2. /\ NoneTells(queue, k) /\ NoneTells(d2c, k) /\ h.pid # k /\ k \notin ran /\ k > 0
    BY <2>1, NextPauseUntold
  <2>3. PICK x : x = Cmd("pause", k, FALSE)
    OBVIOUS
  <2>4. e.cmds = <<x>> /\ x.type = "pause" /\ x.id = k /\ x.no = 0 /\ e.sup.id = k
    BY <1>3, <2>1, <2>3 DEF Cmd
  <2>5. Len(<<x>>) = 1 /\ <<x>>[1] = x /\ Head(<<x>>) = x /\ \A i \in 1 .. Len(<<x>>) : i = 1
    OBVIOUS
  <2>6. ToldInv(k)
    BY <2>2 DEF ToldInv, TellsOn, NoneTells
  <2>7. OverrideSent(k)
    BY <2>2 DEF OverrideSent
  <2>8. AllTell(<<x>>, k) /\ Unsent(<<x>>) /\ ~Flying(<<x>>)
    BY <2>4, <2>5 DEF AllTell, TellsOf, Unsent, Flying
  <2>9. CommandedInv(e.sup, e.cmds, on)
    BY <1>3, <2>4, <2>8 DEF CommandedInv, Underway
  <2> QED
    BY <2>4, <2>6, <2>7, <2>9
<1> QED
  BY <1>1, <1>2, <1>3 DEF PausesAs

\* The first command is over: it was sent, the pause was begun, or the launcher is not there.
LEMMA FirstOverAgrees ==
    ASSUME NEW c \in Seq(DaemonCommand), c # <<>>, \A i \in 1 .. Len(c) : c[i].no # 0 => i = 1,
           NEW s, NEW on, Agrees(s, c, on), NEW t, t.state = s.state, t.id = s.id,
           s.state = "paused" => /\ t.pend \/ s.id \in ran
                                 /\ Flying(c) \/ s.id \in ran \/ ~on
    PROVE  Agrees(t, Tail(c), on)
<1> SUFFICES ASSUME s.state = "paused" PROVE CommandedInv(t, Tail(c), on)
  BY DEF Agrees
<1>1. CommandedInv(s, c, on)
  BY DEF Agrees
<1>2. /\ Tail(c) \in Seq(DaemonCommand) /\ Head(c) = c[1]
      /\ \A i \in 1 .. Len(Tail(c)) : i + 1 \in 1 .. Len(c) /\ i + 1 # 1 /\ Tail(c)[i] = c[i + 1]
      /\ \A i \in 1 .. Len(c) : i = 1 \/ (i - 1 \in 1 .. Len(Tail(c)) /\ Tail(c)[i - 1] = c[i])
      /\ Tail(c) # <<>> => 1 \in 1 .. Len(Tail(c)) /\ Head(Tail(c)) = Tail(c)[1]
  OBVIOUS
<1>3. AllTell(Tail(c), t.id)
  BY <1>1, TellTail DEF CommandedInv
<1>4. ~Flying(Tail(c))
  BY <1>2 DEF Flying
<1>5. on => Underway(Tail(c), t.id)
  <2> SUFFICES ASSUME on, s.id \notin ran PROVE Underway(Tail(c), t.id)
    BY DEF Underway
  <2>1. Flying(c) /\ Underway(c, s.id)
    BY <1>1 DEF CommandedInv
  <2>2. Unsent(c) => Unsent(Tail(c))
    BY <1>2, <2>1 DEF Unsent, Flying
  <2> QED
    BY <2>1, <2>2 DEF Underway
<1> QED
  BY <1>1, <1>3, <1>4, <1>5 DEF CommandedInv

\* A pause that was never acked is sent again.
LEMMA ResentAgrees ==
    ASSUME NEW c \in Seq(DaemonCommand), NEW e \in DaemonCommand, e.no = 0, e.type = "pause",
           NEW s, e.id = s.id, NEW on, Agrees(s, c, on)
    PROVE  Agrees(s, Append(c, e), TRUE)
<1> SUFFICES ASSUME s.state = "paused" PROVE CommandedInv(s, Append(c, e), TRUE)
  BY DEF Agrees
<1>1. CommandedInv(s, c, on)
  BY DEF Agrees
<1>2. /\ Len(Append(c, e)) \in 1 .. Len(Append(c, e)) /\ Append(c, e)[Len(Append(c, e))] = e
      /\ c # <<>> => Head(Append(c, e)) = Head(c)
      /\ c = <<>> => Head(Append(c, e)) = e
      /\ Append(c, e) # <<>>
  OBVIOUS
<1>3. AllTell(Append(c, e), s.id)
  BY <1>1, TellAppend DEF CommandedInv, TellsOf
<1>4. Unsent(Append(c, e))
  BY <1>2 DEF Unsent
<1>5. Flying(Append(c, e)) => Flying(c) /\ Head(Append(c, e)) = Head(c)
  BY <1>2 DEF Flying
<1> QED
  BY <1>1, <1>3, <1>4, <1>5 DEF CommandedInv, Underway

\* A step of the engine or of the connection, seen by a launcher in pause k.
LinkTells(k) ==
    /\ UNCHANGED <<queue, w, ran>>
    /\ h'.pid = h.pid /\ h'.paused = h.paused /\ h'.submitted = h.submitted /\ h'.reported = h.reported
    /\ \A no : Carries(c2d', "ack", no) => Carries(c2d, "ack", no)
    /\ link' = "up" => link = "up" /\ (Submits(c2d) => Submits(c2d'))
    /\ \/ d2c' = d2c \/ d2c' = <<>>
       \/ \E e \in ToLauncher : d2c' = Append(d2c, e) /\ TellsOf(e, k)

LEMMA LinkAgrees ==
    ASSUME TypeOK, NEW s, NEW c, NEW on, Agrees(s, c, on), s.state = "paused" => LinkTells(s.id),
           d2c' = <<>> => d2c = <<>> \/ ~on
    PROVE  Agrees(s, c, on)'
<1> SUFFICES ASSUME s.state = "paused"
             PROVE  ToldInv(s.id)' /\ CommandedInv(s, c, on)' /\ OverrideSent(s.id)'
  BY DEF Agrees
<1>1. PICK k : k = s.id
  OBVIOUS
<1>2. ToldInv(k) /\ CommandedInv(s, c, on) /\ OverrideSent(k) /\ LinkTells(k)
  BY <1>1 DEF Agrees
<1>3. /\ TellsOn(d2c, k) => TellsOn(d2c', k)
      /\ AllTell(d2c, k) => AllTell(d2c', k)
      /\ on /\ HasPause(d2c, k) => HasPause(d2c', k)
  <2>1. d2c \in Seq(ToLauncher)
    BY DEF TypeOK, LinkTypeOK
  <2>2. CASE d2c' = d2c
    BY <2>2
  <2>3. CASE d2c' = <<>>
    BY <2>3, TellNothing
  <2>4. CASE \E e \in ToLauncher : d2c' = Append(d2c, e) /\ TellsOf(e, k)
    BY <2>1, <2>4, TellAppend
  <2> QED
    BY <1>2, <2>2, <2>3, <2>4 DEF LinkTells
<1>4. ToldInv(k)'
  BY <1>2, <1>3 DEF ToldInv, LinkTells
<1>5. OverrideSent(k)'
  BY <1>2 DEF OverrideSent, LinkTells
<1>6. \A no : AnswersOf(no, k) => AnswersOf(no, k)'
  BY <1>2 DEF AnswersOf, LinkTells
<1>7. on /\ Underway(c, k) => Underway(c, k)'
  BY <1>2, <1>3 DEF Underway, LinkTells
<1>8. s.pend \/ k \in ran => s.pend \/ k \in ran'
  BY <1>2 DEF LinkTells
<1>9. CommandedInv(s, c, on)'
  BY <1>1, <1>2, <1>6, <1>7, <1>8 DEF CommandedInv
<1> QED
  BY <1>1, <1>4, <1>5, <1>9

\* The engine's record becomes `s`, its commands `c`, and the launcher is there if `on`.
LEMMA EngineAgrees ==
    ASSUME TypeOK, NEW s, NEW c, NEW on, Agrees(s, c, on), s.state = "paused" => LinkTells(s.id),
           d2c' = <<>> => d2c = <<>> \/ ~on, sup' = s, cmds' = c, served' => on
    PROVE  Agrees(sup, cmds, served)'
<1>1. Agrees(s, c, on)'
  BY LinkAgrees
<1>2. sup' = s /\ cmds' = c
  OBVIOUS
<1> QED
  BY <1>1, <1>2 DEF Agrees, CommandedInv

LEMMA EvaluatesAgrees ==
    ASSUME TypeOK, OrderInv, Past, NEW held, NEW s \in Supervision, NEW c, NEW on, Agrees(s, c, on),
           Become(Evaluated(held, s, c)), \A k : LinkTells(k),
           d2c' = <<>> => d2c = <<>> \/ ~on, served' => on
    PROVE  Agrees(sup, cmds, served)'
<1>1. PICK d : d = Evaluated(held, s, c)
  OBVIOUS
<1>2. sup' = d.sup /\ cmds' = d.cmds
  BY <1>1 DEF Become
<1>3. Agrees(d.sup, d.cmds, on)
  BY <1>1, EvaluationAgrees
<1> QED
  BY <1>2, <1>3, EngineAgrees

LEMMA CommandEndsAgrees ==
    ASSUME TypeOK, OrderInv, PromptInv, Past, cmds # <<>>, NEW on, Agrees(sup, cmds, on),
           NEW result, NEW busy \in WasBusy, CommandEnds(result, busy), \A k : LinkTells(k),
           sup.state = "paused" => /\ result \in {"injected", "skipped"} => sup.id \in ran
                                   /\ Flying(cmds) \/ sup.id \in ran \/ ~on,
           d2c' = <<>> => d2c = <<>> \/ ~on, served' => on
    PROVE  Agrees(sup, cmds, served)'
<1> DEFINE c == Head(cmds)
           s == IF c.type = "pause" /\ sup.state = "paused" /\ sup.id = c.id
                THEN [sup EXCEPT !.pend = @ /\ result \notin {"injected", "skipped"},
                                 !.busy = IF busy = "none" THEN @ ELSE busy]
                ELSE sup
<1>1. /\ s \in Supervision /\ s.state = sup.state /\ s.id = sup.id
      /\ sup.pend => s.pend \/ result \in {"injected", "skipped"}
  <2>1. sup \in Supervision
    BY DEF TypeOK, DaemonTypeOK
  <2>2. /\ (sup.pend /\ result \notin {"injected", "skipped"}) \in BOOLEAN
        /\ (IF busy = "none" THEN sup.busy ELSE busy) \in WasBusy
    BY <2>1 DEF Supervision
  <2>3. \A a \in BOOLEAN, b \in WasBusy :
          LET n == [sup EXCEPT !.pend = a, !.busy = b]
          IN  n \in Supervision /\ n.state = sup.state /\ n.id = sup.id /\ n.pend = a
    BY <2>1 DEF Supervision
  <2>4. CASE c.type = "pause" /\ sup.state = "paused" /\ sup.id = c.id
    <3>1. /\ s \in Supervision /\ s.state = sup.state /\ s.id = sup.id
          /\ s.pend = (sup.pend /\ result \notin {"injected", "skipped"})
      BY <2>2, <2>3, <2>4, Zenon
    <3> QED
      BY <3>1, Zenon
  <2>5. CASE ~(c.type = "pause" /\ sup.state = "paused" /\ sup.id = c.id)
    BY <2>1, <2>5
  <2> QED
    BY <2>4, <2>5
<1>2. Become(Evaluated(Held, s, Tail(cmds)))
  BY Zenon DEF CommandEnds
<1> HIDE DEF s
<1>3. cmds \in Seq(DaemonCommand) /\ \A i \in 1 .. Len(cmds) : cmds[i].no # 0 => i = 1
  BY DEF TypeOK, DaemonTypeOK, PromptInv, EngineAsks, NumbersTell
<1>4. sup.state = "paused" => s.pend \/ sup.id \in ran
  BY <1>1 DEF Agrees, CommandedInv
<1>5. PICK t : t = s
  OBVIOUS
<1>6. Agrees(t, Tail(cmds), on)
  BY <1>1, <1>3, <1>4, <1>5, FirstOverAgrees
<1> QED
  BY <1>1, <1>2, <1>5, <1>6, EvaluatesAgrees

LEMMA HoldStepAgrees ==
    ASSUME TypeOK, OrderInv, AgreeInv, HoldStep \/ Tick
    PROVE  Agrees(sup, cmds, served)'
<1>1. (\A k : LinkTells(k)) /\ d2c' = d2c /\ served' = served
  BY DEF HoldStep, Tick, LinkTells, linkVars, launcherVars, handlerVars
<1>2. sup \in Supervision /\ Past /\ Agrees(sup, cmds, served)
  BY DEF TypeOK, DaemonTypeOK, AgreeInv
<1>3. PICK held : Become(Evaluated(held, sup, cmds))
  BY DEF HoldStep, Tick
<1> QED
  BY <1>1, <1>2, <1>3, EvaluatesAgrees

\* A session that is not paused has nothing to agree on.
LEMMA OutOfPauseAgrees ==
    ASSUME TypeOK, OpResumeStep \/ ReapStep
    PROVE  sup'.state # "paused" \/ UNCHANGED <<sup, cmds, linkVars, launcherVars>>
<1>1. CASE ReapStep
  BY <1>1 DEF ReapStep, Reap, NoSup
<1>2. CASE OpResumeStep
  <2>0. PICK own \in Own : OpResume(own)
    BY <1>2 DEF OpResumeStep
  <2>1. CASE sup.state = "paused"
    <3> DEFINE s == [sup EXCEPT !.state = IF Held' = {} THEN "running" ELSE "overridden",
                                !.over = @ \cup Held', !.busy = "no", !.pend = FALSE]
               d == [sup |-> s, cmds |-> Append(cmds, Cmd("resume", 0, WantsPrompt(sup))),
                     issued |-> issued]
    <3>1. Become(d)
      BY <2>0, <2>1, Zenon DEF OpResume
    <3>2. s.state \in {"running", "overridden"}
      BY DEF TypeOK, DaemonTypeOK, Supervision
    <3>3. sup' = s
      BY <3>1, Zenon DEF Become
    <3> HIDE DEF s
    <3> QED
      BY <3>2, <3>3
  <2>2. CASE sup.state # "paused"
    BY <2>0, <2>2 DEF OpResume
  <2> QED
    BY <2>1, <2>2
<1> QED
  BY <1>1, <1>2

LEMMA RecordChangeAgrees ==
    ASSUME TypeOK, AgreeInv, OpResumeStep \/ ReapStep
    PROVE  Agrees(sup, cmds, served)'
<1>1. CASE sup'.state # "paused"
  BY <1>1 DEF Agrees
<1>2. CASE UNCHANGED <<sup, cmds, linkVars, launcherVars>>
  <2>1. (\A k : LinkTells(k)) /\ d2c' = d2c /\ served' = served
    BY <1>2 DEF LinkTells, linkVars, launcherVars, handlerVars
  <2> QED
    BY <1>2, <2>1, EngineAgrees DEF AgreeInv
<1> QED
  BY <1>1, <1>2, OutOfPauseAgrees

LEMMA FaultsAgree ==
    ASSUME TypeOK, OrderInv, PromptInv, AgreeInv,
           AckTimeout \/ Connect \/ Restart \/ Drop \/ Crash
    PROVE  Agrees(sup, cmds, served)'
<1>a. Past /\ Agrees(sup, cmds, served) /\ Agrees(sup, cmds, FALSE)
  BY DEF AgreeInv, Agrees, CommandedInv
<1>n. "none" \in WasBusy
  BY DEF WasBusy
<1>1. CASE AckTimeout
  <2>1. /\ cmds # <<>> /\ Flying(cmds) /\ CommandEnds("timeout", "none")
        /\ d2c' = d2c /\ served' = served
    BY <1>1 DEF AckTimeout, InFlight, Flying
  <2>2. \A k : LinkTells(k)
    BY <1>1 DEF AckTimeout, LinkTells
  <2> QED
    BY <1>a, <1>n, <2>1, <2>2, CommandEndsAgrees
<1>2. CASE Restart
  <2>1. \A k : LinkTells(k)
    BY <1>2 DEF Restart, LinkTells, linkVars, launcherVars, handlerVars
  <2>2. UNCHANGED <<sup, cmds, d2c, served>>
    BY <1>2 DEF Restart, linkVars
  <2> QED
    BY <1>a, <2>1, <2>2, EngineAgrees
<1>3. CASE Connect
  <2>1. PICK m : m = [Message("register", 0) EXCEPT !.first = first]
    OBVIOUS
  <2>2. m.kind = "register"
    BY <2>1 DEF Message
  <2>3. c2d' = <<m>> /\ link' = "open" /\ UNCHANGED <<d2c, served, daemonVars, launcherVars>>
    BY <1>3, <2>1 DEF Connect
  <2>4. \A no : ~Carries(<<m>>, "ack", no)
    <3>1. \A i \in 1 .. Len(<<m>>) : <<m>>[i] = m
      OBVIOUS
    <3> QED
      BY <2>2, <3>1 DEF Carries
  <2>5. \A k : LinkTells(k)
    BY <2>3, <2>4 DEF LinkTells, launcherVars, handlerVars
  <2> QED
    BY <1>a, <2>3, <2>5, EngineAgrees DEF daemonVars
<1>c. Cut => (\A k : LinkTells(k)) /\ ~served' /\ d2c' = <<>>
  <2> SUFFICES ASSUME Cut PROVE (\A k : LinkTells(k)) /\ ~served' /\ d2c' = <<>>
    OBVIOUS
  <2>1. /\ c2d' = <<>> /\ d2c' = <<>> /\ link' = "down" /\ ~served' /\ UNCHANGED <<queue, w, ran>>
        /\ h' = h \/ h' = ReportReturns(h, FALSE)
    BY DEF Cut
  <2>2. h'.pid = h.pid /\ h'.paused = h.paused /\ h'.submitted = h.submitted /\ h'.reported = h.reported
    <3>1. h \in Memory
      BY DEF TypeOK, HandlerTypeOK
    <3> QED
      BY <2>1, <3>1 DEF ReportReturns, Memory
  <2>3. \A no : ~Carries(<<>>, "ack", no)
    BY TellNothing
  <2> QED
    BY <2>1, <2>2, <2>3 DEF LinkTells
<1>4. CASE Drop
  <2>1. (\A k : LinkTells(k)) /\ ~served' /\ d2c' = <<>>
    BY <1>c, <1>4 DEF Drop
  <2>2. CASE InFlight
    <3>1. cmds # <<>> /\ CommandEnds("not_connected", "none")
      BY <1>4, <2>2 DEF Drop, InFlight
    <3>2. served' => FALSE
      BY <2>1
    <3> QED
      BY <1>a, <1>n, <2>1, <3>1, <3>2, CommandEndsAgrees
  <2>3. CASE ~InFlight
    <3>1. UNCHANGED <<sup, cmds>>
      BY <1>4, <2>3 DEF Drop
    <3> QED
      BY <1>a, <2>1, <3>1, EngineAgrees
  <2> QED
    BY <2>2, <2>3
<1>5. CASE Crash
  <2>1. (\A k : LinkTells(k)) /\ ~served' /\ d2c' = <<>> /\ sup' = sup /\ cmds' = <<>>
    BY <1>c, <1>5 DEF Crash
  <2>2. Agrees(sup, <<>>, FALSE)
    BY <1>a, TellNothing DEF Agrees, CommandedInv, Flying
  <2> QED
    BY <2>1, <2>2, EngineAgrees
<1> QED
  BY <1>1, <1>2, <1>3, <1>4, <1>5

LEMMA StartCmdAgrees ==
    ASSUME TypeOK, OrderInv, PromptInv, AgreeInv, StartCmd
    PROVE  Agrees(sup, cmds, served)'
<1> DEFINE c == Head(cmds)
           unwanted == c.type = "pause" /\ ~(PausePending(sup) /\ sup.id = c.id)
           message == [kind |-> "cmd", type |-> c.type, id |-> c.id, prompt |-> c.prompt,
                       no |-> sends + 1, ok |-> TRUE]
<1>1. /\ cmds # <<>> /\ ~InFlight /\ UNCHANGED <<c2d, h, w, ran, queue, link, served>>
      /\ cmds \in Seq(DaemonCommand) /\ sup \in Supervision /\ c \in DaemonCommand
      /\ Past /\ Agrees(sup, cmds, served) /\ ~Flying(cmds)
      /\ \A i \in 1 .. Len(cmds) : cmds[i].no # 0 => i = 1
  BY HeadTailType DEF StartCmd, TypeOK, DaemonTypeOK, AgreeInv, InFlight, Flying, PromptInv,
                      EngineAsks, NumbersTell
<1>2. sup.state = "paused" => TellsOf(c, sup.id) /\ c.type = "pause" /\ c.id = sup.id
  <2> SUFFICES ASSUME sup.state = "paused" PROVE TellsOf(c, sup.id) /\ c.type = "pause" /\ c.id = sup.id
    OBVIOUS
  <2>1. TellsOf(c, sup.id)
    BY <1>1, TellTail DEF Agrees, CommandedInv
  <2> QED
    BY <1>1, <2>1 DEF TellsOf, DaemonCommand
<1>3. CASE unwanted
  <2>1. Become(Evaluated(Held, sup, Tail(cmds))) /\ d2c' = d2c
    BY <1>3, Zenon DEF StartCmd
  <2>2. \A k : LinkTells(k)
    BY <1>1, <2>1 DEF LinkTells
  <2>3. sup.state = "paused" => sup.id \in ran
    BY <1>1, <1>2, <1>3 DEF PausePending, Agrees, CommandedInv
  <2>4. Agrees(sup, Tail(cmds), served)
    BY <1>1, <2>3, FirstOverAgrees
  <2> QED
    BY <1>1, <2>1, <2>2, <2>4, EvaluatesAgrees
<1>4. CASE ~unwanted /\ ~served
  <2>1. CommandEnds("not_connected", "none") /\ d2c' = d2c
    BY <1>4, Zenon DEF StartCmd
  <2>2. \A k : LinkTells(k)
    BY <1>1, <2>1 DEF LinkTells
  <2>3. "none" \in WasBusy
    BY DEF WasBusy
  <2> QED
    BY <1>1, <1>4, <2>1, <2>2, <2>3, CommandEndsAgrees
<1>5. CASE ~unwanted /\ served
  <2>1. /\ d2c' = Append(d2c, message) /\ cmds' = [cmds EXCEPT ![1].no = sends + 1] /\ sup' = sup
    BY <1>5, Zenon DEF StartCmd
  <2>2. PICK e : e = message
    OBVIOUS
  <2>3. e \in ToLauncher /\ e.type = c.type /\ e.id = c.id
    BY <1>1, <2>2 DEF ToLauncher, DaemonCommand, TypeOK, DaemonTypeOK
  <2> HIDE DEF message
  <2>4. PICK n \in Nat \ {0} : n = sends + 1 /\ n > sends
    BY DEF TypeOK, DaemonTypeOK
  <2>5. PICK x : x = Sent(cmds, n)
    OBVIOUS
  <2>6. cmds' = x
    BY <2>1, <2>4, <2>5 DEF Sent
  <2>7. x # <<>> /\ Head(x).no = n
    BY <1>1, <2>5, SentCommand DEF SentKeeps
  <2> SUFFICES ASSUME sup.state = "paused" PROVE Agrees(sup, cmds, served)'
    BY <2>1 DEF Agrees
  <2>8. PICK k : k = sup.id
    OBVIOUS
  <2>9. /\ ToldInv(k) /\ CommandedInv(sup, cmds, served) /\ OverrideSent(k) /\ TellsOf(e, k)
        /\ e.type = "pause" /\ e.id = k
    BY <1>1, <1>2, <2>3, <2>8 DEF Agrees, TellsOf
  <2>10. /\ TellsOn(d2c', k) /\ (AllTell(d2c, k) => AllTell(d2c', k)) /\ HasPause(d2c', k)
    <3>1. d2c \in Seq(ToLauncher)
      BY DEF TypeOK, LinkTypeOK
    <3> QED
      BY <2>1, <2>2, <2>3, <2>9, <3>1, TellAppend DEF ToldInv
  <2>11. ToldInv(k)'
    BY <1>1, <2>9, <2>10 DEF ToldInv
  <2>12. OverrideSent(k)'
    BY <1>1, <2>9 DEF OverrideSent
  <2>13. AllTell(x, k)
    <3>1. \A i \in 1 .. Len(x) : i \in 1 .. Len(cmds) /\ x[i].type = cmds[i].type /\ x[i].id = cmds[i].id
      BY <1>1, <2>5 DEF Sent, DaemonCommand
    <3>2. AllTell(cmds, k)
      BY <2>8, <2>9 DEF CommandedInv
    <3> QED
      BY <3>1, <3>2 DEF AllTell, TellsOf
  <2>14. AnswersOf(n, k)'
    <3>1. w.no <= sends /\ w.no \in Nat /\ \A i \in 1 .. Len(c2d) : c2d[i].kind = "ack" => c2d[i].no <= sends
      BY DEF PromptInv, EngineAsks, NumbersTell, TypeOK, HandlerTypeOK, Work
    <3>2. \A i \in 1 .. Len(c2d) : c2d[i].no \in Nat
      <4>1. \A i \in 1 .. Len(c2d) : c2d[i] \in ToDaemon
        BY DEF TypeOK, LinkTypeOK
      <4> QED
        BY <4>1 DEF ToDaemon
    <3>3. w.no # n /\ ~Carries(c2d, "ack", n)
      BY <2>4, <3>1, <3>2 DEF Carries, TypeOK, DaemonTypeOK
    <3> QED
      BY <1>1, <3>3 DEF AnswersOf
  <2>15. Underway(x, k)'
    BY <2>10 DEF Underway
  <2>16. sup.pend \/ k \in ran
    BY <2>8, <2>9 DEF CommandedInv
  <2>17. CommandedInv(sup, x, served)'
    BY <1>1, <2>1, <2>7, <2>8, <2>13, <2>14, <2>15, <2>16 DEF CommandedInv
  <2> QED
    BY <2>1, <2>6, <2>8, <2>11, <2>12, <2>17 DEF Agrees
<1> QED
  BY <1>3, <1>4, <1>5

LEMMA ReadRegisterAgrees ==
    ASSUME TypeOK, OrderInv, AgreeInv, NEW m, ReadRegister(m),
           UNCHANGED <<queue, w, ran, h, link>>,
           \A no : Carries(c2d', "ack", no) => Carries(c2d, "ack", no), Submits(c2d) => Submits(c2d')
    PROVE  /\ Agrees(sup, cmds, served)'
           /\ d2c' = Append(d2c, Reply("registered", sup'.state, sup'.id)) /\ sup' \in Supervision
<1> DEFINE new == IF m.first
                  THEN [NoSup EXCEPT !.state = IF Held = {} THEN "running" ELSE "overridden",
                                     !.over = Held]
                  ELSE [NoSup EXCEPT !.state = "running"]
           record == IF sup.state = "none" THEN new ELSE sup
           d == Evaluated(Held, record, cmds)
           resent == [d EXCEPT !.cmds = Append(@, Cmd("pause", d.sup.id, FALSE))]
<1>1. new \in Supervision /\ new.state # "paused"
  <2>1. \A state \in {"running", "overridden"}, over \in SUBSET Instance :
           LET n == [NoSup EXCEPT !.state = state, !.over = over]
           IN  n \in Supervision /\ n.state # "paused"
    BY NewRecordType, Zenon
  <2>2. LET n == [NoSup EXCEPT !.state = "running"] IN n \in Supervision /\ n.state # "paused"
    BY NoSupType DEF NoSup, Supervision, SupStates
  <2>3. Held \in SUBSET Instance
    BY DEF Held
  <2>4. (IF Held = {} THEN "running" ELSE "overridden") \in {"running", "overridden"}
    OBVIOUS
  <2>5. CASE m.first
    BY <2>1, <2>3, <2>4, <2>5, Zenon
  <2>6. CASE ~m.first
    BY <2>2, <2>6, Zenon
  <2> QED
    BY <2>5, <2>6
<1> HIDE DEF new
<1>2. record \in Supervision /\ Agrees(record, cmds, FALSE) /\ Past
  BY <1>1 DEF TypeOK, DaemonTypeOK, AgreeInv, Agrees, CommandedInv
<1>3. /\ Become(IF PausePending(d.sup) THEN resent ELSE d)
      /\ d2c' = Append(d2c, Reply("registered", d.sup.state, d.sup.id))
  BY Zenon DEF ReadRegister, record, new
<1>4. d \in Decision
  BY <1>2, EvaluatedType DEF TypeOK, DaemonTypeOK
<1> HIDE DEF record
<1>5. PICK e : e = d
  OBVIOUS
<1>6. Agrees(e.sup, e.cmds, FALSE) /\ e \in Decision
  BY <1>2, <1>4, <1>5, EvaluationAgrees
<1>7. sup' = e.sup /\ sup' \in Supervision
  BY <1>3, <1>4, <1>5 DEF Become, Decision
<1> HIDE DEF d
<1>8. PICK r : r = Reply("registered", e.sup.state, e.sup.id)
  OBVIOUS
<1>9. /\ d2c' = Append(d2c, r) /\ r \in ToLauncher
      /\ e.sup.state = "paused" => TellsOf(r, e.sup.id)
  <2>1. r \in ToLauncher
    BY <1>6, <1>8, ReplyType DEF Decision, Supervision
  <2> QED
    BY <1>3, <1>5, <1>8, <2>1 DEF Reply, TellsOf
<1>10. e.sup.state = "paused" => LinkTells(e.sup.id)
  BY <1>9 DEF LinkTells
<1>11. d2c' # <<>>
  <2>1. d2c \in Seq(ToLauncher)
    BY DEF TypeOK, LinkTypeOK
  <2> QED
    BY <1>9, <2>1
<1>12. CASE PausePending(e.sup)
  <2>1. PICK p : p = Cmd("pause", e.sup.id, FALSE)
    OBVIOUS
  <2>2. p \in DaemonCommand /\ p.no = 0 /\ p.type = "pause" /\ p.id = e.sup.id
    BY <1>6, <2>1, CmdType DEF Cmd, Decision, Supervision
  <2>3. cmds' = Append(e.cmds, p)
    BY <1>3, <1>4, <1>5, <1>12, <2>1 DEF Become, Decision
  <2>4. Agrees(e.sup, Append(e.cmds, p), TRUE)
    BY <1>6, <2>2, ResentAgrees DEF Decision
  <2>5. Agrees(sup, cmds, served)'
    BY <1>7, <1>10, <1>11, <2>3, <2>4, EngineAgrees
  <2> QED
    BY <1>7, <1>8, <1>9, <2>5
<1>13. CASE ~PausePending(e.sup)
  <2>1. cmds' = e.cmds
    BY <1>3, <1>5, <1>13 DEF Become
  <2>2. Agrees(e.sup, e.cmds, TRUE)
    BY <1>6, <1>13 DEF Agrees, CommandedInv, PausePending, Underway
  <2>3. Agrees(sup, cmds, served)'
    BY <1>7, <1>10, <1>11, <2>1, <2>2, EngineAgrees
  <2> QED
    BY <1>7, <1>8, <1>9, <2>3
<1> QED
  BY <1>12, <1>13

\* A pause ends with the user's submit, and none begins.
LEMMA ReadSubmittedAgrees ==
    ASSUME TypeOK, NEW m, ReadSubmitted(m)
    PROVE  Agrees(sup, cmds, served)'
<1> DEFINE s == [sup EXCEPT !.state = "overridden", !.pend = FALSE, !.over = @ \cup Held]
<1>1. CASE sup.state = "paused"
  <2>1. s \in Supervision /\ s.state = "overridden" /\ Held \subseteq s.over
    BY DEF TypeOK, DaemonTypeOK, Supervision, SupStates, Held
  <2>2. Become(Evaluated(Held, s, cmds))
    BY <1>1, Zenon DEF ReadSubmitted
  <2> HIDE DEF s
  <2>3. PICK e : e = Evaluated(Held, s, cmds)
    OBVIOUS
  <2>4. issued \in Nat /\ sup' = e.sup
    BY <2>2, <2>3 DEF Become, TypeOK, DaemonTypeOK
  <2>5. EvaluatedTo(Held, s, e)
    BY <2>1, <2>3, <2>4, EvaluatedCases
  <2> QED
    BY <2>1, <2>4, <2>5 DEF EvaluatedTo, Agrees
<1>2. CASE sup.state # "paused"
  BY <1>2 DEF ReadSubmitted, Agrees
<1> QED
  BY <1>1, <1>2

LEMMA ReadAckAgrees ==
    ASSUME TypeOK, OrderInv, PromptInv, AgreeInv, c2d # <<>>, NEW m, m = Head(c2d),
           m.kind = "ack", ReadAck(m), UNCHANGED <<queue, w, ran, h, link>>,
           \A no : Carries(c2d', "ack", no) => Carries(c2d, "ack", no), Submits(c2d) => Submits(c2d')
    PROVE  Agrees(sup, cmds, served)'
<1>1. m \in ToDaemon /\ c2d \in Seq(ToDaemon) /\ Past /\ Agrees(sup, cmds, served)
  BY HeadTailType DEF TypeOK, LinkTypeOK, AgreeInv
<1>2. d2c' = d2c /\ served' = served
  BY DEF ReadAck
<1>3. \A k : LinkTells(k)
  BY <1>2 DEF LinkTells
<1>4. CASE InFlight /\ Head(cmds).no = m.no
  <2>1. cmds # <<>> /\ CommandEnds(m.result, m.busy) /\ m.busy \in WasBusy /\ Flying(cmds)
    BY <1>1, <1>4 DEF ReadAck, InFlight, ToDaemon, Flying
  <2>2. Carries(c2d, "ack", m.no)
    BY <1>1, CarriesTail
  <2>3. sup.state = "paused" => sup.id \in ran
    BY <1>1, <1>4, <2>1, <2>2 DEF Agrees, CommandedInv, AnswersOf
  <2> QED
    BY <1>1, <1>2, <1>3, <2>1, <2>3, CommandEndsAgrees
<1>5. CASE ~(InFlight /\ Head(cmds).no = m.no)
  <2>1. UNCHANGED <<sup, cmds>>
    BY <1>5 DEF ReadAck
  <2> QED
    BY <1>1, <1>2, <1>3, <2>1, EngineAgrees
<1> QED
  BY <1>4, <1>5

LEMMA DaemonReadsAgrees ==
    ASSUME TypeOK, OrderInv, PromptInv, AgreeInv, DaemonReads
    PROVE  Agrees(sup, cmds, served)'
<1>1. PICK m : m = Head(c2d)
  OBVIOUS
<1>2. m \in ToDaemon /\ c2d # <<>> /\ c2d \in Seq(ToDaemon) /\ c2d' = Tail(c2d)
  BY <1>1, HeadTailType DEF DaemonReads, TypeOK, LinkTypeOK
<1>3. /\ m.kind = "register" => ReadRegister(m)
      /\ m.kind = "submitted" => ReadSubmitted(m)
      /\ m.kind = "ack" => ReadAck(m)
      /\ UNCHANGED <<queue, w, ran, h, link>>
  BY <1>1, <1>2 DEF DaemonReads, ToDaemon
<1>4. /\ \A no : Carries(c2d', "ack", no) => Carries(c2d, "ack", no)
      /\ m.kind # "submitted" /\ Submits(c2d) => Submits(c2d')
  BY <1>1, <1>2, CarriesTail
<1> QED
  BY <1>1, <1>2, <1>3, <1>4, ReadRegisterAgrees, ReadSubmittedAgrees, ReadAckAgrees DEF ToDaemon

LEMMA DaemonReadsPast ==
    ASSUME TypeOK, OrderInv, OrderInv', AgreeInv, DaemonReads
    PROVE  Past'
<1>1. PICK m : m = Head(c2d)
  OBVIOUS
<1>2. m \in ToDaemon /\ c2d # <<>> /\ c2d \in Seq(ToDaemon) /\ c2d' = Tail(c2d)
  BY <1>1, HeadTailType DEF DaemonReads, TypeOK, LinkTypeOK
<1>3. /\ m.kind = "register" => ReadRegister(m)
      /\ m.kind = "submitted" => ReadSubmitted(m)
      /\ m.kind = "ack" => ReadAck(m)
      /\ UNCHANGED <<queue, w, ran, h, link>>
  BY <1>1, <1>2 DEF DaemonReads, ToDaemon
<1>4. /\ \A no : Carries(c2d', "ack", no) => Carries(c2d, "ack", no)
      /\ m.kind # "submitted" /\ Submits(c2d) => Submits(c2d')
  BY <1>1, <1>2, CarriesTail
<1>5. issued \in Nat /\ issued' \in Nat /\ issued <= issued' /\ h.pid \in Nat /\ d2c \in Seq(ToLauncher)
  BY DaemonReadsMoves DEF RecordMoves, IssueMoves, TypeOK, DaemonTypeOK, HandlerTypeOK, LinkTypeOK, Memory
<1>6. h'.pid <= issued'
  BY <1>3, <1>5 DEF AgreeInv, Past
<1>7. \A i \in 1 .. Len(d2c) : d2c[i].type = "paused" => d2c[i].kind = "registered" /\ d2c[i].id <= issued'
  <2> SUFFICES ASSUME NEW i \in 1 .. Len(d2c), d2c[i].type = "paused"
               PROVE  d2c[i].kind = "registered" /\ d2c[i].id <= issued'
    OBVIOUS
  <2>1. d2c[i] \in ToLauncher /\ d2c[i].kind = "registered" /\ d2c[i].id <= issued
    BY <1>5 DEF AgreeInv, Past
  <2>2. d2c[i].id \in Nat
    BY <2>1, PauseIds
  <2> QED
    BY <1>5, <2>1, <2>2
<1>8. CASE d2c' = d2c
  BY <1>6, <1>7, <1>8 DEF Past
<1>9. ASSUME NEW e \in ToLauncher, d2c' = Append(d2c, e), e.type = "paused" => e.kind = "registered" /\ e.id <= issued'
      PROVE  Past'
  <2>1. \A i \in 1 .. Len(d2c') : (i \in 1 .. Len(d2c) /\ d2c'[i] = d2c[i]) \/ d2c'[i] = e
    BY <1>5, <1>9
  <2> QED
    BY <1>6, <1>7, <1>9, <2>1 DEF Past
<1>10. CASE m.kind = "register"
  <2>1. /\ d2c' = Append(d2c, Reply("registered", sup'.state, sup'.id)) /\ sup' \in Supervision
    BY <1>3, <1>4, <1>10, ReadRegisterAgrees
  <2>2. PICK e : e = Reply("registered", sup'.state, sup'.id)
    OBVIOUS
  <2>3. e \in ToLauncher /\ e.type = sup'.state /\ e.id = sup'.id /\ e.kind = "registered"
    BY <2>1, <2>2, ReplyType DEF Supervision, Reply
  <2>4. e.type = "paused" => e.kind = "registered" /\ e.id <= issued'
    BY <1>5, <2>3 DEF OrderInv, LastPause
  <2> QED
    BY <1>9, <2>1, <2>2, <2>3, <2>4
<1>11. CASE m.kind = "submitted"
  <2>1. PICK e : e = [Reply("noted", "none", 0) EXCEPT !.no = m.no, !.ok = sup.state # "none"]
    OBVIOUS
  <2>2. d2c' = Append(d2c, e)
    BY <1>3, <1>11, <2>1, Zenon DEF ReadSubmitted
  <2>3. e \in ToLauncher /\ e.type = "none"
    <3>1. \A no \in Nat, ok \in BOOLEAN :
             LET r == [Reply("noted", "none", 0) EXCEPT !.no = no, !.ok = ok]
             IN  r \in ToLauncher /\ r.type = "none"
      BY DEF Reply, ToLauncher, SupStates
    <3>2. m.no \in Nat /\ (sup.state # "none") \in BOOLEAN
      BY <1>2 DEF ToDaemon
    <3> QED
      BY <2>1, <3>1, <3>2, Zenon
  <2> QED
    BY <1>9, <2>2, <2>3
<1>12. CASE m.kind = "ack"
  BY <1>3, <1>8, <1>12 DEF ReadAck
<1> QED
  BY <1>2, <1>10, <1>11, <1>12 DEF ToDaemon

\* What the launcher knows and reports of a pause.
SameBelief(f, g) ==
    /\ f.paused = g.paused /\ f.pid = g.pid /\ f.submitted = g.submitted /\ f.reported = g.reported
    /\ f.sending = g.sending /\ f.report = g.report

LEMMA HandlerStepBelief ==
    ASSUME HandlerTypeOK, HandlerStep
    PROVE  SameBelief(h', h)
<1>1. h \in Memory
  BY DEF HandlerTypeOK
<1>2. \/ h' = h
      \/ \E d : h' = [h EXCEPT !.done = d]
      \/ \E b : h' = [h EXCEPT !.background = b]
  BY DEF HandlerStep, Look, GuardGivesUp, FirstEsc, Verify, SecondEsc, Chord, Key, SweepRow, FinalEsc,
         EndPause, WaitIdle, Paste, Submit, FinishPause
<1> QED
  BY <1>1, <1>2 DEF Memory, SameBelief

LEMMA SendOverrideAs ==
    ASSUME NEW g \in Memory, NEW f, f = SendOverride(g)
    PROVE  /\ f \in Memory /\ f.paused = g.paused /\ f.pid = g.pid /\ f.submitted = g.submitted
           /\ f.reported = g.reported
           /\ g.sending => f.sending /\ f.report = g.report
           /\ f.submitted /\ ~f.reported => f.sending
<1>1. f \in Memory
  BY SendOverrideType
<1>2. CASE g.submitted /\ ~g.reported /\ ~g.sending
  <2>1. f = [g EXCEPT !.sending = TRUE, !.stale = FALSE, !.report = @ + 1]
    BY <1>2, Zenon DEF SendOverride
  <2>2. /\ f.paused = g.paused /\ f.pid = g.pid /\ f.submitted = g.submitted
        /\ f.reported = g.reported /\ f.sending
    BY <2>1 DEF Memory
  <2> QED
    BY <1>1, <1>2, <2>2
<1>3. CASE ~(g.submitted /\ ~g.reported /\ ~g.sending)
  <2>1. f = g
    BY <1>3 DEF SendOverride
  <2> QED
    BY <1>1, <1>3, <2>1
<1> QED
  BY <1>2, <1>3

LEMMA SupervisionBelief ==
    ASSUME h \in Memory, NEW state, NEW id \in Nat, NEW f, f = ApplySupervision(h, state, id)
    PROVE  /\ f \in Memory /\ (h.sending => f.sending /\ f.report = h.report)
           /\ IF state = "paused"
              THEN /\ f.paused /\ f.pid = id /\ (f.submitted /\ ~f.reported => f.sending)
                   /\ f.reported => h.pid = id /\ h.reported
              ELSE ~f.paused /\ f.pid = h.pid
<1>1. f \in Memory
  BY ApplySupervisionType
<1>2. CASE state = "paused"
  <2> DEFINE told == IF IsCurrent(h, id) THEN h ELSE MissedPause(h, id)
             g == [told EXCEPT !.paused = TRUE]
  <2>1. f = SendOverride(g)
    BY <1>2, Zenon DEF ApplySupervision
  <2>2. /\ told \in Memory /\ told.pid = id /\ told.sending = h.sending /\ told.report = h.report
        /\ told.reported => h.pid = id /\ h.reported
    <3>1. CASE IsCurrent(h, id)
      BY <3>1 DEF IsCurrent
    <3>2. CASE ~IsCurrent(h, id)
      <4>1. PICK n : n = NewPause(h, id)
        OBVIOUS
      <4>2. /\ n \in Memory /\ n.pid = id /\ ~n.reported /\ n.sending = h.sending /\ n.report = h.report
        BY <4>1 DEF NewPause, Memory
      <4>3. PICK a \in BOOLEAN, b \in BOOLEAN : a = (h.typedAt >= id) /\ b = (h.submittedAt >= id)
        <5>1. (h.typedAt >= id) \in BOOLEAN /\ (h.submittedAt >= id) \in BOOLEAN
          BY DEF Memory
        <5> QED
          BY <5>1, Zenon
      <4>4. PICK x : x = [n EXCEPT !.typed = a, !.submitted = b]
        OBVIOUS
      <4>5. told = x
        BY <3>2, <4>1, <4>3, <4>4 DEF MissedPause
      <4>6. /\ x \in Memory /\ x.pid = n.pid /\ x.reported = n.reported
            /\ x.sending = n.sending /\ x.report = n.report
        BY <4>2, <4>4 DEF Memory
      <4> HIDE DEF told
      <4> QED
        BY <4>2, <4>5, <4>6
    <3> QED
      BY <3>1, <3>2
  <2> HIDE DEF told
  <2>3. /\ g \in Memory /\ g.paused /\ g.pid = id /\ g.sending = told.sending
        /\ g.report = told.report /\ g.reported = told.reported
    BY <2>2 DEF Memory
  <2> HIDE DEF g
  <2>4. /\ f.paused = g.paused /\ f.pid = g.pid /\ f.reported = g.reported
        /\ g.sending => f.sending /\ f.report = g.report
        /\ f.submitted /\ ~f.reported => f.sending
    BY <2>1, <2>3, SendOverrideAs
  <2> QED
    BY <1>1, <1>2, <2>2, <2>3, <2>4
<1>3. CASE state # "paused"
  <2>1. f = [h EXCEPT !.paused = FALSE, !.reported = (state = "overridden")]
    BY <1>3, Zenon DEF ApplySupervision
  <2>2. ~f.paused /\ f.pid = h.pid /\ f.sending = h.sending /\ f.report = h.report
    BY <2>1 DEF Memory
  <2> QED
    BY <1>1, <1>3, <2>2
<1> QED
  BY <1>2, <1>3

\* The user submits.
LEMMA SubmittedBelief ==
    ASSUME h \in Memory, NEW t \in Nat, NEW f, f = Submitted(t)
    PROVE  /\ f \in Memory /\ f.paused = h.paused /\ f.pid = h.pid /\ f.reported = h.reported
           /\ h.sending => f.sending /\ f.report = h.report
           /\ f.submitted => h.submitted \/ f.reported \/ f.sending
<1> DEFINE typed == [h EXCEPT !.typed = TRUE, !.typedAt = t, !.submittedAt = t, !.draft = FALSE]
           told == [typed EXCEPT !.submitted = TRUE]
<1>1. /\ typed \in Memory /\ typed.paused = h.paused /\ typed.pid = h.pid
      /\ typed.reported = h.reported /\ typed.submitted = h.submitted
      /\ typed.sending = h.sending /\ typed.report = h.report
  BY DEF Memory
<1>2. f = IF h.paused THEN SendOverride(told) ELSE typed
  BY DEF Submitted
<1> HIDE DEF typed
<1>3. /\ told \in Memory /\ told.paused = h.paused /\ told.pid = h.pid
      /\ told.reported = h.reported /\ told.submitted
      /\ told.sending = h.sending /\ told.report = h.report
  BY <1>1 DEF Memory
<1> HIDE DEF told
<1>4. CASE ~h.paused
  BY <1>1, <1>2, <1>4
<1>5. CASE h.paused
  <2>1. f = SendOverride(told)
    BY <1>2, <1>5
  <2>2. /\ f \in Memory /\ f.paused = told.paused /\ f.pid = told.pid /\ f.submitted = told.submitted
        /\ f.reported = told.reported
        /\ told.sending => f.sending /\ f.report = told.report
        /\ f.submitted /\ ~f.reported => f.sending
    BY <1>3, <2>1, SendOverrideAs
  <2> QED
    BY <1>3, <2>2
<1> QED
  BY <1>4, <1>5

\* A report is sent, fails at once, or is not needed.
Reported(f, registered) ==
    /\ h'.paused = f.paused /\ h'.pid = f.pid /\ h'.submitted = f.submitted /\ h'.reported = f.reported
    /\ c2d' = c2d \/ c2d' = Append(c2d, Message("submitted", f.report))
    /\ h'.sending => \/ h.sending /\ h'.report = h.report
                     \/ c2d' = Append(c2d, Message("submitted", h'.report))
    /\ f.sending /\ registered => h.sending \/ c2d' = Append(c2d, Message("submitted", f.report))

LEMMA ReportsAs ==
    ASSUME NEW f \in Memory, h.sending => f.sending /\ f.report = h.report, NEW registered,
           Reports(f, registered)
    PROVE  Reported(f, registered)
<1>1. CASE f.sending /\ ~h.sending /\ registered
  BY <1>1 DEF Reports, Reported
<1>2. CASE f.sending /\ ~h.sending /\ ~registered
  <2>1. h' = ReportReturns(f, FALSE) /\ c2d' = c2d
    BY <1>2 DEF Reports
  <2>2. /\ h'.paused = f.paused /\ h'.pid = f.pid /\ h'.submitted = f.submitted
        /\ h'.reported = f.reported /\ ~h'.sending
    BY <2>1 DEF ReportReturns, Memory
  <2> QED
    BY <1>2, <2>1, <2>2 DEF Reported
<1>3. CASE ~(f.sending /\ ~h.sending)
  <2>1. h' = f /\ c2d' = c2d
    BY <1>3 DEF Reports
  <2> QED
    BY <1>3, <2>1 DEF Reported
<1> QED
  BY <1>1, <1>2, <1>3

\* What the worker's next command does to what the launcher knows.
TakesBelief(c) ==
    /\ h'.sending = h.sending /\ h'.report = h.report /\ w'.no = c.no
    /\ \/ /\ c.type = "pause" /\ ran' = ran \cup {c.id} /\ h'.paused /\ h'.pid = c.id
          /\ \/ h.pid = c.id /\ h'.reported = h.reported /\ h'.submitted = h.submitted
             \/ ~h'.reported /\ ~h'.submitted
       \/ c.type = "pause" /\ c.id = h.done.id /\ ran' = ran /\ h' = h
       \/ /\ c.type = "resume" /\ ran' = ran /\ h'.pid = h.pid
          /\ h'.reported = h.reported /\ h'.submitted = h.submitted

LEMMA TakeBelief ==
    ASSUME HandlerTypeOK, NEW c \in Command, Take(c)
    PROVE  TakesBelief(c)
<1>1. h \in Memory /\ c.type \in {"pause", "resume"} /\ c.id \in Nat
  BY DEF HandlerTypeOK, Command
<1>2. w'.no = c.no
  BY TakeTakes DEF Takes
<1>3. CASE c.type = "pause" /\ h.done.id # c.id
  <2>1. /\ h' = [(IF IsCurrent(h, c.id) THEN h ELSE NewPause(h, c.id)) EXCEPT !.paused = TRUE]
        /\ ran' = ran \cup {c.id}
    BY <1>3, Zenon DEF Take, TakePause
  <2>2. CASE IsCurrent(h, c.id)
    <3>1. h' = [h EXCEPT !.paused = TRUE] /\ h.pid = c.id
      BY <2>1, <2>2 DEF IsCurrent
    <3>2. /\ h'.paused /\ h'.pid = h.pid /\ h'.reported = h.reported /\ h'.submitted = h.submitted
          /\ h'.sending = h.sending /\ h'.report = h.report
      BY <1>1, <3>1 DEF Memory
    <3> QED
      BY <1>2, <1>3, <2>1, <3>1, <3>2 DEF TakesBelief
  <2>3. CASE ~IsCurrent(h, c.id)
    <3>1. /\ NewPause(h, c.id) \in Memory /\ NewPause(h, c.id).pid = c.id
          /\ ~NewPause(h, c.id).reported /\ ~NewPause(h, c.id).submitted
          /\ NewPause(h, c.id).sending = h.sending /\ NewPause(h, c.id).report = h.report
      BY <1>1 DEF NewPause, Memory
    <3>2. PICK n : n = NewPause(h, c.id)
      OBVIOUS
    <3>3. h' = [n EXCEPT !.paused = TRUE]
      BY <2>1, <2>3, <3>2
    <3>4. /\ h'.paused /\ h'.pid = c.id /\ ~h'.reported /\ ~h'.submitted
          /\ h'.sending = h.sending /\ h'.report = h.report
      BY <3>1, <3>2, <3>3 DEF Memory
    <3> QED
      BY <1>2, <1>3, <2>1, <3>4 DEF TakesBelief
  <2> QED
    BY <2>2, <2>3
<1>4. CASE c.type = "pause" /\ h.done.id = c.id
  <2>1. UNCHANGED <<h, ran>>
    BY <1>4, Zenon DEF Take, TakePause
  <2> QED
    BY <1>2, <1>4, <2>1 DEF TakesBelief
<1>5. CASE c.type = "resume"
  <2>1. h' = [h EXCEPT !.paused = FALSE] /\ ran' = ran
    BY <1>5 DEF Take, TakeResume
  <2>2. /\ h'.pid = h.pid /\ h'.reported = h.reported /\ h'.submitted = h.submitted
        /\ h'.sending = h.sending /\ h'.report = h.report
    BY <1>1, <2>1 DEF Memory
  <2> QED
    BY <1>2, <1>5, <2>1, <2>2 DEF TakesBelief
<1> QED
  BY <1>1, <1>3, <1>4, <1>5

\* The launcher's record of pause k stays, and it hears nothing but pause k.
LEMMA ReportUnderway ==
    ASSUME TypeOK, AgreeInv, h.sending, NEW k, AllTell(d2c, k)
    PROVE  Submits(c2d)
<1>1. ~Carries(d2c, "noted", h.report)
  <2> SUFFICES ASSUME NEW i \in 1 .. Len(d2c), d2c[i].kind = "noted" PROVE FALSE
    BY DEF Carries
  <2>1. d2c[i] \in ToLauncher
    BY DEF TypeOK, LinkTypeOK
  <2>2. d2c[i].type = "paused"
    BY <2>1 DEF AllTell, TellsOf, ToLauncher, SupStates
  <2> QED
    BY <2>2 DEF AgreeInv, Past
<1> QED
  BY <1>1 DEF AgreeInv, Reporting, Carries, Submits

\* What a message that says "paused" is, up to pause n.
SaysPaused(m, n) == m.type = "paused" => m.kind = "registered" /\ m.id <= n
AllSayPaused(d, n) == \A i \in 1 .. Len(d) : SaysPaused(d[i], n)

\* What d carries and tells, once m of it is read and `rest` is left.
CarriesOn(m, d, rest) ==
    \A kind, no : Carries(d, kind, no) <=> Carries(rest, kind, no) \/ (m.kind = kind /\ m.no = no)
TellsAfter(m, d, rest, k) ==
    /\ AllTell(d, k) => AllTell(rest, k) /\ TellsOf(m, k)
    /\ TellsOn(d, k) => TellsOn(rest, k) /\ (TellsOf(m, k) => AllTell(rest, k))
    /\ TellsOn(d, k) /\ TellsOf(m, k) => AllTell(d, k)
    /\ HasPause(d, k) => HasPause(rest, k) \/ (m.type = "pause" /\ m.id = k)

\* The next message is read.
LEMMA MessageRead ==
    ASSUME TypeOK, AgreeInv, d2c # <<>>, NEW m, m = Head(d2c), d2c' = Tail(d2c), UNCHANGED issued
    PROVE  /\ m \in ToLauncher /\ SaysPaused(m, issued) /\ AllSayPaused(d2c', issued')
           /\ CarriesOn(m, d2c, d2c')
           /\ \A k : TellsAfter(m, d2c, d2c', k)
<1>1. d2c \in Seq(ToLauncher) /\ m \in ToLauncher
  BY HeadTailType DEF TypeOK, LinkTypeOK
<1>2. /\ m = d2c[1] /\ 1 \in 1 .. Len(d2c)
      /\ \A i \in 1 .. Len(Tail(d2c)) : i + 1 \in 1 .. Len(d2c) /\ Tail(d2c)[i] = d2c[i + 1]
      /\ \A i \in 1 .. Len(d2c) : i = 1 \/ 1 < i
  BY <1>1
<1>3. SaysPaused(m, issued)
  BY <1>2 DEF AgreeInv, Past, SaysPaused
<1>0. AllSayPaused(d2c', issued')
  <2> SUFFICES ASSUME NEW i \in 1 .. Len(Tail(d2c)) PROVE SaysPaused(Tail(d2c)[i], issued)
    BY DEF AllSayPaused
  <2>1. i + 1 \in 1 .. Len(d2c) /\ Tail(d2c)[i] = d2c[i + 1]
    BY <1>2
  <2> QED
    BY <2>1 DEF AgreeInv, Past, SaysPaused
<1>4. CarriesOn(m, d2c, d2c')
  <2>1. \A kind, no : Carries(d2c, kind, no) <=> Carries(Tail(d2c), kind, no) \/ (Head(d2c).kind = kind /\ Head(d2c).no = no)
    BY <1>1, CarriesTail
  <2> QED
    BY <2>1, Zenon DEF CarriesOn
<1>5. \A k : /\ AllTell(d2c, k) => AllTell(d2c', k) /\ TellsOf(m, k)
             /\ TellsOn(d2c, k) => TellsOn(d2c', k) /\ (TellsOf(m, k) => AllTell(d2c', k))
             /\ HasPause(d2c, k) => HasPause(d2c', k) \/ (m.type = "pause" /\ m.id = k)
  BY <1>1, TellTail
<1>6. \A k : TellsOn(d2c, k) /\ TellsOf(m, k) => AllTell(d2c, k)
  BY <1>2, Zenon DEF TellsOn, AllTell
<1>7. ASSUME NEW k PROVE TellsAfter(m, d2c, d2c', k)
  BY <1>5, <1>6, Zenon DEF TellsAfter
<1> QED
  BY <1>0, <1>1, <1>3, <1>4, <1>7

LEMMA RegisteredAgrees ==
    ASSUME TypeOK, AgreeInv, d2c # <<>>, NEW m, m = Head(d2c), m.kind = "registered",
           d2c' = Tail(d2c), Reports(ApplySupervision(h, m.type, m.id), TRUE),
           UNCHANGED <<sup, cmds, served, queue, w, ran, issued>>
    PROVE  AgreeInv'
<1>r. /\ m \in ToLauncher /\ SaysPaused(m, issued) /\ AllSayPaused(d2c', issued')
      /\ CarriesOn(m, d2c, d2c')
      /\ \A k : TellsAfter(m, d2c, d2c', k)
  BY MessageRead
<1>p. \A i \in 1 .. Len(d2c') :
         d2c'[i].type = "paused" => d2c'[i].kind = "registered" /\ d2c'[i].id <= issued'
  BY <1>r, Zenon DEF AllSayPaused, SaysPaused
<1>n. \A no : Carries(d2c, "noted", no) => Carries(d2c', "noted", no)
  <2>1. m.kind # "noted"
    OBVIOUS
  <2> QED
    BY <1>r, <2>1, Zenon DEF CarriesOn
<1>1. /\ m \in ToLauncher /\ (m.type = "paused" => m.id <= issued)
      /\ \A i \in 1 .. Len(d2c') :
            d2c'[i].type = "paused" => d2c'[i].kind = "registered" /\ d2c'[i].id <= issued'
      /\ \A no : Carries(d2c, "noted", no) => Carries(d2c', "noted", no)
  BY <1>n, <1>p, <1>r, Zenon DEF SaysPaused
<1>m. \A k : /\ AllTell(d2c, k) => AllTell(d2c', k) /\ TellsOf(m, k)
             /\ TellsOn(d2c, k) => TellsOn(d2c', k) /\ (TellsOf(m, k) => AllTell(d2c', k))
             /\ TellsOn(d2c, k) /\ TellsOf(m, k) => AllTell(d2c, k)
             /\ HasPause(d2c, k) => HasPause(d2c', k) \/ (m.type = "pause" /\ m.id = k)
  BY <1>r, Zenon DEF TellsAfter
<1>2. m.id \in Nat /\ m.type \in SupStates /\ m.type # "pause" /\ h \in Memory /\ c2d \in Seq(ToDaemon)
  BY <1>1 DEF ToLauncher, SupStates, TypeOK, HandlerTypeOK, LinkTypeOK
<1>3. PICK f : f = ApplySupervision(h, m.type, m.id)
  OBVIOUS
<1>4. /\ f \in Memory /\ (h.sending => f.sending /\ f.report = h.report)
      /\ IF m.type = "paused"
         THEN /\ f.paused /\ f.pid = m.id /\ (f.submitted /\ ~f.reported => f.sending)
              /\ f.reported => h.pid = m.id /\ h.reported
         ELSE ~f.paused /\ f.pid = h.pid
  BY <1>2, <1>3, SupervisionBelief
<1>5. Reported(f, TRUE)
  BY <1>3, <1>4, ReportsAs
<1>6. PICK x : x = Message("submitted", f.report)
  OBVIOUS
<1>7. x \in ToDaemon /\ x.kind = "submitted" /\ x.no = f.report
  <2>1. f.report \in Nat
    BY <1>4 DEF Memory
  <2> QED
    BY <1>6, <2>1, MessageType DEF Message
<1>a. /\ \A no : Carries(Append(c2d, x), "ack", no) => Carries(c2d, "ack", no)
      /\ \A no : Carries(c2d, "submitted", no) => Carries(Append(c2d, x), "submitted", no)
      /\ Submits(Append(c2d, x)) /\ Carries(Append(c2d, x), "submitted", f.report)
  <2>1. \A kind, no : Carries(Append(c2d, x), kind, no)
                         <=> Carries(c2d, kind, no) \/ (x.kind = kind /\ x.no = no)
    BY <1>2, <1>7, CarriesAppend
  <2>2. Submits(Append(c2d, x))
    BY <1>2, <1>7, CarriesAppend
  <2>3. x.kind # "ack"
    BY <1>7
  <2> QED
    BY <1>7, <2>1, <2>2, <2>3, Zenon
<1>b. c2d' = c2d \/ c2d' = Append(c2d, x)
  BY <1>5, <1>6 DEF Reported
<1>8. /\ \A no : Carries(c2d', "ack", no) => Carries(c2d, "ack", no)
      /\ \A no : Carries(c2d, "submitted", no) => Carries(c2d', "submitted", no)
      /\ Submits(c2d) => Submits(c2d')
      /\ c2d' = Append(c2d, x) => Submits(c2d') /\ Carries(c2d', "submitted", f.report)
  <2>1. CASE c2d' = Append(c2d, x)
    BY <1>a, <2>1, Zenon
  <2>2. CASE c2d' = c2d /\ c2d' # Append(c2d, x)
    BY <2>2, Zenon
  <2> QED
    BY <1>b, <2>1, <2>2
<1>9. Past'
  BY <1>1, <1>4, <1>5 DEF AgreeInv, Past, Reported
<1>10. Reporting'
  <2> SUFFICES ASSUME h'.sending
               PROVE  Carries(c2d', "submitted", h'.report) \/ Carries(d2c', "noted", h'.report)
    BY DEF Reporting
  <2>1. CASE h.sending /\ h'.report = h.report
    BY <1>1, <1>8, <2>1 DEF AgreeInv, Reporting
  <2>2. CASE c2d' = Append(c2d, Message("submitted", h'.report))
    <3>1. PICK y : y = Message("submitted", h'.report)
      OBVIOUS
    <3>2. y.kind = "submitted" /\ y.no = h'.report /\ c2d' = Append(c2d, y)
      BY <2>2, <3>1 DEF Message
    <3>3. Len(c2d') \in 1 .. Len(c2d') /\ c2d'[Len(c2d')] = y
      BY <1>2, <3>2
    <3> QED
      BY <3>2, <3>3 DEF Carries
  <2> QED
    BY <1>5, <2>1, <2>2 DEF Reported
<1>11. ASSUME sup.state = "paused"
       PROVE  ToldInv(sup.id)' /\ CommandedInv(sup, cmds, served)' /\ OverrideSent(sup.id)'
  <2>0. PICK k : k = sup.id
    OBVIOUS
  <2>1. ToldInv(k) /\ CommandedInv(sup, cmds, served) /\ OverrideSent(k)
    BY <1>11, <2>0 DEF AgreeInv, Agrees
  <2>2. /\ h.pid = k \/ k \in ran => TellsOf(m, k)
        /\ TellsOf(m, k) <=> m.type = "paused" /\ m.id = k
        /\ TellsOf(m, k) => AllTell(d2c, k)
    BY <1>m, <1>2, <2>1 DEF ToldInv, TellsOf
  <2>3. /\ h'.pid = k => TellsOf(m, k)
        /\ TellsOf(m, k) => h'.paused /\ h'.pid = k
    BY <1>4, <1>5, <2>2 DEF Reported
  <2>4. ToldInv(k)'
    BY <1>m, <2>1, <2>2, <2>3 DEF ToldInv
  <2>5. OverrideSent(k)'
    <3> SUFFICES ASSUME TellsOf(m, k) PROVE ~h'.reported /\ (h'.submitted => Submits(c2d'))
      BY <2>3 DEF OverrideSent
    <3>1. ~f.reported /\ (f.submitted => f.sending)
      BY <1>4, <2>1, <2>2 DEF OverrideSent
    <3>2. h.sending => Submits(c2d)
      BY <2>2, ReportUnderway
    <3> QED
      BY <1>5, <1>6, <1>8, <3>1, <3>2 DEF Reported
  <2>6. Underway(cmds, k) => Underway(cmds, k)'
    BY <1>m, <1>2 DEF Underway
  <2>7. \A no : AnswersOf(no, k) => AnswersOf(no, k)'
    BY <1>8 DEF AnswersOf
  <2>8. CommandedInv(sup, cmds, served)'
    BY <2>0, <2>1, <2>6, <2>7 DEF CommandedInv
  <2> QED
    BY <2>0, <2>4, <2>5, <2>8
<1>12. Agrees(sup, cmds, served)'
  BY <1>11 DEF Agrees
<1> QED
  BY <1>9, <1>10, <1>12 DEF AgreeInv

LEMMA NotedAgrees ==
    ASSUME TypeOK, AgreeInv, d2c # <<>>, NEW m, m = Head(d2c), m.kind = "noted", d2c' = Tail(d2c),
           h' = IF h.sending /\ h.report = m.no THEN ReportReturns(h, m.ok) ELSE h,
           UNCHANGED <<sup, cmds, served, queue, w, ran, issued, c2d, link>>
    PROVE  AgreeInv'
<1>r. /\ m \in ToLauncher /\ SaysPaused(m, issued) /\ AllSayPaused(d2c', issued')
      /\ CarriesOn(m, d2c, d2c')
      /\ \A k : TellsAfter(m, d2c, d2c', k)
  BY MessageRead
<1>p. \A i \in 1 .. Len(d2c') :
         d2c'[i].type = "paused" => d2c'[i].kind = "registered" /\ d2c'[i].id <= issued'
  BY <1>r, Zenon DEF AllSayPaused, SaysPaused
<1>n. \A no : Carries(d2c, "noted", no) => Carries(d2c', "noted", no) \/ no = m.no
  BY <1>r, Zenon DEF CarriesOn
<1>t. m.type # "paused" /\ m.type # "pause"
  <2>1. m.type # "paused"
    BY <1>r DEF SaysPaused
  <2>2. m.type # "pause"
    BY <1>r DEF ToLauncher, SupStates
  <2> QED
    BY <2>1, <2>2
<1>1. /\ m \in ToLauncher /\ m.type # "paused" /\ m.type # "pause"
      /\ \A i \in 1 .. Len(d2c') :
            d2c'[i].type = "paused" => d2c'[i].kind = "registered" /\ d2c'[i].id <= issued'
      /\ \A no : Carries(d2c, "noted", no) => Carries(d2c', "noted", no) \/ no = m.no
  BY <1>n, <1>p, <1>r, <1>t, Zenon
<1>m. \A k : /\ AllTell(d2c, k) => AllTell(d2c', k) /\ TellsOf(m, k)
             /\ TellsOn(d2c, k) => TellsOn(d2c', k)
             /\ HasPause(d2c, k) => HasPause(d2c', k) \/ (m.type = "pause" /\ m.id = k)
  BY <1>r, Zenon DEF TellsAfter
<1>2. h \in Memory
  BY DEF TypeOK, HandlerTypeOK
<1>3. /\ h'.paused = h.paused /\ h'.pid = h.pid
      /\ h'.sending => h.sending /\ h'.report = h.report /\ h.report # m.no
  BY <1>2 DEF ReportReturns, Memory
<1>4. Past' /\ Reporting'
  BY <1>1, <1>3 DEF AgreeInv, Past, Reporting
<1>5. ASSUME sup.state = "paused"
      PROVE  ToldInv(sup.id)' /\ CommandedInv(sup, cmds, served)' /\ OverrideSent(sup.id)'
  <2>0. PICK k : k = sup.id
    OBVIOUS
  <2>1. ToldInv(k) /\ CommandedInv(sup, cmds, served)
    BY <1>5, <2>0 DEF AgreeInv, Agrees
  <2>2. h.pid # k /\ k \notin ran
    BY <1>1, <1>m, <2>1 DEF ToldInv, TellsOf
  <2>3. ToldInv(k)' /\ OverrideSent(k)'
    BY <1>3, <1>m, <2>1, <2>2 DEF ToldInv, OverrideSent
  <2>4. Underway(cmds, k) => Underway(cmds, k)'
    BY <1>m, <1>1 DEF Underway
  <2>5. CommandedInv(sup, cmds, served)'
    BY <2>0, <2>1, <2>4 DEF CommandedInv, AnswersOf
  <2> QED
    BY <2>0, <2>3, <2>5
<1> QED
  BY <1>4, <1>5 DEF AgreeInv, Agrees

LEMMA QueuedAgrees ==
    ASSUME TypeOK, AgreeInv, d2c # <<>>, NEW m, m = Head(d2c), d2c' = Tail(d2c), m.kind = "cmd",
           NEW e \in Command, e.type = m.type, e.id = m.id, queue' = Append(queue, e),
           UNCHANGED <<sup, cmds, served, h, w, ran, issued, c2d, link>>
    PROVE  AgreeInv'
<1>r. /\ m \in ToLauncher /\ SaysPaused(m, issued) /\ AllSayPaused(d2c', issued')
      /\ CarriesOn(m, d2c, d2c')
      /\ \A k : TellsAfter(m, d2c, d2c', k)
  BY MessageRead
<1>p. \A i \in 1 .. Len(d2c') :
         d2c'[i].type = "paused" => d2c'[i].kind = "registered" /\ d2c'[i].id <= issued'
  BY <1>r, Zenon DEF AllSayPaused, SaysPaused
<1>n. \A no : Carries(d2c, "noted", no) => Carries(d2c', "noted", no)
  <2>1. m.kind # "noted"
    OBVIOUS
  <2> QED
    BY <1>r, <2>1, Zenon DEF CarriesOn
<1>m. \A k : /\ AllTell(d2c, k) => AllTell(d2c', k) /\ TellsOf(m, k)
             /\ TellsOn(d2c, k) => TellsOn(d2c', k) /\ (TellsOf(m, k) => AllTell(d2c', k))
             /\ HasPause(d2c, k) => HasPause(d2c', k) \/ (m.type = "pause" /\ m.id = k)
  BY <1>r, Zenon DEF TellsAfter
<1>2. Past' /\ Reporting'
  BY <1>n, <1>p DEF AgreeInv, Past, Reporting
<1>3. ASSUME sup.state = "paused"
      PROVE  ToldInv(sup.id)' /\ CommandedInv(sup, cmds, served)' /\ OverrideSent(sup.id)'
  <2>0. PICK k : k = sup.id
    OBVIOUS
  <2>1. ToldInv(k) /\ CommandedInv(sup, cmds, served) /\ OverrideSent(k)
    BY <1>3, <2>0 DEF AgreeInv, Agrees
  <2>2. TellsOf(e, k) <=> TellsOf(m, k)
    BY DEF TellsOf
  <2>3. /\ AllTell(queue, k) /\ TellsOf(e, k) => AllTell(queue', k)
        /\ NoneTells(queue, k) /\ ~TellsOf(e, k) => NoneTells(queue', k)
        /\ TellsOn(queue, k) /\ (NoneTells(queue, k) \/ TellsOf(e, k)) => TellsOn(queue', k)
        /\ HasPause(queue', k) <=> HasPause(queue, k) \/ (e.type = "pause" /\ e.id = k)
    BY TellAppend DEF TypeOK
  <2>4. ToldInv(k)'
    BY <1>m, <2>1, <2>2, <2>3 DEF ToldInv
  <2>5. OverrideSent(k)'
    BY <2>1 DEF OverrideSent
  <2>6. Underway(cmds, k) => Underway(cmds, k)'
    BY <1>m, <2>3 DEF Underway
  <2>7. CommandedInv(sup, cmds, served)'
    BY <2>0, <2>1, <2>6 DEF CommandedInv, AnswersOf
  <2> QED
    BY <2>0, <2>4, <2>5, <2>7
<1> QED
  BY <1>2, <1>3 DEF AgreeInv, Agrees

\* The worker's next command: the first of the queue or, when it is empty, of the connection.
NextTaken(x) ==
    \/ queue # <<>> /\ x = Head(queue) /\ queue' = Tail(queue) /\ d2c' = d2c
    \/ /\ queue = <<>> /\ queue' = queue /\ d2c # <<>> /\ d2c' = Tail(d2c)
       /\ Head(d2c).kind = "cmd" /\ x.type = Head(d2c).type /\ x.id = Head(d2c).id
       /\ x.no = Head(d2c).no

\* Nothing but the worker's ack goes to the daemon.
Acks ==
    /\ \A no : Carries(c2d', "ack", no) => Carries(c2d, "ack", no) \/ (w.pc = "ack" /\ no = w.no)
    /\ \A no : Carries(c2d, "submitted", no) => Carries(c2d', "submitted", no)
    /\ Submits(c2d) => Submits(c2d')

LEMMA TakenTells ==
    ASSUME TypeOK, NEW x \in Command, NextTaken(x), NEW k, ToldInv(k)
    PROVE  /\ TellsOn(queue, k)' /\ TellsOn(d2c, k)'
           /\ TellsOf(x, k) => AllTell(queue, k)' /\ AllTell(d2c, k)'
           /\ h.pid = k \/ ~NoneTells(queue, k)' => AllTell(d2c, k)'
           /\ k \in ran => AllTell(queue, k)' /\ TellsOf(x, k)
           /\ HasPause(queue, k) \/ HasPause(d2c, k)
                => HasPause(queue, k)' \/ HasPause(d2c, k)' \/ (x.type = "pause" /\ x.id = k)
<1>1. queue \in Seq(Command) /\ d2c \in Seq(ToLauncher)
  BY DEF TypeOK, LinkTypeOK
<1>2. CASE queue # <<>> /\ x = Head(queue) /\ queue' = Tail(queue) /\ d2c' = d2c
  <2>1. /\ AllTell(queue, k) => AllTell(queue', k) /\ TellsOf(x, k)
        /\ NoneTells(queue, k) => NoneTells(queue', k) /\ ~TellsOf(x, k)
        /\ TellsOn(queue, k) => TellsOn(queue', k) /\ (TellsOf(x, k) => AllTell(queue', k))
        /\ HasPause(queue, k) => HasPause(queue', k) \/ (x.type = "pause" /\ x.id = k)
    BY <1>1, <1>2, TellTail
  <2> QED
    BY <1>2, <2>1 DEF ToldInv
<1>3. CASE /\ queue = <<>> /\ queue' = queue /\ d2c # <<>> /\ d2c' = Tail(d2c)
           /\ x.type = Head(d2c).type /\ x.id = Head(d2c).id
  <2>1. PICK m : m = Head(d2c)
    OBVIOUS
  <2>2. /\ AllTell(d2c, k) => AllTell(d2c', k) /\ TellsOf(m, k)
        /\ TellsOn(d2c, k) => TellsOn(d2c', k) /\ (TellsOf(m, k) => AllTell(d2c', k))
        /\ HasPause(d2c, k) => HasPause(d2c', k) \/ (m.type = "pause" /\ m.id = k)
    BY <1>1, <1>3, <2>1, TellTail
  <2>3. TellsOf(m, k) <=> TellsOf(x, k)
    BY <1>3, <2>1 DEF TellsOf
  <2>4. AllTell(queue', k) /\ NoneTells(queue', k) /\ TellsOn(queue', k) /\ ~HasPause(queue, k)
    BY <1>3, TellNothing
  <2> QED
    BY <1>3, <2>1, <2>2, <2>3, <2>4 DEF ToldInv
<1> QED
  BY <1>2, <1>3 DEF NextTaken

LEMMA TakenAgrees ==
    ASSUME TypeOK, OrderInv, PromptInv, AgreeInv, NEW x \in Command, NextTaken(x), Take(x), Acks,
           UNCHANGED <<sup, cmds, served, issued, link>>
    PROVE  AgreeInv'
<1>1. TakesBelief(x) /\ x.type \in {"pause", "resume"}
  BY TakeBelief DEF TypeOK, Command
<1>2. /\ x.type = "pause" => x.id <= issued
      /\ PauseFlies(cmds, x.no) => x.type = "pause" /\ x.id = Head(cmds).id
  <2>1. CASE queue # <<>> /\ x = Head(queue)
    <3>1. 1 \in 1 .. Len(queue) /\ x = queue[1]
      BY <2>1 DEF TypeOK
    <3> QED
      BY <1>1, <3>1 DEF OrderInv, PipelineInv, UpTo, PromptInv, EngineAsks, NumbersTell, Numbered
  <2>2. CASE /\ d2c # <<>> /\ x.type = Head(d2c).type /\ x.id = Head(d2c).id /\ x.no = Head(d2c).no
    <3>1. 1 \in 1 .. Len(d2c) /\ Head(d2c) = d2c[1]
      BY <2>2 DEF TypeOK, LinkTypeOK
    <3> QED
      BY <1>1, <2>2, <3>1 DEF OrderInv, PipelineInv, UpTo, PromptInv, EngineAsks, NumbersTell, Numbered
  <2> QED
    BY <2>1, <2>2 DEF NextTaken
<1>3. /\ \A i \in 1 .. Len(d2c') :
            d2c'[i].type = "paused" => d2c'[i].kind = "registered" /\ d2c'[i].id <= issued'
      /\ \A no : Carries(d2c, "noted", no) => Carries(d2c', "noted", no)
  <2>1. CASE d2c' = d2c
    BY <2>1 DEF AgreeInv, Past
  <2>2. CASE d2c # <<>> /\ d2c' = Tail(d2c) /\ Head(d2c).kind = "cmd"
    <3>1. PICK m : m = Head(d2c)
      OBVIOUS
    <3>2. AllSayPaused(d2c', issued') /\ CarriesOn(m, d2c, d2c')
      BY <2>2, <3>1, MessageRead
    <3>3. m.kind # "noted"
      BY <2>2, <3>1
    <3> QED
      BY <3>2, <3>3, Zenon DEF AllSayPaused, SaysPaused, CarriesOn
  <2> QED
    BY <2>1, <2>2 DEF NextTaken
<1>4. Past'
  BY <1>1, <1>2, <1>3 DEF AgreeInv, Past, TakesBelief
<1>5. Reporting'
  BY <1>1, <1>3 DEF AgreeInv, Reporting, Acks, TakesBelief
<1>6. ASSUME sup.state = "paused"
      PROVE  ToldInv(sup.id)' /\ CommandedInv(sup, cmds, served)' /\ OverrideSent(sup.id)'
  <2>0. PICK k : k = sup.id
    OBVIOUS
  <2>1. ToldInv(k) /\ CommandedInv(sup, cmds, served) /\ OverrideSent(k)
    BY <1>6, <2>0 DEF AgreeInv, Agrees
  <2>2. /\ TellsOn(queue, k)' /\ TellsOn(d2c, k)'
        /\ TellsOf(x, k) => AllTell(queue, k)' /\ AllTell(d2c, k)'
        /\ h.pid = k \/ ~NoneTells(queue, k)' => AllTell(d2c, k)'
        /\ k \in ran => AllTell(queue, k)' /\ TellsOf(x, k)
        /\ HasPause(queue, k) \/ HasPause(d2c, k)
             => HasPause(queue, k)' \/ HasPause(d2c, k)' \/ (x.type = "pause" /\ x.id = k)
    BY <2>1, TakenTells
  <2>3. TellsOf(x, k) <=> x.type = "pause" /\ x.id = k
    BY <1>1 DEF TellsOf
  <2>4. ran \subseteq ran' /\ (TellsOf(x, k) => k \in ran')
    <3>1. h.done.id = k => k \in ran
      BY <2>1 DEF OrderInv, StartedInv, ToldInv
    <3> QED
      BY <1>1, <2>3, <3>1 DEF TakesBelief
  <2>5. ToldInv(k)'
    <3>1. h'.pid = k => h.pid = k \/ TellsOf(x, k)
      BY <1>1, <2>3 DEF TakesBelief
    <3>2. k \in ran' => AllTell(queue, k)' /\ h'.paused /\ h'.pid = k
      BY <1>1, <2>1, <2>2, <2>3 DEF TakesBelief, ToldInv
    <3> QED
      BY <2>1, <2>2, <3>1, <3>2 DEF ToldInv
  <2>6. OverrideSent(k)'
    BY <1>1, <2>1 DEF TakesBelief, OverrideSent, Acks
  <2>7. Underway(cmds, k) => Underway(cmds, k)'
    BY <2>2, <2>3, <2>4 DEF Underway
  <2>8. Flying(cmds) => AnswersOf(Head(cmds).no, k)'
    <3> SUFFICES ASSUME Flying(cmds) PROVE AnswersOf(Head(cmds).no, k)'
      OBVIOUS
    <3>0. PICK no : no = Head(cmds).no
      OBVIOUS
    <3>1. Head(cmds).type = "pause" /\ Head(cmds).id = k
      <4>1. cmds \in Seq(DaemonCommand) /\ Head(cmds) \in DaemonCommand /\ cmds # <<>>
        BY HeadTailType DEF Flying, TypeOK, DaemonTypeOK
      <4>2. TellsOf(Head(cmds), k)
        BY <2>0, <2>1, <4>1, TellTail DEF CommandedInv
      <4> QED
        BY <4>1, <4>2 DEF TellsOf, DaemonCommand
    <3>2. w'.no = no => k \in ran'
      BY <1>1, <1>2, <2>3, <2>4, <3>0, <3>1 DEF PauseFlies, TakesBelief
    <3>3. Carries(c2d', "ack", no) => k \in ran'
      <4>1. AnswersOf(no, k)
        BY <2>0, <2>1, <3>0 DEF CommandedInv
      <4> QED
        BY <2>4, <4>1 DEF Acks, AnswersOf
    <3>4. AnswersOf(no, k)'
      BY <3>2, <3>3 DEF AnswersOf
    <3> QED
      BY <3>0, <3>4
  <2>9. CommandedInv(sup, cmds, served)'
    BY <2>0, <2>1, <2>4, <2>7, <2>8 DEF CommandedInv
  <2> QED
    BY <2>0, <2>5, <2>6, <2>9
<1> QED
  BY <1>4, <1>5, <1>6 DEF AgreeInv, Agrees

LEMMA LauncherReadsAgrees ==
    ASSUME TypeOK, OrderInv, PromptInv, AgreeInv, LauncherReads
    PROVE  AgreeInv'
<1> DEFINE m == Head(d2c)
           c == [type |-> m.type, id |-> m.id, prompt |-> m.prompt, no |-> m.no, conn |-> conn]
<1>1. /\ d2c \in Seq(ToLauncher) /\ d2c # <<>> /\ m \in ToLauncher /\ d2c' = Tail(d2c)
      /\ UNCHANGED <<sup, cmds, served, issued>>
  BY HeadTailType DEF LauncherReads, TypeOK, LinkTypeOK, daemonVars
<1>2. CASE m.kind = "registered"
  <2>1. Reports(ApplySupervision(h, m.type, m.id), TRUE) /\ UNCHANGED <<queue, w, ran>>
    BY <1>2 DEF LauncherReads, history
  <2>2. PICK e : e = m
    OBVIOUS
  <2> QED
    BY <1>1, <1>2, <2>1, <2>2, RegisteredAgrees
<1>3. CASE m.kind = "noted"
  <2>1. /\ h' = IF h.sending /\ h.report = m.no THEN ReportReturns(h, m.ok) ELSE h
        /\ UNCHANGED <<queue, w, ran, c2d, link>>
    BY <1>3 DEF LauncherReads, history
  <2>2. PICK e : e = m
    OBVIOUS
  <2> QED
    BY <1>1, <1>3, <2>1, <2>2, NotedAgrees
<1>4. CASE m.kind = "cmd"
  <2>1. /\ c \in Command /\ c.type = m.type /\ c.id = m.id /\ c.no = m.no
    BY <1>1, <1>4 DEF ToLauncher, Command, TypeOK, LinkTypeOK
  <2>2. CASE w.pc = "idle"
    <3>1. Take(c) /\ queue' = queue /\ queue = <<>> /\ UNCHANGED <<c2d, link>>
      BY <1>4, <2>2 DEF LauncherReads, OrderInv, PipelineInv
    <3> HIDE DEF c
    <3>2. NextTaken(c) /\ Acks
      BY <1>1, <1>4, <2>1, <3>1 DEF NextTaken, Acks
    <3> QED
      BY <1>1, <2>1, <3>1, <3>2, TakenAgrees
  <2>3. CASE w.pc # "idle"
    <3>1. queue' = Append(queue, c) /\ UNCHANGED <<h, w, ran, c2d, link>>
      BY <1>4, <2>3, Zenon DEF LauncherReads, handlerVars
    <3> HIDE DEF c
    <3>2. PICK e : e = m
      OBVIOUS
    <3> QED
      BY <1>1, <1>4, <2>1, <3>1, <3>2, QueuedAgrees
  <2> QED
    BY <2>2, <2>3
<1> QED
  BY <1>1, <1>2, <1>3, <1>4 DEF ToLauncher

LEMMA SendAckAgrees ==
    ASSUME TypeOK, OrderInv, PromptInv, AgreeInv, SendAck
    PROVE  AgreeInv'
<1>1. PICK ack : ack = [Message("ack", w.no) EXCEPT !.result = w.result, !.busy = w.busy]
  OBVIOUS
<1>2. /\ queue \in Seq(Command) /\ c2d \in Seq(ToDaemon) /\ w.pc = "ack" /\ w \in Work
      /\ UNCHANGED <<sup, cmds, served, issued, d2c, link>> /\ (c2d' = c2d \/ c2d' = Append(c2d, ack))
  BY <1>1 DEF SendAck, TypeOK, HandlerTypeOK, LinkTypeOK, daemonVars
<1>3. ack \in ToDaemon /\ ack.kind = "ack" /\ ack.no = w.no
  BY <1>1, <1>2 DEF Message, ToDaemon, Work
<1>4. Acks
  <2>1. CASE c2d' = c2d
    BY <2>1 DEF Acks
  <2>2. CASE c2d' = Append(c2d, ack)
    <3>1. \A kind, no : /\ Carries(c2d', kind, no) <=> Carries(c2d, kind, no) \/ (ack.kind = kind /\ ack.no = no)
                        /\ Submits(c2d') <=> Submits(c2d) \/ ack.kind = "submitted"
      BY <1>2, <1>3, <2>2, CarriesAppend
    <3> QED
      BY <1>2, <1>3, <3>1 DEF Acks
  <2> QED
    BY <1>2, <2>1, <2>2
<1>5. CASE queue # <<>>
  <2>0. PICK c : c = Head(queue)
    OBVIOUS
  <2>1. Take(c) /\ queue' = Tail(queue) /\ c \in Command
    BY <1>2, <1>5, <2>0, HeadTailType DEF SendAck
  <2>2. NextTaken(c)
    BY <1>2, <1>5, <2>0, <2>1 DEF NextTaken
  <2> QED
    BY <1>2, <1>4, <2>1, <2>2, TakenAgrees
<1>6. CASE queue = <<>>
  <2>1. w' = NoWork /\ UNCHANGED <<h, ran, queue>>
    BY <1>6 DEF SendAck, history
  <2>2. w'.pc = "idle"
    BY <2>1 DEF NoWork
  <2>3. Past' /\ Reporting'
    BY <1>2, <1>4, <2>1 DEF AgreeInv, Past, Reporting, Acks
  <2>4. ASSUME sup.state = "paused"
        PROVE  ToldInv(sup.id)' /\ CommandedInv(sup, cmds, served)' /\ OverrideSent(sup.id)'
    <3>0. PICK k : k = sup.id
      OBVIOUS
    <3>1. ToldInv(k) /\ CommandedInv(sup, cmds, served) /\ OverrideSent(k)
      BY <2>4, <3>0 DEF AgreeInv, Agrees
    <3>2. ToldInv(k)' /\ OverrideSent(k)'
      BY <1>2, <1>4, <2>1, <3>1 DEF ToldInv, OverrideSent, Acks
    <3>3. \A no : AnswersOf(no, k) => AnswersOf(no, k)'
      BY <1>2, <1>4, <2>1, <2>2 DEF AnswersOf, Acks
    <3>4. Underway(cmds, k) => Underway(cmds, k)'
      BY <1>2, <2>1 DEF Underway
    <3>5. CommandedInv(sup, cmds, served)'
      BY <1>2, <2>1, <3>0, <3>1, <3>3, <3>4 DEF CommandedInv
    <3> QED
      BY <1>2, <3>0, <3>2, <3>5
  <2> QED
    BY <1>2, <2>3, <2>4 DEF AgreeInv, Agrees
<1> QED
  BY <1>5, <1>6

\* A step that tells nobody anything about the pause.
LEMMA BeliefAgrees ==
    ASSUME AgreeInv, SameBelief(h', h), w'.no = w.no, w'.pc # "idle" => w.pc # "idle",
           UNCHANGED <<sup, cmds, served, issued, queue, ran, c2d, d2c, link>>
    PROVE  AgreeInv'
<1>1. Past' /\ Reporting'
  BY DEF AgreeInv, Past, Reporting, SameBelief
<1>2. ASSUME sup.state = "paused"
      PROVE  ToldInv(sup.id)' /\ CommandedInv(sup, cmds, served)' /\ OverrideSent(sup.id)'
  <2>1. ToldInv(sup.id) /\ CommandedInv(sup, cmds, served) /\ OverrideSent(sup.id)
    BY <1>2 DEF AgreeInv, Agrees
  <2>2. ToldInv(sup.id)' /\ OverrideSent(sup.id)'
    BY <2>1 DEF ToldInv, OverrideSent, SameBelief
  <2>3. CommandedInv(sup, cmds, served)'
    BY <2>1 DEF CommandedInv, Underway, AnswersOf
  <2> QED
    BY <2>2, <2>3
<1> QED
  BY <1>1, <1>2 DEF AgreeInv, Agrees

LEMMA HandleAgrees ==
    ASSUME TypeOK, AgreeInv, Handle
    PROVE  AgreeInv'
<1>1. /\ UNCHANGED <<sup, cmds, served, issued, queue, ran, c2d, d2c, link>>
      /\ PauseGoesOn \/ PauseEndsAs \/ ResumeGoesOn
      /\ SameBelief(h', h)
  BY HandlerStepKinds, HandlerStepAsks, HandlerStepBelief DEF Handle, TypeOK, daemonVars, linkVars
<1>2. w'.no = w.no /\ w.pc # "idle"
  BY <1>1 DEF PauseGoesOn, PauseEndsAs, ResumeGoesOn, GoesOn, Ends, Resumes, PauseSteps, ResumeSteps
<1> QED
  BY <1>1, <1>2, BeliefAgrees

\* The user submits: a report starts now or is under way.
LEMMA SubmitAgrees ==
    ASSUME TypeOK, AgreeInv, Reports(Submitted(issued), link = "up"),
           UNCHANGED <<sup, cmds, served, issued, queue, ran, w, d2c, link>>
    PROVE  AgreeInv'
<1>1. h \in Memory /\ issued \in Nat /\ c2d \in Seq(ToDaemon)
  BY DEF TypeOK, HandlerTypeOK, DaemonTypeOK, LinkTypeOK
<1>2. PICK f : f = Submitted(issued)
  OBVIOUS
<1>3. /\ f \in Memory /\ f.paused = h.paused /\ f.pid = h.pid /\ f.reported = h.reported
      /\ h.sending => f.sending /\ f.report = h.report
      /\ f.submitted => h.submitted \/ f.reported \/ f.sending
  BY <1>1, <1>2, SubmittedBelief
<1>4. Reported(f, link = "up")
  BY <1>2, <1>3, ReportsAs
<1>5. \A no : /\ Message("submitted", no).kind = "submitted" /\ Message("submitted", no).no = no
  BY DEF Message
<1>6. /\ \A no : Carries(c2d', "ack", no) => Carries(c2d, "ack", no)
      /\ \A no : Carries(c2d, "submitted", no) => Carries(c2d', "submitted", no)
      /\ Submits(c2d) => Submits(c2d')
      /\ \A no : c2d' = Append(c2d, Message("submitted", no)) => Submits(c2d') /\ Carries(c2d', "submitted", no)
  <2>1. ASSUME NEW n, NEW x, x = Message("submitted", n), c2d' = Append(c2d, x)
        PROVE  /\ \A no : Carries(c2d', "ack", no) => Carries(c2d, "ack", no)
               /\ \A no : Carries(c2d, "submitted", no) => Carries(c2d', "submitted", no)
               /\ Submits(c2d') /\ Carries(c2d', "submitted", n)
    <3>1. /\ \A i \in 1 .. Len(c2d) : i \in 1 .. Len(c2d') /\ c2d'[i] = c2d[i]
          /\ Len(c2d') \in 1 .. Len(c2d') /\ c2d'[Len(c2d')] = x
          /\ \A i \in 1 .. Len(c2d') : (i \in 1 .. Len(c2d) /\ c2d'[i] = c2d[i]) \/ c2d'[i] = x
      BY <1>1, <2>1
    <3>2. x.kind = "submitted" /\ x.no = n /\ x.kind # "ack"
      BY <1>5, <2>1
    <3> QED
      BY <3>1, <3>2, Zenon DEF Carries, Submits
  <2>2. CASE c2d' = c2d /\ \A no : c2d' # Append(c2d, Message("submitted", no))
    BY <2>2
  <2>3. CASE \E no : c2d' = Append(c2d, Message("submitted", no))
    BY <2>1, <2>3, Zenon
  <2> QED
    BY <1>4, <2>2, <2>3 DEF Reported
<1>7. Past'
  BY <1>3, <1>4 DEF AgreeInv, Past, Reported
<1>8. Reporting'
  BY <1>4, <1>6 DEF AgreeInv, Reporting, Reported
<1>9. ASSUME sup.state = "paused"
      PROVE  ToldInv(sup.id)' /\ CommandedInv(sup, cmds, served)' /\ OverrideSent(sup.id)'
  <2>0. PICK k : k = sup.id
    OBVIOUS
  <2>1. ToldInv(k) /\ CommandedInv(sup, cmds, served) /\ OverrideSent(k)
    BY <1>9, <2>0 DEF AgreeInv, Agrees
  <2>2. ToldInv(k)'
    BY <1>3, <1>4, <2>1 DEF ToldInv, Reported
  <2>3. OverrideSent(k)'
    <3> SUFFICES ASSUME h'.pid = k PROVE ~h'.reported /\ (h'.submitted /\ link = "up" => Submits(c2d'))
      BY DEF OverrideSent
    <3>1. h.pid = k /\ ~h.reported /\ ~h'.reported /\ ~f.reported
      BY <1>3, <1>4, <2>1 DEF OverrideSent, Reported
    <3>2. h.sending => Submits(c2d)
      BY <2>1, <3>1, ReportUnderway DEF ToldInv
    <3>3. f.submitted => h.submitted \/ f.sending
      BY <1>3, <3>1
    <3>4. f.sending /\ link = "up" => Submits(c2d')
      BY <1>4, <1>6, <3>2 DEF Reported
    <3>5. h'.submitted /\ link = "up" => Submits(c2d')
      BY <1>4, <1>6, <2>1, <3>1, <3>3, <3>4 DEF OverrideSent, Reported
    <3> QED
      BY <3>1, <3>5
  <2>4. CommandedInv(sup, cmds, served)'
    BY <1>6, <2>0, <2>1 DEF CommandedInv, Underway, AnswersOf
  <2> QED
    BY <2>0, <2>2, <2>3, <2>4
<1> QED
  BY <1>7, <1>8, <1>9 DEF AgreeInv, Agrees

LEMMA UserAgrees ==
    ASSUME TypeOK, AgreeInv, ReportTimeout \/ User \/ Around \/ UNCHANGED vars
    PROVE  AgreeInv'
<1>1. h \in Memory
  BY DEF TypeOK, HandlerTypeOK
<1>2. CASE ReportTimeout
  <2>1. /\ h' = ReportReturns(h, FALSE)
        /\ UNCHANGED <<sup, cmds, served, issued, queue, w, ran, c2d, d2c, link>>
    BY <1>2 DEF ReportTimeout, daemonVars, history
  <2>2. /\ h'.paused = h.paused /\ h'.pid = h.pid /\ h'.submitted = h.submitted
        /\ h'.reported = h.reported /\ ~h'.sending
    BY <1>1, <2>1 DEF ReportReturns, Memory
  <2>3. Past' /\ Reporting'
    BY <2>1, <2>2 DEF AgreeInv, Past, Reporting
  <2>4. Agrees(sup, cmds, served)'
    BY <2>1, <2>2 DEF AgreeInv, Agrees, ToldInv, OverrideSent, CommandedInv, Underway, AnswersOf
  <2> QED
    BY <2>3, <2>4 DEF AgreeInv
<1>3. CASE User
  <2>1. UNCHANGED <<sup, cmds, served, issued, queue, w, ran, d2c, link>>
    BY <1>3 DEF User, UserTypes, UserSubmits, daemonVars
  <2>2. CASE UserTypes(issued) /\ UNCHANGED c2d
    <3>1. h' = [h EXCEPT !.typed = TRUE, !.typedAt = issued, !.draft = TRUE]
      BY <2>2 DEF UserTypes
    <3>2. SameBelief(h', h)
      BY <1>1, <3>1 DEF SameBelief, Memory
    <3> QED
      BY <2>1, <2>2, <3>2, BeliefAgrees
  <2>3. CASE Reports(Submitted(issued), link = "up")
    BY <2>1, <2>3, SubmitAgrees
  <2> QED
    BY <1>3, <2>2, <2>3 DEF User
<1>4. CASE Around \/ UNCHANGED vars
  <2>1. UNCHANGED <<h, sup, cmds, served, issued, queue, w, ran, c2d, d2c, link>>
    BY <1>4 DEF Around, GapPasses, ClaudeMoves, daemonVars, linkVars, vars, handlerVars
  <2>2. SameBelief(h', h)
    BY <2>1 DEF SameBelief
  <2> QED
    BY <2>1, <2>2, BeliefAgrees
<1> QED
  BY <1>2, <1>3, <1>4

\* A step of the engine or of the connection that loses no report.
EngineTells ==
    /\ issued' \in Nat /\ issued <= issued' /\ h'.pid = h.pid
    /\ d2c' = d2c \/ d2c' = <<>> \/ \E e \in ToLauncher : d2c' = Append(d2c, e) /\ e.type # "paused"
    /\ ~h'.sending \/ (UNCHANGED <<h, c2d>> /\ (d2c' = d2c \/ d2c' # <<>>))

LEMMA EngineReports ==
    ASSUME TypeOK, AgreeInv, EngineTells
    PROVE  Past' /\ Reporting'
<1>1. issued \in Nat /\ h.pid \in Nat /\ d2c \in Seq(ToLauncher)
  BY DEF TypeOK, DaemonTypeOK, HandlerTypeOK, LinkTypeOK, Memory
<1>2. h'.pid <= issued'
  BY <1>1 DEF EngineTells, AgreeInv, Past
<1>3. \A i \in 1 .. Len(d2c) : d2c[i].type = "paused" => d2c[i].kind = "registered" /\ d2c[i].id <= issued'
  <2> SUFFICES ASSUME NEW i \in 1 .. Len(d2c), d2c[i].type = "paused"
               PROVE  d2c[i].kind = "registered" /\ d2c[i].id <= issued'
    OBVIOUS
  <2>1. d2c[i] \in ToLauncher /\ d2c[i].kind = "registered" /\ d2c[i].id <= issued
    BY <1>1 DEF AgreeInv, Past
  <2>2. d2c[i].id \in Nat
    BY <2>1, PauseIds
  <2> QED
    BY <1>1, <2>1, <2>2 DEF EngineTells
<1>4. CASE d2c' = d2c
  BY <1>2, <1>3, <1>4 DEF AgreeInv, Past, Reporting, EngineTells
<1>5. CASE d2c' = <<>>
  <2>1. 1 .. Len(d2c') = {}
    BY <1>5
  <2> QED
    BY <1>2, <1>4, <1>5, <2>1 DEF Past, Reporting, EngineTells
<1>6. CASE \E e \in ToLauncher : d2c' = Append(d2c, e) /\ e.type # "paused"
  <2>1. PICK e \in ToLauncher : d2c' = Append(d2c, e) /\ e.type # "paused"
    BY <1>6
  <2>2. \A i \in 1 .. Len(d2c') : (i \in 1 .. Len(d2c) /\ d2c'[i] = d2c[i]) \/ d2c'[i] = e
    BY <1>1, <2>1
  <2>3. \A no : Carries(d2c, "noted", no) => Carries(d2c', "noted", no)
    BY <1>1, <2>1, CarriesAppend
  <2>4. Past'
    BY <1>2, <1>3, <2>1, <2>2 DEF Past
  <2>5. Reporting'
    BY <2>3 DEF AgreeInv, Reporting, EngineTells
  <2> QED
    BY <2>4, <2>5
<1> QED
  BY <1>4, <1>5, <1>6 DEF EngineTells

LEMMA StartCmdTells ==
    ASSUME TypeOK, StartCmd
    PROVE  d2c' = d2c \/ \E e \in ToLauncher : d2c' = Append(d2c, e) /\ e.type # "paused"
<1> DEFINE c == Head(cmds)
           unwanted == c.type = "pause" /\ ~(PausePending(sup) /\ sup.id = c.id)
           message == [kind |-> "cmd", type |-> c.type, id |-> c.id, prompt |-> c.prompt,
                       no |-> sends + 1, ok |-> TRUE]
<1>1. CASE unwanted \/ ~served
  BY <1>1, Zenon DEF StartCmd
<1>2. CASE ~unwanted /\ served
  <2>1. d2c' = Append(d2c, message)
    BY <1>2, Zenon DEF StartCmd
  <2>2. c \in DaemonCommand
    BY HeadTailType DEF StartCmd, TypeOK, DaemonTypeOK
  <2>3. message \in ToLauncher /\ message.type # "paused"
    BY <2>2 DEF ToLauncher, DaemonCommand, TypeOK, DaemonTypeOK
  <2> HIDE DEF message
  <2> QED
    BY <2>1, <2>3
<1> QED
  BY <1>1, <1>2

LEMMA DaemonReadsReports ==
    ASSUME TypeOK, AgreeInv, DaemonReads
    PROVE  Reporting'
<1>1. PICK m : m = Head(c2d)
  OBVIOUS
<1>2. /\ m \in ToDaemon /\ c2d # <<>> /\ c2d \in Seq(ToDaemon) /\ c2d' = Tail(c2d)
      /\ d2c \in Seq(ToLauncher) /\ sup \in Supervision
  BY <1>1, HeadTailType DEF DaemonReads, TypeOK, LinkTypeOK, DaemonTypeOK
<1>3. /\ m.kind = "register" => ReadRegister(m)
      /\ m.kind = "submitted" => ReadSubmitted(m)
      /\ m.kind = "ack" => ReadAck(m)
      /\ h' = h
  BY <1>1, <1>2 DEF DaemonReads, ToDaemon
<1>4. \A no : Carries(c2d, "submitted", no)
                 => Carries(c2d', "submitted", no) \/ (m.kind = "submitted" /\ m.no = no)
  BY <1>1, <1>2, CarriesTail
<1>5. ASSUME NEW e, d2c' = Append(d2c, e)
      PROVE  /\ \A no : Carries(d2c, "noted", no) => Carries(d2c', "noted", no)
             /\ e.kind = "noted" => Carries(d2c', "noted", e.no)
  <2>1. /\ \A i \in 1 .. Len(d2c) : i \in 1 .. Len(d2c') /\ d2c'[i] = d2c[i]
        /\ Len(d2c') \in 1 .. Len(d2c') /\ d2c'[Len(d2c')] = e
    BY <1>2, <1>5
  <2> QED
    BY <2>1, Zenon DEF Carries
<1>6. \A no : Carries(d2c, "noted", no) => Carries(d2c', "noted", no)
  <2>1. d2c' = d2c \/ \E e : d2c' = Append(d2c, e)
    BY <1>2, <1>3 DEF ReadRegister, ReadSubmitted, ReadAck, ToDaemon
  <2> QED
    BY <1>5, <2>1
<1>7. m.kind = "submitted" => Carries(d2c', "noted", m.no)
  <2> SUFFICES ASSUME m.kind = "submitted" PROVE Carries(d2c', "noted", m.no)
    OBVIOUS
  <2>1. PICK e : e = [Reply("noted", "none", 0) EXCEPT !.no = m.no, !.ok = sup.state # "none"]
    OBVIOUS
  <2>2. d2c' = Append(d2c, e)
    BY <1>3, <2>1, Zenon DEF ReadSubmitted
  <2>3. e.kind = "noted" /\ e.no = m.no
    BY <2>1 DEF Reply
  <2> QED
    BY <1>5, <2>2, <2>3
<1> QED
  BY <1>3, <1>4, <1>6, <1>7 DEF AgreeInv, Reporting

LEMMA EngineStepAgrees ==
    ASSUME TypeOK, OrderInv, OrderInv', PromptInv, AgreeInv,
           \/ HoldStep \/ Tick \/ OpResumeStep \/ StartCmd \/ AckTimeout \/ ReapStep
           \/ DaemonReads \/ Connect \/ Drop \/ Crash \/ Restart
    PROVE  AgreeInv'
<1>1. Agrees(sup, cmds, served)'
  BY HoldStepAgrees, RecordChangeAgrees, FaultsAgree, StartCmdAgrees, DaemonReadsAgrees
<1>2. h \in Memory /\ issued \in Nat
  BY DEF TypeOK, HandlerTypeOK, DaemonTypeOK
<1>3. issued' \in Nat /\ issued <= issued'
  <2>1. CASE ReapStep
    BY <1>2, <2>1 DEF ReapStep, Reap
  <2>2. CASE ~ReapStep
    <3>1. RecordMoves
      BY <2>2, NextMoves DEF Next
    <3> QED
      BY <1>2, <3>1 DEF RecordMoves, IssueMoves
  <2> QED
    BY <2>1, <2>2
<1>4. CASE DaemonReads
  BY <1>1, <1>4, DaemonReadsPast, DaemonReadsReports DEF AgreeInv
<1>5. CASE \/ HoldStep \/ Tick \/ OpResumeStep \/ AckTimeout \/ ReapStep \/ Restart
  <2>1. UNCHANGED <<h, c2d, d2c>>
    BY <1>5 DEF HoldStep, Tick, OpResumeStep, OpResume, AckTimeout, ReapStep, Reap, Restart,
                linkVars, launcherVars, handlerVars
  <2>2. EngineTells
    BY <1>3, <2>1 DEF EngineTells
  <2> QED
    BY <1>1, <2>2, EngineReports DEF AgreeInv
<1>6. CASE StartCmd
  <2>1. UNCHANGED <<h, c2d>>
    BY <1>6 DEF StartCmd
  <2>2. d2c' = d2c \/ \E e \in ToLauncher : d2c' = Append(d2c, e) /\ e.type # "paused"
    BY <1>6, StartCmdTells
  <2>3. d2c' = d2c \/ d2c' # <<>>
    <3>1. d2c \in Seq(ToLauncher)
      BY DEF TypeOK, LinkTypeOK
    <3>2. ASSUME NEW e \in ToLauncher
          PROVE  Append(d2c, e) # <<>>
      <4>1. Len(Append(d2c, e)) = Len(d2c) + 1 /\ Len(d2c) \in Nat /\ Len(<<>>) = 0
        BY <3>1
      <4>2. Len(Append(d2c, e)) # Len(<<>>)
        BY <4>1
      <4> QED
        BY <4>2, Zenon
    <3> QED
      BY <2>2, <3>2
  <2>4. EngineTells
    BY <1>3, <2>1, <2>2, <2>3 DEF EngineTells
  <2> QED
    BY <1>1, <2>4, EngineReports DEF AgreeInv
<1>7. CASE Connect
  <2>1. UNCHANGED <<h, d2c>> /\ link = "down"
    BY <1>7 DEF Connect, launcherVars, handlerVars
  <2>2. ~h.sending
    <3>1. c2d = <<>> /\ d2c = <<>>
      BY <2>1 DEF TypeOK, LinkTypeOK
    <3> QED
      BY <3>1, TellNothing DEF AgreeInv, Reporting
  <2>3. EngineTells
    BY <1>3, <2>1, <2>2 DEF EngineTells
  <2> QED
    BY <1>1, <2>3, EngineReports DEF AgreeInv
<1>8. CASE Drop \/ Crash
  <2>1. d2c' = <<>> /\ h' = IF h.sending THEN ReportReturns(h, FALSE) ELSE h
    BY <1>8 DEF Drop, Crash, Cut
  <2>2. ~h'.sending /\ h'.pid = h.pid
    BY <1>2, <2>1 DEF ReportReturns, Memory
  <2>3. EngineTells
    BY <1>3, <2>1, <2>2 DEF EngineTells
  <2> QED
    BY <1>1, <2>3, EngineReports DEF AgreeInv
<1> QED
  BY <1>4, <1>5, <1>6, <1>7, <1>8

LEMMA InitAgrees ==
    ASSUME Init
    PROVE  AgreeInv
<1>1. d2c = <<>> /\ sup.state = "none" /\ issued = 0 /\ h.pid = 0 /\ ~h.sending
  BY DEF Init, HandlerInit, NoSup
<1>2. 1 .. Len(<<>>) = {}
  OBVIOUS
<1> QED
  BY <1>1, <1>2 DEF AgreeInv, Past, Reporting, Agrees

\* Once everything under way arrived, a paused session's launcher is in that very pause.
LEMMA AgreedWhenQuiet ==
    ASSUME TypeOK, AgreeInv
    PROVE  SamePause
<1> SUFFICES ASSUME Quiet, sup.state = "paused"
             PROVE  h.paused /\ h.pid = sup.id /\ sup.id \in ran /\ ~h.submitted
  BY DEF SamePause
<1>1. ToldInv(sup.id) /\ CommandedInv(sup, cmds, served) /\ OverrideSent(sup.id)
  BY DEF AgreeInv, Agrees
<1>2. c2d = <<>> /\ d2c = <<>> /\ queue = <<>> /\ cmds = <<>> /\ served /\ link = "up"
  BY DEF Quiet
<1>3. sup.id \in ran
  BY <1>1, <1>2, TellNothing DEF CommandedInv, Underway
<1>4. h.paused /\ h.pid = sup.id
  BY <1>1, <1>3 DEF ToldInv
<1>5. ~h.submitted
  BY <1>1, <1>2, <1>4, TellNothing DEF OverrideSent
<1> QED
  BY <1>3, <1>4, <1>5

\* A launcher and a daemon that have nothing left to tell each other agree on a pause: the
\* launcher is in the pause of the daemon's record, began it, and holds back no submit of the
\* user's.  For any number of instances, of lost and late messages, crashes, restarts, resends
\* of a pause and resumes by hand.
THEOREM PausesAgree == Spec => []SamePause
<1>1. Init => OrderInv /\ PromptInv /\ AgreeInv
  BY InitOrder, InitAsks, InitAgrees
<1>2. TypeOK /\ OrderInv /\ [Next]_vars => OrderInv'
  BY DaemonStepOrder, OtherStepOrder, LauncherReadsOrder, SendAckOrder, HandleOrder DEF Next
<1>3. ASSUME TypeOK, OrderInv, PromptInv, [Next]_vars
      PROVE  PromptInv'
  BY <1>3, HoldStepAsks, OpResumeAsks, StartCmdAsks, FaultsAsk, DaemonReadsAsks,
     LauncherReadsAsks, SendAckAsks, HandleAsks, UserStepAsks DEF Next, OpResumeStep
<1>4. ASSUME TypeOK, OrderInv, OrderInv', PromptInv, AgreeInv, [Next]_vars
      PROVE  AgreeInv'
  BY <1>4, EngineStepAgrees, LauncherReadsAgrees, SendAckAgrees, HandleAgrees, UserAgrees DEF Next
<1>5. TypeOK /\ AgreeInv => SamePause
  BY AgreedWhenQuiet
<1> QED
  BY <1>1, <1>2, <1>3, <1>4, <1>5, TypeCorrect, PTL DEF Spec

=============================================================================
