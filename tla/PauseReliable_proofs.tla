------------------------ MODULE PauseReliable_proofs ------------------------
(***************************************************************************)
(* What PauseProtocol promises over a connection that holds: every message *)
(* arrives, in order and in time, and nobody resumes the session by hand.  *)
(* Then the launcher does not stay in a pause that the daemon ended        *)
(* (NotStuckPaused), no turn that an ESC cut off is left without a prompt  *)
(* or a report (NoSilentStop), a prompt never joins a draft (DraftSafe),   *)
(* and no ESC follows an override that the daemon recorded                 *)
(* (NoEscAfterOverride).                                                   *)
(***************************************************************************)
EXTENDS PauseProtocol_proofs

-----------------------------------------------------------------------------
(* One command at a time, which is in one place. *)

Submits(m) == m.kind = "submitted"
Acks(m) == m.kind = "ack"
Asks(m) == m.kind = "cmd"
Notes(m) == m.kind = "noted"
First(c, type) == c # <<>> /\ Head(c).type = type
Flying(c) == c # <<>> /\ Head(c).no # 0
\* The launcher is in pause `n`.
InPause(n) == h.paused /\ h.pid = n
\* Pause `n` was begun in the terminal.
Begun(n) == n \in ran /\ InPause(n)

\* The engine's commands `c` and its record `s` after `n` pauses.
CommandsInv(s, c, n) ==
    /\ \A i \in 1 .. Len(c) : c[i].type = "pause" => c[i].id = n
    /\ \A i \in 1 .. Len(c) : i # 1 => c[i].no = 0 /\ c[i].type = "pause" /\ First(c, "pause")
    /\ First(c, "resume") => s.state = "running" /\ h.pid = n
    /\ First(c, "pause") =>
          /\ s.state \in {"paused", "overridden"} /\ s.id = n /\ n # 0
          /\ s.state = "overridden" => InPause(n) /\ h.submitted
RecordInv(s, c, n) ==
    /\ h.pid <= n /\ \A r \in ran : r <= n
    /\ h.done.id \in ran \cup {0}
    /\ s.state = "paused" =>
          /\ s.id = n /\ n # 0
          /\ h.pid = n => h.paused
          /\ s.pend => First(c, "pause") /\ s.busy = "none" /\ (n \in ran => Flying(c))
          /\ ~s.pend => n \in ran /\ ~Flying(c)
          /\ n \in ran => InPause(n)

\* A command under way to the launcher, and what is under way with it.
SentInv(c, n, in, out) ==
    \A i \in 1 .. Len(out) : Asks(out[i]) =>
        /\ Flying(c) /\ out[i].no = Head(c).no /\ out[i].type = Head(c).type
        /\ out[i].id = Head(c).id /\ out[i].prompt = Head(c).prompt
        /\ w.pc = "idle" /\ (out[i].type = "pause" => out[i].id \notin ran)
        /\ \A j \in 1 .. Len(out) : Asks(out[j]) => j = i
        /\ \A j \in 1 .. Len(in) : ~Acks(in[j])
        /\ \A j \in 1 .. Len(out) : Notes(out[j]) /\ j > i /\ out[i].type = "pause" => h.pid = n
\* The command in the worker.
WorkInv(s, c, n, in) ==
    w.pc # "idle" =>
        /\ Flying(c) /\ w.no = Head(c).no /\ w.conn = conn
        /\ \A j \in 1 .. Len(in) : ~Acks(in[j])
        /\ w.pc = "ack" => w.result # "none"
        /\ w.pc \in PauseSteps => First(c, "pause") /\ w.id = n /\ (s.state = "paused" \/ h.submitted)
        /\ w.pc \in ResumeSteps => First(c, "resume") /\ Head(c).prompt
        /\ IF First(c, "pause") THEN Begun(n) ELSE ~h.paused
\* A command's ack under way to the daemon.
AckInv(c, n, in) ==
    \A i \in 1 .. Len(in) : Acks(in[i]) =>
        /\ Flying(c) /\ in[i].no = Head(c).no /\ in[i].result # "none"
        /\ \A j \in 1 .. Len(in) : Acks(in[j]) => j = i
        /\ IF First(c, "pause") THEN Begun(n)
           ELSE ~h.paused /\ \A j \in 1 .. Len(in) : Submits(in[j]) => j < i

\* The override report: the submit under way to the daemon or its answer, and not both.
ReportInv(s, c, n, in, out) ==
    /\ h.sending => \/ \E i \in 1 .. Len(in) : Submits(in[i])
                    \/ \E i \in 1 .. Len(out) : Notes(out[i])
    /\ \A i \in 1 .. Len(in) : Submits(in[i]) =>
          /\ h.sending /\ in[i].no = h.report /\ h.submitted /\ h.pid = n
          /\ (s.state = "paused" /\ h.paused) \/ First(c, "resume")
          /\ \A j \in 1 .. Len(in) : Submits(in[j]) => j = i
          /\ \A j \in 1 .. Len(out) : ~Notes(out[j])
    /\ \A i \in 1 .. Len(out) : Notes(out[i]) =>
          /\ h.sending /\ out[i].no = h.report /\ out[i].ok
          /\ \A j \in 1 .. Len(out) : Notes(out[j]) => j = i
\* A launcher in a pause that is over reported the override, or a resume is on its way to it.
KnowsInv(s, c, n) ==
    h.paused /\ ~(s.state = "paused" /\ h.pid = n) => h.reported \/ h.sending \/ First(c, "resume")

PastEsc == w.pc \in PauseSteps \ {"look", "guard"}
AckBusy(in) == \/ w.pc = "ack" /\ w.busy = "yes"
               \/ \E i \in 1 .. Len(in) : Acks(in[i]) /\ in[i].busy = "yes"
Prompted(c) == First(c, "resume") /\ Head(c).prompt
Interrupted(s, in) == PastEsc \/ AckBusy(in) \/ (s.state = "paused" /\ s.busy = "yes")
DraftInv(s, c, in) == touched /\ (Interrupted(s, in) \/ Prompted(c)) => h.typed

StopInv(s, c, in, cut) ==
    /\ cut /\ w.pc \in PauseSteps => w.busy = "yes"
    /\ cut => Prompted(c) \/ (Interrupted(s, in) /\ s.state = "paused" /\ ~h.submitted)
    /\ cut /\ w.pc = "ack" /\ w.result = "injected" => ~First(c, "resume")
    /\ cut => \A i \in 1 .. Len(in) : Acks(in[i]) /\ in[i].result = "injected" => ~First(c, "resume")

PauseInv(s, c, n, in, out) ==
    /\ CommandsInv(s, c, n) /\ RecordInv(s, c, n)
    /\ SentInv(c, n, in, out) /\ WorkInv(s, c, n, in) /\ AckInv(c, n, in)
    /\ ReportInv(s, c, n, in, out) /\ KnowsInv(s, c, n) /\ DraftInv(s, c, in)

\* Until the launcher knows that it is registered, nothing happens in it.
LinkInv ==
    /\ up /\ ~provisional /\ queue = <<>> /\ ~h.stale
    /\ sup.state # "none" <=> served
    /\ ~served => cmds = <<>> /\ d2c = <<>>
    /\ link = "up" => served
    /\ link # "up" => /\ ~h.paused /\ ~h.sending /\ ~h.submitted /\ h.pid = 0 /\ w.pc = "idle"
                      /\ ran = {} /\ esc = "none"
    /\ IF link = "up" THEN \A i \in 1 .. Len(c2d) : c2d[i].kind # "register"
       ELSE IF served THEN c2d = <<>> /\ d2c # <<>> /\ d2c[1].kind = "registered"
       ELSE \A i \in 1 .. Len(c2d) : i = 1 /\ c2d[i].kind = "register"
    /\ \A i \in 1 .. Len(d2c) : d2c[i].kind = "registered" =>
          /\ i = 1 /\ link # "up"
          /\ d2c[i].type = "paused" => sup.state = "paused" /\ sup.id = d2c[i].id
ReliableInv == LinkInv /\ PauseInv(sup, cmds, issued, c2d, d2c)

-----------------------------------------------------------------------------
(* Messages that are added and taken. *)

LEMMA AppendAt ==
    ASSUME NEW S, NEW q \in Seq(S), NEW m \in S, NEW r, r = Append(q, m)
    PROVE  /\ r \in Seq(S) /\ r # <<>>
           /\ \A i \in 1 .. Len(r) : \/ i \in 1 .. Len(q) /\ r[i] = q[i] /\ i # Len(r)
                                     \/ i = Len(r) /\ r[i] = m
           /\ \A i \in 1 .. Len(q) : i \in 1 .. Len(r) /\ r[i] = q[i] /\ i < Len(r)
           /\ Len(r) \in 1 .. Len(r) /\ r[Len(r)] = m
OBVIOUS

LEMMA TailAt ==
    ASSUME NEW S, NEW q \in Seq(S), q # <<>>, NEW r, r = Tail(q)
    PROVE  /\ r \in Seq(S) /\ q[1] = Head(q) /\ Head(q) \in S /\ 1 \in 1 .. Len(q)
           /\ \A i \in 1 .. Len(r) : i + 1 \in 1 .. Len(q) /\ r[i] = q[i + 1] /\ i + 1 # 1
           /\ \A i \in 1 .. Len(q) : i # 1 => i - 1 \in 1 .. Len(r) /\ r[i - 1] = q[i]
OBVIOUS

LEMMA HeadAt ==
    ASSUME NEW S, NEW q \in Seq(S), q # <<>>
    PROVE  1 \in 1 .. Len(q) /\ q[1] = Head(q) /\ Head(q) \in S
OBVIOUS

-----------------------------------------------------------------------------
(* An evaluation keeps the invariant. *)

\* The engine has no command: nothing is under way to the worker or from it.
LEMMA NothingFlies ==
    ASSUME NEW s, NEW c, NEW n, NEW in, NEW out, PauseInv(s, c, n, in, out), ~Flying(c)
    PROVE  /\ w.pc = "idle"
           /\ \A i \in 1 .. Len(out) : ~Asks(out[i])
           /\ \A i \in 1 .. Len(in) : ~Acks(in[i])
BY DEF PauseInv, SentInv, WorkInv, AckInv

EvaluatedAs(s, c, e) ==
    \/ e.sup = s /\ e.cmds = c /\ e.issued = issued
    \/ /\ c = <<>> /\ s.state = "paused"
       /\ e.sup.state = "running" /\ e.sup.busy = "no" /\ e.issued = issued
       /\ e.cmds = <<Cmd("resume", 0, s.busy = "yes")>>
    \/ /\ c = <<>> /\ s.state \in {"running", "overridden"}
       /\ e.sup.state = "paused" /\ e.sup.id = issued + 1 /\ e.sup.pend /\ e.sup.busy = "none"
       /\ e.issued = issued + 1 /\ e.cmds = <<Cmd("pause", issued + 1, FALSE)>>
    \/ /\ c = <<>> /\ s.state = "overridden"
       /\ e.sup.state = "running" /\ e.cmds = c /\ e.issued = issued

LEMMA Evaluates ==
    ASSUME NEW held, NEW s \in Supervision, NEW c, issued \in Nat,
           NEW e, e = Evaluated(held, s, c)
    PROVE  EvaluatedAs(s, c, e)
<1> DEFINE same == [sup |-> s, cmds |-> c, issued |-> issued]
           resumed == [s EXCEPT !.state = "running", !.busy = "no", !.pend = FALSE]
           paused == [s EXCEPT !.state = "paused", !.id = issued + 1, !.pend = TRUE, !.busy = "none"]
           marked == [s EXCEPT !.state = "running", !.over = {}]
           resume == <<Cmd("resume", 0, WantsPrompt(s))>>
           pause == <<Cmd("pause", issued + 1, FALSE)>>
<1>1. /\ resumed.state = "running" /\ resumed.busy = "no"
      /\ paused.state = "paused" /\ paused.id = issued + 1 /\ paused.pend /\ paused.busy = "none"
      /\ marked.state = "running"
  BY DEF Supervision
<1>2. resume = <<Cmd("resume", 0, s.busy = "yes")>>
  BY DEF WantsPrompt
<1> HIDE DEF resumed, paused, marked, resume
<1>3. \/ e = same
      \/ e = [same EXCEPT !.sup = resumed, !.cmds = resume] /\ c = <<>> /\ s.state = "paused"
      \/ /\ e = [same EXCEPT !.sup = paused, !.cmds = pause, !.issued = issued + 1]
         /\ c = <<>> /\ s.state \in {"running", "overridden"}
      \/ e = [same EXCEPT !.sup = marked] /\ c = <<>> /\ s.state = "overridden"
  BY Zenon DEF Evaluated, OverrideEnds, resumed, paused, marked, resume
<1>r. same \in [sup : {s}, cmds : {c}, issued : {issued}]
  OBVIOUS
<1> HIDE DEF same, pause
<1>4. \/ e.sup = s /\ e.cmds = c /\ e.issued = issued
      \/ e.sup = resumed /\ e.cmds = resume /\ e.issued = issued /\ c = <<>> /\ s.state = "paused"
      \/ /\ e.sup = paused /\ e.cmds = pause /\ e.issued = issued + 1
         /\ c = <<>> /\ s.state \in {"running", "overridden"}
      \/ e.sup = marked /\ e.cmds = c /\ e.issued = issued /\ c = <<>> /\ s.state = "overridden"
  BY <1>3, <1>r
<1> QED
  BY <1>1, <1>2, <1>4 DEF EvaluatedAs, pause

\* A command in the engine's hands, still unsent.
IsUnsent(type, id, prompt, c) ==
    /\ c # <<>> /\ Len(c) = 1 /\ Head(c) = c[1]
    /\ c[1].type = type /\ c[1].id = id /\ c[1].prompt = prompt /\ c[1].no = 0
LEMMA OneUnsent ==
    ASSUME NEW type, NEW id, NEW prompt, NEW c, c = <<Cmd(type, id, prompt)>>
    PROVE  IsUnsent(type, id, prompt, c)
BY DEF Cmd, IsUnsent

LEMMA EvaluationKeeps ==
    ASSUME TypeOK, NEW s, NEW c, NEW in, NEW out,
           PauseInv(s, c, issued, in, out), NEW e, EvaluatedAs(s, c, e)
    PROVE  PauseInv(e.sup, e.cmds, e.issued, in, out)
<1>1. issued \in Nat /\ h \in Memory /\ w \in Work /\ ran \subseteq Nat
  BY DEF TypeOK, DaemonTypeOK, HandlerTypeOK
<1>2. CASE e.sup = s /\ e.cmds = c /\ e.issued = issued
  BY <1>2
<1> SUFFICES ASSUME c = <<>>
             PROVE  PauseInv(e.sup, e.cmds, e.issued, in, out)
  BY <1>2 DEF EvaluatedAs
<1>3. /\ w.pc = "idle" /\ ~First(c, "resume") /\ ~First(c, "pause") /\ ~Flying(c)
      /\ \A i \in 1 .. Len(out) : ~Asks(out[i])
      /\ \A i \in 1 .. Len(in) : ~Acks(in[i])
  BY NothingFlies DEF Flying, First
<1>4. CASE /\ s.state = "paused"
           /\ e.sup.state = "running" /\ e.sup.busy = "no" /\ e.issued = issued
           /\ e.cmds = <<Cmd("resume", 0, s.busy = "yes")>>
  <2>0. IsUnsent("resume", 0, s.busy = "yes", e.cmds)
    BY <1>4, OneUnsent
  <2>1. /\ First(e.cmds, "resume") /\ ~First(e.cmds, "pause") /\ ~Flying(e.cmds)
        /\ Prompted(e.cmds) => s.busy = "yes"
        /\ Len(e.cmds) = 1 /\ e.cmds[1].type = "resume"
    BY <2>0 DEF IsUnsent, First, Flying, Prompted
  <2>2. h.pid = issued
    BY <1>3, <1>4 DEF PauseInv, RecordInv, InPause
  <2>3. CommandsInv(e.sup, e.cmds, issued)
    BY <1>4, <2>1, <2>2 DEF CommandsInv
  <2>4. RecordInv(e.sup, e.cmds, issued)
    BY <1>4 DEF PauseInv, RecordInv
  <2>5. SentInv(e.cmds, issued, in, out) /\ WorkInv(e.sup, e.cmds, issued, in) /\ AckInv(e.cmds, issued, in)
    BY <1>3 DEF SentInv, WorkInv, AckInv
  <2>6. ReportInv(e.sup, e.cmds, issued, in, out)
    BY <2>1 DEF PauseInv, ReportInv
  <2>7. KnowsInv(e.sup, e.cmds, issued)
    BY <2>1 DEF KnowsInv
  <2>8. DraftInv(e.sup, e.cmds, in)
    BY <1>3, <1>4, <2>1 DEF PauseInv, DraftInv, Interrupted
  <2> QED
    BY <1>4, <2>3, <2>4, <2>5, <2>6, <2>7, <2>8 DEF PauseInv
<1>5. CASE /\ s.state \in {"running", "overridden"}
           /\ e.sup.state = "paused" /\ e.sup.id = issued + 1 /\ e.sup.pend /\ e.sup.busy = "none"
           /\ e.issued = issued + 1 /\ e.cmds = <<Cmd("pause", issued + 1, FALSE)>>
  <2>0. IsUnsent("pause", issued + 1, FALSE, e.cmds)
    BY <1>5, OneUnsent
  <2>1. /\ First(e.cmds, "pause") /\ ~First(e.cmds, "resume") /\ ~Flying(e.cmds)
        /\ Len(e.cmds) = 1 /\ e.cmds[1].id = issued + 1 /\ ~Prompted(e.cmds)
    BY <2>0 DEF IsUnsent, First, Flying, Prompted
  <2>2. issued + 1 # 0 /\ issued + 1 \notin ran /\ h.pid # issued + 1 /\ h.pid <= issued + 1
        /\ \A r \in ran : r <= issued + 1
    BY <1>1 DEF PauseInv, RecordInv, Memory
  <2>3. CommandsInv(e.sup, e.cmds, issued + 1)
    <3>1. \A i \in 1 .. Len(e.cmds) : i = 1
      BY <2>1
    <3> QED
      BY <1>5, <2>1, <2>2, <3>1, Zenon DEF CommandsInv
  <2>4. RecordInv(e.sup, e.cmds, issued + 1)
    BY <1>5, <2>1, <2>2 DEF PauseInv, RecordInv
  <2>5. /\ SentInv(e.cmds, issued + 1, in, out) /\ WorkInv(e.sup, e.cmds, issued + 1, in)
        /\ AckInv(e.cmds, issued + 1, in)
    BY <1>3 DEF SentInv, WorkInv, AckInv
  <2>6. ReportInv(e.sup, e.cmds, issued + 1, in, out)
    BY <1>3, <1>5 DEF PauseInv, ReportInv
  <2>7. KnowsInv(e.sup, e.cmds, issued + 1)
    BY <1>3, <1>5 DEF PauseInv, KnowsInv
  <2>8. DraftInv(e.sup, e.cmds, in)
    BY <1>3, <1>5, <2>1 DEF PauseInv, DraftInv, Interrupted
  <2> QED
    BY <1>5, <2>3, <2>4, <2>5, <2>6, <2>7, <2>8 DEF PauseInv
<1>6. CASE /\ s.state = "overridden"
           /\ e.sup.state = "running" /\ e.cmds = c /\ e.issued = issued
  <2>1. ~Prompted(c)
    BY <1>3 DEF Prompted
  <2>2. CommandsInv(e.sup, c, issued) /\ RecordInv(e.sup, c, issued)
    BY <1>3, <1>6 DEF PauseInv, CommandsInv, RecordInv
  <2>3. SentInv(c, issued, in, out) /\ WorkInv(e.sup, c, issued, in) /\ AckInv(c, issued, in)
    BY <1>3 DEF SentInv, WorkInv, AckInv
  <2>4. ReportInv(e.sup, c, issued, in, out)
    BY <1>3, <1>6 DEF PauseInv, ReportInv
  <2>5. KnowsInv(e.sup, c, issued)
    BY <1>3, <1>6 DEF PauseInv, KnowsInv
  <2>6. DraftInv(e.sup, c, in)
    BY <1>3, <1>6, <2>1 DEF PauseInv, DraftInv, Interrupted
  <2> QED
    BY <1>6, <2>2, <2>3, <2>4, <2>5, <2>6 DEF PauseInv
<1> QED
  BY <1>2, <1>4, <1>5, <1>6 DEF EvaluatedAs

LEMMA EvaluationStops ==
    ASSUME NEW s, NEW c, NEW in, NEW out, NEW cut,
           PauseInv(s, c, issued, in, out), StopInv(s, c, in, cut), NEW e, EvaluatedAs(s, c, e)
    PROVE  StopInv(e.sup, e.cmds, in, cut)
<1>1. CASE e.sup = s /\ e.cmds = c
  BY <1>1
<1>2. CASE c = <<>>
  <2>1. /\ w.pc = "idle" /\ ~Prompted(c)
        /\ \A i \in 1 .. Len(in) : ~Acks(in[i])
    BY <1>2, NothingFlies DEF Flying, Prompted, First
  <2>2. cut => s.state = "paused" /\ s.busy = "yes"
    BY <2>1 DEF StopInv, Interrupted, PastEsc, AckBusy, PauseSteps
  <2>3. s.state = "paused" /\ s.busy = "yes" /\ ~(e.sup = s /\ e.cmds = c) => Prompted(e.cmds)
    <3>1. s.state = "paused" /\ ~(e.sup = s /\ e.cmds = c)
            => e.cmds = <<Cmd("resume", 0, s.busy = "yes")>>
      BY DEF EvaluatedAs
    <3>2. e.cmds = <<Cmd("resume", 0, s.busy = "yes")>> => IsUnsent("resume", 0, s.busy = "yes", e.cmds)
      BY OneUnsent
    <3> QED
      BY <3>1, <3>2 DEF IsUnsent, Prompted, First
  <2> QED
    BY <1>1, <2>1, <2>2, <2>3 DEF StopInv, PauseSteps
<1> QED
  BY <1>1, <1>2 DEF EvaluatedAs

-----------------------------------------------------------------------------
(* The steps of the engine. *)

PauseOK == PauseInv(sup, cmds, issued, c2d, d2c)
StopOK == StopInv(sup, cmds, c2d, esc = "cut")

\* The engine's state and the messages become `s`, `c`, `n`, `in` and `out`; the launcher's
\* state stays as it is.
LEMMA EngineKeeps ==
    ASSUME NEW s, NEW c, NEW n, NEW in, NEW out, PauseInv(s, c, n, in, out),
           sup' = s, cmds' = c, issued' = n, c2d' = in, d2c' = out,
           UNCHANGED <<h, w, ran, touched, conn>>
    PROVE  PauseOK'
<1>1. CommandsInv(sup, cmds, issued)' /\ RecordInv(sup, cmds, issued)'
  BY DEF PauseInv, CommandsInv, RecordInv, InPause, First, Flying
<1>2. SentInv(cmds, issued, c2d, d2c)'
  BY DEF PauseInv, SentInv, Flying, Asks, Acks, Notes
<1>3. WorkInv(sup, cmds, issued, c2d)' /\ AckInv(cmds, issued, c2d)'
  BY DEF PauseInv, WorkInv, AckInv, Flying, First, Begun, InPause, Acks, Submits
<1>4. ReportInv(sup, cmds, issued, c2d, d2c)' /\ KnowsInv(sup, cmds, issued)'
  BY DEF PauseInv, ReportInv, KnowsInv, First, Submits, Notes
<1>5. DraftInv(sup, cmds, c2d)'
  BY DEF PauseInv, DraftInv, Interrupted, PastEsc, AckBusy, Acks, Prompted, First
<1> QED
  BY <1>1, <1>2, <1>3, <1>4, <1>5 DEF PauseOK, PauseInv

LEMMA EngineStops ==
    ASSUME NEW s, NEW c, NEW in, StopInv(s, c, in, esc' = "cut"),
           sup' = s, cmds' = c, c2d' = in, UNCHANGED <<h, w>>
    PROVE  StopOK'
BY DEF StopOK, StopInv, Prompted, First, Interrupted, PastEsc, AckBusy, Acks

LEMMA BecomesKeeps ==
    ASSUME TypeOK, NEW s \in Supervision, NEW c, NEW held, NEW in, NEW out,
           PauseInv(s, c, issued, in, out), Become(Evaluated(held, s, c)),
           c2d' = in, d2c' = out, UNCHANGED <<h, w, ran, touched, conn>>
    PROVE  /\ PauseOK'
           /\ StopInv(s, c, in, esc' = "cut") => StopOK'
           /\ s.state = "none" <=> sup'.state = "none"
           /\ c # <<>> \/ s.state = "none" => sup' = s /\ cmds' = c
<1>1. PICK e : e = Evaluated(held, s, c)
  OBVIOUS
<1>2. sup' = e.sup /\ cmds' = e.cmds /\ issued' = e.issued
  BY <1>1 DEF Become
<1>3. issued \in Nat
  BY DEF TypeOK, DaemonTypeOK
<1>4. EvaluatedAs(s, c, e)
  BY <1>1, <1>3, Evaluates
<1>5. PauseInv(e.sup, e.cmds, e.issued, in, out)
  BY <1>4, EvaluationKeeps
<1>6. PauseOK'
  BY <1>2, <1>5, EngineKeeps
<1>7. ASSUME StopInv(s, c, in, esc' = "cut")
      PROVE  StopOK'
  <2>1. StopInv(e.sup, e.cmds, in, esc' = "cut")
    BY <1>4, <1>7, EvaluationStops
  <2> QED
    BY <1>2, <2>1, EngineStops
<1>8. /\ s.state = "none" <=> e.sup.state = "none"
      /\ c # <<>> \/ s.state = "none" => e.sup = s /\ e.cmds = c
  BY <1>4 DEF EvaluatedAs
<1> QED
  BY <1>2, <1>6, <1>7, <1>8

\* The pause of a launcher that is registering is still in the engine's hands.
LEMMA RegisteringPause ==
    ASSUME LinkInv, NEW s, NEW c, NEW n, NEW in, NEW out, PauseInv(s, c, n, in, out),
           link # "up", s.state = "paused"
    PROVE  s.pend /\ First(c, "pause") /\ Head(c).id = s.id /\ s.id = n
<1>1. ran = {}
  BY DEF LinkInv
<1>2. s.pend /\ First(c, "pause") /\ s.id = n
  BY <1>1 DEF PauseInv, RecordInv
<1> QED
  BY <1>2 DEF PauseInv, CommandsInv, First

\* A step of the engine that at most sends a message.
LEMMA LinkKept ==
    ASSUME TypeOK, LinkInv,
           UNCHANGED <<up, provisional, queue, h, w, ran, esc, served, link, c2d>>,
           sup.state = "none" <=> sup'.state = "none", served \/ cmds' = <<>>,
           sup.state = "paused" /\ link # "up" => sup' = sup,
           \/ d2c' = d2c
           \/ served /\ \E m \in ToLauncher : m.kind # "registered" /\ d2c' = Append(d2c, m)
    PROVE  LinkInv'
<1>1. CASE d2c' = d2c
  BY <1>1 DEF LinkInv
<1>2. ASSUME NEW m \in ToLauncher, m.kind # "registered", d2c' = Append(d2c, m), served
      PROVE  LinkInv'
  <2>1. d2c \in Seq(ToLauncher)
    BY DEF TypeOK, LinkTypeOK
  <2>2. /\ d2c' # <<>>
        /\ \A i \in 1 .. Len(d2c') : \/ i \in 1 .. Len(d2c) /\ d2c'[i] = d2c[i]
                                     \/ d2c'[i] = m
        /\ \A i \in 1 .. Len(d2c) : d2c'[i] = d2c[i]
    BY <1>2, <2>1, AppendAt
  <2>3. d2c # <<>> => d2c'[1] = d2c[1]
    BY <2>1, <2>2, HeadAt
  <2> QED
    BY <1>2, <2>2, <2>3 DEF LinkInv
<1> QED
  BY <1>1, <1>2

LEMMA TickReliable ==
    ASSUME TypeOK, LinkInv, PauseOK, HoldStep \/ Tick
    PROVE  LinkInv' /\ PauseOK' /\ (StopOK => StopOK')
<1>1. /\ UNCHANGED <<up, provisional, queue, h, w, ran, esc, touched>>
      /\ UNCHANGED <<link, served, c2d, d2c, conn>>
  BY DEF HoldStep, Tick, linkVars, launcherVars, handlerVars
<1>2. PICK held : Become(Evaluated(held, sup, cmds))
  BY DEF HoldStep, Tick
<1>3. sup \in Supervision
  BY DEF TypeOK, DaemonTypeOK
<1>4. /\ PauseOK' /\ (StopInv(sup, cmds, c2d, esc' = "cut") => StopOK')
      /\ sup.state = "none" <=> sup'.state = "none"
      /\ cmds # <<>> \/ sup.state = "none" => sup' = sup /\ cmds' = cmds
  BY <1>1, <1>2, <1>3, BecomesKeeps DEF PauseOK
<1>5. sup.state = "paused" /\ link # "up" => sup' = sup
  BY <1>4, RegisteringPause DEF PauseOK, First
<1>6. served \/ cmds' = <<>>
  BY <1>4 DEF LinkInv
<1>7. LinkInv'
  BY <1>1, <1>4, <1>5, <1>6, LinkKept
<1>8. StopOK => StopOK'
  BY <1>1, <1>4 DEF StopOK
<1> QED
  BY <1>4, <1>7, <1>8

\* What is left when the first command is over.
Leaves(c, n, t) ==
    /\ \A i \in 1 .. Len(t) : t[i].no = 0 /\ t[i].type = "pause" /\ t[i].id = n
    /\ t # <<>> => First(c, "pause") /\ First(t, "pause")
    /\ ~Flying(t) /\ ~First(t, "resume") /\ ~Prompted(t)
LEMMA FirstDropped ==
    ASSUME NEW s, NEW n, NEW c \in Seq(DaemonCommand), c # <<>>, CommandsInv(s, c, n),
           NEW t, t = Tail(c)
    PROVE  Leaves(c, n, t)
<1>1. \A i \in 1 .. Len(t) : i + 1 \in 1 .. Len(c) /\ t[i] = c[i + 1] /\ i + 1 # 1
  BY TailAt
<1>2. t \in Seq(DaemonCommand) /\ (t # <<>> => 1 \in 1 .. Len(t) /\ Head(t) = t[1])
  BY TailAt, HeadAt
<1>3. \A i \in 1 .. Len(t) : t[i].no = 0 /\ t[i].type = "pause" /\ t[i].id = n /\ First(c, "pause")
  BY <1>1 DEF CommandsInv
<1> QED
  BY <1>2, <1>3 DEF First, Flying, Prompted, Leaves

\* The turn of a pause that is no longer wanted.
LEMMA UnwantedKeeps ==
    ASSUME TypeOK, PauseOK, First(cmds, "pause"), ~Flying(cmds),
           ~(PausePending(sup) /\ sup.id = Head(cmds).id), NEW t, t = Tail(cmds)
    PROVE  /\ PauseInv(sup, t, issued, c2d, d2c)
           /\ StopOK => StopInv(sup, t, c2d, esc = "cut")
<1>1. cmds \in Seq(DaemonCommand) /\ cmds # <<>> /\ CommandsInv(sup, cmds, issued)
  BY DEF TypeOK, DaemonTypeOK, First, PauseOK, PauseInv
<1>2. /\ \A i \in 1 .. Len(t) : t[i].no = 0 /\ t[i].type = "pause" /\ t[i].id = issued
      /\ t # <<>> => First(t, "pause")
      /\ ~Flying(t) /\ ~First(t, "resume") /\ ~Prompted(t)
  <2>1. Leaves(cmds, issued, t)
    BY <1>1, FirstDropped
  <2> QED
    BY <2>1 DEF Leaves
<1>3. /\ w.pc = "idle"
      /\ \A i \in 1 .. Len(d2c) : ~Asks(d2c[i])
      /\ \A i \in 1 .. Len(c2d) : ~Acks(c2d[i])
  BY NothingFlies DEF PauseOK
<1>4. ~First(cmds, "resume") /\ ~Prompted(cmds)
  BY DEF First, Prompted
<1>5. sup.state = "paused" => ~sup.pend
  <2>1. Head(cmds).id = issued
    BY <1>1, HeadAt DEF CommandsInv, First
  <2> QED
    BY <2>1 DEF PauseOK, PauseInv, RecordInv, PausePending
<1>6. CommandsInv(sup, t, issued)
  <2>1. /\ sup.state \in {"paused", "overridden"} /\ sup.id = issued /\ issued # 0
        /\ sup.state = "overridden" => InPause(issued) /\ h.submitted
    BY <1>1 DEF CommandsInv
  <2>2. /\ \A i \in 1 .. Len(t) : t[i].type = "pause" => t[i].id = issued
        /\ \A i \in 1 .. Len(t) : i # 1 => t[i].no = 0 /\ t[i].type = "pause" /\ First(t, "pause")
    <3>1. ASSUME NEW i \in 1 .. Len(t) PROVE t # <<>>
      BY <3>1
    <3> QED
      BY <1>2, <3>1
  <2> QED
    BY <1>2, <2>1, <2>2 DEF CommandsInv
<1>7. RecordInv(sup, t, issued)
  BY <1>2, <1>5 DEF PauseOK, PauseInv, RecordInv
<1>8. SentInv(t, issued, c2d, d2c) /\ WorkInv(sup, t, issued, c2d) /\ AckInv(t, issued, c2d)
  <2>1. SentInv(t, issued, c2d, d2c)
    BY <1>3 DEF SentInv
  <2>2. WorkInv(sup, t, issued, c2d)
    BY <1>3 DEF WorkInv
  <2>3. AckInv(t, issued, c2d)
    BY <1>3 DEF AckInv
  <2> QED
    BY <2>1, <2>2, <2>3
<1>9. ReportInv(sup, t, issued, c2d, d2c)
  BY <1>4 DEF PauseOK, PauseInv, ReportInv
<1>10. KnowsInv(sup, t, issued) /\ DraftInv(sup, t, c2d)
  BY <1>2, <1>4 DEF PauseOK, PauseInv, KnowsInv, DraftInv
<1>11. StopOK => StopInv(sup, t, c2d, esc = "cut")
  BY <1>2, <1>3, <1>4 DEF StopOK, StopInv
<1> QED
  BY <1>6, <1>7, <1>8, <1>9, <1>10, <1>11 DEF PauseInv

\* The first command is sent: it becomes `x`, and `m` is its message.
IsSent(c, n, x, m) ==
    /\ x # <<>> /\ Head(x).no # 0 /\ Len(x) = Len(c)
    /\ Head(x).type = Head(c).type /\ Head(x).id = Head(c).id /\ Head(x).prompt = Head(c).prompt
    /\ \A i \in 1 .. Len(x) : /\ x[i].type = c[i].type /\ x[i].id = c[i].id
                              /\ i # 1 => x[i].no = c[i].no
    /\ Asks(m) /\ m.kind # "registered" /\ ~Notes(m) /\ m.no = Head(x).no /\ m.type = Head(c).type
    /\ m.id = Head(c).id /\ m.prompt = Head(c).prompt
LEMMA SendSends ==
    ASSUME NEW c \in Seq(DaemonCommand), c # <<>>, NEW n \in Nat,
           NEW x, x = [c EXCEPT ![1].no = n + 1],
           NEW m, m = [kind |-> "cmd", type |-> Head(c).type, id |-> Head(c).id,
                       prompt |-> Head(c).prompt, no |-> n + 1, ok |-> TRUE]
    PROVE  IsSent(c, n, x, m) /\ m \in ToLauncher
<1> DEFINE f == [c[1] EXCEPT !.no = n + 1]
<1>1. /\ Head(c) = c[1] /\ 1 \in 1 .. Len(c) /\ c[1] \in DaemonCommand /\ n + 1 # 0 /\ n + 1 \in Nat
  BY HeadAt
<1>2. f.type = c[1].type /\ f.id = c[1].id /\ f.prompt = c[1].prompt /\ f.no = n + 1
  BY <1>1 DEF DaemonCommand
<1>3. x = [c EXCEPT ![1] = f]
  OBVIOUS
<1> HIDE DEF f
<1>4. /\ Len(x) = Len(c) /\ x # <<>> /\ Head(x) = f /\ x[1] = f
      /\ \A i \in 1 .. Len(x) : i # 1 => x[i] = c[i]
  BY <1>1, <1>3
<1>5. m \in ToLauncher
  BY <1>1 DEF ToLauncher, DaemonCommand
<1>6. /\ Asks(m) /\ m.kind # "registered" /\ ~Notes(m) /\ m.no = n + 1 /\ m.type = c[1].type
      /\ m.id = c[1].id /\ m.prompt = c[1].prompt
  BY <1>1 DEF Asks, Notes
<1> QED
  BY <1>1, <1>2, <1>4, <1>5, <1>6 DEF IsSent

LEMMA SentKeeps ==
    ASSUME TypeOK, PauseOK, cmds # <<>>, ~Flying(cmds),
           First(cmds, "pause") => PausePending(sup) /\ sup.id = Head(cmds).id,
           NEW x, NEW m \in ToLauncher, IsSent(cmds, sends, x, m), NEW out, out = Append(d2c, m)
    PROVE  /\ PauseInv(sup, x, issued, c2d, out)
           /\ StopOK => StopInv(sup, x, c2d, esc = "cut")
<1>1. d2c \in Seq(ToLauncher) /\ cmds \in Seq(DaemonCommand)
  BY DEF TypeOK, LinkTypeOK, DaemonTypeOK
<1>2. /\ \A i \in 1 .. Len(out) : \/ i \in 1 .. Len(d2c) /\ out[i] = d2c[i] /\ i # Len(out)
                                  \/ i = Len(out) /\ out[i] = m
      /\ \A i \in 1 .. Len(d2c) : i \in 1 .. Len(out) /\ out[i] = d2c[i] /\ i < Len(out)
  BY <1>1, AppendAt
<1>3. /\ w.pc = "idle"
      /\ \A i \in 1 .. Len(d2c) : ~Asks(d2c[i])
      /\ \A i \in 1 .. Len(c2d) : ~Acks(c2d[i])
  BY NothingFlies DEF PauseOK
<1>4. /\ First(x, "pause") <=> First(cmds, "pause")
      /\ First(x, "resume") <=> First(cmds, "resume")
      /\ Prompted(x) <=> Prompted(cmds)
      /\ Flying(x)
  BY DEF IsSent, First, Prompted, Flying
<1>5. First(cmds, "pause") \/ First(cmds, "resume")
  <2>1. Head(cmds) \in DaemonCommand
    BY <1>1, HeadAt
  <2> QED
    BY <2>1 DEF First, DaemonCommand
<1>6. CommandsInv(sup, x, issued)
  BY <1>4 DEF PauseOK, PauseInv, CommandsInv, IsSent
<1>7. RecordInv(sup, x, issued)
  BY <1>4, <1>5 DEF PauseOK, PauseInv, RecordInv, CommandsInv, PausePending
<1>8. SentInv(x, issued, c2d, out)
  <2>1. m.type = "pause" => m.id \notin ran
    BY DEF IsSent, PauseOK, PauseInv, RecordInv, First, PausePending
  <2> QED
    BY <1>2, <1>3, <1>4, <2>1 DEF SentInv, IsSent
<1>9. WorkInv(sup, x, issued, c2d) /\ AckInv(x, issued, c2d)
  BY <1>3 DEF WorkInv, AckInv
<1>10. ReportInv(sup, x, issued, c2d, out)
  <2>1. \A i \in 1 .. Len(out) : Notes(out[i]) => i \in 1 .. Len(d2c) /\ out[i] = d2c[i]
    BY <1>2 DEF IsSent
  <2> QED
    BY <1>2, <1>4, <2>1 DEF PauseOK, PauseInv, ReportInv
<1>11. KnowsInv(sup, x, issued) /\ DraftInv(sup, x, c2d)
  BY <1>4 DEF PauseOK, PauseInv, KnowsInv, DraftInv
<1>12. StopOK => StopInv(sup, x, c2d, esc = "cut")
  BY <1>4 DEF StopOK, StopInv
<1> QED
  BY <1>6, <1>7, <1>8, <1>9, <1>10, <1>11, <1>12 DEF PauseInv

LEMMA StartCmdReliable ==
    ASSUME TypeOK, LinkInv, PauseOK, StartCmd
    PROVE  LinkInv' /\ PauseOK' /\ (StopOK => StopOK')
<1> DEFINE c == Head(cmds)
           unwanted == c.type = "pause" /\ ~(PausePending(sup) /\ sup.id = c.id)
           x == [cmds EXCEPT ![1].no = sends + 1]
           m == [kind |-> "cmd", type |-> c.type, id |-> c.id, prompt |-> c.prompt,
                 no |-> sends + 1, ok |-> TRUE]
<1>1. /\ cmds # <<>> /\ ~Flying(cmds) /\ served
      /\ UNCHANGED <<up, provisional, queue, h, w, ran, touched, served, link, c2d, conn>>
  BY DEF StartCmd, InFlight, Flying, LinkInv
<1>2. cmds \in Seq(DaemonCommand) /\ sup \in Supervision /\ sends \in Nat
  BY DEF TypeOK, DaemonTypeOK
<1>3. CASE unwanted
  <2>1. Become(Evaluated(Held, sup, Tail(cmds))) /\ UNCHANGED <<d2c, esc>>
    BY <1>3, Zenon DEF StartCmd
  <2>2. First(cmds, "pause") /\ ~(PausePending(sup) /\ sup.id = Head(cmds).id)
    BY <1>1, <1>3 DEF First
  <2>3. /\ PauseInv(sup, Tail(cmds), issued, c2d, d2c)
        /\ StopOK => StopInv(sup, Tail(cmds), c2d, esc = "cut")
    BY <1>1, <2>2, UnwantedKeeps
  <2>4. /\ PauseOK' /\ (StopInv(sup, Tail(cmds), c2d, esc' = "cut") => StopOK')
        /\ sup.state = "none" <=> sup'.state = "none"
    BY <1>1, <1>2, <2>1, <2>3, BecomesKeeps
  <2>5. ~(sup.state = "paused" /\ link # "up")
    BY <2>2, RegisteringPause DEF PauseOK, PausePending
  <2>6. LinkInv'
    BY <1>1, <2>1, <2>4, <2>5, LinkKept
  <2>7. StopOK => StopOK'
    BY <2>1, <2>3, <2>4
  <2> QED
    BY <2>4, <2>6, <2>7
<1>4. CASE ~unwanted
  <2>1. cmds' = x /\ d2c' = Append(d2c, m) /\ UNCHANGED <<sup, issued, everOver, esc>>
    BY <1>1, <1>4, Zenon DEF StartCmd
  <2>2. IsSent(cmds, sends, x, m) /\ m \in ToLauncher
    BY <1>1, <1>2, SendSends
  <2> HIDE DEF x, m
  <2>3. First(cmds, "pause") => PausePending(sup) /\ sup.id = Head(cmds).id
    BY <1>4 DEF First
  <2>4. /\ PauseInv(sup, x, issued, c2d, Append(d2c, m))
        /\ StopOK => StopInv(sup, x, c2d, esc = "cut")
    BY <1>1, <2>2, <2>3, SentKeeps
  <2>5. PauseOK'
    BY <1>1, <2>1, <2>4, EngineKeeps
  <2>6. StopOK => StopOK'
    BY <1>1, <2>1, <2>4, EngineStops
  <2>7. m.kind # "registered"
    BY <2>2 DEF IsSent
  <2>8. LinkInv'
    BY <1>1, <2>1, <2>2, <2>7, LinkKept
  <2> QED
    BY <2>5, <2>6, <2>8
<1> QED
  BY <1>3, <1>4

-----------------------------------------------------------------------------
(* The daemon reads a message. *)

\* The record `s` after the ack `m` of the first command.
AckedAs(m, s) ==
    /\ s \in Supervision
    /\ s.state = sup.state /\ s.id = sup.id
    /\ First(cmds, "pause") /\ sup.state = "paused" =>
          ~s.pend /\ s.busy = IF m.busy = "none" THEN sup.busy ELSE m.busy
LEMMA AckSays ==
    ASSUME TypeOK, PauseOK, NEW m \in ToDaemon, m.result # "none", InFlight,
           CommandEnds(m.result, m.busy)
    PROVE  \E s : /\ AckedAs(m, s) /\ Become(Evaluated(Held, s, Tail(cmds)))
                  /\ esc' = IF Prompted(cmds) /\ m.result # "injected" /\ esc = "cut"
                            THEN "sent" ELSE esc
<1> DEFINE c == Head(cmds)
           a == sup.pend /\ m.result \notin {"injected", "skipped"}
           b == IF m.busy = "none" THEN sup.busy ELSE m.busy
           s == IF c.type = "pause" /\ sup.state = "paused" /\ sup.id = c.id
                THEN [sup EXCEPT !.pend = a, !.busy = b] ELSE sup
<1>1. sup \in Supervision /\ cmds # <<>>
  BY DEF TypeOK, DaemonTypeOK, InFlight
<1>2. m.result \in {"injected", "skipped"} /\ m.busy \in WasBusy
  BY DEF ToDaemon, Results
<1>3. a = FALSE /\ a \in BOOLEAN /\ b \in WasBusy
  BY <1>1, <1>2 DEF Supervision
<1>4. \A p \in BOOLEAN, q \in WasBusy :
         LET r == [sup EXCEPT !.pend = p, !.busy = q]
         IN  r \in Supervision /\ r.state = sup.state /\ r.id = sup.id /\ r.pend = p /\ r.busy = q
  BY <1>1 DEF Supervision
<1>5. First(cmds, "pause") => c.type = "pause" /\ sup.id = c.id
  <2>1. cmds \in Seq(DaemonCommand)
    BY DEF TypeOK, DaemonTypeOK
  <2>2. 1 \in 1 .. Len(cmds) /\ cmds[1] = c
    BY <1>1, <2>1, HeadAt
  <2> QED
    BY <2>2 DEF PauseOK, PauseInv, CommandsInv, First
<1>6. Become(Evaluated(Held, s, Tail(cmds)))
  BY Zenon DEF CommandEnds
<1>7. esc' = IF Prompted(cmds) /\ m.result # "injected" /\ esc = "cut" THEN "sent" ELSE esc
  BY <1>1 DEF CommandEnds, Prompted, First
<1>8. /\ s \in Supervision /\ s.state = sup.state /\ s.id = sup.id
      /\ c.type = "pause" /\ sup.state = "paused" /\ sup.id = c.id => s.pend = a /\ s.busy = b
  <2>1. CASE c.type = "pause" /\ sup.state = "paused" /\ sup.id = c.id
    <3>1. s = [sup EXCEPT !.pend = a, !.busy = b]
      BY <2>1
    <3> HIDE DEF s, a, b
    <3>2. s \in Supervision /\ s.state = sup.state /\ s.id = sup.id /\ s.pend = a /\ s.busy = b
      BY <1>3, <1>4, <3>1
    <3> QED
      BY <3>2
  <2>2. CASE ~(c.type = "pause" /\ sup.state = "paused" /\ sup.id = c.id)
    BY <1>1, <2>2
  <2> QED
    BY <2>1, <2>2
<1>9. AckedAs(m, s)
  BY <1>3, <1>5, <1>8 DEF AckedAs
<1> QED
  BY <1>6, <1>7, <1>9

LEMMA AckKeeps ==
    ASSUME TypeOK, PauseOK, c2d # <<>>, NEW m, m = Head(c2d), Acks(m),
           NEW s, AckedAs(m, s), NEW t, t = Tail(cmds), NEW r, r = Tail(c2d), NEW cut,
           cut => esc = "cut" /\ ~(Prompted(cmds) /\ m.result # "injected")
    PROVE  /\ PauseInv(s, t, issued, r, d2c)
           /\ StopOK => StopInv(s, t, r, cut)
<1>1. /\ c2d \in Seq(ToDaemon) /\ cmds \in Seq(DaemonCommand)
      /\ CommandsInv(sup, cmds, issued)
  BY DEF TypeOK, LinkTypeOK, DaemonTypeOK, PauseOK, PauseInv
<1>2. /\ c2d[1] = m /\ 1 \in 1 .. Len(c2d)
      /\ \A i \in 1 .. Len(r) : i + 1 \in 1 .. Len(c2d) /\ r[i] = c2d[i + 1] /\ i + 1 # 1
      /\ \A i \in 1 .. Len(c2d) : i # 1 => i - 1 \in 1 .. Len(r) /\ r[i - 1] = c2d[i]
  BY <1>1, TailAt
<1>3. /\ Flying(cmds) /\ m.no = Head(cmds).no /\ m.result # "none"
      /\ \A j \in 1 .. Len(c2d) : Acks(c2d[j]) => j = 1
      /\ First(cmds, "pause") => Begun(issued)
      /\ ~First(cmds, "pause") => ~h.paused /\ \A j \in 1 .. Len(c2d) : ~Submits(c2d[j])
  <2>1. /\ Flying(cmds) /\ m.no = Head(cmds).no /\ m.result # "none"
        /\ \A j \in 1 .. Len(c2d) : Acks(c2d[j]) => j = 1
        /\ IF First(cmds, "pause") THEN Begun(issued)
           ELSE ~h.paused /\ \A j \in 1 .. Len(c2d) : Submits(c2d[j]) => j < 1
    BY <1>2 DEF PauseOK, PauseInv, AckInv
  <2>2. \A j \in 1 .. Len(c2d) : ~(j < 1)
    OBVIOUS
  <2> QED
    BY <2>1, <2>2
<1>4. cmds # <<>> /\ (First(cmds, "pause") \/ First(cmds, "resume")) /\ ~(First(cmds, "pause") /\ First(cmds, "resume"))
  <2>1. cmds # <<>>
    BY <1>3 DEF Flying
  <2>2. Head(cmds) \in DaemonCommand
    BY <1>1, <2>1, HeadAt
  <2> QED
    BY <2>1, <2>2 DEF First, DaemonCommand
<1>5. Leaves(cmds, issued, t)
  BY <1>1, <1>4, FirstDropped
<1>6. /\ w.pc = "idle"
      /\ \A i \in 1 .. Len(d2c) : ~Asks(d2c[i])
      /\ \A i \in 1 .. Len(r) : ~Acks(r[i])
  BY <1>2, <1>3 DEF PauseOK, PauseInv, SentInv, WorkInv
<1>7. CommandsInv(s, t, issued)
  <2>1. CASE t = <<>>
    BY <1>5, <2>1 DEF CommandsInv, First, Leaves
  <2>2. CASE t # <<>>
    BY <1>1, <1>5, <2>2 DEF CommandsInv, Leaves, AckedAs
  <2> QED
    BY <2>1, <2>2
<1>8. RecordInv(s, t, issued)
  <2>1. s.state = "paused" => First(cmds, "pause")
    BY <1>1, <1>4 DEF CommandsInv, AckedAs
  <2> QED
    BY <1>3, <1>5, <2>1 DEF PauseOK, PauseInv, RecordInv, AckedAs, Leaves, Begun
<1>9. SentInv(t, issued, r, d2c) /\ WorkInv(s, t, issued, r) /\ AckInv(t, issued, r)
  BY <1>6 DEF SentInv, WorkInv, AckInv
<1>10. ReportInv(s, t, issued, r, d2c)
  <2>1. ~Submits(m)
    BY DEF Acks, Submits
  <2>2. h.sending => \/ \E i \in 1 .. Len(r) : Submits(r[i])
                     \/ \E i \in 1 .. Len(d2c) : Notes(d2c[i])
    BY <1>2, <2>1 DEF PauseOK, PauseInv, ReportInv
  <2>3. \A i \in 1 .. Len(r) : Submits(r[i]) => s.state = "paused" /\ h.paused
    BY <1>2, <1>3, <1>4 DEF PauseOK, PauseInv, ReportInv, AckedAs
  <2>4. \A i, j \in 1 .. Len(r) : Submits(r[i]) /\ Submits(r[j]) => i = j
    <3>1. \A i, j \in 1 .. Len(r) : Submits(r[i]) /\ Submits(r[j]) => i + 1 = j + 1
      BY <1>2 DEF PauseOK, PauseInv, ReportInv
    <3> QED
      BY <3>1
  <2> QED
    BY <1>2, <2>2, <2>3, <2>4 DEF PauseOK, PauseInv, ReportInv
<1>11. KnowsInv(s, t, issued)
  BY <1>3, <1>4 DEF PauseOK, PauseInv, KnowsInv, AckedAs
<1>12. m.busy = "yes" => AckBusy(c2d)
  BY <1>2 DEF AckBusy
<1>13. DraftInv(s, t, r)
  <2>1. ~PastEsc /\ ~AckBusy(r) /\ ~Prompted(t)
    BY <1>5, <1>6 DEF PastEsc, AckBusy, PauseSteps, Leaves
  <2>2. s.state = "paused" /\ s.busy = "yes" => Interrupted(sup, c2d)
    BY <1>1, <1>4, <1>12 DEF AckedAs, Interrupted, CommandsInv
  <2> QED
    BY <2>1, <2>2 DEF PauseOK, PauseInv, DraftInv, Interrupted
<1>14. ASSUME StopOK
       PROVE  StopInv(s, t, r, cut)
  <2>1. cut => esc = "cut" /\ ~Prompted(cmds)
    <3>1. esc = "cut" /\ m.result = "injected" => ~First(cmds, "resume")
      BY <1>2, <1>14 DEF StopOK, StopInv
    <3> QED
      BY <3>1 DEF Prompted
  <2>2. cut => Interrupted(sup, c2d) /\ sup.state = "paused" /\ ~h.submitted
    BY <1>14, <2>1 DEF StopOK, StopInv
  <2>3. sup.state = "paused" => First(cmds, "pause") /\ (sup.busy = "yes" => FALSE)
    BY <1>1, <1>3, <1>4 DEF CommandsInv, PauseOK, PauseInv, RecordInv
  <2>4. Interrupted(sup, c2d) /\ sup.state = "paused" => m.busy = "yes"
    BY <1>2, <1>3, <1>6, <2>3 DEF Interrupted, PastEsc, AckBusy, PauseSteps
  <2>5. cut => Interrupted(s, r) /\ s.state = "paused" /\ ~h.submitted
    BY <2>2, <2>3, <2>4 DEF AckedAs, Interrupted
  <2> QED
    BY <1>6, <2>5 DEF StopInv, PauseSteps
<1> QED
  BY <1>7, <1>8, <1>9, <1>10, <1>11, <1>13, <1>14 DEF PauseInv

LEMMA ReadAckReliable ==
    ASSUME TypeOK, PauseOK, c2d # <<>>, NEW m, m = Head(c2d), Acks(m), ReadAck(m),
           c2d' = Tail(c2d), UNCHANGED <<h, w, ran, touched, conn>>
    PROVE  PauseOK' /\ (StopOK => StopOK') /\ (sup.state = "none" <=> sup'.state = "none")
<1>1. c2d \in Seq(ToDaemon)
  BY DEF TypeOK, LinkTypeOK
<1>2. m \in ToDaemon /\ 1 \in 1 .. Len(c2d) /\ c2d[1] = m
  BY <1>1, HeadAt
<1>3. InFlight /\ Head(cmds).no = m.no /\ m.result # "none"
  BY <1>2 DEF PauseOK, PauseInv, AckInv, Flying, InFlight
<1>4. CommandEnds(m.result, m.busy) /\ UNCHANGED d2c
  BY <1>3 DEF ReadAck
<1>5. PICK s : /\ AckedAs(m, s) /\ Become(Evaluated(Held, s, Tail(cmds)))
               /\ esc' = IF Prompted(cmds) /\ m.result # "injected" /\ esc = "cut"
                         THEN "sent" ELSE esc
  BY <1>2, <1>3, <1>4, AckSays
<1>6. /\ PauseInv(s, Tail(cmds), issued, Tail(c2d), d2c)
      /\ StopOK => StopInv(s, Tail(cmds), Tail(c2d), esc' = "cut")
  <2>1. esc' = "cut" => esc = "cut" /\ ~(Prompted(cmds) /\ m.result # "injected")
    BY <1>5
  <2> QED
    BY <1>5, <2>1, AckKeeps
<1>7. s \in Supervision /\ s.state = sup.state
  BY <1>5 DEF AckedAs
<1> QED
  BY <1>4, <1>5, <1>6, <1>7, BecomesKeeps

\* The daemon read the submit: the record is `s`, and the answer `m` is sent.
LEMMA SubmitKeeps ==
    ASSUME TypeOK, PauseOK, c2d # <<>>, Submits(Head(c2d)), NEW r, r = Tail(c2d),
           NEW m \in ToLauncher, Notes(m), m.no = Head(c2d).no, m.ok,
           NEW out, out = Append(d2c, m),
           NEW s, s.state # "paused",
           \/ s = sup
           \/ sup.state = "paused" /\ s.state = "overridden" /\ s.id = sup.id
    PROVE  /\ PauseInv(s, cmds, issued, r, out)
           /\ StopOK => StopInv(s, cmds, r, esc = "cut")
<1>1. c2d \in Seq(ToDaemon) /\ d2c \in Seq(ToLauncher)
  BY DEF TypeOK, LinkTypeOK, DaemonTypeOK, PauseOK, PauseInv
<1>2. /\ c2d[1] = Head(c2d) /\ 1 \in 1 .. Len(c2d)
      /\ \A i \in 1 .. Len(r) : i + 1 \in 1 .. Len(c2d) /\ r[i] = c2d[i + 1] /\ i + 1 # 1
      /\ \A i \in 1 .. Len(c2d) : i # 1 => i - 1 \in 1 .. Len(r) /\ r[i - 1] = c2d[i]
  BY <1>1, TailAt
<1>3. /\ \A i \in 1 .. Len(out) : \/ i \in 1 .. Len(d2c) /\ out[i] = d2c[i] /\ i # Len(out)
                                  \/ i = Len(out) /\ out[i] = m
      /\ \A i \in 1 .. Len(d2c) : i \in 1 .. Len(out) /\ out[i] = d2c[i] /\ i < Len(out)
      /\ Len(out) \in 1 .. Len(out) /\ out[Len(out)] = m
  BY <1>1, AppendAt
<1>4. /\ h.sending /\ c2d[1].no = h.report /\ h.submitted /\ h.pid = issued
      /\ (sup.state = "paused" /\ h.paused) \/ First(cmds, "resume")
      /\ \A j \in 1 .. Len(c2d) : Submits(c2d[j]) => j = 1
      /\ \A j \in 1 .. Len(d2c) : ~Notes(d2c[j])
  BY <1>2 DEF PauseOK, PauseInv, ReportInv
<1>5. ~Asks(m) /\ ~Acks(c2d[1])
  BY <1>2 DEF Asks, Notes, Acks, Submits
<1>6. First(cmds, "resume") => s = sup
  BY DEF PauseOK, PauseInv, CommandsInv
<1>7. CommandsInv(s, cmds, issued)
  BY <1>4, <1>6 DEF PauseOK, PauseInv, CommandsInv, InPause
<1>8. RecordInv(s, cmds, issued)
  BY DEF PauseOK, PauseInv, RecordInv
<1>9. SentInv(cmds, issued, r, out)
  BY <1>2, <1>3, <1>4, <1>5 DEF PauseOK, PauseInv, SentInv
<1>10. WorkInv(s, cmds, issued, r)
  BY <1>2, <1>4 DEF PauseOK, PauseInv, WorkInv
<1>11. AckInv(cmds, issued, r)
  <2> SUFFICES ASSUME NEW i \in 1 .. Len(r), Acks(r[i])
               PROVE  /\ Flying(cmds) /\ r[i].no = Head(cmds).no /\ r[i].result # "none"
                      /\ \A j \in 1 .. Len(r) : Acks(r[j]) => j = i
                      /\ IF First(cmds, "pause") THEN Begun(issued)
                         ELSE ~h.paused /\ \A j \in 1 .. Len(r) : Submits(r[j]) => j < i
    BY DEF AckInv
  <2>1. /\ Flying(cmds) /\ r[i].no = Head(cmds).no /\ r[i].result # "none"
        /\ \A j \in 1 .. Len(c2d) : Acks(c2d[j]) => j = i + 1
        /\ IF First(cmds, "pause") THEN Begun(issued) ELSE ~h.paused
    BY <1>2 DEF PauseOK, PauseInv, AckInv
  <2>2. \A j \in 1 .. Len(r) : ~Submits(r[j])
    BY <1>2, <1>4
  <2>3. \A j \in 1 .. Len(r) : Acks(r[j]) => j + 1 = i + 1
    BY <1>2, <2>1
  <2> QED
    BY <2>1, <2>2, <2>3
<1>12. ReportInv(s, cmds, issued, r, out)
  <2>1. \A j \in 1 .. Len(r) : ~Submits(r[j])
    BY <1>2, <1>4
  <2>2. \A j \in 1 .. Len(out) : Notes(out[j]) => j = Len(out) /\ out[j] = m
    BY <1>3, <1>4
  <2> QED
    BY <1>2, <1>3, <1>4, <2>1, <2>2 DEF ReportInv
<1>13. KnowsInv(s, cmds, issued)
  BY <1>4 DEF KnowsInv
<1>14. AckBusy(r) => AckBusy(c2d)
  BY <1>2 DEF AckBusy
<1>15. DraftInv(s, cmds, r)
  BY <1>14 DEF PauseOK, PauseInv, DraftInv, Interrupted
<1>16. StopOK => StopInv(s, cmds, r, esc = "cut")
  <2>1. StopOK /\ esc = "cut" => Prompted(cmds)
    BY <1>4 DEF StopOK, StopInv
  <2> QED
    BY <1>2, <2>1 DEF StopOK, StopInv
<1> QED
  BY <1>7, <1>8, <1>9, <1>10, <1>11, <1>12, <1>13, <1>15, <1>16 DEF PauseInv

LEMMA ReadSubmittedReliable ==
    ASSUME TypeOK, PauseOK, sup.state # "none", c2d # <<>>, NEW m, m = Head(c2d), Submits(m),
           ReadSubmitted(m), c2d' = Tail(c2d), UNCHANGED <<h, w, ran, touched, conn>>
    PROVE  /\ PauseOK' /\ (StopOK => StopOK') /\ sup'.state # "none"
           /\ \E a \in ToLauncher : a.kind # "registered" /\ d2c' = Append(d2c, a)
<1> DEFINE a == [Reply("noted", "none", 0) EXCEPT !.no = m.no, !.ok = sup.state # "none"]
           s == [sup EXCEPT !.state = "overridden", !.pend = FALSE, !.over = @ \cup Held]
<1>1. c2d \in Seq(ToDaemon) /\ sup \in Supervision
  BY DEF TypeOK, LinkTypeOK, DaemonTypeOK
<1>2. m \in ToDaemon
  BY <1>1, HeadAt
<1>3. a \in ToLauncher /\ Notes(a) /\ a.kind # "registered" /\ a.no = m.no /\ a.ok
  <2>1. \A no \in Nat, ok \in BOOLEAN :
           LET x == [Reply("noted", "none", 0) EXCEPT !.no = no, !.ok = ok]
           IN  x \in ToLauncher /\ x.kind = "noted" /\ x.no = no /\ x.ok = ok
    BY DEF Reply, ToLauncher, SupStates
  <2>2. m.no \in Nat /\ (sup.state # "none") = TRUE
    BY <1>2 DEF ToDaemon
  <2>3. a = [Reply("noted", "none", 0) EXCEPT !.no = m.no, !.ok = TRUE]
    BY <2>2
  <2> HIDE DEF a
  <2> QED
    BY <2>1, <2>2, <2>3 DEF Notes
<1>4. d2c' = Append(d2c, a) /\ UNCHANGED esc
  BY Zenon DEF ReadSubmitted
<1> HIDE DEF a
<1>5. CASE sup.state = "paused"
  <2>1. Become(Evaluated(Held, s, cmds))
    BY <1>5, Zenon DEF ReadSubmitted
  <2>2. s \in Supervision /\ s.state = "overridden" /\ s.id = sup.id
    BY <1>1 DEF Supervision, SupStates, Held
  <2> HIDE DEF s
  <2>3. /\ PauseInv(s, cmds, issued, Tail(c2d), Append(d2c, a))
        /\ StopOK => StopInv(s, cmds, Tail(c2d), esc = "cut")
    BY <1>3, <1>5, <2>2, SubmitKeeps
  <2>4. /\ PauseOK' /\ (StopInv(s, cmds, Tail(c2d), esc' = "cut") => StopOK')
        /\ s.state = "none" <=> sup'.state = "none"
    BY <1>4, <2>1, <2>2, <2>3, BecomesKeeps
  <2> QED
    BY <1>3, <1>4, <2>2, <2>3, <2>4
<1>6. CASE sup.state # "paused"
  <2>1. UNCHANGED <<sup, cmds, issued>>
    BY <1>6 DEF ReadSubmitted
  <2>2. /\ PauseInv(sup, cmds, issued, Tail(c2d), Append(d2c, a))
        /\ StopOK => StopInv(sup, cmds, Tail(c2d), esc = "cut")
    BY <1>3, <1>6, SubmitKeeps
  <2>3. PauseOK'
    BY <1>4, <2>1, <2>2, EngineKeeps
  <2>4. StopOK => StopOK'
    BY <1>4, <2>1, <2>2, EngineStops
  <2> QED
    BY <1>3, <1>4, <2>1, <2>3, <2>4
<1> QED
  BY <1>5, <1>6

\* The record is there and the pause is appended once more; the answer is sent.
LEMMA ResentKeeps ==
    ASSUME NEW s, NEW c \in Seq(DaemonCommand), NEW n, PauseInv(s, c, n, <<>>, <<>>),
           NEW cut, StopInv(s, c, <<>>, cut), ~cut, ~Flying(c),
           NEW x, IF PausePending(s) THEN x = Append(c, Cmd("pause", s.id, FALSE)) ELSE x = c,
           s.id \in Nat, NEW m, m.kind = "registered"
    PROVE  PauseInv(s, x, n, <<>>, <<m>>) /\ StopInv(s, x, <<>>, cut)
<1>1. /\ Len(<<>>) = 0 /\ 1 .. Len(<<>>) = {} /\ Len(<<m>>) = 1 /\ <<m>>[1] = m
      /\ \A i \in 1 .. Len(<<m>>) : i = 1
  OBVIOUS
<1>2. ~Asks(m) /\ ~Notes(m)
  BY DEF Asks, Notes
<1>3. w.pc = "idle"
  BY NothingFlies
<1>4. CASE x = c
  <2>1. SentInv(x, n, <<>>, <<m>>) /\ WorkInv(s, x, n, <<>>) /\ AckInv(x, n, <<>>)
    BY <1>1, <1>2, <1>3 DEF SentInv, WorkInv, AckInv
  <2>2. ReportInv(s, x, n, <<>>, <<m>>)
    BY <1>1, <1>2, <1>4 DEF PauseInv, ReportInv
  <2> QED
    BY <1>4, <2>1, <2>2 DEF PauseInv
<1>5. CASE PausePending(s) /\ x = Append(c, Cmd("pause", s.id, FALSE))
  <2> DEFINE p == Cmd("pause", s.id, FALSE)
  <2>1. p \in DaemonCommand /\ p.type = "pause" /\ p.id = s.id /\ p.no = 0
    BY CmdType DEF Cmd
  <2> HIDE DEF p
  <2>2. s.id = n /\ First(c, "pause") /\ s.state = "paused" /\ s.pend
    BY <1>5 DEF PauseInv, RecordInv, PausePending
  <2>3. c # <<>> /\ x = Append(c, p)
    BY <1>5, <2>2 DEF First, p
  <2>4. /\ \A i \in 1 .. Len(x) : \/ i \in 1 .. Len(c) /\ x[i] = c[i]
                                  \/ i # 1 /\ x[i] = p
        /\ x # <<>> /\ Head(x) = Head(c)
    <3>1. Len(c) # 0 /\ Len(c) \in Nat /\ Len(x) = Len(c) + 1 /\ Head(x) = Head(c) /\ x # <<>>
      BY <2>3
    <3>2. \A i \in 1 .. Len(x) : \/ i \in 1 .. Len(c) /\ x[i] = c[i] /\ i # Len(x)
                                 \/ i = Len(x) /\ x[i] = p
      BY <2>1, <2>3, AppendAt
    <3> QED
      BY <3>1, <3>2
  <2>5. /\ First(x, "pause") /\ ~First(x, "resume") /\ ~Flying(x) /\ ~Prompted(x)
        /\ ~First(c, "resume") /\ ~Prompted(c)
    BY <2>2, <2>4 DEF First, Flying, Prompted
  <2>6. CommandsInv(s, x, n)
    BY <2>1, <2>2, <2>4, <2>5 DEF PauseInv, CommandsInv
  <2>7. RecordInv(s, x, n)
    BY <2>5 DEF PauseInv, RecordInv
  <2>8. SentInv(x, n, <<>>, <<m>>) /\ WorkInv(s, x, n, <<>>) /\ AckInv(x, n, <<>>)
    BY <1>1, <1>2, <1>3 DEF SentInv, WorkInv, AckInv
  <2>9. ReportInv(s, x, n, <<>>, <<m>>)
    BY <1>1, <1>2 DEF PauseInv, ReportInv
  <2>10. KnowsInv(s, x, n) /\ DraftInv(s, x, <<>>)
    BY <2>5 DEF PauseInv, KnowsInv, DraftInv
  <2>11. StopInv(s, x, <<>>, cut)
    BY <2>5 DEF StopInv
  <2> QED
    BY <2>6, <2>7, <2>8, <2>9, <2>10, <2>11 DEF PauseInv
<1> QED
  BY <1>4, <1>5

\* A launcher that registers has no pause, and there is no record of its session.
LEMMA BeforeRegister ==
    ASSUME TypeOK, LinkInv, PauseOK, NEW s, s.state \in {"running", "overridden"}, link # "up"
    PROVE  PauseInv(s, <<>>, issued, <<>>, <<>>) /\ StopInv(s, <<>>, <<>>, esc = "cut")
<1>1. Len(<<>>) = 0 /\ 1 .. Len(<<>>) = {}
  OBVIOUS
<1>2. ~h.paused /\ ~h.sending /\ w.pc = "idle"
  BY DEF LinkInv
<1>3. CommandsInv(s, <<>>, issued) /\ RecordInv(s, <<>>, issued)
  BY <1>1 DEF CommandsInv, RecordInv, First, PauseOK, PauseInv
<1>4. SentInv(<<>>, issued, <<>>, <<>>) /\ WorkInv(s, <<>>, issued, <<>>) /\ AckInv(<<>>, issued, <<>>)
  BY <1>1, <1>2 DEF SentInv, WorkInv, AckInv
<1>5. ReportInv(s, <<>>, issued, <<>>, <<>>) /\ KnowsInv(s, <<>>, issued)
  BY <1>1, <1>2 DEF ReportInv, KnowsInv
<1>6. DraftInv(s, <<>>, <<>>)
  BY <1>1, <1>2 DEF DraftInv, Interrupted, PastEsc, AckBusy, Prompted, First, PauseSteps
<1>7. StopInv(s, <<>>, <<>>, esc = "cut")
  BY <1>1, <1>2 DEF StopInv, PauseSteps, LinkInv
<1> QED
  BY <1>3, <1>4, <1>5, <1>6, <1>7 DEF PauseInv

LEMMA ReadRegisterReliable ==
    ASSUME TypeOK, LinkInv, PauseOK, c2d # <<>>, NEW m, m = Head(c2d), m.kind = "register",
           ReadRegister(m), c2d' = Tail(c2d),
           UNCHANGED <<up, h, w, ran, touched, conn, queue, link>>
    PROVE  LinkInv' /\ PauseOK' /\ StopOK'
<1> DEFINE new == IF m.first
                  THEN [NoSup EXCEPT !.state = IF Held = {} THEN "running" ELSE "overridden",
                                     !.over = Held]
                  ELSE [NoSup EXCEPT !.state = "running"]
           d == Evaluated(Held, new, <<>>)
           resent == [d EXCEPT !.cmds = Append(@, Cmd("pause", d.sup.id, FALSE))]
           a == Reply("registered", d.sup.state, d.sup.id)
<1>1. c2d \in Seq(ToDaemon) /\ issued \in Nat /\ (link = "down" => c2d = <<>>)
      /\ link \in {"down", "open", "up"}
  BY DEF TypeOK, LinkTypeOK, DaemonTypeOK
<1>2. 1 \in 1 .. Len(c2d) /\ c2d[1] = m
  BY <1>1, HeadAt
<1>3. link = "open" /\ ~served /\ sup.state = "none" /\ cmds = <<>> /\ d2c = <<>>
  BY <1>1, <1>2 DEF LinkInv
<1>4. c2d' = <<>>
  <2>1. \A i \in 1 .. Len(c2d) : i = 1
    BY <1>3 DEF LinkInv
  <2> QED
    BY <1>1, <1>2, <2>1
<1>5. new \in Supervision /\ new.state \in {"running", "overridden"}
  <2>1. \A state \in {"running", "overridden"}, over \in SUBSET Instance :
           LET n == [NoSup EXCEPT !.state = state, !.over = over]
           IN  n \in Supervision /\ n.state = state
    BY NoSupType DEF Supervision, SupStates
  <2>2. LET n == [NoSup EXCEPT !.state = "running"] IN n \in Supervision /\ n.state = "running"
    BY NoSupType DEF NoSup, Supervision, SupStates
  <2>3. Held \in SUBSET Instance
    BY DEF Held
  <2>4. (IF Held = {} THEN "running" ELSE "overridden") \in {"running", "overridden"}
    OBVIOUS
  <2> QED
    BY <2>1, <2>2, <2>3, <2>4
<1>6. /\ Become(IF PausePending(d.sup) THEN resent ELSE d)
      /\ d2c' = Append(d2c, a) /\ served' = TRUE /\ provisional' = FALSE /\ esc' = esc
  BY <1>3, Zenon DEF ReadRegister
<1>7. EvaluatedAs(new, <<>>, d) /\ d \in Decision
  <2> HIDE DEF new
  <2>1. PICK e : e = d
    OBVIOUS
  <2>2. EvaluatedAs(new, <<>>, e)
    BY <1>1, <1>5, <2>1, Evaluates
  <2>3. <<>> \in Seq(DaemonCommand)
    OBVIOUS
  <2> QED
    BY <1>1, <1>5, <2>1, <2>2, <2>3, EvaluatedType
<1> HIDE DEF new, d
<1>8. PauseInv(new, <<>>, issued, <<>>, <<>>) /\ StopInv(new, <<>>, <<>>, esc = "cut")
  BY <1>3, <1>5, BeforeRegister
<1>9. PauseInv(d.sup, d.cmds, d.issued, <<>>, <<>>) /\ StopInv(d.sup, d.cmds, <<>>, esc = "cut")
  BY <1>7, <1>8, EvaluationKeeps, EvaluationStops
<1>10. ~Flying(d.cmds)
  <2>1. \/ d.cmds = <<>>
        \/ d.cmds = <<Cmd("resume", 0, new.busy = "yes")>>
        \/ d.cmds = <<Cmd("pause", issued + 1, FALSE)>>
    BY <1>7 DEF EvaluatedAs
  <2>2. d.cmds # <<>> => Head(d.cmds).no = 0
    BY <2>1 DEF Cmd
  <2> QED
    BY <2>2 DEF Flying
<1>11. /\ sup' = d.sup /\ issued' = d.issued
       /\ IF PausePending(d.sup) THEN cmds' = Append(d.cmds, Cmd("pause", d.sup.id, FALSE))
          ELSE cmds' = d.cmds
  BY <1>6, <1>7 DEF Become, Decision
<1>12. a.kind = "registered" /\ a.type = d.sup.state /\ a.id = d.sup.id /\ d2c' = <<a>>
  BY <1>3, <1>6 DEF Reply
<1> HIDE DEF a
<1>13. PauseInv(d.sup, cmds', d.issued, <<>>, <<a>>) /\ StopInv(d.sup, cmds', <<>>, esc = "cut")
  <2>1. d.sup.id \in Nat /\ d.cmds \in Seq(DaemonCommand)
    BY <1>7 DEF Decision, Supervision
  <2>2. esc # "cut"
    BY <1>3 DEF LinkInv
  <2> QED
    BY <1>9, <1>10, <1>11, <1>12, <2>1, <2>2, ResentKeeps
<1>14. PauseOK'
  BY <1>4, <1>11, <1>12, <1>13, EngineKeeps
<1>15. StopOK'
  <2>1. (esc' = "cut") = (esc = "cut")
    BY <1>6
  <2> QED
    BY <1>4, <1>11, <1>13, <2>1, EngineStops
<1>16. LinkInv'
  <2>1. sup'.state # "none"
    BY <1>5, <1>7, <1>11 DEF EvaluatedAs
  <2>2. d2c' # <<>> /\ d2c'[1] = a /\ \A i \in 1 .. Len(d2c') : i = 1
    BY <1>12
  <2> QED
    BY <1>3, <1>4, <1>6, <1>11, <1>12, <2>1, <2>2 DEF LinkInv
<1> QED
  BY <1>14, <1>15, <1>16

LEMMA DaemonReadsReliable ==
    ASSUME TypeOK, LinkInv, PauseOK, DaemonReads
    PROVE  LinkInv' /\ PauseOK' /\ (StopOK => StopOK')
<1> DEFINE m == Head(c2d)
<1>1. c2d # <<>> /\ c2d' = Tail(c2d)
      /\ UNCHANGED <<up, link, conn, h, w, ran, touched, queue>>
  BY DEF DaemonReads
<1>2. c2d \in Seq(ToDaemon) /\ (link = "down" => c2d = <<>>)
  BY DEF TypeOK, LinkTypeOK
<1>3. m \in ToDaemon /\ 1 \in 1 .. Len(c2d) /\ c2d[1] = m
  BY <1>1, <1>2, HeadAt
<1>4. CASE m.kind = "register"
  <2>1. ReadRegister(m)
    BY <1>4, Zenon DEF DaemonReads
  <2> QED
    BY <1>1, <1>4, <2>1, ReadRegisterReliable
<1>5. m.kind # "register" => link = "up" /\ served /\ sup.state # "none"
  BY <1>1, <1>3 DEF LinkInv
<1>6. ASSUME UNCHANGED <<served, provisional>>, m.kind # "register", sup'.state # "none",
             \/ d2c' = d2c
             \/ \E x \in ToLauncher : x.kind # "registered" /\ d2c' = Append(d2c, x)
      PROVE  LinkInv'
  <2>1. \A i \in 1 .. Len(c2d') : c2d'[i] = c2d[i + 1] /\ i + 1 \in 1 .. Len(c2d)
    BY <1>1, <1>2, TailAt
  <2>2. \A i \in 1 .. Len(c2d') : c2d'[i].kind # "register"
    BY <1>5, <1>6, <2>1 DEF LinkInv
  <2>3. \A i \in 1 .. Len(d2c) : d2c[i].kind # "registered"
    BY <1>5, <1>6 DEF LinkInv
  <2>4. d2c \in Seq(ToLauncher)
    BY DEF TypeOK, LinkTypeOK
  <2>5. \A i \in 1 .. Len(d2c') : d2c'[i].kind # "registered"
    <3>1. CASE d2c' = d2c
      BY <2>3, <3>1
    <3>2. ASSUME NEW x \in ToLauncher, x.kind # "registered", d2c' = Append(d2c, x)
          PROVE  \A i \in 1 .. Len(d2c') : d2c'[i].kind # "registered"
      <4>1. \A i \in 1 .. Len(d2c') : (i \in 1 .. Len(d2c) /\ d2c'[i] = d2c[i]) \/ d2c'[i] = x
        BY <2>4, <3>2, AppendAt
      <4> QED
        BY <2>3, <3>2, <4>1
    <3> QED
      BY <1>6, <3>1, <3>2
  <2> QED
    BY <1>1, <1>5, <1>6, <2>2, <2>5 DEF LinkInv, DaemonReads
<1>7. CASE m.kind = "submitted"
  <2>1. ReadSubmitted(m) /\ Submits(m)
    BY <1>7, Zenon DEF DaemonReads, Submits
  <2>2. UNCHANGED <<served, provisional>>
    BY <2>1 DEF ReadSubmitted
  <2>3. /\ PauseOK' /\ (StopOK => StopOK') /\ sup'.state # "none"
        /\ \E x \in ToLauncher : x.kind # "registered" /\ d2c' = Append(d2c, x)
    BY <1>1, <1>5, <1>7, <2>1, ReadSubmittedReliable
  <2> QED
    BY <1>6, <1>7, <2>2, <2>3
<1>8. CASE m.kind = "ack"
  <2>1. ReadAck(m) /\ Acks(m)
    BY <1>8, Zenon DEF DaemonReads, Acks
  <2>2. UNCHANGED <<d2c, served, provisional>>
    BY <2>1 DEF ReadAck
  <2>3. PauseOK' /\ (StopOK => StopOK') /\ (sup.state = "none" <=> sup'.state = "none")
    BY <1>1, <2>1, ReadAckReliable
  <2> QED
    BY <1>5, <1>6, <1>8, <2>2, <2>3
<1> QED
  BY <1>3, <1>4, <1>7, <1>8 DEF ToDaemon

LEMMA ConnectReliable ==
    ASSUME TypeOK, LinkInv, PauseOK, Connect
    PROVE  LinkInv' /\ PauseOK' /\ (StopOK => StopOK')
<1> DEFINE m == [Message("register", 0) EXCEPT !.first = first]
<1>1. /\ link = "down" /\ link' = "open" /\ c2d' = <<m>> /\ UNCHANGED <<served, d2c>>
      /\ UNCHANGED <<sup, cmds, issued, up, provisional, h, w, ran, touched, esc, queue>>
  BY Zenon DEF Connect, daemonVars, launcherVars, handlerVars
<1>2. ~served /\ c2d = <<>> /\ d2c = <<>> /\ w.pc = "idle" /\ ~h.sending
  BY <1>1 DEF TypeOK, LinkTypeOK, LinkInv
<1>3. m.kind = "register"
  BY DEF Message
<1> HIDE DEF m
<1>4. \A i \in 1 .. Len(c2d') : i = 1 /\ c2d'[i].kind = "register"
  BY <1>1, <1>3
<1>5. LinkInv'
  BY <1>1, <1>2, <1>4 DEF LinkInv
<1>6. \A i \in 1 .. Len(c2d') : ~Acks(c2d'[i]) /\ ~Submits(c2d'[i])
  BY <1>4 DEF Acks, Submits
<1>7. /\ w'.pc = "idle"
      /\ \A i \in 1 .. Len(d2c') : ~Asks(d2c'[i]) /\ ~Notes(d2c'[i])
  BY <1>1, <1>2
<1>8. CommandsInv(sup, cmds, issued)' /\ RecordInv(sup, cmds, issued)' /\ KnowsInv(sup, cmds, issued)'
  BY <1>1 DEF PauseOK, PauseInv, CommandsInv, RecordInv, KnowsInv, First, Flying, InPause
<1>9. SentInv(cmds, issued, c2d, d2c)' /\ WorkInv(sup, cmds, issued, c2d)' /\ AckInv(cmds, issued, c2d)'
  BY <1>6, <1>7 DEF SentInv, WorkInv, AckInv
<1>10. ReportInv(sup, cmds, issued, c2d, d2c)'
  BY <1>1, <1>2, <1>6, <1>7 DEF ReportInv
<1>11. ~AckBusy(c2d)' /\ ~PastEsc'
  BY <1>6, <1>7 DEF AckBusy, PastEsc, PauseSteps
<1>12. DraftInv(sup, cmds, c2d)'
  BY <1>1, <1>11 DEF PauseOK, PauseInv, DraftInv, Interrupted, Prompted, First
<1>13. StopOK'
  BY <1>1, <1>6, <1>7 DEF StopOK, StopInv, LinkInv, PauseSteps
<1> QED
  BY <1>5, <1>8, <1>9, <1>10, <1>12, <1>13 DEF PauseOK, PauseInv

-----------------------------------------------------------------------------
(* The launcher reads a message. *)

\* The handler's fields that the invariant speaks of, apart from whether it is in a pause.
SameReport(f, g) ==
    /\ f.submitted = g.submitted /\ f.reported = g.reported /\ f.report = g.report
    /\ f.sending = g.sending /\ f.stale = g.stale /\ f.typed = g.typed /\ f.done = g.done
SameMemory(f, g) == SameReport(f, g) /\ f.paused = g.paused /\ f.pid = g.pid

BeginsPause(c) ==
    /\ w'.pc = "look" /\ w'.id = c.id /\ w'.no = c.no /\ w'.conn = c.conn
    /\ ran' = ran \cup {c.id} /\ UNCHANGED <<esc, touched>>
    /\ h'.paused /\ h'.pid = c.id /\ h'.done = h.done
    /\ IF IsCurrent(h, c.id) THEN SameReport(h', h)
       ELSE /\ ~h'.submitted /\ ~h'.reported /\ ~h'.typed
            /\ h'.report = h.report /\ h'.sending = h.sending /\ h'.stale = h.sending
BeginsResume(c) ==
    /\ w'.no = c.no /\ w'.conn = c.conn /\ w'.busy = "none"
    /\ \/ c.prompt /\ w'.pc = "waitidle"
       \/ w'.pc = "ack" /\ w'.result = "skipped"
    /\ ~h'.paused /\ h'.pid = h.pid /\ SameReport(h', h)
    /\ UNCHANGED <<ran, esc, touched>>

LEMMA TakeBegins ==
    ASSUME HandlerTypeOK, NEW c \in Command, Take(c), c.type = "pause" => h.done.id # c.id
    PROVE  IF c.type = "pause" THEN BeginsPause(c) ELSE BeginsResume(c)
<1> DEFINE work == [NoWork EXCEPT !.id = c.id, !.no = c.no, !.conn = c.conn]
           asked == [NoWork EXCEPT !.no = c.no, !.conn = c.conn, !.prompt = c.prompt]
<1>1. h \in Memory /\ c.id \in Nat
  BY DEF HandlerTypeOK, Command
<1>2. /\ work \in Work /\ work.id = c.id /\ work.no = c.no /\ work.conn = c.conn
      /\ asked \in Work /\ asked.no = c.no /\ asked.conn = c.conn /\ asked.busy = "none"
  BY NoWorkType DEF Work, Command, NoWork
<1>3. UNCHANGED <<esc, touched>>
  BY DEF Take
<1>4. \A f \in Memory : LET g == [f EXCEPT !.paused = TRUE]
                        IN  g.paused /\ SameReport(g, f) /\ g.pid = f.pid
  BY DEF Memory, SameReport
<1>5. CASE c.type = "pause"
  <2>1. /\ w' = [work EXCEPT !.pc = "look"]
        /\ h' = [(IF IsCurrent(h, c.id) THEN h ELSE NewPause(h, c.id)) EXCEPT !.paused = TRUE]
        /\ ran' = ran \cup {c.id}
    BY <1>5, Zenon DEF Take, TakePause
  <2> HIDE DEF work
  <2>2. w'.pc = "look" /\ w'.id = c.id /\ w'.no = c.no /\ w'.conn = c.conn
    BY <1>2, <2>1 DEF Work
  <2>3. CASE IsCurrent(h, c.id)
    <3>1. h' = [h EXCEPT !.paused = TRUE]
      BY <2>1, <2>3
    <3>2. h'.paused /\ SameReport(h', h) /\ h'.pid = c.id
      BY <1>1, <1>4, <2>3, <3>1 DEF IsCurrent
    <3> QED
      BY <1>3, <1>5, <2>1, <2>2, <2>3, <3>2 DEF BeginsPause, SameReport
  <2>4. CASE ~IsCurrent(h, c.id)
    <3> DEFINE g == NewPause(h, c.id)
    <3>1. /\ g \in Memory /\ g.pid = c.id /\ ~g.submitted /\ ~g.reported /\ ~g.typed
          /\ g.report = h.report /\ g.sending = h.sending /\ g.stale = h.sending /\ g.done = h.done
      BY <1>1 DEF NewPause, Memory
    <3> HIDE DEF g
    <3>2. h' = [g EXCEPT !.paused = TRUE]
      BY <2>1, <2>4 DEF g
    <3>3. h'.paused /\ SameReport(h', g) /\ h'.pid = g.pid
      BY <1>4, <3>1, <3>2
    <3> QED
      BY <1>3, <1>5, <2>1, <2>2, <2>4, <3>1, <3>3 DEF BeginsPause, SameReport
  <2> QED
    BY <2>3, <2>4
<1>6. CASE c.type # "pause"
  <2>1. /\ h' = [h EXCEPT !.paused = FALSE] /\ ran' = ran
        /\ \/ c.prompt /\ w' = [asked EXCEPT !.pc = "waitidle"]
           \/ w' = Answer(asked, "skipped", "none")
    BY <1>6, Zenon DEF Take, TakeResume
  <2> HIDE DEF asked
  <2>2. /\ w'.no = c.no /\ w'.conn = c.conn /\ w'.busy = "none"
        /\ \/ c.prompt /\ w'.pc = "waitidle"
           \/ w'.pc = "ack" /\ w'.result = "skipped"
    BY <1>2, <2>1 DEF Answer, Work
  <2>3. ~h'.paused /\ h'.pid = h.pid /\ SameReport(h', h)
    BY <1>1, <2>1 DEF Memory, SameReport
  <2> QED
    BY <1>3, <1>6, <2>1, <2>2, <2>3 DEF BeginsResume
<1> QED
  BY <1>5, <1>6

\* What is left of the daemon's messages when the launcher took the first one.
LEMMA MessageTaken ==
    ASSUME TypeOK, d2c # <<>>, d2c' = Tail(d2c)
    PROVE  /\ d2c \in Seq(ToLauncher) /\ 1 \in 1 .. Len(d2c) /\ d2c[1] = Head(d2c)
           /\ Head(d2c) \in ToLauncher
           /\ \A i \in 1 .. Len(d2c') : i + 1 \in 1 .. Len(d2c) /\ d2c'[i] = d2c[i + 1] /\ i + 1 > 1
           /\ \A i \in 1 .. Len(d2c) : i # 1 => i - 1 \in 1 .. Len(d2c') /\ d2c'[i - 1] = d2c[i]
<1>1. d2c \in Seq(ToLauncher)
  BY DEF TypeOK, LinkTypeOK
<1> QED
  BY <1>1, TailAt

\* The worker begins the command that arrived.
LEMMA PauseBegins ==
    ASSUME TypeOK, PauseOK, ~h.stale, NEW m, d2c # <<>>, m = Head(d2c), Asks(m), m.type = "pause",
           d2c' = Tail(d2c), NEW c, c.id = m.id, c.no = m.no, c.conn = conn, BeginsPause(c),
           UNCHANGED <<sup, cmds, issued, c2d, conn>>
    PROVE  PauseOK' /\ (StopOK => StopOK') /\ ~h'.stale
<1>1. /\ 1 \in 1 .. Len(d2c) /\ d2c[1] = m
      /\ \A i \in 1 .. Len(d2c') : i + 1 \in 1 .. Len(d2c) /\ d2c'[i] = d2c[i + 1] /\ i + 1 > 1
      /\ \A i \in 1 .. Len(d2c) : i # 1 => i - 1 \in 1 .. Len(d2c') /\ d2c'[i - 1] = d2c[i]
  BY MessageTaken
<1>2. /\ Flying(cmds) /\ m.no = Head(cmds).no /\ Head(cmds).type = "pause" /\ m.id = Head(cmds).id
      /\ w.pc = "idle" /\ m.id \notin ran
      /\ \A j \in 1 .. Len(d2c) : Asks(d2c[j]) => j = 1
      /\ \A j \in 1 .. Len(c2d) : ~Acks(c2d[j])
      /\ \A j \in 1 .. Len(d2c) : Notes(d2c[j]) /\ j > 1 => h.pid = issued
  BY <1>1 DEF PauseOK, PauseInv, SentInv
<1>3. /\ First(cmds, "pause") /\ ~First(cmds, "resume") /\ ~Prompted(cmds)
      /\ m.id = issued /\ issued # 0
      /\ sup.state \in {"paused", "overridden"} /\ sup.id = issued
      /\ sup.state = "overridden" => InPause(issued) /\ h.submitted
      /\ sup.state = "paused" /\ h.pid = issued => h.paused
  <2>1. First(cmds, "pause") /\ ~First(cmds, "resume")
    BY <1>2 DEF First, Flying
  <2>2. cmds \in Seq(DaemonCommand) /\ cmds # <<>>
    BY <2>1 DEF TypeOK, DaemonTypeOK, First
  <2>3. 1 \in 1 .. Len(cmds) /\ cmds[1] = Head(cmds)
    BY <2>2, HeadAt
  <2> QED
    BY <1>2, <2>1, <2>3 DEF PauseOK, PauseInv, CommandsInv, RecordInv, Prompted
<1>4. ~IsCurrent(h, issued) =>
         /\ ~h.sending /\ sup.state = "paused"
         /\ \A j \in 1 .. Len(c2d) : ~Submits(c2d[j])
         /\ \A j \in 1 .. Len(d2c) : ~Notes(d2c[j])
  <2> SUFFICES ASSUME ~IsCurrent(h, issued)
               PROVE  /\ ~h.sending /\ sup.state = "paused"
                      /\ \A j \in 1 .. Len(c2d) : ~Submits(c2d[j])
                      /\ \A j \in 1 .. Len(d2c) : ~Notes(d2c[j])
    OBVIOUS
  <2>1. sup.state = "paused" /\ h.pid # issued
    BY <1>3 DEF IsCurrent, InPause
  <2>2. \A j \in 1 .. Len(c2d) : ~Submits(c2d[j])
    BY <1>3, <2>1 DEF PauseOK, PauseInv, ReportInv
  <2>3. \A j \in 1 .. Len(d2c) : ~Notes(d2c[j])
    <3>1. ~Notes(d2c[1])
      BY <1>1 DEF Asks, Notes
    <3>2. \A j \in 1 .. Len(d2c) : j # 1 => j > 1
      OBVIOUS
    <3> QED
      BY <1>2, <2>1, <3>1, <3>2
  <2> QED
    BY <2>1, <2>2, <2>3 DEF PauseOK, PauseInv, ReportInv
<1>5. /\ h'.paused /\ h'.pid = issued /\ w'.pc = "look" /\ w'.id = issued /\ w'.no = Head(cmds).no
      /\ w'.conn = conn /\ ran' = ran \cup {issued} /\ h'.done = h.done
      /\ UNCHANGED <<esc, touched>> /\ h'.sending = h.sending /\ h'.report = h.report /\ ~h'.stale
      /\ IsCurrent(h, issued) => SameReport(h', h)
  BY <1>2, <1>3, <1>4 DEF BeginsPause, SameReport
<1>6. CommandsInv(sup, cmds, issued)'
  BY <1>3, <1>4, <1>5 DEF PauseOK, PauseInv, CommandsInv, InPause, First, SameReport
<1>7. RecordInv(sup, cmds, issued)'
  <2>1. issued \in Nat
    BY DEF TypeOK, DaemonTypeOK
  <2> QED
    BY <1>2, <1>3, <1>5, <2>1 DEF PauseOK, PauseInv, RecordInv, InPause, First, Flying
<1>8. SentInv(cmds, issued, c2d, d2c)'
  <2>1. \A i \in 1 .. Len(d2c') : ~Asks(d2c'[i])
    BY <1>1, <1>2
  <2> QED
    BY <2>1 DEF SentInv, Asks
<1>9. WorkInv(sup, cmds, issued, c2d)'
  <2>1. sup.state = "paused" \/ h'.submitted
    BY <1>3, <1>4, <1>5 DEF SameReport
  <2> QED
    BY <1>2, <1>3, <1>5, <2>1 DEF WorkInv, Flying, First, Begun, InPause, Acks, ResumeSteps
<1>10. AckInv(cmds, issued, c2d)'
  BY <1>2 DEF AckInv, Acks
<1>11. ReportInv(sup, cmds, issued, c2d, d2c)'
  <2>1. IsCurrent(h, issued) => h'.submitted = h.submitted /\ h.paused /\ h.pid = issued
    BY <1>5 DEF SameReport, IsCurrent
  <2>2. ~Notes(d2c[1])
    BY <1>1 DEF Asks, Notes
  <2>3. h'.sending => \/ \E i \in 1 .. Len(c2d') : Submits(c2d'[i])
                      \/ \E i \in 1 .. Len(d2c') : Notes(d2c'[i])
    BY <1>1, <1>5, <2>2 DEF PauseOK, PauseInv, ReportInv
  <2>4. \A i \in 1 .. Len(c2d') : Submits(c2d'[i]) =>
          /\ h'.sending /\ c2d'[i].no = h'.report /\ h'.submitted /\ h'.pid = issued'
          /\ (sup'.state = "paused" /\ h'.paused) \/ First(cmds', "resume")
          /\ \A j \in 1 .. Len(c2d') : Submits(c2d'[j]) => j = i
          /\ \A j \in 1 .. Len(d2c') : ~Notes(d2c'[j])
    BY <1>1, <1>3, <1>4, <1>5, <2>1 DEF PauseOK, PauseInv, ReportInv
  <2>5. \A i \in 1 .. Len(d2c') : Notes(d2c'[i]) =>
          /\ h'.sending /\ d2c'[i].no = h'.report /\ d2c'[i].ok
          /\ \A j \in 1 .. Len(d2c') : Notes(d2c'[j]) => j = i
    <3>1. \A i, j \in 1 .. Len(d2c') : Notes(d2c'[i]) /\ Notes(d2c'[j]) => j + 1 = i + 1
      BY <1>1 DEF PauseOK, PauseInv, ReportInv
    <3>2. \A i, j \in 1 .. Len(d2c') : j + 1 = i + 1 => j = i
      OBVIOUS
    <3> QED
      BY <1>1, <1>5, <3>1, <3>2 DEF PauseOK, PauseInv, ReportInv
  <2> QED
    BY <2>3, <2>4, <2>5 DEF ReportInv, Submits, Notes, First
<1>12. KnowsInv(sup, cmds, issued)'
  <2>1. ~First(cmds', "resume") /\ ~First(cmds, "resume")
    BY <1>3, <1>5, <1>1 DEF First
  <2>2. sup.state # "paused" => h.paused /\ h'.reported = h.reported /\ h'.sending = h.sending
    BY <1>4, <1>5 DEF SameReport, IsCurrent
  <2>3. sup'.state = "paused" => h'.pid = issued'
    BY <1>5
  <2> QED
    BY <2>1, <2>2, <2>3 DEF PauseOK, PauseInv, KnowsInv
<1>13. ~Interrupted(sup, c2d)'
  BY <1>2, <1>3, <1>5 DEF Interrupted, PastEsc, AckBusy, Acks, PauseOK, PauseInv, RecordInv
<1>14. DraftInv(sup, cmds, c2d)'
  BY <1>3, <1>13 DEF DraftInv, Prompted, First
<1>15. StopOK => StopOK'
  <2>1. ~Interrupted(sup, c2d)
    BY <1>2, <1>3 DEF Interrupted, PastEsc, AckBusy, PauseOK, PauseInv, RecordInv, PauseSteps
  <2>2. StopOK => esc # "cut"
    BY <1>3, <2>1 DEF StopOK, StopInv
  <2> QED
    BY <1>5, <2>2 DEF StopOK, StopInv
<1> QED
  BY <1>5, <1>6, <1>7, <1>8, <1>9, <1>10, <1>11, <1>12, <1>14, <1>15 DEF PauseOK, PauseInv

LEMMA ResumeBegins ==
    ASSUME TypeOK, PauseOK, ~h.stale, NEW m, d2c # <<>>, m = Head(d2c), Asks(m), m.type = "resume",
           d2c' = Tail(d2c), NEW c, c.prompt = m.prompt, c.no = m.no, c.conn = conn, BeginsResume(c),
           UNCHANGED <<sup, cmds, issued, c2d, conn>>
    PROVE  PauseOK' /\ (StopOK => StopOK') /\ ~h'.stale
<1>1. /\ 1 \in 1 .. Len(d2c) /\ d2c[1] = m
      /\ \A i \in 1 .. Len(d2c') : i + 1 \in 1 .. Len(d2c) /\ d2c'[i] = d2c[i + 1] /\ i + 1 > 1
      /\ \A i \in 1 .. Len(d2c) : i # 1 => i - 1 \in 1 .. Len(d2c') /\ d2c'[i - 1] = d2c[i]
  BY MessageTaken
<1>2. /\ Flying(cmds) /\ m.no = Head(cmds).no /\ Head(cmds).type = "resume"
      /\ m.prompt = Head(cmds).prompt
      /\ \A j \in 1 .. Len(d2c) : Asks(d2c[j]) => j = 1
      /\ \A j \in 1 .. Len(c2d) : ~Acks(c2d[j])
  BY <1>1 DEF PauseOK, PauseInv, SentInv
<1>3. First(cmds, "resume") /\ ~First(cmds, "pause")
  BY <1>2 DEF First, Flying
<1>4. sup.state = "running"
  BY <1>3 DEF PauseOK, PauseInv, CommandsInv
<1>5. /\ h'.pid = h.pid /\ h'.submitted = h.submitted /\ h'.sending = h.sending /\ ~h'.paused
      /\ h'.report = h.report /\ h'.typed = h.typed /\ h'.done = h.done /\ ~h'.stale
      /\ w'.no = m.no /\ w'.conn = conn /\ w'.busy = "none"
      /\ \/ m.prompt /\ w'.pc = "waitidle"
         \/ w'.pc = "ack" /\ w'.result = "skipped"
      /\ UNCHANGED <<ran, esc, touched>>
  BY DEF BeginsResume, SameReport
<1>6. ~First(cmds', "pause") /\ First(cmds', "resume")
  BY <1>3 DEF First
<1>7. CommandsInv(sup, cmds, issued)'
  BY <1>3, <1>5, <1>6 DEF PauseOK, PauseInv, CommandsInv
<1>8. RecordInv(sup, cmds, issued)'
  BY <1>4, <1>5 DEF PauseOK, PauseInv, RecordInv
<1>9. SentInv(cmds, issued, c2d, d2c)'
  <2>1. \A i \in 1 .. Len(d2c') : ~Asks(d2c'[i])
    BY <1>1, <1>2
  <2> QED
    BY <2>1 DEF SentInv, Asks
<1>10. WorkInv(sup, cmds, issued, c2d)'
  BY <1>2, <1>5, <1>6 DEF WorkInv, Flying, Acks, PauseSteps, ResumeSteps
<1>11. AckInv(cmds, issued, c2d)'
  BY <1>2 DEF AckInv, Acks
<1>12. ReportInv(sup, cmds, issued, c2d, d2c)'
  <2>1. ~Notes(d2c[1])
    BY <1>1 DEF Asks, Notes
  <2>2. h'.sending => \/ \E i \in 1 .. Len(c2d') : Submits(c2d'[i])
                      \/ \E i \in 1 .. Len(d2c') : Notes(d2c'[i])
    BY <1>1, <1>5, <2>1 DEF PauseOK, PauseInv, ReportInv
  <2>3. \A i \in 1 .. Len(c2d') : Submits(c2d'[i]) =>
          /\ h'.sending /\ c2d'[i].no = h'.report /\ h'.submitted /\ h'.pid = issued'
          /\ \A j \in 1 .. Len(c2d') : Submits(c2d'[j]) => j = i
          /\ \A j \in 1 .. Len(d2c') : ~Notes(d2c'[j])
    BY <1>1, <1>5 DEF PauseOK, PauseInv, ReportInv
  <2>4. \A i \in 1 .. Len(d2c') : Notes(d2c'[i]) =>
          /\ h'.sending /\ d2c'[i].no = h'.report /\ d2c'[i].ok
          /\ \A j \in 1 .. Len(d2c') : Notes(d2c'[j]) => j = i
    <3>1. \A i, j \in 1 .. Len(d2c') : Notes(d2c'[i]) /\ Notes(d2c'[j]) => j + 1 = i + 1
      BY <1>1 DEF PauseOK, PauseInv, ReportInv
    <3>2. \A i, j \in 1 .. Len(d2c') : j + 1 = i + 1 => j = i
      OBVIOUS
    <3> QED
      BY <1>1, <1>5, <3>1, <3>2 DEF PauseOK, PauseInv, ReportInv
  <2> QED
    BY <1>6, <2>2, <2>3, <2>4 DEF ReportInv, Submits, Notes
<1>13. KnowsInv(sup, cmds, issued)'
  BY <1>5 DEF KnowsInv
<1>14. ~PastEsc' /\ ~AckBusy(c2d)'
  BY <1>2, <1>5 DEF PastEsc, AckBusy, Acks, PauseSteps
<1>15. Prompted(cmds') <=> Prompted(cmds)
  BY DEF Prompted, First
<1>16. DraftInv(sup, cmds, c2d)'
  BY <1>4, <1>5, <1>14, <1>15 DEF PauseOK, PauseInv, DraftInv, Interrupted, PastEsc, AckBusy
<1>17. StopOK => StopOK'
  <2>1. StopOK /\ esc = "cut" => Prompted(cmds)
    BY <1>4 DEF StopOK, StopInv
  <2> QED
    BY <1>2, <1>5, <1>15, <2>1 DEF StopOK, StopInv, Acks, PauseSteps
<1> QED
  BY <1>5, <1>7, <1>8, <1>9, <1>10, <1>11, <1>12, <1>13, <1>16, <1>17 DEF PauseOK, PauseInv

\* The answer to the override report: the daemon recorded the override.
LEMMA NotedReliable ==
    ASSUME TypeOK, PauseOK, ~h.stale, NEW m, d2c # <<>>, m = Head(d2c), Notes(m),
           d2c' = Tail(d2c),
           h' = IF h.sending /\ h.report = m.no THEN ReportReturns(h, m.ok) ELSE h,
           UNCHANGED <<sup, cmds, issued, c2d, conn, w, ran, esc, touched>>
    PROVE  PauseOK' /\ (StopOK => StopOK') /\ ~h'.stale
<1>1. /\ 1 \in 1 .. Len(d2c) /\ d2c[1] = m
      /\ \A i \in 1 .. Len(d2c') : i + 1 \in 1 .. Len(d2c) /\ d2c'[i] = d2c[i + 1] /\ i + 1 > 1
      /\ \A i \in 1 .. Len(d2c) : i # 1 => i - 1 \in 1 .. Len(d2c') /\ d2c'[i - 1] = d2c[i]
  BY MessageTaken
<1>2. /\ h.sending /\ m.no = h.report /\ m.ok
      /\ \A j \in 1 .. Len(d2c) : Notes(d2c[j]) => j = 1
      /\ \A j \in 1 .. Len(c2d) : ~Submits(c2d[j])
  BY <1>1 DEF PauseOK, PauseInv, ReportInv
<1>3. /\ ~h'.sending /\ ~h'.stale /\ h'.reported
      /\ h'.paused = h.paused /\ h'.pid = h.pid /\ h'.submitted = h.submitted
      /\ h'.typed = h.typed /\ h'.done = h.done
  BY <1>2 DEF TypeOK, HandlerTypeOK, Memory, ReportReturns
<1>4. \A j \in 1 .. Len(d2c') : ~Notes(d2c'[j])
  BY <1>1, <1>2
<1>5. CommandsInv(sup, cmds, issued)' /\ RecordInv(sup, cmds, issued)'
  BY <1>3 DEF PauseOK, PauseInv, CommandsInv, RecordInv, InPause, First, Flying
<1>6. SentInv(cmds, issued, c2d, d2c)'
  <2> SUFFICES ASSUME NEW i \in 1 .. Len(d2c'), Asks(d2c'[i])
               PROVE  /\ Flying(cmds) /\ d2c'[i].no = Head(cmds).no /\ d2c'[i].type = Head(cmds).type
                      /\ d2c'[i].id = Head(cmds).id /\ d2c'[i].prompt = Head(cmds).prompt
                      /\ w.pc = "idle" /\ (d2c'[i].type = "pause" => d2c'[i].id \notin ran)
                      /\ \A j \in 1 .. Len(d2c') : Asks(d2c'[j]) => j = i
                      /\ \A j \in 1 .. Len(c2d) : ~Acks(c2d[j])
    BY <1>4 DEF SentInv, Flying, Acks, Asks, Notes
  <2>1. \A j \in 1 .. Len(d2c') : Asks(d2c'[j]) => j + 1 = i + 1
    BY <1>1 DEF PauseOK, PauseInv, SentInv
  <2>2. \A j \in 1 .. Len(d2c') : j + 1 = i + 1 => j = i
    OBVIOUS
  <2> QED
    BY <1>1, <2>1, <2>2 DEF PauseOK, PauseInv, SentInv
<1>7. WorkInv(sup, cmds, issued, c2d)' /\ AckInv(cmds, issued, c2d)'
  BY <1>3 DEF PauseOK, PauseInv, WorkInv, AckInv, Flying, First, Begun, InPause, Acks, Submits
<1>8. ReportInv(sup, cmds, issued, c2d, d2c)' /\ KnowsInv(sup, cmds, issued)'
  BY <1>2, <1>3, <1>4 DEF ReportInv, KnowsInv, Submits, Notes
<1>9. DraftInv(sup, cmds, c2d)'
  BY <1>3 DEF PauseOK, PauseInv, DraftInv, Interrupted, PastEsc, AckBusy, Acks, Prompted, First
<1>10. StopOK => StopOK'
  BY <1>3 DEF StopOK, StopInv, Prompted, First, Interrupted, PastEsc, AckBusy, Acks
<1> QED
  BY <1>3, <1>5, <1>6, <1>7, <1>8, <1>9, <1>10 DEF PauseOK, PauseInv

\* The launcher's part of the daemon's answer `state`, `id` to its registration.
Registers(state, id) ==
    /\ ~h'.stale /\ h'.done = h.done
    /\ IF state = "paused"
       THEN /\ h'.paused /\ h'.pid = id
            /\ IF h'.sending
               THEN h'.submitted /\ c2d' = <<Message("submitted", h'.report)>>
               ELSE c2d' = <<>>
       ELSE /\ ~h'.paused /\ h'.pid = h.pid /\ h'.typed = h.typed /\ ~h'.sending
            /\ c2d' = <<>>
LEMMA RegistersAs ==
    ASSUME h \in Memory, ~h.paused, ~h.sending, ~h.stale, c2d = <<>>, NEW state, NEW id \in Nat,
           NEW f, f = ApplySupervision(h, state, id), Reports(f, TRUE)
    PROVE  Registers(state, id)
<1>1. IF f.sending THEN h' = f /\ c2d' = <<Message("submitted", f.report)>>
      ELSE h' = f /\ c2d' = <<>>
  BY DEF Reports
<1>2. CASE state = "paused"
  <2> DEFINE g == [MissedPause(h, id) EXCEPT !.paused = TRUE]
  <2>1. f = SendOverride(g)
    BY <1>2, Zenon DEF ApplySupervision, IsCurrent
  <2>2. g \in Memory /\ g.paused /\ g.pid = id /\ ~g.sending /\ ~g.stale /\ g.done = h.done
    <3> DEFINE n == NewPause(h, id)
    <3>1. n \in Memory /\ n.pid = id /\ ~n.sending /\ ~n.stale /\ n.done = h.done
      BY DEF NewPause, Memory
    <3>2. \E t, s \in BOOLEAN : g = [[n EXCEPT !.typed = t, !.submitted = s] EXCEPT !.paused = TRUE]
      <4>1. (h.typedAt >= id) \in BOOLEAN /\ (h.submittedAt >= id) \in BOOLEAN
        OBVIOUS
      <4> QED
        BY <4>1 DEF MissedPause
    <3> HIDE DEF n
    <3> QED
      BY <3>1, <3>2 DEF Memory
  <2> HIDE DEF g
  <2>3. /\ f.paused /\ f.pid = id /\ ~f.stale /\ f.done = h.done
        /\ f.sending => f.submitted
    BY <2>1, <2>2 DEF SendOverride, Memory
  <2> QED
    BY <1>1, <1>2, <2>3 DEF Registers
<1>3. CASE state # "paused"
  <2>1. f = [h EXCEPT !.paused = FALSE, !.reported = (state = "overridden")]
    BY <1>3, Zenon DEF ApplySupervision
  <2>2. ~f.paused /\ f.pid = h.pid /\ f.typed = h.typed /\ ~f.sending /\ ~f.stale /\ f.done = h.done
    BY <2>1 DEF Memory
  <2> QED
    BY <1>1, <1>3, <2>2 DEF Registers
<1> QED
  BY <1>2, <1>3

LEMMA RegisteredReliable ==
    ASSUME TypeOK, LinkInv, PauseOK, NEW m, d2c # <<>>, m = Head(d2c), m.kind = "registered",
           d2c' = Tail(d2c), Registers(m.type, m.id), link' = "up",
           UNCHANGED <<sup, cmds, issued, conn, w, ran, esc, touched, served, up, provisional, queue>>
    PROVE  LinkInv' /\ PauseOK' /\ StopOK'
<1>1. /\ 1 \in 1 .. Len(d2c) /\ d2c[1] = m
      /\ \A i \in 1 .. Len(d2c') : i + 1 \in 1 .. Len(d2c) /\ d2c'[i] = d2c[i + 1] /\ i + 1 > 1
      /\ \A i \in 1 .. Len(d2c) : i # 1 => i - 1 \in 1 .. Len(d2c') /\ d2c'[i - 1] = d2c[i]
  BY MessageTaken
<1>2. /\ link # "up" /\ served /\ c2d = <<>>
      /\ m.type = "paused" => sup.state = "paused" /\ sup.id = m.id
  BY <1>1 DEF LinkInv
<1>3. /\ ~h.paused /\ ~h.sending /\ h.pid = 0 /\ w.pc = "idle" /\ ran = {} /\ esc = "none"
  BY <1>2 DEF LinkInv
<1>4. \A i \in 1 .. Len(d2c) : ~Notes(d2c[i])
  BY <1>3 DEF PauseOK, PauseInv, ReportInv
<1>5. /\ \A i \in 1 .. Len(c2d') : /\ i = 1 /\ Submits(c2d'[i]) /\ c2d'[i].no = h'.report
                                   /\ h'.sending /\ h'.submitted /\ m.type = "paused"
      /\ h'.sending => 1 \in 1 .. Len(c2d') /\ m.type = "paused"
  <2>1. \A no : Submits(Message("submitted", no)) /\ Message("submitted", no).no = no
    BY DEF Message, Submits
  <2>2. CASE m.type = "paused" /\ h'.sending
    <3> DEFINE x == Message("submitted", h'.report)
    <3>1. c2d' = <<x>> /\ h'.submitted /\ Submits(x) /\ x.no = h'.report
      BY <2>1, <2>2 DEF Registers
    <3> HIDE DEF x
    <3>2. 1 \in 1 .. Len(c2d') /\ \A i \in 1 .. Len(c2d') : i = 1 /\ c2d'[i] = x
      BY <3>1
    <3> QED
      BY <2>2, <3>1, <3>2
  <2>3. CASE ~(m.type = "paused" /\ h'.sending)
    <3>1. c2d' = <<>> /\ ~h'.sending
      BY <2>3 DEF Registers
    <3> QED
      BY <3>1
  <2> QED
    BY <2>2, <2>3
<1>6. \A i \in 1 .. Len(c2d') : ~Acks(c2d'[i]) /\ c2d'[i].kind # "register"
  BY <1>5 DEF Submits, Acks
<1>7. /\ m.type = "paused" => h'.paused /\ h'.pid = sup.id /\ sup.state = "paused"
      /\ m.type # "paused" => ~h'.paused /\ h'.pid = 0 /\ h'.typed = h.typed
      /\ ~h'.stale /\ h'.done = h.done
  BY <1>2, <1>3 DEF Registers
<1>8. sup.state = "paused" => sup.id = issued /\ issued # 0 /\ sup.pend /\ First(cmds, "pause") /\ sup.busy = "none"
  BY <1>3 DEF PauseOK, PauseInv, RecordInv
<1>9. issued \in Nat
  BY DEF TypeOK, DaemonTypeOK
<1>10. CommandsInv(sup, cmds, issued)'
  <2>1. First(cmds, "resume") => sup.state = "running" /\ 0 = issued
    BY <1>3 DEF PauseOK, PauseInv, CommandsInv
  <2>2. First(cmds, "pause") => sup.state = "paused"
    BY <1>3 DEF PauseOK, PauseInv, CommandsInv, InPause
  <2> QED
    BY <1>7, <2>1, <2>2 DEF PauseOK, PauseInv, CommandsInv, First
<1>11. RecordInv(sup, cmds, issued)'
  BY <1>3, <1>7, <1>8, <1>9 DEF PauseOK, PauseInv, RecordInv, First
<1>12. SentInv(cmds, issued, c2d, d2c)'
  <2> SUFFICES ASSUME NEW i \in 1 .. Len(d2c'), Asks(d2c'[i])
               PROVE  /\ Flying(cmds) /\ d2c'[i].no = Head(cmds).no /\ d2c'[i].type = Head(cmds).type
                      /\ d2c'[i].id = Head(cmds).id /\ d2c'[i].prompt = Head(cmds).prompt
                      /\ w.pc = "idle" /\ (d2c'[i].type = "pause" => d2c'[i].id \notin ran)
                      /\ \A j \in 1 .. Len(d2c') : Asks(d2c'[j]) => j = i
                      /\ \A j \in 1 .. Len(d2c') : ~Notes(d2c'[j])
    BY <1>1, <1>4, <1>6 DEF SentInv, Flying, Acks, Asks, Notes
  <2>1. \A j \in 1 .. Len(d2c') : Asks(d2c'[j]) => j + 1 = i + 1
    BY <1>1 DEF PauseOK, PauseInv, SentInv
  <2>2. \A j \in 1 .. Len(d2c') : j + 1 = i + 1 => j = i
    OBVIOUS
  <2> QED
    BY <1>1, <1>4, <2>1, <2>2 DEF PauseOK, PauseInv, SentInv
<1>13. WorkInv(sup, cmds, issued, c2d)' /\ AckInv(cmds, issued, c2d)'
  BY <1>3, <1>6 DEF WorkInv, AckInv
<1>14. ReportInv(sup, cmds, issued, c2d, d2c)'
  <2>1. \A j \in 1 .. Len(d2c') : ~Notes(d2c'[j])
    BY <1>1, <1>4
  <2>2. \A i \in 1 .. Len(c2d') : h'.pid = issued /\ sup.state = "paused" /\ h'.paused
    BY <1>5, <1>7, <1>8
  <2> QED
    BY <1>5, <2>1, <2>2 DEF ReportInv
<1>15. KnowsInv(sup, cmds, issued)'
  BY <1>7, <1>8 DEF KnowsInv
<1>16. ~Interrupted(sup, c2d)'
  BY <1>3, <1>6, <1>8 DEF Interrupted, PastEsc, AckBusy, PauseSteps
<1>17. DraftInv(sup, cmds, c2d)'
  <2>1. Prompted(cmds) => m.type # "paused"
    BY <1>2, <1>8 DEF Prompted, First
  <2>2. Prompted(cmds') <=> Prompted(cmds)
    BY DEF Prompted, First
  <2> QED
    BY <1>7, <1>16, <2>1, <2>2 DEF PauseOK, PauseInv, DraftInv
<1>18. StopOK'
  BY <1>3, <1>6 DEF StopOK, StopInv, PauseSteps
<1>19. LinkInv'
  <2>1. \A i \in 1 .. Len(d2c') : d2c'[i].kind # "registered"
    BY <1>1 DEF LinkInv
  <2> QED
    BY <1>2, <1>6, <1>7, <2>1 DEF LinkInv
<1> QED
  BY <1>10, <1>11, <1>12, <1>13, <1>14, <1>15, <1>17, <1>18, <1>19 DEF PauseOK, PauseInv

LEMMA LauncherReadsReliable ==
    ASSUME TypeOK, LinkInv, PauseOK, LauncherReads
    PROVE  LinkInv' /\ PauseOK' /\ (StopOK => StopOK')
<1> DEFINE m == Head(d2c)
           c == [type |-> m.type, id |-> m.id, prompt |-> m.prompt, no |-> m.no, conn |-> conn]
<1>1. /\ d2c # <<>> /\ d2c' = Tail(d2c)
      /\ UNCHANGED <<served, conn, sup, cmds, issued, up, provisional>>
  BY DEF LauncherReads, daemonVars
<1>2. /\ 1 \in 1 .. Len(d2c) /\ d2c[1] = m /\ m \in ToLauncher
      /\ \A i \in 1 .. Len(d2c') : i + 1 \in 1 .. Len(d2c) /\ d2c'[i] = d2c[i + 1]
  BY <1>1, MessageTaken
<1>3. h \in Memory /\ HandlerTypeOK /\ conn \in Nat /\ ~h.stale
  BY DEF TypeOK, HandlerTypeOK, LinkTypeOK, LinkInv
<1>4. CASE m.kind = "registered"
  <2>1. /\ Reports(ApplySupervision(h, m.type, m.id), TRUE) /\ link' = "up"
        /\ UNCHANGED <<queue, w, ran, esc, touched>>
    BY <1>4, Zenon DEF LauncherReads, history
  <2>2. ~h.paused /\ ~h.sending /\ c2d = <<>>
    BY <1>2, <1>4 DEF LinkInv
  <2>3. m.id \in Nat
    BY <1>2 DEF ToLauncher
  <2>4. Registers(m.type, m.id)
    BY <1>3, <2>1, <2>2, <2>3, RegistersAs
  <2> QED
    BY <1>1, <1>4, <2>1, <2>4, RegisteredReliable
<1>5. m.kind # "registered" => link = "up"
  BY <1>1, <1>2 DEF LinkInv
<1>6. ASSUME m.kind # "registered", UNCHANGED <<link, queue, c2d>>, ~h'.stale
      PROVE  LinkInv'
  <2>1. \A i \in 1 .. Len(d2c') : d2c'[i].kind # "registered"
    BY <1>2, <1>5, <1>6 DEF LinkInv
  <2> QED
    BY <1>1, <1>5, <1>6, <2>1 DEF LinkInv
<1>7. CASE m.kind = "cmd"
  <2>1. Asks(m)
    BY <1>7 DEF Asks
  <2>2. w.pc = "idle" /\ (m.type = "pause" => m.id \notin ran /\ m.id # 0)
    <3>1. /\ Flying(cmds) /\ m.type = Head(cmds).type /\ m.id = Head(cmds).id
          /\ w.pc = "idle" /\ (m.type = "pause" => m.id \notin ran)
      BY <1>2, <2>1 DEF PauseOK, PauseInv, SentInv
    <3>2. m.type = "pause" => First(cmds, "pause") /\ 1 \in 1 .. Len(cmds) /\ cmds[1] = Head(cmds)
      <4>1. cmds \in Seq(DaemonCommand)
        BY DEF TypeOK, DaemonTypeOK
      <4> QED
        BY <3>1, <4>1, HeadAt DEF First, Flying
    <3> QED
      BY <3>1, <3>2 DEF PauseOK, PauseInv, CommandsInv
  <2>3. Take(c) /\ UNCHANGED <<c2d, link, queue>>
    BY <1>7, <2>2, Zenon DEF LauncherReads
  <2>4. /\ c \in Command /\ c.id = m.id /\ c.no = m.no /\ c.conn = conn /\ c.prompt = m.prompt
        /\ c.type = m.type /\ m.type \in {"pause", "resume"}
    BY <1>2, <1>3, <1>7 DEF Command, ToLauncher
  <2> HIDE DEF c, m
  <2>5. CASE m.type = "pause"
    <3>1. h.done.id # c.id
      BY <2>2, <2>4, <2>5 DEF PauseOK, PauseInv, RecordInv
    <3>2. BeginsPause(c)
      BY <1>3, <2>3, <2>4, <2>5, <3>1, TakeBegins
    <3> QED
      BY <1>1, <1>3, <1>6, <1>7, <2>1, <2>3, <2>4, <2>5, <3>2, PauseBegins DEF m
  <2>6. CASE m.type # "pause"
    <3>1. BeginsResume(c)
      BY <1>3, <2>3, <2>4, <2>6, TakeBegins
    <3> QED
      BY <1>1, <1>3, <1>6, <1>7, <2>1, <2>3, <2>4, <2>6, <3>1, ResumeBegins DEF m
  <2> QED
    BY <2>5, <2>6
<1>8. CASE m.kind = "noted"
  <2>1. /\ h' = IF h.sending /\ h.report = m.no THEN ReportReturns(h, m.ok) ELSE h
        /\ UNCHANGED <<c2d, link, queue, w, ran, esc, touched>>
    BY <1>8, Zenon DEF LauncherReads, history
  <2>2. Notes(m)
    BY <1>8 DEF Notes
  <2> HIDE DEF m, c
  <2>3. PauseOK' /\ (StopOK => StopOK') /\ ~h'.stale
    BY <1>1, <1>3, <2>1, <2>2, NotedReliable DEF m
  <2> QED
    BY <1>6, <1>8, <2>1, <2>3
<1> QED
  BY <1>2, <1>4, <1>7, <1>8 DEF ToLauncher

-----------------------------------------------------------------------------
(* The worker goes on. *)

LEMMA SendAckReliable ==
    ASSUME TypeOK, LinkInv, PauseOK, SendAck
    PROVE  LinkInv' /\ PauseOK' /\ (StopOK => StopOK')
<1> DEFINE m == [Message("ack", w.no) EXCEPT !.result = w.result, !.busy = w.busy]
<1>1. /\ w.pc = "ack" /\ Flying(cmds) /\ w.no = Head(cmds).no /\ w.conn = conn /\ w.result # "none"
      /\ \A j \in 1 .. Len(c2d) : ~Acks(c2d[j])
      /\ IF First(cmds, "pause") THEN Begun(issued) ELSE ~h.paused
  BY DEF SendAck, PauseOK, PauseInv, WorkInv
<1>2. link = "up" /\ queue = <<>>
  BY <1>1 DEF LinkInv
<1>3. /\ c2d' = Append(c2d, m) /\ w' = NoWork
      /\ UNCHANGED <<h, ran, esc, touched, queue>>
  BY <1>1, <1>2, Zenon DEF SendAck, history
<1>4. UNCHANGED <<link, served, d2c, conn, up, sup, cmds, issued, provisional>>
  BY DEF SendAck, daemonVars
<1>5. c2d \in Seq(ToDaemon) /\ w \in Work
  BY DEF TypeOK, LinkTypeOK, HandlerTypeOK
<1>6. /\ m \in ToDaemon /\ Acks(m) /\ ~Submits(m) /\ m.kind # "register"
      /\ m.no = w.no /\ m.result = w.result /\ m.busy = w.busy
  BY <1>5 DEF Message, ToDaemon, Work, Acks, Submits, Results, WasBusy
<1> HIDE DEF m
<1>7. /\ \A i \in 1 .. Len(c2d') : \/ i \in 1 .. Len(c2d) /\ c2d'[i] = c2d[i] /\ i # Len(c2d')
                                   \/ i = Len(c2d') /\ c2d'[i] = m
      /\ \A i \in 1 .. Len(c2d) : i \in 1 .. Len(c2d') /\ c2d'[i] = c2d[i] /\ i < Len(c2d')
  BY <1>3, <1>5, <1>6, AppendAt
<1>8. LinkInv'
  BY <1>2, <1>3, <1>4, <1>6, <1>7 DEF LinkInv
<1>9. w'.pc = "idle"
  BY <1>3 DEF NoWork
<1>10. CommandsInv(sup, cmds, issued)' /\ RecordInv(sup, cmds, issued)' /\ KnowsInv(sup, cmds, issued)'
  BY <1>3, <1>4 DEF PauseOK, PauseInv, CommandsInv, RecordInv, KnowsInv, InPause, First, Flying
<1>11. SentInv(cmds, issued, c2d, d2c)'
  <2>1. \A i \in 1 .. Len(d2c') : ~Asks(d2c'[i])
    BY <1>1, <1>4 DEF PauseOK, PauseInv, SentInv
  <2> QED
    BY <2>1 DEF SentInv, Asks
<1>12. WorkInv(sup, cmds, issued, c2d)'
  BY <1>9 DEF WorkInv
<1>13. \A i \in 1 .. Len(c2d') : Acks(c2d'[i]) => i = Len(c2d') /\ c2d'[i] = m
  BY <1>1, <1>7
<1>14. AckInv(cmds, issued, c2d)'
  <2>1. \A j \in 1 .. Len(c2d') : Submits(c2d'[j]) => j < Len(c2d')
    BY <1>6, <1>7
  <2> QED
    BY <1>1, <1>3, <1>4, <1>6, <1>13, <2>1 DEF AckInv, Acks, Submits, Flying, First, Begun, InPause
<1>15. ReportInv(sup, cmds, issued, c2d, d2c)'
  <2>1. h'.sending => \/ \E i \in 1 .. Len(c2d') : Submits(c2d'[i])
                      \/ \E i \in 1 .. Len(d2c') : Notes(d2c'[i])
    BY <1>3, <1>4, <1>7 DEF PauseOK, PauseInv, ReportInv
  <2>2. \A i \in 1 .. Len(c2d') : Submits(c2d'[i]) =>
          /\ h'.sending /\ c2d'[i].no = h'.report /\ h'.submitted /\ h'.pid = issued'
          /\ (sup'.state = "paused" /\ h'.paused) \/ First(cmds', "resume")
          /\ \A j \in 1 .. Len(c2d') : Submits(c2d'[j]) => j = i
          /\ \A j \in 1 .. Len(d2c') : ~Notes(d2c'[j])
    BY <1>3, <1>4, <1>6, <1>7 DEF PauseOK, PauseInv, ReportInv, First
  <2>3. \A i \in 1 .. Len(d2c') : Notes(d2c'[i]) =>
          /\ h'.sending /\ d2c'[i].no = h'.report /\ d2c'[i].ok
          /\ \A j \in 1 .. Len(d2c') : Notes(d2c'[j]) => j = i
    BY <1>3, <1>4 DEF PauseOK, PauseInv, ReportInv
  <2> QED
    BY <2>1, <2>2, <2>3 DEF ReportInv, Submits, Notes
<1>16. /\ ~PastEsc' /\ ~PastEsc
       /\ AckBusy(c2d)' <=> AckBusy(c2d)
  <2>1. AckBusy(c2d) <=> m.busy = "yes"
    BY <1>1, <1>6 DEF AckBusy
  <2>2. AckBusy(c2d)' <=> m.busy = "yes"
    <3>1. Len(c2d') \in 1 .. Len(c2d') /\ c2d'[Len(c2d')] = m
      BY <1>3, <1>5, <1>6, AppendAt
    <3> QED
      BY <1>6, <1>9, <1>13, <3>1 DEF AckBusy, Acks
  <2> QED
    BY <1>1, <1>9, <2>1, <2>2 DEF PastEsc, PauseSteps
<1>17. Interrupted(sup, c2d)' <=> Interrupted(sup, c2d)
  BY <1>4, <1>16 DEF Interrupted, PastEsc, AckBusy
<1>18. Prompted(cmds') <=> Prompted(cmds)
  BY <1>4
<1>19. DraftInv(sup, cmds, c2d)'
  BY <1>3, <1>4, <1>17 DEF PauseOK, PauseInv, DraftInv, Prompted, First
<1>20. StopOK => StopOK'
  <2>1. StopOK => (esc = "cut" /\ m.result = "injected" => ~First(cmds, "resume"))
    BY <1>1, <1>6 DEF StopOK, StopInv
  <2>2. StopOK => (esc' = "cut" => Prompted(cmds)' \/ (Interrupted(sup, c2d)' /\ sup'.state = "paused" /\ ~h'.submitted))
    BY <1>3, <1>4, <1>17 DEF StopOK, StopInv, Prompted, First
  <2>3. StopOK => (esc' = "cut" => \A i \in 1 .. Len(c2d') :
                      Acks(c2d'[i]) /\ c2d'[i].result = "injected" => ~First(cmds, "resume")')
    BY <1>3, <1>4, <1>13, <2>1 DEF First
  <2> QED
    BY <1>9, <2>2, <2>3 DEF StopOK, StopInv, PauseSteps, Acks
<1> QED
  BY <1>8, <1>10, <1>11, <1>12, <1>14, <1>15, <1>19, <1>20 DEF PauseOK, PauseInv

\* What every step of the worker leaves as it is, and what it may do.
SameFields(f, g) ==
    /\ f.paused = g.paused /\ f.pid = g.pid /\ f.submitted = g.submitted /\ f.typed = g.typed
    /\ f.reported = g.reported /\ f.report = g.report /\ f.sending = g.sending /\ f.stale = g.stale
WorkerMoves ==
    /\ w.pc \in PauseSteps \cup ResumeSteps /\ w'.no = w.no /\ w'.conn = w.conn
    /\ SameFields(h', h)
    /\ h'.done.id = h.done.id \/ (w.pc \in PauseSteps /\ h'.done.id = w.id)
    /\ \/ w.pc \in PauseSteps /\ w'.pc \in PauseSteps \ {"look"} /\ w'.id = w.id
       \/ w.pc \in ResumeSteps /\ w'.pc \in ResumeSteps
       \/ w'.pc = "ack" /\ w'.result # "none"
    /\ ran' = ran
    /\ touched' => touched /\ (PastEsc' => PastEsc)
    /\ w'.pc = "ack" /\ w'.busy = "yes" => PastEsc
EscMoves ==
    /\ w'.pc \in PauseSteps /\ w.pc # "look" => w'.busy = w.busy
    /\ esc' = "cut" => esc = "cut" \/ (w.pc # "look" /\ w.busy = "yes")
    /\ esc' = "cut" =>
         \/ w.pc \in PauseSteps /\ PastEsc' /\ ~h.submitted
         \/ esc = "cut" /\ (PastEsc => PastEsc' \/ h.submitted \/ (w'.pc = "ack" /\ w'.busy = w.busy))
    /\ esc' = "cut" /\ w'.pc = "ack" /\ w'.result = "injected" => w.pc \in PauseSteps

LEMMA WorkerKeeps ==
    ASSUME TypeOK, LinkInv, PauseOK, WorkerMoves,
           UNCHANGED <<sup, cmds, issued, c2d, d2c, conn, link, served, up, provisional, queue>>
    PROVE  LinkInv' /\ PauseOK' /\ (StopOK /\ EscMoves => StopOK')
<1>1. /\ w.pc # "idle" /\ w.pc # "ack" /\ Flying(cmds) /\ w.no = Head(cmds).no /\ w.conn = conn
      /\ \A j \in 1 .. Len(c2d) : ~Acks(c2d[j])
      /\ w.pc \in PauseSteps => First(cmds, "pause") /\ w.id = issued /\ (sup.state = "paused" \/ h.submitted)
      /\ w.pc \in ResumeSteps => First(cmds, "resume") /\ Head(cmds).prompt
      /\ IF First(cmds, "pause") THEN Begun(issued) ELSE ~h.paused
  BY DEF WorkerMoves, PauseOK, PauseInv, WorkInv, PauseSteps, ResumeSteps
<1>2. link = "up"
  BY <1>1 DEF LinkInv
<1>3. SameFields(h', h) /\ ran' = ran /\ w'.pc # "idle"
  BY DEF WorkerMoves, PauseSteps, ResumeSteps
<1>4. LinkInv'
  BY <1>2, <1>3 DEF LinkInv, SameFields
<1>5. CommandsInv(sup, cmds, issued)' /\ KnowsInv(sup, cmds, issued)'
  BY <1>3 DEF PauseOK, PauseInv, CommandsInv, KnowsInv, InPause, First, SameFields
<1>6. RecordInv(sup, cmds, issued)'
  <2>1. h'.done.id \in ran \cup {0}
    BY <1>1 DEF WorkerMoves, PauseOK, PauseInv, RecordInv, Begun
  <2> QED
    BY <1>3, <2>1 DEF PauseOK, PauseInv, RecordInv, InPause, First, Flying, SameFields
<1>7. SentInv(cmds, issued, c2d, d2c)'
  <2>1. \A i \in 1 .. Len(d2c') : ~Asks(d2c'[i])
    BY <1>1 DEF PauseOK, PauseInv, SentInv
  <2> QED
    BY <2>1 DEF SentInv, Asks
<1>8. WorkInv(sup, cmds, issued, c2d)'
  <2>1. /\ w'.no = w.no /\ w'.conn = w.conn
        /\ w'.pc \in PauseSteps => w.pc \in PauseSteps /\ w'.id = w.id
        /\ w'.pc \in ResumeSteps => w.pc \in ResumeSteps
        /\ w'.pc = "ack" => w'.result # "none"
    BY DEF WorkerMoves, PauseSteps, ResumeSteps
  <2> QED
    BY <1>1, <1>3, <2>1 DEF WorkInv, Flying, First, Begun, InPause, SameFields, Acks
<1>9. AckInv(cmds, issued, c2d)'
  BY <1>1 DEF AckInv, Acks
<1>10. ReportInv(sup, cmds, issued, c2d, d2c)'
  BY <1>3 DEF PauseOK, PauseInv, ReportInv, First, Submits, Notes, SameFields
<1>11. ~AckBusy(c2d) /\ (AckBusy(c2d)' => w'.pc = "ack" /\ w'.busy = "yes")
  BY <1>1 DEF AckBusy, Acks
<1>12. Prompted(cmds') <=> Prompted(cmds)
  OBVIOUS
<1>13. DraftInv(sup, cmds, c2d)'
  <2>1. touched' /\ Interrupted(sup, c2d)' => Interrupted(sup, c2d)
    BY <1>11 DEF WorkerMoves, Interrupted
  <2>2. touched' => touched
    BY DEF WorkerMoves
  <2> QED
    BY <1>3, <2>1, <2>2 DEF PauseOK, PauseInv, DraftInv, Prompted, First, SameFields
<1>14. ASSUME StopOK, EscMoves
       PROVE  StopOK'
  <2>1. esc = "cut" /\ w.pc \in PauseSteps => w.pc # "look" /\ w.busy = "yes"
    <3> SUFFICES ASSUME esc = "cut", w.pc \in PauseSteps
                 PROVE  w.pc # "look" /\ w.busy = "yes"
      OBVIOUS
    <3>1. w.busy = "yes" /\ (Prompted(cmds) \/ (Interrupted(sup, c2d) /\ sup.state = "paused"))
      BY <1>14 DEF StopOK, StopInv
    <3>2. First(cmds, "pause") /\ ~Prompted(cmds) /\ ~AckBusy(c2d)
      BY <1>1 DEF First, Prompted, AckBusy
    <3>3. sup.state = "paused" => sup.busy = "none"
      BY <1>1 DEF PauseOK, PauseInv, RecordInv
    <3>4. PastEsc
      BY <3>1, <3>2, <3>3 DEF Interrupted
    <3> QED
      BY <3>1, <3>4 DEF PastEsc
  <2>2. esc' = "cut" /\ w'.pc \in PauseSteps => w'.busy = "yes"
    <3>1. w'.pc \in PauseSteps => w.pc \in PauseSteps
      BY DEF WorkerMoves, PauseSteps, ResumeSteps
    <3> QED
      BY <1>14, <2>1, <3>1 DEF EscMoves
  <2>3. First(cmds', "resume") <=> First(cmds, "resume")
    OBVIOUS
  <2>4. ASSUME esc' = "cut"
        PROVE  Prompted(cmds) \/ (Interrupted(sup, c2d)' /\ sup.state = "paused" /\ ~h.submitted)
    <3>1. CASE w.pc \in PauseSteps /\ PastEsc' /\ ~h.submitted
      BY <1>1, <3>1 DEF Interrupted
    <3>2. CASE esc = "cut" /\ (PastEsc => PastEsc' \/ h.submitted \/ (w'.pc = "ack" /\ w'.busy = w.busy))
      <4>1. Prompted(cmds) \/ (Interrupted(sup, c2d) /\ sup.state = "paused" /\ ~h.submitted)
        BY <1>14, <3>2 DEF StopOK, StopInv
      <4>2. PastEsc => w.busy = "yes"
        BY <2>1, <3>2 DEF PastEsc
      <4>3. Interrupted(sup, c2d) /\ ~h.submitted => Interrupted(sup, c2d)'
        BY <1>11, <3>2, <4>2 DEF Interrupted, AckBusy
      <4> QED
        BY <4>1, <4>3
    <3> QED
      BY <1>14, <2>4, <3>1, <3>2 DEF EscMoves
  <2>5. esc' = "cut" /\ w'.pc = "ack" /\ w'.result = "injected" => ~First(cmds, "resume")
    <3>1. First(cmds, "pause") => ~First(cmds, "resume")
      BY DEF First
    <3> QED
      BY <1>1, <1>14, <3>1 DEF EscMoves
  <2>6. h'.submitted = h.submitted
    BY <1>3 DEF SameFields
  <2> QED
    BY <1>1, <2>2, <2>3, <2>4, <2>5, <2>6, <1>12 DEF StopOK, StopInv, Acks
<1> QED
  BY <1>4, <1>5, <1>6, <1>7, <1>8, <1>9, <1>10, <1>13, <1>14 DEF PauseOK, PauseInv

\* A pause of which the steps are over.
Finished(result, busy) ==
    /\ w'.pc = "ack" /\ w'.result = result /\ w'.busy = busy /\ w'.no = w.no /\ w'.conn = w.conn
    /\ SameFields(h', h) /\ h'.done.id = w.id
LEMMA Finishes ==
    ASSUME HandlerTypeOK, NEW result, NEW busy, FinishPause(result, busy)
    PROVE  Finished(result, busy)
<1>1. h \in Memory /\ w \in Work
  BY DEF HandlerTypeOK
<1>2. w'.pc = "ack" /\ w'.result = result /\ w'.busy = busy /\ w'.no = w.no /\ w'.conn = w.conn
  BY <1>1 DEF FinishPause, Answer, Work
<1>3. SameFields(h', h) /\ h'.done.id = w.id
  BY <1>1 DEF FinishPause, Memory, SameFields
<1> QED
  BY <1>2, <1>3 DEF Finished

\* The steps of a pause end with `result` and `busy`.
LEMMA PauseFinished ==
    ASSUME w.pc \in PauseSteps, NEW result \in {"injected", "skipped"}, NEW busy,
           Finished(result, busy), UNCHANGED <<ran, esc, touched>>,
           busy = "yes" => PastEsc, busy = w.busy \/ h.submitted \/ ~PastEsc
    PROVE  WorkerMoves /\ EscMoves
<1>1. w'.pc = "ack" /\ w'.result # "none" /\ ~PastEsc'
  BY DEF Finished, PastEsc, PauseSteps
<1>2. WorkerMoves
  BY <1>1 DEF WorkerMoves, Finished
<1>3. EscMoves
  BY <1>1 DEF EscMoves, Finished, PauseSteps
<1> QED
  BY <1>2, <1>3

\* Only a session known to be busy has a turn that an ESC cut off.
LEMMA PressEscCuts ==
    ASSUME PressEsc
    PROVE  esc' = "cut" => esc = "cut" \/ w.busy = "yes"
BY DEF PressEsc

\* The worker's record becomes `x`, which waits at `pc`.
Waits(x, pc) == x.pc = pc /\ x.id = w.id /\ x.no = w.no /\ x.conn = w.conn
\* The next step of a pause.
LEMMA PauseGoesOn ==
    ASSUME w.pc \in PauseSteps, NEW pc \in PauseSteps \ {"look"}, Waits(w', pc),
           SameFields(h', h), h'.done = h.done, UNCHANGED ran,
           w.pc # "look" => w'.busy = w.busy,
           esc' = "cut" => esc = "cut" \/ (w.pc # "look" /\ w.busy = "yes"),
           \/ UNCHANGED <<esc, touched>> /\ (IF pc = "guard" THEN ~PastEsc ELSE PastEsc)
           \/ ~h.submitted /\ pc # "guard" /\ (touched' => touched /\ PastEsc)
    PROVE  WorkerMoves /\ EscMoves
<1>1. w'.pc = pc /\ (pc # "guard" => PastEsc') /\ (pc = "guard" => ~PastEsc') /\ pc # "ack"
  BY DEF Waits, PastEsc, PauseSteps
<1>2. touched' => touched /\ (PastEsc' => PastEsc)
  BY <1>1
<1>3. w.pc \in PauseSteps \cup ResumeSteps /\ w'.pc \in PauseSteps \ {"look"}
  BY <1>1
<1>4. WorkerMoves
  BY <1>1, <1>2, <1>3 DEF WorkerMoves, Waits
<1>5. EscMoves
  <2>1. esc' = "cut" => (PastEsc' /\ ~h.submitted) \/ (esc = "cut" /\ (PastEsc => PastEsc'))
    BY <1>1
  <2> QED
    BY <1>1, <2>1 DEF EscMoves
<1> QED
  BY <1>4, <1>5

LEMMA LookMoves ==
    ASSUME HandlerTypeOK, Look
    PROVE  WorkerMoves /\ EscMoves
<1>1. w.pc = "look" /\ w.pc \in PauseSteps /\ ~PastEsc /\ UNCHANGED <<ran, esc, touched>>
      /\ h \in Memory /\ w \in Work
  BY DEF Look, PauseSteps, PastEsc, history, HandlerTypeOK
<1>2. PICK status \in Seen :
         IF IsBusy(status)
         THEN /\ w' = [w EXCEPT !.pc = "guard", !.draft = h.draft,
                                !.busy = IF IsKnownBusy(status) THEN "yes" ELSE "none"]
              /\ UNCHANGED h
         ELSE FinishPause("skipped", "no")
  BY DEF Look
<1>3. CASE IsBusy(status)
  <2> DEFINE b == IF IsKnownBusy(status) THEN "yes" ELSE "none"
  <2> HIDE DEF b
  <2>1. w' = [w EXCEPT !.pc = "guard", !.draft = h.draft, !.busy = b] /\ h' = h
    BY <1>2, <1>3 DEF b
  <2>2. Waits(w', "guard")
    BY <1>1, <2>1 DEF Work, Waits
  <2>3. SameFields(h', h) /\ h'.done = h.done
    BY <2>1 DEF SameFields
  <2>4. "guard" \in PauseSteps \ {"look"}
    BY DEF PauseSteps
  <2> QED
    BY <1>1, <2>2, <2>3, <2>4, PauseGoesOn
<1>4. CASE ~IsBusy(status)
  <2>1. Finished("skipped", "no")
    BY <1>2, <1>4, Finishes
  <2> QED
    BY <1>1, <2>1, PauseFinished
<1> QED
  BY <1>3, <1>4

LEMMA GuardGivesUpMoves ==
    ASSUME HandlerTypeOK, GuardGivesUp
    PROVE  WorkerMoves /\ EscMoves
<1>1. w \in Work /\ UNCHANGED <<h, ran, esc, touched>> /\ w.pc \in {"guard", "gap", "pasteguard"}
  BY DEF GuardGivesUp, HandlerTypeOK, history
<1>2. w' = [w EXCEPT !.waited = TRUE]
  BY DEF GuardGivesUp
<1>3. /\ w'.pc = w.pc /\ w'.id = w.id /\ w'.no = w.no /\ w'.conn = w.conn /\ w'.busy = w.busy
      /\ SameFields(h', h) /\ h'.done = h.done
  BY <1>1, <1>2 DEF Work, SameFields
<1> QED
  BY <1>1, <1>3 DEF WorkerMoves, EscMoves, PastEsc, PauseSteps, ResumeSteps

LEMMA FirstEscMoves ==
    ASSUME HandlerTypeOK, FirstEsc
    PROVE  WorkerMoves /\ EscMoves
<1>1. /\ w.pc = "guard" /\ w.pc \in PauseSteps /\ ~PastEsc /\ ran' = ran
      /\ h \in Memory /\ w \in Work
  BY DEF FirstEsc, PauseSteps, PastEsc, HandlerTypeOK
<1>2. CASE h.submitted
  <2>1. Finished("skipped", "none") /\ UNCHANGED <<esc, touched>>
    BY <1>2, Finishes DEF FirstEsc
  <2> QED
    BY <1>1, <2>1, PauseFinished
<1>3. CASE ~h.submitted
  <2>1. w' = [w EXCEPT !.pc = "verify", !.waited = FALSE] /\ ~touched' /\ h' = h
    BY <1>3 DEF FirstEsc
  <2>2. Waits(w', "verify") /\ w'.busy = w.busy /\ SameFields(h', h) /\ h'.done = h.done
    BY <1>1, <2>1 DEF Work, Waits, SameFields
  <2>3. "verify" \in PauseSteps \ {"look"}
    BY DEF PauseSteps
  <2>4. esc' = "cut" => esc = "cut" \/ w.busy = "yes"
    BY <1>3, PressEscCuts DEF FirstEsc
  <2> QED
    BY <1>1, <1>3, <2>1, <2>2, <2>3, <2>4, PauseGoesOn
<1> QED
  BY <1>2, <1>3

LEMMA VerifyMoves ==
    ASSUME HandlerTypeOK, Verify
    PROVE  WorkerMoves /\ EscMoves
<1> DEFINE next == CASE w.pc = "verify"   -> "again"
                     [] w.pc = "settle"   -> IF w.draft THEN "final" ELSE "sweep"
                     [] w.pc = "resettle" -> "sweep"
                     [] w.pc = "last"     -> "end"
<1>1. /\ w.pc \in {"verify", "settle", "resettle", "last"} /\ UNCHANGED <<h, ran, esc, touched>>
      /\ w \in Work
  BY DEF Verify, history, HandlerTypeOK
<1>2. next \in PauseSteps \ {"look", "guard"} /\ PastEsc /\ w.pc \in PauseSteps /\ w.pc # "look"
  BY <1>1 DEF PauseSteps, PastEsc
<1>3. PICK status \in Seen : w' = [w EXCEPT !.seen = status, !.pc = next]
  BY Zenon DEF Verify
<1> HIDE DEF next
<1>4. Waits(w', next) /\ w'.busy = w.busy /\ SameFields(h', h) /\ h'.done = h.done
  BY <1>1, <1>3 DEF Work, Waits, SameFields
<1> QED
  BY <1>1, <1>2, <1>4, PauseGoesOn

LEMMA SecondEscMoves ==
    ASSUME HandlerTypeOK, SecondEsc
    PROVE  WorkerMoves /\ EscMoves
<1>1. /\ w.pc = "again" /\ w.pc \in PauseSteps /\ PastEsc /\ UNCHANGED <<ran, touched>>
      /\ h \in Memory /\ w \in Work
  BY DEF SecondEsc, PauseSteps, PastEsc, HandlerTypeOK
<1>2. CASE ~IsKnownBusy(w.seen)
  <2>1. Finished("injected", w.busy) /\ UNCHANGED esc
    BY <1>2, Finishes DEF SecondEsc
  <2> QED
    BY <1>1, <2>1, PauseFinished
<1>3. CASE IsKnownBusy(w.seen) /\ h.submitted
  <2>1. Finished("skipped", "none") /\ UNCHANGED esc
    BY <1>3, Finishes DEF SecondEsc
  <2> QED
    BY <1>1, <1>3, <2>1, PauseFinished
<1>4. CASE IsKnownBusy(w.seen) /\ ~h.submitted
  <2>1. w' = [w EXCEPT !.pc = "gap"] /\ h' = h
    BY <1>4 DEF SecondEsc
  <2>2. Waits(w', "gap") /\ w'.busy = w.busy /\ SameFields(h', h) /\ h'.done = h.done
    BY <1>1, <2>1 DEF Work, Waits, SameFields
  <2>3. "gap" \in PauseSteps \ {"look"}
    BY DEF PauseSteps
  <2>4. esc' = "cut" => esc = "cut" \/ w.busy = "yes"
    BY <1>4, PressEscCuts DEF SecondEsc
  <2> QED
    BY <1>1, <1>4, <2>2, <2>3, <2>4, PauseGoesOn
<1> QED
  BY <1>2, <1>3, <1>4

LEMMA KeysMove ==
    ASSUME HandlerTypeOK, Chord \/ SweepRow \/ Key
    PROVE  WorkerMoves /\ EscMoves
<1>1. /\ w.pc \in {"gap", "sweep", "chord", "row"} /\ UNCHANGED <<ran, esc, touched>>
      /\ h \in Memory /\ w \in Work
  BY DEF Chord, SweepRow, Key, history, HandlerTypeOK
<1>2. PastEsc /\ w.pc \in PauseSteps /\ w.pc # "look"
  BY <1>1 DEF PauseSteps, PastEsc
<1>3. SameFields(h', h) /\ h'.done = h.done
  BY <1>1 DEF Chord, SweepRow, Key, Memory, SameFields
<1>4. /\ w'.pc \in PauseSteps \ {"look", "guard"}
      /\ w'.id = w.id /\ w'.no = w.no /\ w'.conn = w.conn /\ w'.busy = w.busy
  <2>1. CASE Chord
    BY <1>1, <2>1 DEF Chord, Work, PauseSteps
  <2>2. CASE SweepRow
    BY <1>1, <2>2 DEF SweepRow, Work, PauseSteps
  <2>3. CASE Key
    BY <1>1, <2>3 DEF Key, Work, PauseSteps
  <2> QED
    BY <2>1, <2>2, <2>3
<1>5. Waits(w', w'.pc)
  BY <1>4 DEF Waits
<1> QED
  BY <1>1, <1>2, <1>3, <1>4, <1>5, PauseGoesOn

LEMMA FinalEscMoves ==
    ASSUME HandlerTypeOK, FinalEsc \/ EndPause
    PROVE  WorkerMoves /\ EscMoves
<1>1. /\ w.pc \in {"final", "end"} /\ UNCHANGED <<ran, touched>> /\ h \in Memory /\ w \in Work
  BY DEF FinalEsc, EndPause, history, HandlerTypeOK
<1>2. PastEsc /\ w.pc \in PauseSteps /\ w.pc # "look"
  BY <1>1 DEF PauseSteps, PastEsc
<1>3. CASE FinalEsc /\ w.seen = "busy" /\ ~h.submitted /\ ~h.typed
  <2>1. w' = [w EXCEPT !.pc = "last"] /\ h' = h
    BY <1>3 DEF FinalEsc
  <2>2. Waits(w', "last") /\ w'.busy = w.busy /\ SameFields(h', h) /\ h'.done = h.done
    BY <1>1, <2>1 DEF Work, Waits, SameFields
  <2>3. "last" \in PauseSteps \ {"look"}
    BY DEF PauseSteps
  <2>4. esc' = "cut" => esc = "cut" \/ w.busy = "yes"
    BY <1>3, PressEscCuts DEF FinalEsc
  <2> QED
    BY <1>1, <1>2, <1>3, <2>2, <2>3, <2>4, PauseGoesOn
<1>4. CASE EndPause \/ (FinalEsc /\ ~(w.seen = "busy" /\ ~h.submitted /\ ~h.typed))
  <2>1. FinishPause("injected", w.busy) /\ UNCHANGED esc
    BY <1>4 DEF EndPause, FinalEsc, history
  <2>2. Finished("injected", w.busy)
    BY <2>1, Finishes
  <2> QED
    BY <1>1, <1>2, <2>1, <2>2, PauseFinished
<1> QED
  BY <1>3, <1>4

LEMMA ResumeStepsMove ==
    ASSUME HandlerTypeOK, WaitIdle \/ Paste \/ Submit
    PROVE  WorkerMoves /\ EscMoves
<1>1. w \in Work /\ UNCHANGED <<h, ran, touched>> /\ w.pc \in ResumeSteps /\ w.pc \notin PauseSteps
  BY DEF WaitIdle, Paste, Submit, history, HandlerTypeOK, ResumeSteps, PauseSteps
<1>2. \/ w' = Answer(w, "skipped", "none") /\ esc' = esc
      \/ w' = Answer(w, "injected", "none") /\ esc' = "none"
      \/ w' = [w EXCEPT !.pc = "pasteguard"] /\ esc' = esc
      \/ w' = [w EXCEPT !.pc = "submit", !.waited = FALSE] /\ esc' = esc
  <2>1. CASE WaitIdle
    BY <2>1, Zenon DEF WaitIdle, history
  <2>2. CASE Paste
    BY <2>2, Zenon DEF Paste, history
  <2>3. CASE Submit
    BY <2>3, Zenon DEF Submit
  <2> QED
    BY <2>1, <2>2, <2>3
<1>3. /\ w'.no = w.no /\ w'.conn = w.conn /\ w'.pc \notin PauseSteps
      /\ \/ w'.pc = "ack" /\ w'.result = "skipped" /\ w'.busy = "none"
         \/ w'.pc = "ack" /\ w'.result = "injected" /\ w'.busy = "none" /\ esc' = "none"
         \/ w'.pc \in ResumeSteps /\ w'.pc # "ack"
  <2>1. CASE w' = Answer(w, "skipped", "none") /\ esc' = esc
    BY <1>1, <2>1 DEF Answer, Work, PauseSteps
  <2>2. CASE w' = Answer(w, "injected", "none") /\ esc' = "none"
    BY <1>1, <2>2 DEF Answer, Work, PauseSteps
  <2>3. CASE w' = [w EXCEPT !.pc = "pasteguard"] /\ esc' = esc
    BY <1>1, <2>3 DEF Work, PauseSteps, ResumeSteps
  <2>4. CASE w' = [w EXCEPT !.pc = "submit", !.waited = FALSE] /\ esc' = esc
    BY <1>1, <2>4 DEF Work, PauseSteps, ResumeSteps
  <2> QED
    BY <1>2, <2>1, <2>2, <2>3, <2>4
<1>4. SameFields(h', h) /\ h'.done = h.done
  BY <1>1 DEF SameFields
<1>5. ~PastEsc /\ ~PastEsc' /\ (esc' = esc \/ esc' = "none")
  BY <1>1, <1>2, <1>3 DEF PastEsc
<1>6. WorkerMoves
  BY <1>1, <1>3, <1>4, <1>5 DEF WorkerMoves
<1>7. EscMoves
  <2>1. esc' = "cut" => esc = "cut" /\ ~(w'.pc = "ack" /\ w'.result = "injected")
    BY <1>3, <1>5
  <2> QED
    BY <1>3, <1>5, <2>1 DEF EscMoves
<1> QED
  BY <1>6, <1>7

LEMMA HandleReliable ==
    ASSUME TypeOK, LinkInv, PauseOK, Handle
    PROVE  LinkInv' /\ PauseOK' /\ (StopOK => StopOK')
<1>1. HandlerTypeOK /\ HandlerStep
  BY DEF TypeOK, Handle
<1>2. UNCHANGED <<sup, cmds, issued, c2d, d2c, conn, link, served, up, provisional, queue>>
  BY DEF Handle, daemonVars, linkVars
<1>3. WorkerMoves /\ EscMoves
  BY <1>1, LookMoves, GuardGivesUpMoves, FirstEscMoves, VerifyMoves, SecondEscMoves, KeysMove,
     FinalEscMoves, ResumeStepsMove DEF HandlerStep
<1> QED
  BY <1>2, <1>3, WorkerKeeps

-----------------------------------------------------------------------------
(* The user and Claude. *)

\* What the user's input does: a submit in a pause may start the override report.
UserDoes ==
    /\ h'.paused = h.paused /\ h'.pid = h.pid /\ h'.reported = h.reported /\ h'.done = h.done
    /\ h'.typed /\ ~h'.stale
    /\ \/ h'.submitted = h.submitted /\ esc' = esc
       \/ h'.submitted = h.submitted /\ esc' # "cut"
       \/ h.paused /\ h'.submitted /\ esc' # "cut"
    /\ \/ h'.sending = h.sending /\ h'.report = h.report /\ UNCHANGED c2d
       \/ /\ h.paused /\ ~h.sending /\ ~h.reported /\ h'.sending /\ h'.submitted
          /\ c2d' = Append(c2d, Message("submitted", h'.report))
    /\ esc' = esc \/ (esc = "cut" /\ esc' = "sent")
    /\ UNCHANGED <<w, ran>>

LEMMA Types ==
    ASSUME h \in Memory, ~h.stale, UserTypes(issued), UNCHANGED c2d
    PROVE  UserDoes
<1>1. /\ h'.paused = h.paused /\ h'.pid = h.pid /\ h'.reported = h.reported /\ h'.done = h.done
      /\ h'.typed /\ ~h'.stale /\ h'.submitted = h.submitted /\ h'.sending = h.sending
      /\ h'.report = h.report
  BY DEF UserTypes, Memory
<1> QED
  BY <1>1 DEF UserTypes, UserDoes

LEMMA UserSubmitsAs ==
    ASSUME h \in Memory, ~h.stale, issued \in Nat, UserSubmits, NEW r, h.paused => r,
           Reports(Submitted(issued), r)
    PROVE  UserDoes
<1> DEFINE typed == [h EXCEPT !.typed = TRUE, !.typedAt = issued, !.submittedAt = issued, !.draft = FALSE]
           told == [typed EXCEPT !.submitted = TRUE]
           f == Submitted(issued)
<1>1. /\ typed \in Memory /\ typed.typed /\ ~typed.stale /\ typed.paused = h.paused
      /\ typed.pid = h.pid /\ typed.reported = h.reported /\ typed.done = h.done
      /\ typed.submitted = h.submitted /\ typed.sending = h.sending /\ typed.report = h.report
  BY DEF Memory
<1>2. f = IF h.paused THEN SendOverride(told) ELSE typed
  BY DEF Submitted
<1> HIDE DEF typed
<1>3. /\ told \in Memory /\ told.typed /\ ~told.stale /\ told.paused = h.paused
      /\ told.pid = h.pid /\ told.reported = h.reported /\ told.done = h.done
      /\ told.submitted /\ told.sending = h.sending /\ told.report = h.report
  BY <1>1 DEF Memory
<1> HIDE DEF told, f
<1>4. esc' # "cut" /\ UNCHANGED <<w, ran>> /\ (esc' = esc \/ (esc = "cut" /\ esc' = "sent"))
  BY DEF UserSubmits
<1>5. IF f.sending /\ ~h.sending
      THEN IF r THEN h' = f /\ c2d' = Append(c2d, Message("submitted", f.report))
                ELSE h' = ReportReturns(f, FALSE) /\ UNCHANGED c2d
      ELSE h' = f /\ UNCHANGED c2d
  BY Zenon DEF Reports, f
<1>6. CASE ~h.paused
  <2>1. h' = typed /\ UNCHANGED c2d
    BY <1>1, <1>2, <1>5, <1>6
  <2> QED
    BY <1>1, <1>4, <2>1 DEF UserDoes
<1>7. CASE h.paused /\ (h.reported \/ h.sending)
  <2>1. f = told
    BY <1>2, <1>3, <1>7 DEF SendOverride
  <2>2. h' = told /\ UNCHANGED c2d
    BY <1>3, <1>5, <2>1
  <2> QED
    BY <1>3, <1>4, <1>7, <2>2 DEF UserDoes
<1>8. CASE h.paused /\ ~h.reported /\ ~h.sending
  <2>1. f = [told EXCEPT !.sending = TRUE, !.stale = FALSE, !.report = @ + 1]
    BY <1>2, <1>3, <1>8, Zenon DEF SendOverride
  <2>2. /\ f.paused = h.paused /\ f.pid = h.pid /\ f.reported = h.reported /\ f.done = h.done
        /\ f.typed /\ ~f.stale /\ f.submitted /\ f.sending
    BY <1>3, <2>1 DEF Memory
  <2>3. h' = f /\ c2d' = Append(c2d, Message("submitted", f.report))
    BY <1>5, <1>8, <2>2
  <2> QED
    BY <1>4, <1>8, <2>2, <2>3 DEF UserDoes
<1> QED
  BY <1>6, <1>7, <1>8

LEMMA InputKeeps ==
    ASSUME TypeOK, LinkInv, PauseOK, UserDoes,
           UNCHANGED <<sup, cmds, issued, d2c, conn, link, served, up, provisional, queue>>
    PROVE  LinkInv' /\ PauseOK' /\ (StopOK => StopOK')
<1>1. /\ h'.paused = h.paused /\ h'.pid = h.pid /\ h'.reported = h.reported /\ h'.done = h.done
      /\ h'.typed /\ ~h'.stale /\ w' = w /\ ran' = ran
      /\ h'.submitted = h.submitted \/ (h.paused /\ h'.submitted)
  BY DEF UserDoes
<1>2. c2d \in Seq(ToDaemon) /\ h \in Memory
  BY DEF TypeOK, LinkTypeOK, HandlerTypeOK
<1>3. h.submitted => h'.submitted
  BY <1>1
<1>4. CommandsInv(sup, cmds, issued)' /\ RecordInv(sup, cmds, issued)'
  BY <1>1 DEF PauseOK, PauseInv, CommandsInv, RecordInv, InPause, First, Flying
<1>5. /\ \A i \in 1 .. Len(c2d) : i \in 1 .. Len(c2d') /\ c2d'[i] = c2d[i]
      /\ \A i \in 1 .. Len(c2d') : Submits(c2d'[i]) \/ (i \in 1 .. Len(c2d) /\ c2d'[i] = c2d[i])
      /\ UNCHANGED c2d \/ h.paused
  <2>1. CASE UNCHANGED c2d
    BY <2>1
  <2>2. CASE h.paused /\ c2d' = Append(c2d, Message("submitted", h'.report))
    <3> DEFINE m == Message("submitted", h'.report)
    <3>1. Submits(m) /\ c2d' = Append(c2d, m)
      BY <2>2 DEF Message, Submits
    <3> HIDE DEF m
    <3>2. /\ \A i \in 1 .. Len(c2d) : i \in 1 .. Len(c2d') /\ c2d'[i] = c2d[i]
          /\ \A i \in 1 .. Len(c2d') : c2d'[i] = m \/ (i \in 1 .. Len(c2d) /\ c2d'[i] = c2d[i])
      BY <1>2, <3>1
    <3> QED
      BY <2>2, <3>1, <3>2
  <2> QED
    BY <2>1, <2>2 DEF UserDoes
<1>6. \A i \in 1 .. Len(c2d') : Acks(c2d'[i]) => i \in 1 .. Len(c2d) /\ c2d'[i] = c2d[i]
  BY <1>5 DEF Acks, Submits
<1>7. SentInv(cmds, issued, c2d, d2c)' /\ WorkInv(sup, cmds, issued, c2d)'
  BY <1>1, <1>3, <1>6 DEF PauseOK, PauseInv, SentInv, WorkInv, Flying, First, Begun, InPause, Acks, Asks, Notes
<1>8. AckInv(cmds, issued, c2d)'
  <2>1. CASE UNCHANGED c2d
    BY <1>1, <2>1 DEF PauseOK, PauseInv, AckInv, Flying, First, Begun, InPause, Acks, Submits
  <2>2. CASE h.paused
    <3>1. \A i \in 1 .. Len(c2d) : Acks(c2d[i]) => First(cmds, "pause")
      BY <2>2 DEF PauseOK, PauseInv, AckInv
    <3> QED
      BY <1>1, <1>6, <3>1 DEF PauseOK, PauseInv, AckInv, Flying, First, Begun, InPause, Acks
  <2> QED
    BY <1>5, <2>1, <2>2
<1>9. ReportInv(sup, cmds, issued, c2d, d2c)' /\ KnowsInv(sup, cmds, issued)'
  <2>1. CASE h'.sending = h.sending /\ h'.report = h.report /\ UNCHANGED c2d
    <3>1. ReportInv(sup, cmds, issued, c2d, d2c)'
      BY <1>1, <1>3, <2>1 DEF PauseOK, PauseInv, ReportInv, First, Submits, Notes
    <3>2. KnowsInv(sup, cmds, issued)'
      BY <1>1, <2>1 DEF PauseOK, PauseInv, KnowsInv, First
    <3> QED
      BY <3>1, <3>2
  <2>2. CASE /\ h.paused /\ ~h.sending /\ ~h.reported /\ h'.sending /\ h'.submitted
             /\ c2d' = Append(c2d, Message("submitted", h'.report))
    <3> DEFINE m == Message("submitted", h'.report)
    <3>1. Submits(m) /\ c2d' = Append(c2d, m) /\ m.no = h'.report
      BY <2>2 DEF Message, Submits
    <3> HIDE DEF m
    <3>2. /\ \A i \in 1 .. Len(c2d) : ~Submits(c2d[i])
          /\ \A i \in 1 .. Len(d2c) : ~Notes(d2c[i])
      BY <2>2 DEF PauseOK, PauseInv, ReportInv
    <3>3. Len(c2d') \in 1 .. Len(c2d') /\ c2d'[Len(c2d')] = m
          /\ \A i \in 1 .. Len(c2d') : (i \in 1 .. Len(c2d) /\ c2d'[i] = c2d[i]) \/ i = Len(c2d')
      BY <1>2, <3>1
    <3>4. \A i \in 1 .. Len(c2d') : Submits(c2d'[i]) => i = Len(c2d') /\ c2d'[i] = m
      BY <3>2, <3>3
    <3>5. (sup.state = "paused" /\ h.pid = issued) \/ First(cmds, "resume")
      BY <2>2 DEF PauseOK, PauseInv, KnowsInv
    <3>6. h.pid = issued
      BY <3>5 DEF PauseOK, PauseInv, CommandsInv
    <3>7. (sup.state = "paused" /\ h.paused) \/ First(cmds, "resume")
      BY <2>2, <3>5
    <3>8. ReportInv(sup, cmds, issued, c2d, d2c)'
      BY <1>1, <2>2, <3>1, <3>2, <3>3, <3>4, <3>6, <3>7 DEF ReportInv, First, Submits, Notes
    <3>9. KnowsInv(sup, cmds, issued)'
      BY <2>2 DEF KnowsInv
    <3> QED
      BY <3>8, <3>9
  <2> QED
    BY <2>1, <2>2 DEF UserDoes
<1>10. DraftInv(sup, cmds, c2d)'
  BY <1>1 DEF DraftInv
<1>11. AckBusy(c2d)' <=> AckBusy(c2d)
  BY <1>1, <1>5, <1>6 DEF AckBusy, Acks
<1>12. StopOK => StopOK'
  <2>1. esc' = "cut" => esc = "cut" /\ h'.submitted = h.submitted
    BY DEF UserDoes
  <2>2. First(cmds', "resume") <=> First(cmds, "resume")
    OBVIOUS
  <2>3. Prompted(cmds') <=> Prompted(cmds)
    OBVIOUS
  <2>4. PastEsc' <=> PastEsc
    BY <1>1 DEF PastEsc
  <2>5. Interrupted(sup, c2d) => Interrupted(sup, c2d)'
    BY <1>11, <2>4 DEF Interrupted
  <2>6. StopOK => (esc' = "cut" => Prompted(cmds) \/ (Interrupted(sup, c2d)' /\ sup.state = "paused" /\ ~h'.submitted))
    BY <2>1, <2>5 DEF StopOK, StopInv
  <2>7. StopOK => (esc' = "cut" => \A i \in 1 .. Len(c2d') :
                      Acks(c2d'[i]) /\ c2d'[i].result = "injected" => ~First(cmds, "resume"))
    BY <1>6, <2>1 DEF StopOK, StopInv
  <2> QED
    BY <1>1, <2>1, <2>2, <2>3, <2>6, <2>7 DEF StopOK, StopInv, Acks
<1>13. LinkInv'
  <2>1. link = "up" => \A i \in 1 .. Len(c2d') : c2d'[i].kind # "register"
    BY <1>5 DEF LinkInv, Submits
  <2>2. link # "up" => UNCHANGED c2d /\ h'.sending = h.sending /\ h'.submitted = h.submitted
    BY <1>1 DEF LinkInv, UserDoes
  <2>3. link # "up" => esc' = "none"
    BY DEF LinkInv, UserDoes
  <2> QED
    BY <1>1, <2>1, <2>2, <2>3 DEF LinkInv
<1> QED
  BY <1>4, <1>7, <1>8, <1>9, <1>10, <1>12, <1>13 DEF PauseOK, PauseInv

LEMMA UserReliable ==
    ASSUME TypeOK, LinkInv, PauseOK, User
    PROVE  LinkInv' /\ PauseOK' /\ (StopOK => StopOK')
<1>1. h \in Memory /\ ~h.stale /\ issued \in Nat
  BY DEF TypeOK, HandlerTypeOK, DaemonTypeOK, LinkInv
<1>2. UNCHANGED <<sup, cmds, issued, d2c, conn, link, served, up, provisional, queue>>
  BY DEF User, daemonVars
<1>3. UserDoes
  <2>1. CASE UserTypes(issued) /\ UNCHANGED c2d
    BY <1>1, <2>1, Types
  <2>2. CASE UserSubmits /\ Reports(Submitted(issued), link = "up")
    <3>1. h.paused => link = "up"
      BY DEF LinkInv
    <3> QED
      BY <1>1, <2>2, <3>1, UserSubmitsAs
  <2> QED
    BY <2>1, <2>2 DEF User
<1> QED
  BY <1>2, <1>3, InputKeeps

\* Nothing that the invariant speaks of changes, but an ESC's turn may go on by itself.
LEMMA NothingHappens ==
    ASSUME LinkInv, PauseOK, esc' = esc \/ (esc = "cut" /\ esc' = "sent"),
           UNCHANGED <<sup, cmds, issued, c2d, d2c, conn, link, served, up, provisional, queue,
                       h, w, ran, touched>>
    PROVE  LinkInv' /\ PauseOK' /\ (StopOK => StopOK')
<1>1. LinkInv'
  BY DEF LinkInv
<1>2. PauseOK'
  BY EngineKeeps DEF PauseOK
<1>3. StopOK => StopOK'
  BY DEF StopOK, StopInv, Prompted, First, Interrupted, PastEsc, AckBusy, Acks
<1> QED
  BY <1>1, <1>2, <1>3

LEMMA AroundReliable ==
    ASSUME LinkInv, PauseOK, Around
    PROVE  LinkInv' /\ PauseOK' /\ (StopOK => StopOK')
<1>1. UNCHANGED <<sup, cmds, issued, c2d, d2c, conn, link, served, up, provisional, queue,
                  h, w, ran, touched>>
  BY DEF Around, GapPasses, ClaudeMoves, daemonVars, linkVars
<1>2. esc' = esc \/ (esc = "cut" /\ esc' = "sent")
  BY DEF Around, GapPasses, ClaudeMoves
<1> QED
  BY <1>1, <1>2, NothingHappens

-----------------------------------------------------------------------------
(* The invariant of a reliable connection. *)

Reliable == MaxDrops = 0 /\ MaxTimeouts = 0 /\ ~ManualResume

\* No connection has broken and no answer was late.
CountsInv == drops = 0 /\ timeouts = 0

LEMMA InitReliable ==
    ASSUME Init
    PROVE  LinkInv /\ PauseOK /\ StopOK
<1>1. /\ Len(<<>>) = 0 /\ 1 .. Len(<<>>) = {}
      /\ c2d = <<>> /\ d2c = <<>> /\ cmds = <<>> /\ queue = <<>> /\ issued = 0
      /\ sup.state = "none" /\ up /\ ~provisional /\ link = "down" /\ ~served
  BY DEF Init, NoSup
<1>2. /\ w.pc = "idle" /\ ran = {} /\ esc = "none" /\ ~touched
      /\ ~h.paused /\ ~h.sending /\ ~h.submitted /\ ~h.stale /\ h.pid = 0 /\ h.done.id = 0
  BY DEF Init, HandlerInit, NoWork, NoDone
<1>3. LinkInv
  BY <1>1, <1>2 DEF LinkInv
<1>4. CommandsInv(sup, cmds, issued) /\ RecordInv(sup, cmds, issued) /\ KnowsInv(sup, cmds, issued)
  BY <1>1, <1>2 DEF CommandsInv, RecordInv, KnowsInv, First
<1>5. SentInv(cmds, issued, c2d, d2c) /\ WorkInv(sup, cmds, issued, c2d) /\ AckInv(cmds, issued, c2d)
  BY <1>1, <1>2 DEF SentInv, WorkInv, AckInv
<1>6. ReportInv(sup, cmds, issued, c2d, d2c) /\ DraftInv(sup, cmds, c2d)
  BY <1>1, <1>2 DEF ReportInv, DraftInv
<1>7. StopOK
  BY <1>1, <1>2 DEF StopOK, StopInv, PauseSteps
<1> QED
  BY <1>3, <1>4, <1>5, <1>6, <1>7 DEF PauseOK, PauseInv

LEMMA NextReliable ==
    ASSUME Reliable, PauseProtocolAssumption, TypeOK, CountsInv,
           LinkInv, PauseOK, Next
    PROVE  CountsInv' /\ LinkInv' /\ PauseOK' /\ (StopOK => StopOK')
<1>1. ~OpResumeStep /\ ~AckTimeout /\ ~ReapStep /\ ~Drop /\ ~Crash /\ ~Restart /\ ~ReportTimeout
  <2>1. ~OpResumeStep
    BY DEF Reliable, OpResumeStep, OpResume
  <2>2. ~ReapStep /\ ~Restart
    BY DEF LinkInv, ReapStep, Reap, Restart
  <2>3. ~(drops < MaxDrops) /\ ~(timeouts < MaxTimeouts)
    BY DEF Reliable, CountsInv
  <2>4. ~AckTimeout /\ ~ReportTimeout
    BY <2>3 DEF AckTimeout, ReportTimeout
  <2>5. ~Drop /\ ~Crash
    BY <2>3 DEF Drop, Crash, Cut
  <2> QED
    BY <2>1, <2>2, <2>4, <2>5
<1>2. CountsInv'
  BY <1>1 DEF Next, CountsInv, HoldStep, Tick, StartCmd, DaemonReads, Connect, LauncherReads,
         SendAck, Handle, User, Around, linkVars
<1>3. LinkInv' /\ PauseOK' /\ (StopOK => StopOK')
  BY <1>1, TickReliable, StartCmdReliable, DaemonReadsReliable, ConnectReliable,
     LauncherReadsReliable, SendAckReliable, HandleReliable, UserReliable, AroundReliable DEF Next
<1> QED
  BY <1>2, <1>3

LEMMA StutterReliable ==
    ASSUME CountsInv, LinkInv, PauseOK, UNCHANGED vars
    PROVE  CountsInv' /\ LinkInv' /\ PauseOK' /\ (StopOK => StopOK')
<1>1. UNCHANGED <<sup, cmds, issued, c2d, d2c, conn, link, served, up, provisional, queue,
                  h, w, ran, touched, esc, drops, timeouts>>
  BY DEF vars, handlerVars, daemonVars, linkVars
<1> QED
  BY <1>1, NothingHappens DEF CountsInv

\* What holds in every state of a reliable connection.
LEMMA AlwaysReliable == Reliable => (Spec => [](TypeOK /\ CountsInv /\ LinkInv /\ PauseOK))
<1> SUFFICES ASSUME Reliable
             PROVE  Spec => [](TypeOK /\ CountsInv /\ LinkInv /\ PauseOK)
  OBVIOUS
<1> DEFINE Inv == CountsInv /\ LinkInv /\ PauseOK
<1>1. Init => Inv
  BY InitReliable DEF Init, CountsInv
<1>2. TypeOK /\ Inv /\ [Next]_vars => Inv'
  BY NextReliable, StutterReliable, PauseProtocolAssumption
<1> QED
  BY <1>1, <1>2, TypeCorrect, PTL DEF Spec

-----------------------------------------------------------------------------
(* What follows from it. *)

\* A busy worker goes on by a step of its own.
LEMMA WorkerOnly ==
    ASSUME TypeOK, [Next]_vars, w.pc \in PauseSteps \cup ResumeSteps, w'.pc # w.pc
    PROVE  HandlerStep
<1>1. w.pc # "idle" /\ w.pc # "ack" /\ w' # w
  BY DEF PauseSteps, ResumeSteps
<1>2. UNCHANGED vars => w' = w
  BY DEF vars, handlerVars
<1>3. OpResumeStep \/ ReapStep \/ HoldStep \/ Tick \/ Restart => w' = w
  BY DEF OpResumeStep, OpResume, ReapStep, Reap, HoldStep, Tick, Restart, launcherVars, handlerVars
<1>4. StartCmd \/ AckTimeout \/ DaemonReads \/ Connect => w' = w
  BY DEF StartCmd, AckTimeout, DaemonReads, Connect, launcherVars, handlerVars
<1>5. Drop \/ Crash \/ ReportTimeout \/ User \/ Around => w' = w
  BY DEF Drop, Crash, Cut, ReportTimeout, User, UserTypes, UserSubmits, Around, GapPasses, ClaudeMoves
<1>6. LauncherReads => w' = w
  <2> SUFFICES ASSUME LauncherReads
               PROVE  w' = w
    OBVIOUS
  <2>1. Head(d2c) \in ToLauncher
    BY MessageTaken DEF LauncherReads
  <2>2. CASE Head(d2c).kind = "registered"
    BY <2>2, Zenon DEF LauncherReads
  <2>3. CASE Head(d2c).kind = "cmd"
    <3>1. UNCHANGED handlerVars
      BY <1>1, <2>3, Zenon DEF LauncherReads
    <3> QED
      BY <3>1 DEF handlerVars
  <2>4. CASE Head(d2c).kind = "noted"
    BY <2>4, Zenon DEF LauncherReads
  <2> QED
    BY <2>1, <2>2, <2>3, <2>4 DEF ToLauncher
<1>7. ~SendAck
  BY <1>1 DEF SendAck
<1> QED
  BY <1>1, <1>2, <1>3, <1>4, <1>5, <1>6, <1>7 DEF Next, Handle

\* A launcher in a pause that the daemon ended reported an override, or a command or the
\* report's answer is still on its way to it.
THEOREM LauncherNotStuck == Reliable => (Spec => []NotStuckPaused)
<1> SUFFICES ASSUME Reliable
             PROVE  Spec => []NotStuckPaused
  OBVIOUS
<1>1. PauseOK => NotStuckPaused
  BY DEF PauseOK, PauseInv, KnowsInv, NotStuckPaused, Quiet, First
<1> QED
  BY <1>1, AlwaysReliable, PTL

\* The turn of a session known to be busy that an ESC cut off goes on: the session is paused, or
\* the prompt or its refusal is on its way.
THEOREM NoTurnLost == Reliable => (Spec => []NoSilentStop)
<1> SUFFICES ASSUME Reliable
             PROVE  Spec => []NoSilentStop
  OBVIOUS
<1> DEFINE Inv == TypeOK /\ CountsInv /\ LinkInv /\ PauseOK
<1>1. Init => StopOK
  BY InitReliable
<1>2. Inv /\ StopOK /\ [Next]_vars => StopOK'
  BY NextReliable, StutterReliable, PauseProtocolAssumption
<1>3. StopOK => NoSilentStop
  <2> SUFFICES ASSUME StopOK, Quiet, sup.state # "paused", esc = "cut"
               PROVE  FALSE
    BY DEF NoSilentStop
  <2> QED
    BY DEF StopOK, StopInv, Quiet, Prompted, First
<1>4. Spec => []Inv
  BY AlwaysReliable
<1> QED
  BY <1>1, <1>2, <1>3, <1>4, PTL DEF Spec

\* The prompt is pasted by a worker that checked for typing, and no typing since the pause's
\* first ESC was forgotten on the way.
THEOREM DraftNotJoined == Reliable => (Spec => DraftSafe)
<1> SUFFICES ASSUME Reliable
             PROVE  Spec => DraftSafe
  OBVIOUS
<1> DEFINE Inv == TypeOK /\ CountsInv /\ LinkInv /\ PauseOK
<1>1. Inv /\ [Next]_vars => [w.pc = "pasteguard" /\ w'.pc = "submit" => ~touched]_vars
  <2> SUFFICES ASSUME TypeOK, PauseOK, [Next]_vars, w.pc = "pasteguard", w'.pc = "submit"
               PROVE  ~touched
    OBVIOUS
  <2>1. HandlerStep
    BY WorkerOnly DEF ResumeSteps
  <2>2. Paste
    <3>1. ~GuardGivesUp
      BY DEF GuardGivesUp, TypeOK, HandlerTypeOK, Work
    <3> QED
      BY <2>1, <3>1 DEF HandlerStep, Look, FirstEsc, Verify, SecondEsc, Chord, Key, SweepRow,
         FinalEsc, EndPause, WaitIdle, Submit
  <2>3. ~h.typed
    BY <2>2 DEF Paste, Answer, TypeOK, HandlerTypeOK, Work
  <2>4. Prompted(cmds)
    BY DEF PauseOK, PauseInv, WorkInv, Prompted, ResumeSteps
  <2> QED
    BY <2>3, <2>4 DEF PauseOK, PauseInv, DraftInv
<1>2. Spec => []Inv
  BY AlwaysReliable
<1> QED
  BY <1>1, <1>2, PTL DEF Spec, DraftSafe

\* Once the daemon's record says that the user overrode the pause, no ESC of that pause follows:
\* the submit that the daemon recorded is one that the worker sees before each ESC.  An ESC between
\* the submit and the daemon's reading of it is not what this is about.
THEOREM OverrideStopsEsc == Reliable => (Spec => NoEscAfterOverride)
<1> SUFFICES ASSUME Reliable
             PROVE  Spec => NoEscAfterOverride
  OBVIOUS
<1> DEFINE Inv == TypeOK /\ CountsInv /\ LinkInv /\ PauseOK
<1>1. Inv /\ [Next]_vars => [EscWritten => ~(sup.state = "overridden" /\ sup.id = w.id)]_vars
  <2> SUFFICES ASSUME TypeOK, PauseOK, [Next]_vars, EscWritten
               PROVE  sup.state # "overridden"
    OBVIOUS
  <2>1. w.pc \in {"guard", "again", "final"} /\ w.pc \in PauseSteps /\ w'.pc # w.pc
        /\ w'.pc \in {"verify", "gap", "last"}
    BY DEF EscWritten, PauseSteps
  <2>2. HandlerStep
    BY <2>1, WorkerOnly
  <2>3. FirstEsc \/ SecondEsc \/ FinalEsc
    <3>1. ~GuardGivesUp
      BY <2>1 DEF GuardGivesUp, TypeOK, HandlerTypeOK, Work
    <3> QED
      BY <2>1, <2>2, <3>1 DEF HandlerStep, Look, Verify, Chord, Key, SweepRow, EndPause,
         WaitIdle, Paste, Submit
  <2>4. ~h.submitted
    BY <2>1, <2>3 DEF FirstEsc, SecondEsc, FinalEsc, FinishPause, Answer, TypeOK, HandlerTypeOK, Work
  <2> QED
    BY <2>1, <2>4 DEF PauseOK, PauseInv, WorkInv
<1>2. Spec => []Inv
  BY AlwaysReliable
<1> QED
  BY <1>1, <1>2, PTL DEF Spec, NoEscAfterOverride
=============================================================================
