------------------------------ MODULE Terminal ------------------------------
(***************************************************************************)
(* The launcher between claude and the user's terminal                     *)
(* (launcher/pty_proxy.py, launcher/term_modes.py): claude's output with   *)
(* the modes it turns on, the buffer in front of a terminal that may stop  *)
(* reading, suspend and fg, and the ways out.                              *)
(*                                                                         *)
(* Output is the escape sequences that change a mode, each in one piece or *)
(* in two that two reads may bring.  `mode` stands for every mode that is  *)
(* only on or off; the kitty keyboard flags are kept per screen.  The      *)
(* buffer includes the kernel's queue, which the proxy drains with it.     *)
(***************************************************************************)
EXTENDS Integers, Sequences, SequencesExt

CONSTANTS
    Output,              \* the sequences that claude writes
    OUT_HIGH, OUT_LOW,   \* pieces buffered when reading claude stops, and goes on
    MaxOutput,           \* bound: sequences that claude writes
    MaxStops,            \* bound: suspends
    MaxStalls            \* bound: times the terminal stops reading

VARIABLES
    at,         \* "run", "stopped" by the shell, or "exited"
    child,      \* claude: "runs", "stopped" or "dead"
    pipe,       \* output that was not read yet
    reading,    \* `_master_on`
    modes,      \* the tracker, with the sequence it has only half of
    obuf,       \* `_obuf` and the kernel's queue
    term,       \* the user's terminal
    tty,        \* its attributes: "raw" or as they were "saved"
    stuck,      \* the terminal reads nothing
    killing,    \* the timer that SIGTERM started
    cut,        \* a suspend came between the two halves of a sequence (history)
    lost,       \* output was given up when the proxy ended (history)
    termSpent

termVars == <<at, child, pipe, reading, modes, obuf, term, tty, stuck, killing, cut, lost,
              termSpent>>

\* The sequences that are tracked; `arg` is the flag, the flags or how many to pop.
Token ==
    [op : {"mode", "alt", "push", "set"}, arg : {0, 1}] \cup [op : {"pop"}, arg : Nat \ {0}] \cup
    [op : {"ris"}, arg : {0}]

ASSUME TerminalAssumption ==
    /\ Output \subseteq Token
    /\ OUT_LOW \in Nat /\ OUT_HIGH \in Nat /\ OUT_LOW <= OUT_HIGH
    /\ {MaxOutput, MaxStops, MaxStalls} \subseteq Nat

NoToken == [op |-> "none", arg |-> 0]
T(op, arg) == [op |-> op, arg |-> arg]
Piece == [token : Token, half : 0 .. 2]
Whole(t) == [token |-> t, half |-> 0]

Defaults == [mode |-> 0, alt |-> 0, kitty |-> [s \in {0, 1} |-> <<0>>], half |-> NoToken]

TermInit ==
    /\ at = "run" /\ child = "runs"
    /\ pipe = <<>> /\ reading = TRUE
    /\ modes = Defaults /\ term = Defaults
    /\ obuf = <<>> /\ tty = "raw"
    /\ stuck = FALSE /\ killing = FALSE /\ cut = FALSE /\ lost = FALSE
    /\ termSpent = [output |-> 0, stops |-> 0, stalls |-> 0]

ModesType ==
    [mode : {0, 1}, alt : {0, 1}, kitty : [{0, 1} -> Seq({0, 1})], half : Token \cup {NoToken}]

TermTypeOK ==
    /\ at \in {"run", "stopped", "exited"} /\ child \in {"runs", "stopped", "dead"}
    /\ pipe \in Seq(Piece) /\ obuf \in Seq(Piece)
    /\ modes \in ModesType /\ term \in ModesType
    /\ tty \in {"raw", "saved"}
    /\ {reading, stuck, killing, cut, lost} \subseteq BOOLEAN
    /\ termSpent \in [output : 0 .. MaxOutput, stops : 0 .. MaxStops, stalls : 0 .. MaxStalls]

TermSpends(what) == termSpent' = [termSpent EXCEPT ![what] = @ + 1]

-----------------------------------------------------------------------------
(* Modes. *)

\* What one sequence does to the modes of a terminal; the kitty ones go to the screen shown.
Applied(m, t) ==
    LET stack == m.kitty[m.alt]
        Stack(s) == [m EXCEPT !.kitty[m.alt] = s]
    IN  CASE t.op = "mode" -> [m EXCEPT !.mode = t.arg]
          [] t.op = "alt" -> [m EXCEPT !.alt = t.arg]
          [] t.op = "push" -> Stack(Append(stack, t.arg))
          [] t.op = "set" -> Stack([stack EXCEPT ![Len(stack)] = t.arg])
          [] t.op = "pop" ->
                Stack(IF t.arg >= Len(stack) THEN <<0>>
                      ELSE SubSeq(stack, 1, Len(stack) - t.arg))
          [] t.op = "ris" -> Defaults

\* `feed` with one piece: half a sequence is carried over.
Fed(m, piece) ==
    IF piece.half = 1 THEN [m EXCEPT !.half = piece.token]
    ELSE Applied([m EXCEPT !.half = NoToken], piece.token)

\* The terminal drops half a sequence when another one begins.
Taken(m, piece) ==
    LET rest == [m EXCEPT !.half = NoToken]
    IN  CASE piece.half = 0 -> Applied(rest, piece.token)
          [] piece.half = 1 -> [m EXCEPT !.half = piece.token]
          [] piece.half = 2 -> IF m.half = piece.token THEN Applied(rest, piece.token) ELSE rest

KittyReset(screen) ==
    LET stack == modes.kitty[screen]
    IN  (IF Len(stack) > 1 THEN <<T("pop", Len(stack) - 1)>> ELSE <<>>) \o
        (IF stack[1] # 0 THEN <<T("set", 0)>> ELSE <<>>)
KittyReplay(screen) ==
    LET stack == modes.kitty[screen]
    IN  (IF stack[1] # 0 THEN <<T("set", stack[1])>> ELSE <<>>) \o
        [i \in 1 .. Len(stack) - 1 |-> T("push", stack[i + 1])]
ModeSet(on) == IF modes.mode = 1 THEN <<T("mode", on)>> ELSE <<>>

\* Mutant: the main screen's flags are reset while the other screen is still shown.
ResetThenLeave ==
    KittyReset(modes.alt) \o ModeSet(0) \o
    (IF modes.alt = 1 THEN KittyReset(0) \o <<T("alt", 0)>> ELSE <<>>)
\* `reset`: the main screen's flags can only be reset once it is shown again.
Reset ==
    KittyReset(modes.alt) \o ModeSet(0) \o
    (IF modes.alt = 1 THEN <<T("alt", 0)>> \o KittyReset(0) ELSE <<>>)

\* `replay`.
Replay ==
    KittyReplay(0) \o (IF modes.alt = 1 THEN <<T("alt", 1)>> \o KittyReplay(1) ELSE <<>>) \o ModeSet(1)

Written(tokens) == [i \in DOMAIN tokens |-> Whole(tokens[i])]

-----------------------------------------------------------------------------
(* Output. *)

ChildWrites(t) ==
    /\ child = "runs" /\ termSpent.output < MaxOutput
    /\ \/ pipe' = Append(pipe, Whole(t))
       \/ pipe' = pipe \o <<[token |-> t, half |-> 1], [token |-> t, half |-> 2]>>
    /\ TermSpends("output")
    /\ UNCHANGED <<at, child, reading, modes, obuf, term, tty, stuck, killing, cut, lost>>

\* `_flush_stdout` stops and starts reading claude's output.
Backpressure(buffer) ==
    reading' = IF Len(buffer) > OUT_HIGH THEN FALSE
               ELSE IF Len(buffer) <= OUT_LOW THEN TRUE ELSE reading

\* `_on_master`: one read, which need not end where a sequence ends.
Reads ==
    /\ at = "run" /\ reading
    /\ \E n \in 1 .. Len(pipe) :
        /\ modes' = FoldLeft(Fed, modes, SubSeq(pipe, 1, n))
        /\ obuf' = obuf \o SubSeq(pipe, 1, n)
        /\ pipe' = SubSeq(pipe, n + 1, Len(pipe))
    /\ Backpressure(obuf')
    /\ UNCHANGED <<at, child, term, tty, stuck, killing, cut, lost, termSpent>>

TerminalReads ==
    /\ ~stuck /\ obuf # <<>> /\ at = "run"
    /\ term' = Taken(term, Head(obuf))
    /\ obuf' = Tail(obuf)
    /\ Backpressure(obuf')
    /\ UNCHANGED <<at, child, pipe, modes, tty, stuck, killing, cut, lost, termSpent>>

TerminalStalls ==
    /\ at # "exited"
    /\ \/ ~stuck /\ termSpent.stalls < MaxStalls /\ TermSpends("stalls")
       \/ stuck /\ UNCHANGED termSpent
    /\ stuck' = ~stuck
    /\ UNCHANGED <<at, child, pipe, reading, modes, obuf, term, tty, killing, cut, lost>>

\* `_drain_stdout`: a terminal that reads gets everything, one that does not is given up on.
Drains(buffer) ==
    IF stuck THEN obuf' = buffer /\ UNCHANGED term
    ELSE obuf' = <<>> /\ term' = FoldLeft(Taken, term, buffer)

-----------------------------------------------------------------------------
(* Suspend. *)

ChildStops ==
    /\ child = "runs" /\ at = "run" /\ termSpent.stops < MaxStops
    /\ child' = "stopped"
    /\ UNCHANGED <<at, pipe, reading, modes, obuf, term, tty, stuck, killing, cut, lost, termSpent>>

\* Ctrl-Z, SIGTSTP or a child that stopped: the terminal is handed back, then the proxy stops.
Suspend ==
    /\ at = "run" /\ termSpent.stops < MaxStops
    /\ Drains(obuf \o Written(Reset))
    /\ tty' = "saved"
    /\ at' = "stopped"
    /\ cut' = (cut \/ modes.half # NoToken)
    /\ TermSpends("stops")
    /\ UNCHANGED <<child, pipe, reading, modes, stuck, killing, lost>>

\* fg.
Continues ==
    /\ at = "stopped"
    /\ at' = "run" /\ tty' = "raw"
    /\ obuf' = obuf \o Written(Replay)
    /\ Backpressure(obuf')
    /\ child' = IF child = "stopped" THEN "runs" ELSE child
    /\ UNCHANGED <<pipe, modes, term, stuck, killing, cut, lost, termSpent>>

-----------------------------------------------------------------------------
(* The end. *)

\* `_on_forward` of SIGTERM or SIGHUP: claude gets it too, and may ignore it.
Terminates ==
    /\ at = "run" /\ child # "dead"
    /\ killing' = TRUE
    /\ UNCHANGED <<at, child, pipe, reading, modes, obuf, term, tty, stuck, cut, lost, termSpent>>

\* `_force_kill` when the grace is over.
ForceKill ==
    /\ at = "run" /\ killing /\ child # "dead"
    /\ child' = "dead"
    /\ UNCHANGED <<at, pipe, reading, modes, obuf, term, tty, stuck, killing, cut, lost, termSpent>>

ChildExits ==
    /\ child = "runs"
    /\ child' = "dead"
    /\ UNCHANGED <<at, pipe, reading, modes, obuf, term, tty, stuck, killing, cut, lost, termSpent>>

\* `_drain_master` for as long as its budget lasts, then `_teardown`.
Ends ==
    /\ at = "run" /\ child = "dead"
    /\ \E n \in 0 .. Len(pipe) :
        LET last == SubSeq(pipe, 1, n)
        IN  /\ modes' = FoldLeft(Fed, modes, last)
            /\ pipe' = SubSeq(pipe, n + 1, Len(pipe))
            /\ LET all == obuf \o last
               IN  IF stuck THEN obuf' = <<>> /\ lost' = TRUE /\ UNCHANGED term
                   ELSE /\ obuf' = <<>> /\ UNCHANGED lost
                        /\ term' = FoldLeft(Taken, term, all \o Written(Reset'))
    /\ tty' = "saved" /\ at' = "exited" /\ killing' = FALSE
    /\ UNCHANGED <<child, reading, stuck, cut, termSpent>>

TermNext ==
    \/ \E t \in Output : ChildWrites(t)
    \/ Reads \/ TerminalReads \/ TerminalStalls
    \/ ChildStops \/ Suspend \/ Continues
    \/ Terminates \/ ForceKill \/ ChildExits \/ Ends

TermSpec == TermInit /\ [][TermNext]_termVars

-----------------------------------------------------------------------------
(* Properties. *)

Shows(m) == [mode |-> m.mode, alt |-> m.alt, kitty |-> m.kitty[m.alt]]

\* The terminal is as whoever has it expects.  The shell, while the proxy is stopped and after its
\* end, has its own attributes, and the modes from before claude once the terminal took the
\* output; claude, in the foreground, has the modes that it turned on.  Wherever reads cut the
\* sequences, on both screens; a suspend in the middle of a sequence is left out, since the
\* terminal never gets that one in whole.
OwnersTerminal ==
    /\ at # "run" => tty = "saved"
    /\ (obuf = <<>> /\ ~lost /\ ~cut) =>
        Shows(term) = Shows(IF at = "run" THEN modes ELSE Defaults)

=============================================================================
