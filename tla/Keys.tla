-------------------------------- MODULE Keys --------------------------------
(***************************************************************************)
(* What the user types on its way to claude (launcher/pty_proxy.py):       *)
(* InputFilter takes Ctrl-Z out and sees submits, TypingDetector tells     *)
(* keys from reports of the terminal.  A read may end anywhere, also       *)
(* within an escape sequence; what may be the start of one is held until   *)
(* the next read, or until a timer gives up on it.                         *)
(*                                                                         *)
(* An escape sequence is two pieces: its start and its rest.  ESC itself   *)
(* is a piece that every escape sequence might start with.                 *)
(***************************************************************************)
EXTENDS Naturals, SequencesExt

CONSTANTS
    MaxKeys   \* bound: how much is typed

ASSUME KeysAssumption == MaxKeys \in Nat

Single == {"key", "cr", "backslash", "ctrl_z", "esc"}
Split == {"paste_start", "paste_end", "kitty_ctrl_z", "kitty_enter", "report"}
Stroke == Single \cup Split
Pieces(t) == IF t \in Split THEN << <<t, 1>>, <<t, 2>> >> ELSE << <<t, 0>> >>

VARIABLES
    typed,      \* history: what was typed, "gap" where the timer gave up on nothing but an ESC
    coming,     \* the rest of an escape sequence that the terminal has not written yet
    unread,        \* written and not read
    filter,     \* InputFilter: [in_paste, held, prev]
    detector,   \* TypingDetector: `held`
    toChild,    \* history: all that was passed to claude
    reported,   \* history: whether a submit, a Ctrl-Z and typing were ever reported
    gaveUp         \* history: the timer gave up on an escape sequence that was still to come

keysVars == <<typed, coming, unread, filter, detector, toChild, reported, gaveUp>>

Nothing == <<"nothing", 0>>
KeyPiece == {<<t, 0>> : t \in Single} \cup (Split \X {1, 2})
KeysTypeOK ==
    /\ typed \in Seq(Stroke \cup {"gap"}) /\ {coming, unread, detector, toChild} \subseteq Seq(KeyPiece)
    /\ filter \in [in_paste : BOOLEAN, held : Seq(KeyPiece), prev : KeyPiece \cup {Nothing}]
    /\ reported \in [submit : BOOLEAN, ctrl_z : BOOLEAN, typing : BOOLEAN] /\ gaveUp \in BOOLEAN

KeysInit ==
    /\ typed = <<>> /\ coming = <<>> /\ unread = <<>>
    /\ filter = [in_paste |-> FALSE, held |-> <<>>, prev |-> Nothing]
    /\ detector = <<>> /\ toChild = <<>>
    /\ reported = [submit |-> FALSE, ctrl_z |-> FALSE, typing |-> FALSE]
    /\ gaveUp = FALSE

-----------------------------------------------------------------------------
(* InputFilter, as a fold over the pieces of a read: `start` is a piece    *)
(* that may be the start of an escape sequence.                            *)

MayStart(c) == c[1] = "esc" \/ c[2] = 1
RestOf(s, c) == s[1] = c[1] /\ s[2] = 1 /\ c[2] = 2
Newline(prev) == prev[1] \in {"esc", "backslash"}

\* _pass: bytes for claude.
Pass(r, s) == IF s = <<>> THEN r ELSE [r EXCEPT !.out = @ \o s, !.prev = Last(s)]

\* A key, or a piece of an escape sequence that did not come whole: strip_ctrl_z, _submits.
Key(r, c) ==
    IF r.in_paste THEN Pass(r, <<c>>)
    ELSE IF c[1] = "ctrl_z" THEN [r EXCEPT !.ctrl_z = TRUE]
    ELSE [Pass(r, <<c>>) EXCEPT !.submit = @ \/ (c[1] = "cr" /\ ~Newline(r.prev))]

\* An escape sequence that is in the buffer as a whole.
WholeKey(r, t) ==
    LET passed == Pass(r, Pieces(t)) IN
    IF r.in_paste THEN [passed EXCEPT !.in_paste = (t # "paste_end")]
    ELSE CASE t = "paste_start" -> [passed EXCEPT !.in_paste = TRUE]
           [] t = "kitty_ctrl_z" -> [r EXCEPT !.ctrl_z = TRUE]
           [] t = "kitty_enter" -> [passed EXCEPT !.submit = TRUE]
           [] OTHER -> passed

Released(r) == [FoldLeft(Key, r, r.start) EXCEPT !.start = <<>>]
TakePiece(r, c) ==
    IF r.start # <<>> /\ RestOf(r.start[1], c) THEN WholeKey([r EXCEPT !.start = <<>>], c[1])
    ELSE IF MayStart(c) THEN [Released(r) EXCEPT !.start = <<c>>]
    ELSE Key(Released(r), c)

\* _hold: whether a start at the end of a read waits for the next one.  (`NeverHolds` is a bug that
\* the runs must find.)
Markers(in_paste) == {"esc"} \cup (IF in_paste THEN {"paste_end"} ELSE {"paste_start", "kitty_ctrl_z", "kitty_enter"})
NeverHolds(s, in_paste) == FALSE
Holds(s, in_paste) == s # <<>> /\ s[1][1] \in Markers(in_paste)

\* feed
Feed(data) ==
    LET r == FoldLeft(TakePiece, [out |-> <<>>, in_paste |-> filter.in_paste, prev |-> filter.prev,
                             submit |-> FALSE, ctrl_z |-> FALSE, start |-> <<>>], filter.held \o data)
    IN IF Holds(r.start, r.in_paste) THEN r ELSE Released(r)

-----------------------------------------------------------------------------
\* is_typing: anything but whole reports.
IsTyping(buf) == \E i \in DOMAIN buf :
    ~ \/ buf[i] = <<"report", 1>> /\ i < Len(buf) /\ buf[i + 1] = <<"report", 2>>
      \/ buf[i] = <<"report", 2>> /\ i > 1 /\ buf[i - 1] = <<"report", 1>>

\* TypingDetector.feed: the start of a sequence at the end of a read may become a report.
Detect(data, final) ==
    LET buf == detector \o data
        cutOff == ~final /\ buf # <<>> /\ MayStart(Last(buf))
    IN [typing |-> IsTyping(IF cutOff THEN Front(buf) ELSE buf),
        held |-> IF cutOff THEN <<Last(buf)>> ELSE <<>>]

\* _pass_input
PassInput(data, submit, ctrl_z, final) ==
    LET d == IF data # <<>> \/ final THEN Detect(data, final) ELSE [typing |-> FALSE, held |-> detector]
    IN /\ detector' = d.held
       /\ toChild' = toChild \o data
       /\ reported' = [submit |-> reported.submit \/ submit, ctrl_z |-> reported.ctrl_z \/ ctrl_z,
                       typing |-> reported.typing \/ d.typing]

(* The terminal: a key is typed or a report is due, and the rest of an     *)
(* escape sequence may take until after the next read.                     *)
Type(t) ==
    /\ coming = <<>> /\ Len(SelectSeq(typed, LAMBDA u : u # "gap")) < MaxKeys
    /\ typed' = Append(typed, t)
    /\ unread' = Append(unread, Pieces(t)[1])
    /\ coming' = Tail(Pieces(t))
    /\ UNCHANGED <<filter, detector, toChild, reported, gaveUp>>

Rest ==
    /\ coming # <<>>
    /\ unread' = unread \o coming /\ coming' = <<>>
    /\ UNCHANGED <<typed, filter, detector, toChild, reported, gaveUp>>

(* _on_stdin: reads what there is.                                         *)
Read ==
    /\ unread # <<>>
    /\ LET r == Feed(unread) IN
        /\ filter' = [in_paste |-> r.in_paste, held |-> r.start, prev |-> r.prev]
        /\ PassInput(r.out, r.submit, r.ctrl_z, FALSE)
    /\ unread' = <<>>
    /\ UNCHANGED <<typed, coming, gaveUp>>

(* _flush_held: INPUT_HOLD_S are over.  What was held are keys of their    *)
(* own, and a Return that follows is a submit.                             *)
FlushHeld ==
    /\ filter.held # <<>> \/ detector # <<>>
    /\ PassInput(filter.held, FALSE, FALSE, TRUE)
    /\ filter' = [filter EXCEPT !.held = <<>>, !.prev = Nothing]
    /\ typed' = Append(typed, "gap")
    /\ gaveUp' = (gaveUp \/ coming # <<>> \/ unread # <<>>)
    /\ UNCHANGED <<coming, unread>>

KeysNext == (\E t \in Stroke : Type(t)) \/ Rest \/ Read \/ FlushHeld
KeysSpec == KeysInit /\ [][KeysNext]_keysVars

-----------------------------------------------------------------------------
(* What the keys mean, said without reads.                                 *)

InPaste(i) == \E j \in 1 .. i - 1 : typed[j] = "paste_start" /\ \A k \in j + 1 .. i - 1 : typed[k] # "paste_end"
IsCtrlZ(i) == typed[i] \in {"ctrl_z", "kitty_ctrl_z"} /\ ~InPaste(i)
PassedBefore(i) == {j \in 1 .. i - 1 : ~IsCtrlZ(j)}
NewlineAt(i) == \E j \in PassedBefore(i) : typed[j] \in {"esc", "backslash"} /\ \A k \in PassedBefore(i) : k <= j
IsSubmit(i) == ~InPaste(i) /\ (typed[i] = "kitty_enter" \/ (typed[i] = "cr" /\ ~NewlineAt(i)))
Stroked == FlattenSeq([i \in DOMAIN typed |-> IF typed[i] = "gap" THEN <<>> ELSE Pieces(typed[i])])
Passed == FlattenSeq([i \in DOMAIN typed |-> IF IsCtrlZ(i) \/ typed[i] = "gap" THEN <<>> ELSE Pieces(typed[i])])
Meant == [submit |-> \E i \in DOMAIN typed : IsSubmit(i),
          ctrl_z |-> \E i \in DOMAIN typed : IsCtrlZ(i),
          typing |-> \E i \in DOMAIN typed : typed[i] \notin {"gap", "report"} /\ ~IsCtrlZ(i)]

NoCtrlZ(s) == FlattenSeq([i \in DOMAIN s |-> IF s[i][1] \in {"ctrl_z", "kitty_ctrl_z"} THEN <<>> ELSE <<s[i]>>])

(* Wherever the reads end, claude gets the keys as they were typed but for *)
(* Ctrl-Z, and a submit, a Ctrl-Z and typing are reported if and only if   *)
(* the user did that: a paste, a report, Option-Enter, \ + Enter are none. *)
(* If the timer gave up within a sequence, still nothing is lost, doubled  *)
(* or reordered.                                                           *)
AsTyped ==
    unread = <<>> /\ coming = <<>> /\ filter.held = <<>> /\ detector = <<>> =>
        IF gaveUp
        THEN NoCtrlZ(toChild) = NoCtrlZ(Stroked)
        ELSE toChild = Passed /\ reported = Meant
=============================================================================
