---------------------------- MODULE SessionPause ----------------------------
(***************************************************************************)
(* What pausing promises one session, without daemon, launcher, connection *)
(* or crashes (docs/decisions/0007-pause-resume.md, 0008-limit-policy.md): *)
(* which instances hold it, whether its record says paused, what it was    *)
(* overridden for, and which pauses were begun in its terminal.            *)
(* PauseProtocol implements this.                                          *)
(***************************************************************************)
EXTENDS Naturals

CONSTANTS
    Instance    \* the window instances that may hold the session

VARIABLES
    hold,      \* each instance is "fresh", "held" or "over"
    phase,     \* "none" (no record), "running", "paused" or "overridden"
    over,      \* the instances that the session was overridden for
    pauses,    \* pauses so far
    started    \* the pauses that were begun in the terminal

promiseVars == <<hold, phase, over, pauses, started>>

PromiseInit ==
    /\ hold \in [Instance -> {"fresh", "held"}]
    /\ phase = "none" /\ over = {} /\ pauses = 0 /\ started = {}

Holding == {i \in Instance : hold[i] = "held"}

\* Instances begin to hold the session and end, and none comes back.
HoldsGoOn ==
    /\ hold' \in [Instance -> {"fresh", "held", "over"}]
    /\ \A i \in Instance : /\ hold[i] # "fresh" => hold'[i] # "fresh"
                           /\ hold[i] = "over" => hold'[i] = "over"

Record(p, o, n) == phase' = p /\ over' = o /\ pauses' = n

\* A session starts, anyway or not; what holds it pauses it at once.
Begins ==
    /\ phase = "none"
    /\ \/ Record("running", {}, pauses)
       \/ Holding' # {} /\ Record("overridden", Holding', pauses)
       \/ Holding' # {} /\ Record("paused", {}, pauses + 1)

\* Only something that the session was not overridden for pauses it.
Pauses ==
    /\ phase \in {"running", "overridden"} /\ ~(Holding' \subseteq over)
    /\ Record("paused", over, pauses + 1)

Resumes ==
    /\ phase = "paused" /\ Holding' \subseteq over
    /\ Record("running", over, pauses)

\* The user goes on, by typing or by `ccs resume`: for everything that holds now.
Overrides ==
    /\ phase = "paused"
    /\ \/ Record("overridden", over \cup Holding', pauses)
       \/ Holding' = {} /\ \E o \in {over, {}} : Record("running", o, pauses)

\* Overrides are forgotten only when nothing holds the session.
Forgets ==
    /\ phase = "overridden" /\ Holding' = {}
    /\ Record("running", {}, pauses)

\* The launcher stayed away, and its record is dropped.
IsDropped == Record("none", {}, pauses)

\* A pause is begun in the terminal, and not after a later one.
Starts ==
    \E k \in 1 .. pauses :
        /\ \A r \in started : r < k
        /\ started' = started \cup {k}

PromiseNext ==
    \/ /\ HoldsGoOn /\ UNCHANGED started
       /\ \/ UNCHANGED <<phase, over, pauses>>
          \/ Begins \/ Pauses \/ Resumes \/ Overrides \/ Forgets \/ IsDropped
    \/ Starts /\ UNCHANGED <<hold, phase, over, pauses>>

PromiseSpec == PromiseInit /\ [][PromiseNext]_promiseVars

=============================================================================
