------------------------------ MODULE EventLog ------------------------------
(***************************************************************************)
(* The event log (events.py EventBus, fsio.append_jsonl): dedupe, append,  *)
(* rotation, the remembered keys, and a daemon that may be killed between  *)
(* any two of its writes, or in the middle of one.                         *)
(*                                                                         *)
(* A record is its number, a line the parts of records between two         *)
(* newlines, a file its lines and whether the last one still lacks its     *)
(* newline.  A line reads as a record when it holds one whole record and   *)
(* nothing else.                                                           *)
(***************************************************************************)
EXTENDS Integers, Sequences, SequencesExt, FiniteSets

CONSTANTS
    Key,             \* dedupe keys; an event may also have none
    NoKey,
    ROTATE_KEEP,     \* rotated files kept
    ROTATE_SIZE,     \* the size, in parts of records, from which the log is rotated
    SEEN_MAX,        \* keys remembered
    SEEN_HORIZON,    \* how long a key suppresses
    MaxTime,         \* bound: the clock
    MaxEvents,       \* bound: events emitted
    MaxFailures,     \* bound: writes that fail
    MaxCrashes       \* bound: daemons killed

ASSUME EventLogAssumption ==
    /\ NoKey \notin Key
    /\ {ROTATE_KEEP, ROTATE_SIZE, SEEN_MAX} \subseteq Nat \ {0}
    /\ {SEEN_HORIZON, MaxTime, MaxEvents, MaxFailures, MaxCrashes} \subseteq Nat

VARIABLES
    file,       \* file[0] is events.jsonl, file[i] is events.jsonl.i
    seen,       \* `_seen`: the keys remembered and when, oldest first
    seenFile,   \* the same on disk
    step,       \* what `emit` does next
    event,      \* the event in `emit`: its record number, its key, when it was emitted
    renaming,   \* the next file to rename
    clock,
    logged,     \* the records written in whole, in order (history)
    evicted,    \* keys forgotten within the horizon for want of room (history)
    logSpent    \* what was used of the bounds

logVars == <<file, seen, seenFile, step, event, renaming, clock, logged, evicted, logSpent>>

Record == [n : 1 .. MaxEvents, key : Key \cup {NoKey}, at : 0 .. MaxTime]
RecordPiece == [n : 1 .. MaxEvents, whole : BOOLEAN]
Memory == [key : Key, at : 0 .. MaxTime]
EmptyFile == [lines |-> <<>>, open |-> FALSE]
NoEvent == [n |-> 0, key |-> NoKey, at |-> 0]
Steps == {"off", "idle", "rotate", "append", "remember"}

LogInit ==
    /\ file = [i \in 0 .. ROTATE_KEEP |-> EmptyFile]
    /\ seen = <<>> /\ seenFile = <<>>
    /\ step = "idle" /\ event = NoEvent /\ renaming = 0
    /\ clock = 0
    /\ logged = <<>> /\ evicted = 0
    /\ logSpent = [events |-> 0, failures |-> 0, crashes |-> 0]

LogTypeOK ==
    /\ \A i \in 0 .. ROTATE_KEEP :
        /\ file[i].lines \in Seq(Seq(RecordPiece))
        /\ file[i].open \in BOOLEAN
    /\ seen \in Seq(Memory) /\ seenFile \in Seq(Memory)
    /\ Len(seen) <= SEEN_MAX
    /\ step \in Steps
    /\ event \in Record \cup {NoEvent}
    /\ renaming \in 0 .. ROTATE_KEEP
    /\ clock \in 0 .. MaxTime
    /\ logged \in Seq(Record)
    /\ evicted \in Nat
    /\ logSpent \in [events : 0 .. MaxEvents, failures : 0 .. MaxFailures,
                    crashes : 0 .. MaxCrashes]

LogSpends(what) == logSpent' = [logSpent EXCEPT ![what] = @ + 1]

-----------------------------------------------------------------------------
(* Files. *)

\* `st_size`, in parts of records.
Size(f) == Len(FlattenSeq(f.lines))

\* Mutant: a fragment that lacks its newline is continued.
WriteOn(f, piece, newline) ==
    [lines |-> IF f.open THEN [f.lines EXCEPT ![Len(f.lines)] = Append(@, piece)]
                         ELSE Append(f.lines, <<piece>>),
     open |-> ~newline]
\* append_jsonl: a file that does not end with a newline gets one first.
WriteLine(f, piece, newline) ==
    [lines |-> Append(f.lines, <<piece>>), open |-> ~newline]

\* The records a reader finds in a file: the lines that parse.
Records(f) ==
    LET Read(line) == IF Len(line) = 1 /\ line[1].whole THEN <<line[1].n>> ELSE <<>>
    IN  FlattenSeq([l \in DOMAIN f.lines |-> Read(f.lines[l])])

\* The whole log, the oldest file first.
Log == FlattenSeq([i \in 1 .. ROTATE_KEEP + 1 |-> Records(file[ROTATE_KEEP + 1 - i])])

-----------------------------------------------------------------------------
(* The remembered keys. *)

\* Mutant: a key stops to suppress when the horizon is reached.
LiveShorter(m) == clock - m.at < SEEN_HORIZON
\* What `is_seen` and `_load_seen` still count as remembered.
Live(m) == clock - m.at <= SEEN_HORIZON
Seen(k) == \E i \in DOMAIN seen : seen[i].key = k /\ Live(seen[i])

\* What `_remember` makes of the memory.
Remembering(m) == Append(RemoveFirstMatch(seen, LAMBDA old : old.key = m.key), m)

-----------------------------------------------------------------------------
(* emit. *)

EmitKey(k) ==
    /\ step = "idle" /\ logSpent.events < MaxEvents
    /\ k = NoKey \/ ~Seen(k)
    /\ event' = [n |-> logSpent.events + 1, key |-> k, at |-> clock]
    /\ LogSpends("events")
    /\ IF Size(file[0]) >= ROTATE_SIZE
       THEN step' = "rotate" /\ renaming' = ROTATE_KEEP
       ELSE step' = "append" /\ UNCHANGED renaming
    /\ UNCHANGED <<file, seen, seenFile, clock, logged, evicted>>

\* `_rotate_if_needed` renames one file over the next older one.
Rename ==
    /\ step = "rotate" /\ renaming > 0
    /\ file' = IF file[renaming - 1] = EmptyFile THEN file
               ELSE [file EXCEPT ![renaming] = file[renaming - 1], ![renaming - 1] = EmptyFile]
    /\ renaming' = renaming - 1
    /\ step' = IF renaming = 1 THEN "append" ELSE "rotate"
    /\ UNCHANGED <<seen, seenFile, event, clock, logged, evicted, logSpent>>

\* The record is written in whole and `append_jsonl` returns.
WriteRecord ==
    /\ step = "append"
    /\ file' = [file EXCEPT ![0] = WriteLine(@, [n |-> event.n, whole |-> TRUE], TRUE)]
    /\ logged' = Append(logged, event)
    /\ step' = IF event.key = NoKey THEN "idle" ELSE "remember"
    /\ UNCHANGED <<seen, seenFile, event, renaming, clock, evicted, logSpent>>

\* A write stops early: nothing is left, a part of the record, or all but its newline.
Fragment ==
    \/ UNCHANGED <<file, logged>>
    \/ \E whole \in BOOLEAN :
        /\ file' = [file EXCEPT ![0] = WriteLine(@, [n |-> event.n, whole |-> whole], FALSE)]
        /\ logged' = IF whole THEN Append(logged, event) ELSE logged

\* A rename or the write fails; what was written is truncated away, if that succeeds.  The key is
\* not remembered.
AppendFails ==
    /\ step \in {"rotate", "append"} /\ logSpent.failures < MaxFailures
    /\ IF step = "append" THEN Fragment ELSE UNCHANGED <<file, logged>>
    /\ LogSpends("failures")
    /\ step' = "idle"
    /\ renaming' = 0
    /\ UNCHANGED <<seen, seenFile, event, clock, evicted>>

\* `_remember`, with room for SEEN_MAX keys, and `_save_seen`, which may fail.
Remember ==
    /\ step = "remember"
    /\ LET keys == Remembering([key |-> event.key, at |-> event.at])
           full == Len(keys) > SEEN_MAX
       IN  /\ seen' = IF full THEN Tail(keys) ELSE keys
           /\ evicted' = IF full /\ Live(Head(keys)) THEN evicted + 1 ELSE evicted
           /\ \/ /\ seenFile' = seen'
                 /\ UNCHANGED logSpent
              \/ logSpent.failures < MaxFailures /\ LogSpends("failures") /\ UNCHANGED seenFile
    /\ step' = "idle"
    /\ UNCHANGED <<file, event, renaming, clock, logged>>

\* The daemon is killed, maybe in the middle of the write.
Killed ==
    /\ step # "off" /\ logSpent.crashes < MaxCrashes
    /\ IF step = "append" THEN Fragment ELSE UNCHANGED <<file, logged>>
    /\ LogSpends("crashes")
    /\ step' = "off" /\ seen' = <<>> /\ renaming' = 0
    /\ UNCHANGED <<seenFile, event, clock, evicted>>

\* The next daemon: `_load_seen`.
Restart ==
    /\ step = "off"
    /\ step' = "idle" /\ seen' = seenFile
    /\ UNCHANGED <<file, seenFile, event, renaming, clock, logged, evicted, logSpent>>

Passes ==
    /\ step = "idle" /\ clock < MaxTime
    /\ clock' = clock + 1
    /\ UNCHANGED <<file, seen, seenFile, step, event, renaming, logged, evicted, logSpent>>

LogNext ==
    \/ \E k \in Key \cup {NoKey} : EmitKey(k)
    \/ Rename \/ WriteRecord \/ AppendFails \/ Remember
    \/ Killed \/ Restart \/ Passes

LogSpec == LogInit /\ [][LogNext]_logVars

-----------------------------------------------------------------------------
(* Properties. *)

\* A key that suppresses events, in memory or in the next daemon's, is the key of a record that
\* was logged when it says: an event that could not be logged is never suppressed next time.
RememberedIsLogged ==
    \A m \in Range(seen) \cup Range(seenFile) :
        \E r \in Range(logged) : r.key = m.key /\ r.at = m.at

\* Whatever was killed or failed in between, what can be read of the log is the records as they
\* were logged, in their order, none missing between: a torn record swallows no other, a rotation
\* that was interrupted loses nothing, and only records that two full files follow are dropped.
LogKept ==
    /\ IsSuffix(Log, [i \in DOMAIN logged |-> logged[i].n])
    /\ Len(Log) < Len(logged) =>
        Len(Log) >= ROTATE_KEEP * ROTATE_SIZE - logSpent.failures - logSpent.crashes

\* A key is logged twice within the horizon only where a crash, a failed write or a full memory
\* explains it: each of them makes at most one event repeat.
RepeatsExplained ==
    LET Repeats == {i \in DOMAIN logged :
            \E j \in 1 .. i - 1 :
                /\ logged[i].key # NoKey /\ logged[i].key = logged[j].key
                /\ logged[i].at - logged[j].at <= SEEN_HORIZON}
    IN  Cardinality(Repeats) <= logSpent.failures + logSpent.crashes + evicted

\* 09-notifications.md: "Each limit warns once per window, and pauses and resumes are announced
\* once each".  Once is neither twice nor never: no event is silenced that was not logged, and none
\* repeats without a reason.
Deduped == RememberedIsLogged /\ RepeatsExplained

=============================================================================
