------------------------- MODULE StatuslineSetting -------------------------
(***************************************************************************)
(* `ccs statusline apply` and `revert` (statusline/apply.py): settings     *)
(* files that Claude Code and the user write too, without a lock, the      *)
(* record of what was replaced, and the backups.  A settings file is its   *)
(* statusLine and its other keys, counted by the writes of others; files   *)
(* that are not valid JSON, and modes and formatting, are left out.        *)
(*                                                                         *)
(* The last check and os.replace are one step: only a stat separates them. *)
(***************************************************************************)
EXTENDS Integers, FiniteSets

CONSTANTS
    Proc,            \* ccs processes
    Dir,             \* config directories a profile may have
    UserLine,        \* statusLine values of the user
    NoLine, NoFile, NoBook,
    SETTINGS_ATTEMPTS,
    MaxOps,          \* bound: applies and reverts
    MaxWrites,       \* bound: writes by others, moves and upgrades
    MaxFaults        \* bound: failed writes and killed processes

Line == {NoLine} \cup UserLine \cup [script : Dir, python : 0 .. MaxWrites]
File == [line : Line, other : 0 .. MaxWrites]
Book == [at : Dir, previous : Line]

ASSUME StatuslineAssumption ==
    /\ NoLine \notin UserLine /\ NoFile \notin UserLine
    /\ ({NoLine} \cup UserLine) \cap [script : Dir, python : 0 .. MaxWrites] = {}
    /\ NoFile \notin File /\ NoBook \notin Book
    /\ SETTINGS_ATTEMPTS \in Nat \ {0}
    /\ {MaxOps, MaxWrites, MaxFaults} \subseteq Nat

VARIABLES
    settings,   \* settings.json of each directory
    book,       \* statusline/<profile>.json: the file written and what it replaced
    backups,    \* settings.json.ccs-backup-*
    dir,        \* the profile's config_dir
    python,     \* the interpreter in the command we write
    run,        \* what each process does
    others,     \* the other keys as Claude Code last wrote them (history)
    users,      \* the statusLine as the user last wrote it (history)
    calm,       \* no process was killed or interrupted, nothing ran beside one, no directory was
                \* left (history)
    unsaved,    \* directories where an interrupt took the copy of the user's line (history)
    lineSpent

lineVars == <<settings, book, backups, dir, python, run, others, users, unsaved, calm, lineSpent>>

Idle == [op |-> "none", step |-> "idle", path |-> NoFile, at |-> NoFile, book |-> NoBook,
         by |-> 0, seen |-> NoFile, previous |-> NoLine, conflict |-> FALSE, tries |-> 0, id |-> 0]

LineInit ==
    /\ \E d \in Dir, l \in UserLine \cup {NoLine} :
        /\ dir = d
        /\ settings = [e \in Dir |->
             IF e = d /\ l # NoLine THEN [line |-> l, other |-> 0] ELSE NoFile]
        /\ users = [e \in Dir |-> IF e = d THEN l ELSE NoLine]
    /\ others = [d \in Dir |-> 0]
    /\ book = NoBook /\ backups = {} /\ python = 0
    /\ run = [c \in Proc |-> Idle]
    /\ calm = TRUE /\ unsaved = {}
    /\ lineSpent = [ops |-> 0, writes |-> 0, faults |-> 0]

LineSpends(what) == lineSpent' = [lineSpent EXCEPT ![what] = @ + 1]
Does(c, r) == run' = [run EXCEPT ![c] = r]
Done(c) == Does(c, Idle)
At(c, s) == run[c].step = s

LineOf(f) == IF f = NoFile THEN NoLine ELSE f.line
OtherOf(f) == IF f = NoFile THEN 0 ELSE f.other
WithLine(f, l) == [line |-> l, other |-> OtherOf(f)]

\* `is_ours`: a line that runs the script of directory d, with any interpreter.
Ours(d, by) == [script |-> d, python |-> by]
IsOurs(l, d) == l \notin UserLine \cup {NoLine} /\ l.script = d

\* Mutant: the file is not looked at again before it is replaced.
NeverChanged(d, read) == TRUE
\* `_unchanged`: the file still holds what was read.
Unchanged(d, read) == settings[d] = read

\* `_backup` of an existing file, one per operation and file.
Copy(r) == IF r.seen = NoFile THEN {} ELSE {[id |-> r.id, at |-> r.at, line |-> r.seen.line]}
\* The copies that `_drop` removes.
Dropped(written, r) == IF written THEN {} ELSE Copy(r)

-----------------------------------------------------------------------------
(* apply and revert begin: each reads the record once. *)

Begin(c, r) ==
    /\ run[c].op = "none" /\ lineSpent.ops < MaxOps
    /\ Does(c, r)
    /\ calm' = (calm /\ \A e \in Proc : run[e].op = "none")
    /\ LineSpends("ops")
    /\ UNCHANGED <<settings, book, backups, dir, python, others, users, unsaved>>

\* A record for another directory is undone first.
BeginApply(c) ==
    LET elsewhere == book # NoBook /\ book.at # dir
    IN  Begin(c, [Idle EXCEPT !.op = "apply", !.path = dir, !.book = book, !.by = python,
                              !.id = lineSpent.ops + 1, !.at = IF elsewhere THEN book.at ELSE dir,
                              !.step = IF elsewhere THEN "undo" ELSE "do"])

BeginRevert(c) ==
    /\ book # NoBook
    /\ Begin(c, [Idle EXCEPT !.op = "revert", !.path = dir, !.book = book, !.id = lineSpent.ops + 1,
                             !.at = book.at, !.step = "undo"])

-----------------------------------------------------------------------------
(* `_revert_recorded`. *)

ReadToUndo(c) ==
    /\ At(c, "undo")
    /\ LET r == run[c]
           f == settings[r.at]
           read == [r EXCEPT !.seen = f, !.step = "undoing"]
       IN  IF IsOurs(LineOf(f), r.at)
           THEN Does(c, read) /\ backups' = backups \cup Copy(read)
           ELSE /\ IF r.op = "revert" THEN Done(c)
                   ELSE Does(c, [r EXCEPT !.conflict = TRUE, !.step = "do", !.tries = 0])
                /\ UNCHANGED backups
    /\ UNCHANGED <<settings, book, dir, python, others, users, unsaved, calm, lineSpent>>

\* The file is replaced by `line` in the version that was read, or read again.
Replace(c, d, line, again, next) ==
    LET r == run[c]
        written == Unchanged(d, r.seen)
    IN  /\ settings' = IF written THEN [settings EXCEPT ![d] = WithLine(r.seen, line)] ELSE settings
        /\ backups' = backups \ Dropped(written, r)
        /\ IF written THEN Does(c, [r EXCEPT !.step = next, !.tries = 0])
           ELSE IF r.tries + 1 < SETTINGS_ATTEMPTS
           THEN Does(c, [r EXCEPT !.step = again, !.tries = @ + 1])
           ELSE Done(c)

Undo(c) ==
    /\ At(c, "undoing")
    /\ Replace(c, run[c].at, run[c].book.previous, "undo", "undone")
    /\ UNCHANGED <<book, dir, python, others, users, unsaved, calm, lineSpent>>

\* The record goes, and an apply carries on without it.
Unbook(c) ==
    /\ At(c, "undone")
    /\ book' = NoBook
    /\ IF run[c].op = "revert" THEN Done(c)
       ELSE Does(c, [run[c] EXCEPT !.book = NoBook, !.step = "do"])
    /\ UNCHANGED <<settings, backups, dir, python, others, users, unsaved, calm, lineSpent>>

-----------------------------------------------------------------------------
(* The loop of `apply`; r.at is the directory the record was for. *)

\* Mutant: what stands there now is what was replaced.
PreviousCurrent(r, line) == line
\* What the line to be replaced stands for.
Previous(r, line) ==
    IF IsOurs(line, r.path) \/ (r.book # NoBook /\ IsOurs(line, r.at))
    THEN IF r.book = NoBook THEN NoLine ELSE r.book.previous
    ELSE line

ReadToApply(c) ==
    /\ At(c, "do")
    /\ LET r == run[c]
           f == settings[r.path]
           line == LineOf(f)
           read == [r EXCEPT !.seen = f, !.previous = Previous(r, line), !.step = "doing"]
       IN  \/ /\ r.conflict /\ ~IsOurs(line, r.at)
              /\ Done(c) /\ UNCHANGED backups
           \/ /\ ~r.conflict \/ IsOurs(line, r.at)
              /\ line = Ours(r.path, r.by)
              /\ IF r.book = NoBook \/ r.at # r.path
                 THEN Does(c, [r EXCEPT !.previous = NoLine, !.step = "note"])
                 ELSE Done(c)
              /\ UNCHANGED backups
           \/ /\ ~r.conflict \/ IsOurs(line, r.at)
              /\ line # Ours(r.path, r.by)
              /\ Does(c, read) /\ backups' = backups \cup Copy(read)
    /\ UNCHANGED <<settings, book, dir, python, others, users, unsaved, calm, lineSpent>>

Apply(c) ==
    /\ At(c, "doing")
    /\ Replace(c, run[c].path, Ours(run[c].path, run[c].by), "do", "record")
    /\ UNCHANGED <<book, dir, python, others, users, unsaved, calm, lineSpent>>

\* `_write_bookkeeping`.
WriteBook(c) ==
    /\ run[c].step \in {"record", "note"}
    /\ book' = [at |-> run[c].path, previous |-> run[c].previous]
    /\ Done(c)
    /\ UNCHANGED <<settings, backups, dir, python, others, users, unsaved, calm, lineSpent>>

\* It cannot be written, or Ctrl-C comes after it was (the directory is synced last): `_rollback`,
\* unless somebody wrote the settings since.
WriteBookFails(c) ==
    /\ run[c].step \in {"record", "note"} /\ lineSpent.faults < MaxFaults
    /\ LET r == run[c]
           undoes == r.step = "record" /\ Unchanged(r.path, WithLine(r.seen, Ours(r.path, r.by)))
       IN  /\ settings' = IF undoes THEN [settings EXCEPT ![r.path] = r.seen] ELSE settings
           /\ \/ calm' = (calm /\ (undoes \/ r.step = "note")) /\ UNCHANGED book
              \/ calm' = FALSE /\ book' = [at |-> r.path, previous |-> r.previous]
    /\ Done(c) /\ LineSpends("faults")
    /\ UNCHANGED <<backups, dir, python, others, users, unsaved>>

\* Writing the new settings file fails, or is interrupted, before os.replace.
ReplaceFails(c) ==
    /\ run[c].step \in {"undoing", "doing"} /\ lineSpent.faults < MaxFaults
    /\ backups' = backups \ Dropped(FALSE, run[c])
    /\ Done(c) /\ LineSpends("faults")
    /\ UNCHANGED <<settings, book, dir, python, others, users, unsaved, calm>>

\* Ctrl-C after os.replace, before `_replace_if_unchanged` returns: its callers drop the backup as
\* though nothing was written, and there is no record of what was.
ReplaceInterrupted(c) ==
    /\ lineSpent.faults < MaxFaults
    /\ LET r == run[c]
       IN  \/ /\ r.step = "undoing" /\ Unchanged(r.at, r.seen)
              /\ settings' = [settings EXCEPT ![r.at] = WithLine(r.seen, r.book.previous)]
              /\ UNCHANGED unsaved
           \/ /\ r.step = "doing" /\ Unchanged(r.path, r.seen)
              /\ settings' = [settings EXCEPT ![r.path] = WithLine(r.seen, Ours(r.path, r.by))]
              /\ unsaved' = IF LineOf(r.seen) \in UserLine THEN unsaved \cup {r.path} ELSE unsaved
    /\ backups' = backups \ Dropped(FALSE, run[c])
    /\ Done(c) /\ calm' = FALSE /\ LineSpends("faults")
    /\ UNCHANGED <<book, dir, python, others, users>>

\* Killed, or interrupted where there is nothing to clean up.
CcsKilled(c) ==
    /\ run[c].op # "none" /\ lineSpent.faults < MaxFaults
    /\ Done(c) /\ calm' = FALSE /\ LineSpends("faults")
    /\ UNCHANGED <<settings, book, backups, dir, python, others, users, unsaved>>

-----------------------------------------------------------------------------
(* Others. *)

Write(d, f) ==
    /\ lineSpent.writes < MaxWrites /\ LineSpends("writes")
    /\ settings' = [settings EXCEPT ![d] = f]
    /\ UNCHANGED <<book, backups, python, run, calm>>

ClaudeWrites(d) ==
    /\ Write(d, [line |-> LineOf(settings[d]), other |-> lineSpent.writes + 1])
    /\ others' = [others EXCEPT ![d] = lineSpent.writes + 1]
    /\ UNCHANGED <<dir, users, unsaved>>

UserWrites(d, l) ==
    /\ l # LineOf(settings[d])
    /\ Write(d, WithLine(settings[d], l))
    /\ users' = [users EXCEPT ![d] = l] /\ unsaved' = unsaved \ {d}
    /\ UNCHANGED <<dir, others>>

\* A file with our line for another directory: its own had that name when it was written.
Stray(d) == LineOf(settings[d]) \notin UserLine \cup {NoLine} /\ ~IsOurs(LineOf(settings[d]), d)

\* The profile gets another directory, or its directory another name.
ChangesDir(e) ==
    /\ e # dir
    /\ lineSpent.writes < MaxWrites /\ LineSpends("writes")
    /\ dir' = e
    /\ \/ UNCHANGED <<settings, others, users, unsaved>>
       \/ /\ settings[dir] # NoFile /\ settings[e] = NoFile
          /\ settings' = [settings EXCEPT ![e] = settings[dir], ![dir] = NoFile]
          /\ others' = [others EXCEPT ![e] = others[dir], ![dir] = 0]
          /\ users' = [users EXCEPT ![e] = users[dir], ![dir] = NoLine]
          /\ unsaved' = (unsaved \ {dir, e}) \cup (IF dir \in unsaved THEN {e} ELSE {})
    /\ calm' = (calm /\ (\A c \in Proc : run[c].op = "none") /\ ~\E d \in Dir : Stray(d))
    /\ UNCHANGED <<book, backups, python, run>>

\* ccs comes to run with another interpreter.
Upgrades ==
    /\ lineSpent.writes < MaxWrites /\ LineSpends("writes")
    /\ python' = python + 1
    /\ UNCHANGED <<settings, book, backups, dir, run, others, users, unsaved, calm>>

LineNext ==
    \/ \E c \in Proc :
        \/ BeginApply(c) \/ BeginRevert(c)
        \/ ReadToUndo(c) \/ Undo(c) \/ Unbook(c)
        \/ ReadToApply(c) \/ Apply(c) \/ WriteBook(c)
        \/ WriteBookFails(c) \/ ReplaceFails(c) \/ ReplaceInterrupted(c) \/ CcsKilled(c)
    \/ \E d \in Dir : ClaudeWrites(d) \/ ChangesDir(d)
    \/ \E d \in Dir, l \in UserLine \cup {NoLine} : UserWrites(d, l)
    \/ Upgrades

LineSpec == LineInit /\ [][LineNext]_lineVars

-----------------------------------------------------------------------------
(* Properties. *)

\* What Claude Code last wrote to the other keys is there: no apply, revert or rollback puts an
\* older version back.
OthersKept == \A d \in Dir : OtherOf(settings[d]) = others[d]

\* A user's statusLine that ccs replaced can be found in a backup, whatever was killed, failed, was
\* interrupted or ran at the same time; except, until the user sets another one, where Ctrl-C came
\* between the os.replace of an apply and its return.
OriginalKept ==
    \A d \in Dir \ unsaved :
        (settings[d] # NoFile /\ settings[d].line \notin UserLine \cup {NoLine}
            /\ users[d] # NoLine) =>
        \E b \in backups : b.line = users[d]

\* Nothing that is not ccs's own gets lost, but for that copy.
SettingsKept == OthersKept /\ OriginalKept

\* A revert puts back what the user had, after any number of applies, directories and
\* interpreters; except after a process was killed or interrupted, ran beside
\* another one or a change of the directory, or could not record what it did, and after a directory
\* that got another name was left for another one before an apply there.
RevertRestores ==
    [][\A c \in Proc :
        (At(c, "undoing") /\ run'[c].step # "undoing" /\ settings' # settings /\ calm) =>
            LineOf(settings'[run[c].at]) = users[run[c].at]]_lineVars

=============================================================================
