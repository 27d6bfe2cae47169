----------------------------- MODULE ConfigStore -----------------------------
(***************************************************************************)
(* config.json and everyone who writes or follows it: ccs processes        *)
(* (config/store.py, config/cli.py), the menu bar app (Config/             *)
(* ConfigStore.swift), the user's editor, and the daemon that reloads it   *)
(* (daemon/watchers.py, daemon/server.py).                                 *)
(*                                                                         *)
(* A document is its revision, the values of some top-level fields (a      *)
(* value is the number of the edit that wrote it), the profiles and the    *)
(* default one.  The daemon's stat is the number of the file's last write. *)
(***************************************************************************)
EXTENDS Integers, FiniteSets

CONSTANTS
    Cli,             \* ccs processes
    Profile,
    Field,
    NoProfile, NoDoc,
    WritesAtStart,   \* whether the file may be written while a daemon starts
    MaxEdits,        \* bound: changes by ccs and the app
    MaxBreaks,       \* bound: times the file is broken by hand
    MaxKills         \* bound: processes killed

ASSUME ConfigAssumption ==
    /\ NoProfile \notin Profile /\ WritesAtStart \in BOOLEAN
    /\ {MaxEdits, MaxBreaks, MaxKills} \subseteq Nat

VARIABLES
    doc,        \* the file's document, NoDoc when it is missing
    broken,     \* the file is not valid JSON
    stamp,      \* the number of its last write
    cli,        \* what each ccs process does
    app,        \* the app's document and its edits
    daemon,     \* where the daemon is, its config and the stat it remembers
    result,     \* the saved changes one after the other (history)
    configSpent

configVars == <<doc, broken, stamp, cli, app, daemon, result, configSpent>>

Missing == -1
Value == [Field -> 0 .. MaxEdits]
Profiles == [Profile -> {Missing} \cup 0 .. MaxEdits]
Doc == [rev : 0 .. MaxEdits, val : Value, profiles : Profiles, default : Profile \cup {NoProfile}]

\* `seed_config`.
Seed == [rev |-> 0, val |-> [f \in Field |-> 0], profiles |-> [p \in Profile |-> Missing],
         default |-> NoProfile]

Change ==
    [kind : {"set"}, field : Field, profile : {NoProfile}, default : {NoProfile}] \cup
    [kind : {"add", "edit", "default"}, field : {NoProfile}, profile : Profile,
     default : {NoProfile}] \cup
    [kind : {"remove"}, field : {NoProfile}, profile : Profile, default : Profile \cup {NoProfile}]
NoCli == [step |-> "idle", change |-> NoDoc, id |-> 0, read |-> NoDoc, disk |-> NoDoc]

\* A config that is there already.
Existing(p) == [Seed EXCEPT !.profiles = [q \in Profile |-> 0], !.default = p]

ConfigInit ==
    /\ doc \in {NoDoc} \cup {Existing(p) : p \in Profile}
    /\ broken = FALSE /\ stamp = 0
    /\ cli = [c \in Cli |-> NoCli]
    /\ app = [disk |-> NoDoc, edits |-> Seed.val, base |-> Seed.val, conflict |-> FALSE]
    /\ daemon = [at |-> "off", config |-> NoDoc, seen |-> 0]
    /\ result = doc
    /\ configSpent = [edits |-> 0, breaks |-> 0, kills |-> 0]

ConfigTypeOK ==
    /\ doc \in Doc \cup {NoDoc} /\ broken \in BOOLEAN /\ stamp \in Nat
    /\ cli \in [Cli -> [step : {"idle", "seed", "read", "save", "locked"},
                        change : Change \cup {NoDoc}, id : 0 .. MaxEdits,
                        read : Doc \cup {NoDoc}, disk : Doc \cup {NoDoc}]]
    /\ app \in [disk : Doc \cup {NoDoc}, edits : Value, base : Value, conflict : BOOLEAN]
    /\ daemon \in [at : {"off", "loaded", "up", "load"}, config : Doc \cup {NoDoc}, seen : Nat]
    /\ result \in Doc \cup {NoDoc}
    /\ configSpent \in [edits : 0 .. MaxEdits, breaks : 0 .. MaxBreaks, kills : 0 .. MaxKills]

ConfigSpends(what) == configSpent' = [configSpent EXCEPT ![what] = @ + 1]

\* Mutant: nobody takes .config.lock.
NeverLocked == FALSE
\* Somebody holds .config.lock; a process that is killed holds it no longer.
Locked == \E c \in Cli : cli[c].step = "locked"

\* `load_raw` succeeds.
Loads == doc # NoDoc /\ ~broken
Known(d) == {p \in Profile : d.profiles[p] # Missing}

Writes(d) ==
    /\ WritesAtStart \/ daemon.at # "loaded"
    /\ doc' = d /\ broken' = FALSE /\ stamp' = stamp + 1

-----------------------------------------------------------------------------
(* ccs config set, ccs profile add, set and remove. *)

\* What a change makes of document d; the first profile of the document the command read becomes
\* the default one.
Mutated(d, change, id, read) ==
    LET p == change.profile
        next == [d EXCEPT !.rev = @ + 1]
    IN  CASE change.kind = "set" -> [next EXCEPT !.val[change.field] = id]
          [] change.kind = "default" -> [next EXCEPT !.default = p]
          [] change.kind = "edit" -> [next EXCEPT !.profiles[p] = id]
          [] change.kind = "add" ->
                [next EXCEPT !.profiles[p] = id,
                             !.default = IF Known(read) = {} THEN p ELSE @]
          [] change.kind = "remove" ->
                [next EXCEPT !.profiles[p] = Missing,
                             !.default = IF change.default = NoProfile THEN @ ELSE change.default]

\* What a command checks in the config it read.
Accepts(d, change) ==
    /\ change.kind \in {"edit", "remove"} => change.profile \in Known(d)
    /\ change.kind = "remove" =>
        LET kept == Known(d) \ {change.profile}
        IN  /\ change.default \in kept \cup {NoProfile}
            /\ d.default = change.profile /\ kept # {} => change.default # NoProfile

\* What the mutator raises on, and the part of `validate` that changes of others can break.
SaveAccepts(d, change, id, read) ==
    LET new == Mutated(d, change, id, read)
    IN  /\ change.kind = "edit" => change.profile \in Known(d)
        /\ change.kind = "add" => change.profile \notin Known(d)
        /\ new.default # NoProfile /\ Known(new) # {} => new.default \in Known(new)

Cmd(c, step, read) == cli' = [cli EXCEPT ![c].step = step, ![c].read = read]
Fails(c) == cli' = [cli EXCEPT ![c] = NoCli]

\* A command starts; a missing config is seeded first.
BeginCommand(c, change) ==
    /\ cli[c].step = "idle" /\ configSpent.edits < MaxEdits
    /\ cli' = [cli EXCEPT ![c] = [step |-> IF doc = NoDoc THEN "seed" ELSE "read",
                                  change |-> change, id |-> configSpent.edits + 1,
                                  read |-> NoDoc, disk |-> NoDoc]]
    /\ ConfigSpends("edits")
    /\ UNCHANGED <<doc, broken, stamp, app, daemon, result>>

\* `create`, under the lock: only where there is no file.
CreateSeed(c) ==
    /\ cli[c].step = "seed" /\ ~Locked
    /\ IF doc = NoDoc THEN Writes(Seed) /\ result' = Seed
       ELSE UNCHANGED <<doc, broken, stamp, result>>
    /\ Cmd(c, "read", NoDoc)
    /\ UNCHANGED <<app, daemon, configSpent>>

\* The command reads the config and checks its arguments, without the lock.
Read(c) ==
    /\ cli[c].step = "read"
    /\ IF Loads /\ Accepts(doc, cli[c].change) THEN Cmd(c, "save", doc) ELSE Fails(c)
    /\ UNCHANGED <<doc, broken, stamp, app, daemon, result, configSpent>>

\* `save` takes the lock and reads the document it will change, kept in `disk`.
Lock(c) ==
    /\ cli[c].step = "save" /\ ~Locked
    /\ IF Loads THEN cli' = [cli EXCEPT ![c].step = "locked", ![c].disk = doc] ELSE Fails(c)
    /\ UNCHANGED <<doc, broken, stamp, app, daemon, result, configSpent>>

\* It writes what `validate` accepts, and releases the lock.
Save(c) ==
    /\ cli[c].step = "locked"
    /\ LET m == cli[c]
       IN  IF SaveAccepts(m.disk, m.change, m.id, m.read)
           THEN /\ Writes(Mutated(m.disk, m.change, m.id, m.read))
                /\ result' = Mutated(result, m.change, m.id, m.read)
           ELSE UNCHANGED <<doc, broken, stamp, result>>
    /\ Fails(c)
    /\ UNCHANGED <<app, daemon, configSpent>>

CliKilled(c) ==
    /\ cli[c].step # "idle" /\ configSpent.kills < MaxKills
    /\ Fails(c) /\ ConfigSpends("kills")
    /\ UNCHANGED <<doc, broken, stamp, app, daemon, result>>

-----------------------------------------------------------------------------
(* The Settings window. *)

Pending == {f \in Field : app.edits[f] # 0}
NoEdits(d) == [disk |-> d, edits |-> Seed.val, base |-> Seed.val, conflict |-> FALSE]

\* `reloadIfChanged`: not in the middle of editing.
AppReloads ==
    /\ Pending = {} /\ ~app.conflict
    /\ Loads /\ app.disk # doc
    /\ app' = NoEdits(doc)
    /\ UNCHANGED <<doc, broken, stamp, cli, daemon, result, configSpent>>

\* `set`: an edit remembers the value that it replaces.
AppEdits(f) ==
    /\ app.disk # NoDoc /\ ~app.conflict /\ configSpent.edits < MaxEdits
    /\ app' = [app EXCEPT !.edits[f] = configSpent.edits + 1,
                          !.base[f] = IF app.edits[f] = 0 THEN app.disk.val[f] ELSE @]
    /\ ConfigSpends("edits")
    /\ UNCHANGED <<doc, broken, stamp, cli, daemon, result>>

\* `writeLocked`, on the answer to a conflict "keepMine" or "takeTheirs", else "none".  The edits go
\* into the document that is on the disk now.
AppSaves(resolution) ==
    /\ Pending # {} /\ ~Locked /\ Loads
    /\ app.conflict <=> resolution # "none"
    /\ LET clash == {f \in Pending : doc.val[f] \notin {app.base[f], app.edits[f]}}
           mine == IF resolution = "takeTheirs" THEN Pending \ clash ELSE Pending
           Edited(d) == [d EXCEPT !.rev = doc.rev + 1,
                                  !.val = [f \in Field |-> IF f \in mine THEN app.edits[f] ELSE @[f]]]
           new == Edited(doc)
       IN  \/ /\ doc # app.disk /\ clash # {} /\ resolution = "none"
              /\ app' = [app EXCEPT !.conflict = TRUE]
              /\ UNCHANGED <<doc, broken, stamp, result>>
           \/ /\ mine = {}
              /\ app' = NoEdits(doc)
              /\ UNCHANGED <<doc, broken, stamp, result>>
           \/ /\ mine # {}
              /\ doc = app.disk \/ clash = {} \/ resolution # "none"
              /\ Writes(new) /\ app' = NoEdits(new)
              /\ result' = Edited(result)
    /\ UNCHANGED <<cli, daemon, configSpent>>

-----------------------------------------------------------------------------
(* The user breaks the file in an editor, and repairs it. *)

Breaks ==
    /\ Loads /\ configSpent.breaks < MaxBreaks /\ (WritesAtStart \/ daemon.at # "loaded")
    /\ broken' = TRUE /\ stamp' = stamp + 1 /\ ConfigSpends("breaks")
    /\ UNCHANGED <<doc, cli, app, daemon, result>>

Repairs ==
    /\ broken /\ Writes(doc)
    /\ UNCHANGED <<cli, app, daemon, result, configSpent>>

-----------------------------------------------------------------------------
(* The daemon. *)

\* `_load_config`, which seeds a missing file.
DaemonLoads ==
    /\ daemon.at = "off"
    /\ IF doc = NoDoc
       THEN ~Locked /\ doc' = Seed /\ broken' = FALSE /\ stamp' = stamp + 1 /\ result' = Seed
       ELSE UNCHANGED <<doc, broken, stamp, result>>
    /\ daemon' = [at |-> "loaded", config |-> IF broken THEN NoDoc ELSE doc', seen |-> 0]
    /\ UNCHANGED <<cli, app, configSpent>>

\* `mark_seen`, after the socket was opened.
MarkSeen ==
    /\ daemon.at = "loaded"
    /\ daemon' = [daemon EXCEPT !.at = "up", !.seen = stamp]
    /\ UNCHANGED <<doc, broken, stamp, cli, app, result, configSpent>>

Stated(d) == [d EXCEPT !.seen = stamp]
Loaded(d) == [d EXCEPT !.config = IF Loads THEN doc ELSE @]
\* Mutant: the stat is remembered once the file was read.
StatLast(d, first) == IF first THEN Loaded(d) ELSE Stated(d)
\* The two halves of a reload: the stat is remembered before the file is read, and an invalid file
\* leaves the last good config.
Half(d, first) == IF first THEN Stated(d) ELSE Loaded(d)

\* `check_once`, on a changed stat or by force.
Check(force) ==
    /\ daemon.at = "up" /\ (force \/ daemon.seen # stamp)
    /\ daemon' = [Half(daemon, TRUE) EXCEPT !.at = "load"]
    /\ UNCHANGED <<doc, broken, stamp, cli, app, result, configSpent>>

Reload ==
    /\ daemon.at = "load"
    /\ daemon' = [Half(daemon, FALSE) EXCEPT !.at = "up"]
    /\ UNCHANGED <<doc, broken, stamp, cli, app, result, configSpent>>

DaemonKilled ==
    /\ daemon.at # "off" /\ configSpent.kills < MaxKills
    /\ daemon' = [at |-> "off", config |-> NoDoc, seen |-> 0]
    /\ ConfigSpends("kills")
    /\ UNCHANGED <<doc, broken, stamp, cli, app, result>>

ConfigNext ==
    \/ \E c \in Cli :
        \/ \E change \in Change : BeginCommand(c, change)
        \/ CreateSeed(c) \/ Read(c) \/ Lock(c) \/ Save(c) \/ CliKilled(c)
    \/ AppReloads
    \/ \E f \in Field : AppEdits(f)
    \/ \E resolution \in {"none", "keepMine", "takeTheirs"} : AppSaves(resolution)
    \/ Breaks \/ Repairs
    \/ DaemonLoads \/ MarkSeen \/ \E force \in BOOLEAN : Check(force)
    \/ Reload \/ DaemonKilled

ConfigSpec == ConfigInit /\ [][ConfigNext]_configVars

-----------------------------------------------------------------------------
(* Properties. *)

\* The file is what the saved changes make of it one after the other, whoever saved them: no
\* change is lost to a writer that read the file earlier.
ChangesKept == doc = result

\* A daemon that sees no change to the file runs with the config in it, unless it is broken.
DaemonFollows ==
    (daemon.at = "up" /\ daemon.seen = stamp /\ Loads) => daemon.config = doc

=============================================================================
