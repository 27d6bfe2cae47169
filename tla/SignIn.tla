------------------------------- MODULE SignIn -------------------------------
(***************************************************************************)
(* Signing one profile in and out: `ccs auth login` and `ccs auth logout`  *)
(* (auth.py, claude_cli.auth_login) as the app or a user runs them, more   *)
(* than one at a time, and the Terminal windows they open.  claude, the    *)
(* browser, the windows and the user are the environment; a run of claude  *)
(* is one step here, that it is killed at its timeout is in ClaudeCli.     *)
(***************************************************************************)
EXTENDS Naturals, FiniteSets

CONSTANTS
    Ccs,   \* the `ccs` processes
    NoCcs

ASSUME SignInAssumption == NoCcs \notin Ccs

VARIABLES
    stage,     \* what a process does
    op,       \* its command: "login" or "logout"
    mode,     \* how it signs in
    was,      \* login: whether the profile was signed in `before`
    late,     \* whether its deadline has passed
    sigint,   \* whether it got a SIGINT that it has not acted on
    result,   \* what it reports
    signedIn, \* claude's login of the profile
    script,   \* whose `signin-<profile>.command` is in the directory
    done,     \* the exit code in `signin-<profile>.done`, "no" without a file
    window    \* the Terminal window of a process: "no", "runs" or "ended"

signVars == <<stage, op, mode, was, late, sigint, result, signedIn, script, done, window>>
proc == <<op, mode>>
files == <<script, done>>

Modes == {"tty", "headless", "terminal"}
AtClaude == {"before", "checks", "lastCheck", "signs", "status"}   \* a claude of its own runs
SignTypeOK ==
    /\ stage \in [Ccs -> AtClaude \cup {"no", "asks", "opens", "looks", "sleeps", "refreshes", "ended", "killed"}]
    /\ op \in [Ccs -> {"login", "logout"}] /\ mode \in [Ccs -> Modes]
    /\ {was, late, sigint} \subseteq [Ccs -> BOOLEAN]
    /\ result \in [Ccs -> {"no", "in", "failed", "out", "cancelled"}]
    /\ signedIn \in BOOLEAN /\ script \in Ccs \cup {NoCcs}
    /\ done \in {"no", "zero", "other"} /\ window \in [Ccs -> {"no", "runs", "ended"}]

SignInit ==
    /\ stage = [p \in Ccs |-> "no"]
    /\ op = [p \in Ccs |-> "login"] /\ mode = [p \in Ccs |-> "tty"]
    /\ was = [p \in Ccs |-> FALSE] /\ late = [p \in Ccs |-> FALSE] /\ sigint = [p \in Ccs |-> FALSE]
    /\ result = [p \in Ccs |-> "no"]
    /\ signedIn \in BOOLEAN
    /\ script = NoCcs /\ done = "no"
    /\ window = [p \in Ccs |-> "no"]

Enters(p, to) == stage' = [stage EXCEPT ![p] = to]
Reports(p, what) == result' = [result EXCEPT ![p] = what]

\* fetch_status, parse_auth_status: what a check may answer, FALSE also when claude could not be
\* run, timed out or wrote something else.
Answers == {signedIn, FALSE}

(* choose_login_mode, cmd_login: with a terminal or, as the app, without.   *)
ChooseMode(tty, terminal) == IF terminal THEN "terminal" ELSE IF tty THEN "tty" ELSE "headless"
StartLogin(p) ==
    /\ stage[p] = "no"
    /\ \E tty, terminal \in BOOLEAN :
        /\ mode' = [mode EXCEPT ![p] = ChooseMode(tty, terminal)]
        /\ Enters(p, IF mode'[p] = "terminal" THEN "before" ELSE "signs")
    /\ op' = [op EXCEPT ![p] = "login"]
    /\ UNCHANGED <<was, late, sigint, result, signedIn, files, window>>

(* cmd_logout: asks first, without `--json`.                               *)
StartLogout(p) ==
    /\ stage[p] = "no"
    /\ Enters(p, "signs") \/ Enters(p, "asks")
    /\ op' = [op EXCEPT ![p] = "logout"]
    /\ mode' = [mode EXCEPT ![p] = "headless"]   \* as `run` of claude: no terminal, killed at its timeout
    /\ UNCHANGED <<was, late, sigint, result, signedIn, files, window>>

Confirm(p) ==
    /\ stage[p] = "asks"
    /\ \/ Enters(p, "signs") /\ UNCHANGED result
       \/ Enters(p, "ended") /\ Reports(p, "cancelled")
    /\ UNCHANGED <<proc, was, late, sigint, signedIn, files, window>>

(* login in Terminal: the status before, then the script, which clears a   *)
(* stale `.done`.                                                          *)
Before(p) ==
    /\ stage[p] = "before"
    /\ \E s \in Answers : was' = [was EXCEPT ![p] = s]
    /\ Enters(p, "opens")
    /\ script' = p /\ done' = "no"
    /\ UNCHANGED <<proc, late, sigint, result, signedIn, window>>

\* remove_signin_files: the files have no owner, so this may remove those of another sign-in.
RemoveFiles == script' = NoCcs /\ done' = "no"

(* open_in_terminal: blocks until `open` is done.                          *)
Open(p) ==
    /\ stage[p] = "opens"
    /\ \/ /\ script # NoCcs
          /\ Enters(p, "looks") /\ window' = [window EXCEPT ![p] = "runs"]
          /\ UNCHANGED <<files, result>>
       \/ /\ Enters(p, "ended") /\ Reports(p, IF sigint[p] THEN "cancelled" ELSE "failed")
          /\ RemoveFiles /\ UNCHANGED window
    /\ UNCHANGED <<proc, was, late, sigint, signedIn>>

(* wait_for_terminal_login: one look at `.done`, and what follows from it. *)
\* (`GivesUpSignedOut`: a bug that the runs must find, no deadline for a profile that was signed in.)
GivesUpSignedOut(p) == late[p] /\ ~was[p]
GivesUp(p) == late[p]
Look(p) ==
    /\ stage[p] = "looks"
    /\ Enters(p, IF done # "no" THEN "lastCheck"
               ELSE IF ~was[p] THEN "checks"
               ELSE IF GivesUp(p) THEN "lastCheck" ELSE "sleeps")
    /\ UNCHANGED <<proc, was, late, sigint, result, signedIn, files, window>>

Check(p) ==
    /\ stage[p] = "checks"
    /\ \E s \in Answers :
        IF s THEN Enters(p, "refreshes") /\ Reports(p, "in") /\ RemoveFiles
             ELSE Enters(p, IF GivesUp(p) THEN "lastCheck" ELSE "sleeps") /\ UNCHANGED <<result, files>>
    /\ UNCHANGED <<proc, was, late, sigint, signedIn, window>>

\* The last check decides after a `.done`; after the deadline the sign-in counts as failed, but
\* what it saw is reported.
LastCheck(p) ==
    /\ stage[p] = "lastCheck"
    /\ \E s \in Answers :
        IF s THEN Enters(p, "refreshes") /\ Reports(p, "in") ELSE Enters(p, "ended") /\ Reports(p, "failed")
    /\ RemoveFiles
    /\ UNCHANGED <<proc, was, late, sigint, signedIn, window>>

Sleep(p) ==
    /\ stage[p] = "sleeps" /\ Enters(p, "looks")
    /\ UNCHANGED <<proc, was, late, sigint, result, signedIn, files, window>>

Deadline(p) ==
    /\ stage[p] \in {"looks", "checks", "sleeps"} /\ ~late[p]
    /\ late' = [late EXCEPT ![p] = TRUE]
    /\ UNCHANGED <<stage, proc, was, sigint, result, signedIn, files, window>>

(* auth_login, auth_logout: claude did it, failed, or was killed at its    *)
(* timeout, which it has but in "tty" mode.                                *)
ClaudeEnds(p) ==
    /\ stage[p] = "signs"
    /\ \/ signedIn' = (op[p] = "login") \/ UNCHANGED signedIn
    /\ \/ Enters(p, "status") /\ UNCHANGED result
       \/ /\ signedIn' = signedIn   \* claude could not be run; for a sign-out, also timed out
          /\ IF op[p] = "login" THEN Enters(p, "ended") ELSE Enters(p, "refreshes")
          /\ Reports(p, "failed")
    /\ UNCHANGED <<proc, was, late, sigint, files, window>>

TimesOut(p) ==
    /\ stage[p] = "signs" /\ mode[p] = "headless" /\ UNCHANGED signedIn
    /\ IF op[p] = "login" THEN Enters(p, "status") /\ UNCHANGED result
                          ELSE Enters(p, "refreshes") /\ Reports(p, "failed")
    /\ UNCHANGED <<proc, was, late, sigint, files, window>>

(* login, logout: the status afterwards is the result.  A sign-in that     *)
(* failed asks for no poll.                                                *)
Status(p) ==
    /\ stage[p] = "status"
    /\ \E s \in Answers :
        /\ Reports(p, IF op[p] = "login" THEN (IF s THEN "in" ELSE "failed") ELSE (IF s THEN "failed" ELSE "out"))
        /\ Enters(p, IF op[p] = "login" /\ ~s THEN "ended" ELSE "refreshes")
    /\ UNCHANGED <<proc, was, late, sigint, signedIn, files, window>>

(* request_daemon_refresh: answered, refused, or given up after 2 s.       *)
Refresh(p) ==
    /\ stage[p] = "refreshes" /\ Enters(p, "ended")
    /\ UNCHANGED <<proc, was, late, sigint, result, signedIn, files, window>>

(* ProcessRunner.terminate, or Ctrl-C: SIGINT cancels what the process     *)
(* awaits, through the `finally` that removes the files; one that blocks   *)
(* acts on it later.  The app's SIGTERM and SIGKILL follow if it does not. *)
Signal(p) ==
    /\ stage[p] \notin {"no", "ended", "killed"} /\ ~sigint[p]
    /\ sigint' = [sigint EXCEPT ![p] = TRUE]
    /\ UNCHANGED <<stage, proc, was, late, result, signedIn, files, window>>

InFinally(p) == op[p] = "login" /\ mode[p] = "terminal" /\ stage[p] \in {"looks", "checks", "lastCheck", "sleeps"}
Interrupt(p) ==
    /\ sigint[p] /\ stage[p] \notin {"no", "opens", "ended", "killed"}
    /\ Enters(p, "ended")
    /\ IF stage[p] = "refreshes" THEN UNCHANGED result ELSE Reports(p, "cancelled")
    /\ IF InFinally(p) THEN RemoveFiles ELSE UNCHANGED files
    /\ UNCHANGED <<proc, was, late, sigint, signedIn, window>>

Kill(p) ==
    /\ sigint[p] /\ stage[p] \notin {"no", "ended", "killed"}
    /\ Enters(p, "killed")
    /\ UNCHANGED <<proc, was, late, sigint, result, signedIn, files, window>>

(* The script in a Terminal window: a sign-in in "tty" mode, then its exit *)
(* code goes to `.done`, whoever waits for it.  A window that is closed    *)
(* writes nothing.                                                         *)
WindowEnds(p) ==
    /\ window[p] = "runs"
    /\ window' = [window EXCEPT ![p] = "ended"]
    /\ \/ signedIn' = TRUE /\ done' = "zero"
       \/ UNCHANGED signedIn /\ done' = "other"
       \/ UNCHANGED <<signedIn, done>>
    /\ UNCHANGED <<stage, proc, was, late, sigint, result, script>>

Step(p) ==
    \/ Before(p) \/ Open(p) \/ Look(p) \/ Check(p) \/ LastCheck(p) \/ Sleep(p)
    \/ TimesOut(p) \/ Status(p) \/ Refresh(p) \/ Interrupt(p)
SignNext == \E p \in Ccs :
    \/ StartLogin(p) \/ StartLogout(p) \/ Confirm(p) \/ ClaudeEnds(p)
    \/ Step(p) \/ Deadline(p) \/ Signal(p) \/ Kill(p) \/ WindowEnds(p)

SignSpec == SignInit /\ [][SignNext]_signVars
\* Awaits have timeouts, `open` returns and time passes; the user need not do anything.
SignFairness == \A p \in Ccs : WF_signVars(Step(p)) /\ WF_signVars(Deadline(p))
SignFairSpec == SignSpec /\ SignFairness

-----------------------------------------------------------------------------
\* Where a process waits for its user and for nothing else.
UsersTurn(p) == stage[p] = "asks" \/ (stage[p] = "signs" /\ mode[p] = "tty")

(* A sign-in or sign-out ends although nobody completes it in the browser  *)
(* or the window, and whichever files another one of the profile wrote or  *)
(* removed meanwhile; only "tty" and the question wait for their user.     *)
(* Unless it was killed it leaves no script for someone to open.  (The     *)
(* `.done` of a window that ends later does stay.)                         *)
EndsAlone == \A p \in Ccs :
    stage[p] # "no" ~> (stage[p] = "ended" /\ script # p) \/ stage[p] = "killed" \/ UsersTurn(p)
=============================================================================
