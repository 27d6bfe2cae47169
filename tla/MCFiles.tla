------------------------------ MODULE MCFiles ------------------------------
(* The event log, the statusline setting, the config and the live reports  *)
(* in one run.  They share nothing: `part` says which of them a behaviour  *)
(* shows, and the others stay in one initial state.                        *)
EXTENDS EventLog, StatuslineSetting, ConfigStore, LiveReports

CONSTANTS k1, k2, c1, c2, d1, d2, u1, ccs1, ccs2, p1, p2, f1, n1, n2, a1, a2, s1

VARIABLE part

filesVars == <<logVars, lineVars, configVars, liveVars, part>>

FilesSymmetry == Permutations(Key) \cup Permutations(Cli) \cup Permutations(Profile)

FilesInit ==
    /\ part \in {"log", "line", "config", "live"}
    /\ LogInit /\ LineInit /\ ConfigInit /\ LiveInit
    /\ part # "line" => users[d1] = u1
    /\ part # "config" => doc = NoDoc

FilesNext ==
    /\ UNCHANGED part
    /\ \/ part = "log" /\ LogNext /\ UNCHANGED <<lineVars, configVars, liveVars>>
       \/ part = "line" /\ LineNext /\ UNCHANGED <<logVars, configVars, liveVars>>
       \/ part = "config" /\ ConfigNext /\ UNCHANGED <<logVars, lineVars, liveVars>>
       \/ part = "live" /\ LiveNext /\ UNCHANGED <<logVars, lineVars, configVars>>

FilesSpec == FilesInit /\ [][FilesNext]_filesVars
=============================================================================
