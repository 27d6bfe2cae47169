------------------------------ MODULE MCClaude ------------------------------
(* Where ccs runs claude: warm-ups and the daemon's own processes, the      *)
(* launcher's terminal and keys, the launchers that the daemon knows and    *)
(* what it tells its clients.  They share nothing: `part` says which of    *)
(* them a behaviour shows, and the others stay in one initial state.       *)
EXTENDS MCWarmup, ClaudeCli, Terminal, Keys, Sessions, Broadcast

CONSTANTS w1, w2, x1, x2, x3, p1, p2

VARIABLE part

claudeVars == <<warmVars, cliVars, termVars, keysVars, sessVars, castVars, part>>

\* Every kind of sequence that is tracked, but for the pop and the set, which `Reset` and `KittyReplay` write.
Sequences == {T("mode", 1), T("alt", 1), T("alt", 0), T("push", 1), T("ris", 0)}

ClaudeInit ==
    /\ part \in {"warmup", "cli", "terminal", "keys", "sessions", "cast"}
    /\ WarmInit /\ (part # "warmup" => enabled /\ triggers.auto_chain)
    /\ CliInit /\ (part # "cli" => \A p \in Pid : call[p].kind = "run")
    /\ TermInit /\ KeysInit /\ SessInit
    /\ CastInit /\ (part # "cast" => client.sync)

ClaudeNext ==
    /\ UNCHANGED part
    /\ \/ part = "warmup" /\ WarmNext /\ UNCHANGED <<cliVars, termVars, keysVars, sessVars, castVars>>
       \/ part = "cli" /\ CliNext /\ UNCHANGED <<warmVars, termVars, keysVars, sessVars, castVars>>
       \/ part = "terminal" /\ TermNext /\ UNCHANGED <<warmVars, cliVars, keysVars, sessVars, castVars>>
       \/ part = "keys" /\ KeysNext /\ UNCHANGED <<warmVars, cliVars, termVars, sessVars, castVars>>
       \/ part = "sessions" /\ SessNext /\ UNCHANGED <<warmVars, cliVars, termVars, keysVars, castVars>>
       \/ part = "cast" /\ CastNext /\ UNCHANGED <<warmVars, cliVars, termVars, keysVars, sessVars>>

ClaudeSpec == ClaudeInit /\ [][ClaudeNext]_claudeVars
=============================================================================
