------------------------------ MODULE Sessions ------------------------------
(***************************************************************************)
(* The daemon's session registry (daemon/server.py, daemon/reaper.py):     *)
(* launchers that connect, register, reconnect, exit or die, the handlers  *)
(* of their connections, which await in the middle, the records and their  *)
(* files, the reaper, and a daemon that is restarted.                      *)
(*                                                                         *)
(* A launcher has one connection at a time and registers on each; a        *)
(* handler learns of an end that the launcher gave up when it next reads.  *)
(***************************************************************************)
EXTENDS Integers, Sequences, FiniteSets

CONSTANTS
    Wrapper, Conn, NoOne,
    MaxFaults   \* bound: connections given up or overflowing, launchers and daemons killed

ASSUME SessionsAssumption ==
    NoOne \notin Wrapper \cup Conn /\ MaxFaults \in Nat

VARIABLES
    serving,      \* the daemon runs
    alive,        \* the launchers whose process lives
    exiting,      \* the launchers that end and unregister
    link,         \* the connection a launcher has
    sent,         \* what it sent on a connection and the handler did not read
    handler,      \* what the handler of a connection does
    bound,        \* `conn.wrapper_id`
    route,        \* `wrapper_conns`
    sessions,     \* `sessions`: the wrappers with a record
    provisional,  \* `provisional`: the records that were loaded
    files,        \* sessions/*.json
    reaping,      \* the records that a pass of the reaper has still to look at
    used          \* what was used of the bounds, and the connections

sessVars == <<serving, alive, exiting, link, sent, handler, bound, route, sessions, provisional,
              files, reaping, used>>

Handler == {"none", "reads", "ensures", "hooks", "leaves", "over"}

SessInit ==
    /\ serving = TRUE /\ alive = Wrapper /\ exiting = {}
    /\ link = [w \in Wrapper |-> NoOne]
    /\ sent = [c \in Conn |-> <<>>]
    /\ handler = [c \in Conn |-> "none"]
    /\ bound = [c \in Conn |-> NoOne]
    /\ route = [w \in Wrapper |-> NoOne]
    /\ sessions = {} /\ provisional = {} /\ files = {} /\ reaping = {}
    /\ used = [conns |-> [c \in Conn |-> NoOne], replied |-> {}, faults |-> 0]

SessTypeOK ==
    /\ serving \in BOOLEAN
    /\ {alive, exiting, sessions, provisional, files, reaping} \subseteq SUBSET Wrapper
    /\ link \in [Wrapper -> Conn \cup {NoOne}] /\ route \in [Wrapper -> Conn \cup {NoOne}]
    /\ sent \in [Conn -> Seq({"register", "unregister"})]
    /\ handler \in [Conn -> Handler]
    /\ bound \in [Conn -> Wrapper \cup {NoOne}]
    /\ used \in [conns : [Conn -> Wrapper \cup {NoOne}], replied : SUBSET Conn,
                 faults : 0 .. MaxFaults]

Owner(c) == used.conns[c]
GivenUp(c) == link[Owner(c)] # c
Fault == used.faults < MaxFaults /\ used' = [used EXCEPT !.faults = @ + 1]

-----------------------------------------------------------------------------
(* Launchers. *)

\* A launcher connects, gets its `hello` answered and registers. By the time the daemon answers the
\* hello it has read what was sent on older connections, and a register that waits for a config
\* reload is through: the launcher gave it 5 s, and only scripts are written meanwhile.
Connects(w, c) ==
    /\ serving /\ w \in alive \ exiting /\ link[w] = NoOne /\ Owner(c) = NoOne
    /\ \A d \in Conn : Owner(d) = w => sent[d] = <<>> /\ handler[d] # "ensures"
    /\ used' = [used EXCEPT !.conns[c] = w]
    /\ link' = [link EXCEPT ![w] = c]
    /\ sent' = [sent EXCEPT ![c] = <<"register">>]
    /\ handler' = [handler EXCEPT ![c] = "reads"]
    /\ UNCHANGED <<serving, alive, exiting, bound, route, sessions, provisional, files, reaping>>

\* It gives the connection up: a request timed out.
Disconnects(w) ==
    /\ link[w] # NoOne /\ Fault
    /\ link' = [link EXCEPT ![w] = NoOne]
    /\ UNCHANGED <<serving, alive, exiting, sent, handler, bound, route, sessions, provisional, files,
                   reaping>>

\* claude ended: the launcher unregisters if it is registered, closes and ends.
Exits(w) ==
    /\ w \in alive \ exiting
    /\ exiting' = exiting \cup {w}
    /\ sent' = IF link[w] \notin used.replied THEN sent
               ELSE [sent EXCEPT ![link[w]] = Append(@, "unregister")]
    /\ UNCHANGED <<serving, alive, link, handler, bound, route, sessions, provisional, files, reaping,
                   used>>

LauncherDies(w) ==
    /\ w \in alive
    /\ \/ w \in exiting /\ UNCHANGED used
       \/ w \notin exiting /\ Fault
    /\ alive' = alive \ {w}
    /\ link' = [link EXCEPT ![w] = NoOne]
    /\ UNCHANGED <<serving, exiting, sent, handler, bound, route, sessions, provisional, files, reaping>>

-----------------------------------------------------------------------------
(* `_handle_client`. *)

\* `_op_register_wrapper` from its last check to the hooks.
Registers(c) ==
    LET w == Owner(c)
    IN  /\ sessions' = sessions \cup {w} /\ files' = files \cup {w}
        /\ provisional' = provisional \ {w}
        /\ bound' = [d \in Conn |-> CASE d = c -> w [] d # c /\ d = route[w] -> NoOne
                                    [] OTHER -> bound[d]]
        /\ route' = [route EXCEPT ![w] = c]

\* `unregister`.
Forgets(w) ==
    /\ sessions' = sessions \ {w} /\ provisional' = provisional \ {w}
    /\ files' = files \ (sessions \cap {w})
    /\ bound' = [d \in Conn |-> IF route[w] = d THEN NoOne ELSE bound[d]]
    /\ route' = [route EXCEPT ![w] = NoOne]

HandlerGoes(c, to) == handler' = [handler EXCEPT ![c] = to]

ReadsRegister(c) ==
    /\ handler[c] = "reads" /\ sent[c] # <<>> /\ Head(sent[c]) = "register"
    /\ sent' = [sent EXCEPT ![c] = Tail(@)]
    /\ \/ Registers(c) /\ HandlerGoes(c, "hooks")
       \/ /\ HandlerGoes(c, "ensures")   \* the profile is not known yet
          /\ UNCHANGED <<sessions, files, provisional, bound, route>>
    /\ UNCHANGED <<serving, alive, exiting, link, reaping, used>>

\* The config was reloaded and has the profile.
Ensured(c) ==
    /\ handler[c] = "ensures"
    /\ Registers(c) /\ HandlerGoes(c, "hooks")
    /\ UNCHANGED <<serving, alive, exiting, link, sent, reaping, used>>

\* The hooks returned: the reply goes out.
Replies(c) ==
    /\ handler[c] = "hooks"
    /\ HandlerGoes(c, "reads")
    /\ used' = [used EXCEPT !.replied = @ \cup {c}]
    /\ UNCHANGED <<serving, alive, exiting, link, sent, bound, route, sessions, provisional, files,
                   reaping>>

ReadsUnregister(c) ==
    /\ handler[c] = "reads" /\ sent[c] # <<>> /\ Head(sent[c]) = "unregister"
    /\ sent' = [sent EXCEPT ![c] = Tail(@)]
    /\ Forgets(Owner(c))
    /\ HandlerGoes(c, "leaves")
    /\ UNCHANGED <<serving, alive, exiting, link, reaping, used>>

\* Mutant: a connection that ends takes the wrapper's route with it.
RoutesAny(c) == {w \in Wrapper : bound[c] = w \/ Owner(c) = w}
\* The routes that end with a connection: its wrapper's, if that still leads to it.
RoutesOf(c) == {w \in Wrapper : bound[c] = w /\ route[w] = c}

\* The end of the connection, or a reply to an unregister: the handler's `finally`.
Leaves(c) ==
    /\ \/ handler[c] = "reads" /\ sent[c] = <<>> /\ GivenUp(c)
       \/ handler[c] = "leaves"
    /\ HandlerGoes(c, "over")
    /\ route' = [w \in Wrapper |-> IF w \in RoutesOf(c) THEN NoOne ELSE route[w]]
    /\ UNCHANGED <<serving, alive, exiting, link, sent, bound, sessions, provisional, files, reaping,
                   used>>

\* The launcher does not read: `push` closes the connection, and the launcher sees its end.
Overflows(c) ==
    /\ handler[c] \in {"reads", "hooks"} /\ link[Owner(c)] = c /\ Fault
    /\ link' = [link EXCEPT ![Owner(c)] = NoOne]
    /\ sent' = [sent EXCEPT ![c] = <<>>]
    /\ UNCHANGED <<serving, alive, exiting, handler, bound, route, sessions, provisional, files, reaping>>

-----------------------------------------------------------------------------
(* The reaper, and the daemon's end. *)

ReapPass ==
    /\ serving /\ reaping = {} /\ sessions # {}
    /\ reaping' = sessions
    /\ UNCHANGED <<serving, alive, exiting, link, sent, handler, bound, route, sessions, provisional,
                   files, used>>

\* `reason`: the launcher's process is gone, or it did not register within the grace.
Reapable(w, late) == w \notin alive \/ (late /\ w \in provisional)

\* One record of the pass; the next one only after the hooks.
Reap(w, late) ==
    /\ w \in reaping /\ serving
    /\ reaping' = reaping \ {w}
    /\ IF Reapable(w, late) THEN Forgets(w)
       ELSE UNCHANGED <<sessions, provisional, files, bound, route>>
    /\ UNCHANGED <<serving, alive, exiting, link, sent, handler, used>>

\* The daemon ends or is killed, and every connection with it.
DaemonEnds ==
    /\ serving /\ Fault
    /\ serving' = FALSE
    /\ link' = [w \in Wrapper |-> NoOne]
    /\ sent' = [c \in Conn |-> <<>>]
    /\ handler' = [c \in Conn |-> IF Owner(c) = NoOne THEN "none" ELSE "over"]
    /\ bound' = [c \in Conn |-> NoOne] /\ route' = [w \in Wrapper |-> NoOne]
    /\ sessions' = {} /\ provisional' = {} /\ reaping' = {}
    /\ UNCHANGED <<alive, exiting, files>>

\* `_load_sessions`.
DaemonStarts ==
    /\ ~serving /\ serving' = TRUE
    /\ sessions' = files \cap alive /\ provisional' = files \cap alive /\ files' = files \cap alive
    /\ UNCHANGED <<alive, exiting, link, sent, handler, bound, route, reaping, used>>

SessNext ==
    \/ \E w \in Wrapper :
        \/ \E c \in Conn : Connects(w, c)
        \/ Disconnects(w) \/ Exits(w) \/ LauncherDies(w)
        \/ \E late \in BOOLEAN : Reap(w, late)
    \/ \E c \in Conn :
        \/ ReadsRegister(c) \/ Ensured(c) \/ Replies(c) \/ ReadsUnregister(c)
        \/ Leaves(c) \/ Overflows(c)
    \/ ReapPass \/ DaemonEnds \/ DaemonStarts

SessSpec == SessInit /\ [][SessNext]_sessVars

-----------------------------------------------------------------------------
(* Properties. *)

\* A launcher that lives and has its register answered on the connection it still has can be sent
\* commands there, and its record stays: neither the late end of an older connection nor a pass of
\* the reaper that began before takes the route or the record away.
LauncherReachable ==
    \A w \in alive \ exiting :
        link[w] \in used.replied => route[w] = link[w] /\ w \in sessions

=============================================================================
