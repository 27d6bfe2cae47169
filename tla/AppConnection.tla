---------------------------- MODULE AppConnection ----------------------------
(***************************************************************************)
(* The app's connection to the daemon's socket: DaemonConnection with its  *)
(* serial queue, and what AppModel on the main actor makes of the changes  *)
(* that it hands over.  The daemon, the user and the operating system's    *)
(* part of a connection are the environment.  What comes over the          *)
(* connection is in SnapshotStore; here a line is hello's reply or the end.*)
(***************************************************************************)
EXTENDS Naturals, Sequences

CONSTANTS
    Link,          \* connections, reused once their last callback has run
    NoLink,        \* no connection
    MaxLinkFaults, \* bound: daemon crashes, connections that break or are refused
    MaxMenus       \* bound: openings of the menu, starts of the daemon from it

ASSUME AppConnectionAssumption == NoLink \notin Link

VARIABLES
    \* DaemonConnection, on its queue
    link,          \* the state of each connection
    current,       \* `connection`
    stopped,       \* until the app starts
    scheduled,     \* whether `reconnectItem` waits for its time
    isOnline,
    nows,          \* calls of reconnectNow on the queue
    inbox,         \* lines from the daemon, not received yet
    switches,      \* the `online` updates on their way to the main actor
    \* AppModel, on the main actor
    daemonOnline,
    asking,        \* calls of refreshBanner that wait for `ccs daemon status`
    \* the environment
    serverUp,
    faults, menus  \* for the bounds

queueVars == <<link, current, scheduled, isOnline, inbox, switches>>
modelVars == <<daemonOnline, asking>>
appVars == <<stopped, queueVars, nows, modelVars, serverUp, faults, menus>>

AppTypeOK ==
    /\ link \in [Link -> {"free", "starting", "ready", "served", "ended"}]
    /\ current \in Link \cup {NoLink}
    /\ {stopped, scheduled, isOnline, daemonOnline, serverUp} \subseteq BOOLEAN
    /\ inbox \in [Link -> Seq({"hello", "rejected", "end"})]
    /\ switches \in Seq(BOOLEAN)
    /\ {nows, asking, faults, menus} \subseteq Nat

AppInit ==
    /\ link = [c \in Link |-> "free"] /\ current = NoLink
    /\ stopped = TRUE /\ scheduled = FALSE
    /\ isOnline = FALSE /\ nows = 0
    /\ inbox = [c \in Link |-> <<>>] /\ switches = <<>>
    /\ daemonOnline = FALSE
    /\ asking = 0
    /\ serverUp \in BOOLEAN
    /\ faults = 0 /\ menus = 0

Fault == faults < MaxLinkFaults /\ faults' = faults + 1

-----------------------------------------------------------------------------
(* DaemonConnection. *)

SetOnline(value) ==
    /\ isOnline' = value
    /\ switches' = IF value = isOnline THEN switches ELSE Append(switches, value)

(* dropAndScheduleReconnect *)
Drops == current' = NoLink /\ scheduled' = TRUE /\ SetOnline(FALSE)

(* connect: a new connection is started, or the socket is not trusted.     *)
(* `item` says whether a reconnect stays scheduled.                        *)
Connect(item) ==
    \/ \E c \in Link :
        /\ link[c] = "free"
        /\ link' = [link EXCEPT ![c] = "starting"]
        /\ current' = c /\ scheduled' = item
        /\ UNCHANGED <<isOnline, switches, faults>>
    \/ Fault /\ Drops /\ UNCHANGED link

(* AppModel.start, start                                                   *)
Start ==
    /\ stopped /\ stopped' = FALSE
    /\ Connect(FALSE) /\ asking' = asking + 1
    /\ UNCHANGED <<nows, inbox, daemonOnline, serverUp, menus>>

Reconnect ==
    /\ scheduled /\ Connect(FALSE)
    /\ UNCHANGED <<stopped, nows, inbox, modelVars, serverUp, menus>>

(* reconnectNow: cancels the scheduled reconnect, and the connection if it *)
(* is not online yet.                                                      *)
\* (`KeepsItem`: a bug that the runs must find, the scheduled reconnect is not cancelled.)
KeepsItem == scheduled
ItemLeft == FALSE
ReconnectNow ==
    /\ nows > 0 /\ nows' = nows - 1
    /\ IF isOnline THEN UNCHANGED <<queueVars, faults>> ELSE Connect(ItemLeft) /\ UNCHANGED inbox
    /\ UNCHANGED <<stopped, modelVars, serverUp, menus>>

\* Callbacks of a connection that was cancelled do nothing; after the last one it is gone.
Concerns(c) == c = current
Stale(c) ==
    /\ link[c] # "free" /\ ~Concerns(c)
    /\ link' = [link EXCEPT ![c] = "free"]
    /\ inbox' = [inbox EXCEPT ![c] = <<>>]
    /\ UNCHANGED <<stopped, current, scheduled, isOnline, switches, nows, modelVars, serverUp, faults, menus>>

(* handle(state:): `ready` sends hello and subscribe; `failed` and         *)
(* `waiting` give up.                                                      *)
StateChanges(c) ==
    /\ link[c] = "starting" /\ Concerns(c)
    /\ \/ /\ serverUp
          /\ link' = [link EXCEPT ![c] = "ready"]
          /\ UNCHANGED <<current, scheduled, isOnline, switches, faults>>
       \/ ((~serverUp /\ UNCHANGED faults) \/ Fault) /\ Drops /\ UNCHANGED link
    /\ UNCHANGED <<stopped, inbox, nows, modelVars, serverUp, menus>>

(* receive, dispatch                                                       *)
Receive(c) ==
    /\ inbox[c] # <<>> /\ Concerns(c)
    /\ inbox' = [inbox EXCEPT ![c] = Tail(inbox[c])]
    /\ IF Head(inbox[c]) = "hello" THEN SetOnline(TRUE) /\ UNCHANGED <<current, scheduled>>
                                   ELSE Drops
    /\ UNCHANGED <<stopped, link, nows, modelVars, serverUp, faults, menus>>

-----------------------------------------------------------------------------
(* AppModel. *)

(* handle(.online): the end of a connection asks for the banner.           *)
Handle ==
    /\ switches # <<>> /\ switches' = Tail(switches)
    /\ daemonOnline' = Head(switches)
    /\ asking' = IF daemonOnline' THEN asking ELSE asking + 1
    /\ UNCHANGED <<stopped, link, current, scheduled, isOnline, inbox, nows, serverUp, faults, menus>>

(* refreshBanner, after `ccs daemon status`: the answer may be from before *)
(* the daemon came or went.                                                *)
BannerRefreshed ==
    /\ asking > 0 /\ asking' = asking - 1
    /\ nows' \in {nows, nows + 1}
    /\ UNCHANGED <<stopped, queueVars, daemonOnline, serverUp, faults, menus>>

(* menuOpened, and startDaemon or installDaemon from it.                   *)
MenuOpened ==
    /\ ~stopped /\ menus < MaxMenus /\ menus' = menus + 1
    /\ asking' = IF daemonOnline THEN asking ELSE asking + 1
    /\ \/ UNCHANGED <<nows, serverUp>>
       \/ nows' = nows + 1 /\ serverUp' \in {serverUp, TRUE}
    /\ UNCHANGED <<stopped, queueVars, daemonOnline, faults>>

-----------------------------------------------------------------------------
(* The daemon. *)

Sends(c, line, state) ==
    /\ inbox' = [inbox EXCEPT ![c] = Append(@, line)]
    /\ link' = [link EXCEPT ![c] = state]
    /\ UNCHANGED <<stopped, current, scheduled, isOnline, switches, nows, modelVars, menus>>

(* _op_hello; a daemon of another version may reject it.                   *)
Serve(c) ==
    /\ serverUp /\ link[c] = "ready" /\ UNCHANGED serverUp
    /\ \/ Sends(c, "hello", "served") /\ UNCHANGED faults
       \/ Sends(c, "rejected", "ended") /\ Fault

CutOff(c) ==
    /\ link[c] \in {"ready", "served"} /\ UNCHANGED serverUp
    /\ Sends(c, "end", "ended") /\ Fault

DaemonDies ==
    LET joined == {c \in Link : link[c] \in {"ready", "served"}}
    IN  /\ serverUp /\ Fault /\ serverUp' = FALSE
        /\ link' = [c \in Link |-> IF c \in joined THEN "ended" ELSE link[c]]
        /\ inbox' = [c \in Link |-> IF c \in joined THEN Append(inbox[c], "end") ELSE inbox[c]]
        /\ UNCHANGED <<stopped, current, scheduled, isOnline, switches, nows, modelVars, menus>>

ComesUp ==
    /\ ~serverUp /\ serverUp' = TRUE
    /\ UNCHANGED <<stopped, queueVars, nows, modelVars, faults, menus>>

AppNext ==
    \/ Start \/ Reconnect \/ ReconnectNow
    \/ \E c \in Link : Stale(c) \/ StateChanges(c) \/ Receive(c) \/ Serve(c) \/ CutOff(c)
    \/ Handle \/ BannerRefreshed \/ MenuOpened \/ DaemonDies \/ ComesUp

AppSpec == AppInit /\ [][AppNext]_appVars
\* The queue and the main actor run what they are given, delays pass, `ccs daemon status` returns
\* and a daemon that is up answers.  Nothing is assumed of the user or of a daemon that is down.
AppFairness ==
    /\ WF_appVars(Reconnect) /\ WF_appVars(ReconnectNow)
    /\ \A c \in Link : WF_appVars(Stale(c) \/ StateChanges(c) \/ Receive(c)) /\ WF_appVars(Serve(c))
    /\ WF_appVars(Handle) /\ WF_appVars(BannerRefreshed)
AppFairSpec == AppSpec /\ AppFairness

-----------------------------------------------------------------------------
(* A running app has one connection or one reconnect to come, never both   *)
(* and never neither, and it is online on the connection it has: no        *)
(* callback of a cancelled one, no reconnect that fires late and no        *)
(* reconnectNow between the two leaves it offline for ever or with two     *)
(* conversations.                                                          *)
OneConnection ==
    /\ ~stopped => (scheduled <=> current = NoLink)
    /\ isOnline => current # NoLink /\ link[current] \in {"served", "ended"}

(* In the end the app shows whether the daemon is there: "The app          *)
(* reconnects by itself ... as soon as the supervisor is back"             *)
(* (04-menu-bar-app.md).                                                   *)
ShowsDaemon ==
    /\ <>[](serverUp /\ ~stopped) => <>[]daemonOnline
    /\ <>[]~serverUp => <>[]~daemonOnline
=============================================================================
