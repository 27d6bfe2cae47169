------------------------------ MODULE Broadcast ------------------------------
(***************************************************************************)
(* What the daemon tells its subscribers (daemon/server.py): every event,  *)
(* and the widget snapshot whenever the state behind it changed, at most   *)
(* one in SNAPSHOT_MIN_INTERVAL_S.  One connection with its queue and its  *)
(* writer, and the client at its other end (daemon/client.py): connections *)
(* share no more than the events and the document.                         *)
(*                                                                         *)
(* The document is the number of changes it shows, an event its number.    *)
(* Launchers, their commands and acks are in PauseProtocol.                *)
(***************************************************************************)
EXTENDS Naturals, SequencesExt

CONSTANTS
    QUEUE_MAX,    \* lines that wait for the writer
    SocketRoom,   \* lines that the socket holds before `drain` waits
    MaxDocs,      \* bound: changes of the state that a snapshot shows
    MaxEvents,    \* bound: events
    MaxAsks       \* bound: requests of the client

ASSUME BroadcastAssumption ==
    /\ {QUEUE_MAX, SocketRoom} \subseteq Nat \ {0}
    /\ {MaxDocs, MaxEvents, MaxAsks} \subseteq Nat

VARIABLES
    doc, emitted,   \* the state behind the snapshot, and the events so far
    wanted,         \* `_snapshot_wanted`
    loop,           \* _snapshot_loop: "waits" for the flag, or "sleeps" out the interval
    stale,          \* history: the last snapshot could not be built
    conn,           \* [at, greeted, closed, topics, queue, id]: `_handle_client` and its Conn
    asked, wire,    \* the socket: requests to the daemon, lines to the client
    client,         \* [sync, here, asks, waits, pushes]: a DaemonClient or an AsyncDaemonClient
    since, seen     \* history: the event before the subscription; [events, doc] that the client took

castVars == <<doc, emitted, wanted, loop, stale, conn, asked, wire, client, since, seen>>

Line == [type : {"event", "snapshot"}, n : Nat] \cup [type : {"reply"}, n : Nat]
Event(n) == [type |-> "event", n |-> n]
Snapshot(n) == [type |-> "snapshot", n |-> n]
Reply(id) == [type |-> "reply", n |-> id]

CastTypeOK ==
    /\ doc \in 0 .. MaxDocs /\ emitted \in 0 .. MaxEvents
    /\ wanted \in BOOLEAN /\ loop \in {"waits", "sleeps"} /\ stale \in BOOLEAN
    /\ conn \in [at : {"reads", "works", "left", "over"}, greeted : BOOLEAN, closed : BOOLEAN,
                 topics : SUBSET {"events", "snapshot"}, queue : Seq(Line), id : 0 .. MaxAsks]
    /\ asked \in Seq([op : {"hello", "subscribe", "other"}, id : 1 .. MaxAsks])
    /\ wire \in Seq(Line) /\ Len(conn.queue) <= QUEUE_MAX /\ Len(wire) <= SocketRoom
    /\ client \in [sync : BOOLEAN, here : BOOLEAN, asks : 0 .. MaxAsks, waits : 0 .. MaxAsks, pushes : Seq(Line)]
    /\ since \in 0 .. MaxEvents /\ seen \in [events : Seq(Nat), doc : 0 .. MaxDocs]

CastInit ==
    /\ doc = 0 /\ emitted = 0 /\ wanted = FALSE /\ loop = "waits" /\ stale = FALSE
    /\ conn = [at |-> "reads", greeted |-> FALSE, closed |-> FALSE, topics |-> {}, queue |-> <<>>, id |-> 0]
    /\ asked = <<>> /\ wire = <<>>
    /\ client \in [sync : BOOLEAN, here : {TRUE}, asks : {0}, waits : {0}, pushes : {<<>>}]
    /\ since = 0 /\ seen = [events |-> <<>>, doc |-> 0]

(* Conn.push: a line for the writer; a client that does not read is cut    *)
(* off, with what is queued.  (`PushedOrLost` is a bug for the runs.)      *)
PushedOrLost(c, line) == IF c.closed \/ Len(c.queue) >= QUEUE_MAX THEN c ELSE [c EXCEPT !.queue = Append(@, line)]
Pushed(c, line) ==
    IF c.closed THEN c
    ELSE IF Len(c.queue) >= QUEUE_MAX THEN [c EXCEPT !.closed = TRUE, !.queue = <<>>]
    ELSE [c EXCEPT !.queue = Append(@, line)]
Told(c, topic, line) == IF topic \in c.topics THEN Pushed(c, line) ELSE c

DaemonKeeps == UNCHANGED <<doc, emitted, wanted, loop, stale>>
ClientKeeps == UNCHANGED <<client, since, seen>>

(* A change of the state, and request_snapshot_write.                      *)
Change ==
    /\ doc < MaxDocs
    /\ doc' = doc + 1 /\ wanted' = TRUE
    /\ UNCHANGED <<emitted, loop, stale, conn, asked, wire>> /\ ClientKeeps

(* EventLog.emit -> _on_event.                                             *)
Emit ==
    /\ emitted < MaxEvents
    /\ emitted' = emitted + 1
    /\ conn' = Told(conn, "events", Event(emitted'))
    /\ UNCHANGED <<doc, wanted, loop, stale, asked, wire>> /\ ClientKeeps

(* _snapshot_loop: the flag is set; it sleeps out the interval.            *)
Throttle ==
    /\ loop = "waits" /\ wanted
    /\ loop' = "sleeps"
    /\ UNCHANGED <<doc, emitted, wanted, stale, conn, asked, wire>> /\ ClientKeeps

(* _snapshot_loop, write_snapshot_now: the flag is cleared and the document *)
(* built, which may fail.                                                   *)
WriteSnapshot ==
    /\ loop = "sleeps"
    /\ loop' = "waits" /\ wanted' = FALSE
    /\ stale' \in BOOLEAN
    /\ conn' = IF stale' THEN conn ELSE Told(conn, "snapshot", Snapshot(doc))
    /\ UNCHANGED <<doc, emitted, asked, wire>> /\ ClientKeeps

(* _op_subscribe: the topics count at once; the reply follows the document. *)
Subscribe(id) == \E topics \in (SUBSET {"events", "snapshot"}) \ {{}} :
    LET subscribed == [conn EXCEPT !.topics = @ \cup topics] IN
    /\ since' = IF "events" \in topics \ conn.topics THEN emitted ELSE since
    /\ \/ conn' = Pushed(IF "snapshot" \in topics THEN Pushed(subscribed, Snapshot(doc)) ELSE subscribed, Reply(id))
          /\ UNCHANGED stale
       \/ "snapshot" \in topics /\ conn' = Pushed(subscribed, Reply(id)) /\ stale' = TRUE   \* no document: internal_error

(* _handle_client: the next request; `hello` must be the first.  Other      *)
(* operations wait for something, and lines are pushed meanwhile.           *)
ReadRequest ==
    /\ conn.at = "reads" /\ ~conn.closed /\ asked # <<>>
    /\ asked' = Tail(asked)
    /\ LET id == Head(asked).id
           op == Head(asked).op IN
       \/ /\ op # "hello" /\ ~conn.greeted
          /\ conn' = [Pushed(conn, Reply(id)) EXCEPT !.at = "left"] /\ UNCHANGED <<since, stale>>
       \/ /\ op = "hello"
          /\ conn' = [Pushed(conn, Reply(id)) EXCEPT !.greeted = TRUE] /\ UNCHANGED <<since, stale>>
       \/ /\ op = "subscribe" /\ conn.greeted
          /\ Subscribe(id)
       \/ /\ op = "other" /\ conn.greeted
          /\ conn' = [conn EXCEPT !.at = "works", !.id = id] /\ UNCHANGED <<since, stale>>
    /\ UNCHANGED <<doc, emitted, wanted, loop, wire, client, seen>>

Answers ==
    /\ conn.at = "works"
    /\ conn' = [Pushed(conn, Reply(conn.id)) EXCEPT !.at = "reads"]
    /\ UNCHANGED <<asked, wire>> /\ DaemonKeeps /\ ClientKeeps

(* _handle_client: the `finally`, after a cut, the client's end or a break. *)
HandlerEnds ==
    /\ \/ conn.at = "left"
       \/ conn.at = "reads" /\ (conn.closed \/ (~client.here /\ asked = <<>>))
    /\ conn' = [conn EXCEPT !.at = "over", !.closed = TRUE]
    /\ UNCHANGED <<asked, wire>> /\ DaemonKeeps /\ ClientKeeps

(* writer_loop: a line goes to the socket; one to a client that has gone    *)
(* ends the connection.                                                     *)
Write ==
    /\ conn.queue # <<>>
    /\ \/ /\ client.here /\ Len(wire) < SocketRoom
          /\ wire' = Append(wire, Head(conn.queue))
          /\ conn' = [conn EXCEPT !.queue = Tail(@)]
       \/ /\ ~client.here
          /\ conn' = [conn EXCEPT !.queue = <<>>, !.closed = TRUE] /\ UNCHANGED wire
    /\ UNCHANGED asked /\ DaemonKeeps /\ ClientKeeps

(* request: one at a time; a synchronous client reads until its reply.     *)
Ask ==
    /\ client.here /\ client.asks < MaxAsks /\ client.waits = 0
    /\ LET id == client.asks + 1 IN
       /\ client' = [client EXCEPT !.asks = id, !.waits = id]
       /\ \E op \in {"hello", "subscribe", "other"} : asked' = Append(asked, [op |-> op, id |-> id])
    /\ UNCHANGED <<conn, wire, since, seen>> /\ DaemonKeeps

(* A line at the client: the reply to its request, a late one to an earlier *)
(* request, or a push.                                                      *)
Received(line) ==
    IF line.type # "reply" THEN [client EXCEPT !.pushes = Append(@, line)]
    ELSE IF line.n = client.waits THEN [client EXCEPT !.waits = 0]
    ELSE client
GetsLine ==
    /\ client.here /\ wire # <<>>
    /\ wire' = Tail(wire) /\ client' = Received(Head(wire))
    /\ UNCHANGED <<conn, asked, since, seen>> /\ DaemonKeeps

\* DaemonClient reads within a request, and in iter_pushes when it holds no push; _read_loop always does.
ReadLine == client.sync /\ (client.waits # 0 \/ client.pushes = <<>>) /\ GetsLine
ReadLoop == ~client.sync /\ GetsLine

Takes ==
    /\ client.here /\ client.pushes # <<>>
    /\ client' = [client EXCEPT !.pushes = Tail(@)]
    /\ LET line == Head(client.pushes) IN
       seen' = IF line.type = "event" THEN [seen EXCEPT !.events = Append(@, line.n)] ELSE [seen EXCEPT !.doc = line.n]
    /\ UNCHANGED <<conn, asked, wire, since>> /\ DaemonKeeps

(* iter_pushes, and next_push.                                             *)
IterPushes == client.sync /\ client.waits = 0 /\ Takes
NextPush == ~client.sync /\ Takes

(* A request that was not answered in time; its reply may still come.       *)
TimesOut ==
    /\ client.here /\ client.waits # 0
    /\ client' = [client EXCEPT !.waits = 0]
    /\ UNCHANGED <<conn, asked, wire, since, seen>> /\ DaemonKeeps

(* The client closes the connection or ends, or finds that the daemon did. *)
Leave ==
    /\ client.here
    /\ client' = [client EXCEPT !.here = FALSE, !.waits = 0]
    /\ UNCHANGED <<conn, asked, wire, since, seen>> /\ DaemonKeeps

CastNext ==
    \/ Change \/ Emit \/ Throttle \/ WriteSnapshot
    \/ ReadRequest \/ Answers \/ HandlerEnds \/ Write
    \/ Ask \/ ReadLine \/ ReadLoop \/ IterPushes \/ NextPush \/ TimesOut \/ Leave

CastSpec == CastInit /\ [][CastNext]_castVars

OnTheWay == client.pushes \o wire \o conn.queue
Places(type) == {i \in DOMAIN OnTheWay : OnTheWay[i].type = type}

\* The client gets every event since it subscribed, in order and once; after a cut no more, and no gap:
\* an event on its way is the next one for the client, or the one before it is ahead of it.
Got == since + Len(seen.events)
NoGap ==
    /\ \A i \in DOMAIN seen.events : seen.events[i] = since + i
    /\ \A i \in Places("event") :
        /\ OnTheWay[i].n \in Got + 1 .. emitted
        /\ OnTheWay[i].n = Got + 1 \/ \E j \in Places("event") : j < i /\ OnTheWay[j].n = OnTheWay[i].n - 1
        /\ \A j \in Places("event") : j < i => OnTheWay[j].n < OnTheWay[i].n
    /\ client.here /\ ~conn.closed /\ "events" \in conn.topics =>
        Got = emitted \/ \E i \in Places("event") : OnTheWay[i].n = emitted

\* The last snapshot on its way, or else the one that the client has, shows the state, unless another
\* one is due or none can be built.
LastSnapshot ==
    client.here /\ ~conn.closed /\ "snapshot" \in conn.topics /\ ~wanted /\ ~stale =>
        \/ Places("snapshot") = {} /\ seen.doc = doc
        \/ \E i \in Places("snapshot") :
            OnTheWay[i].n = doc /\ \A j \in Places("snapshot") : j <= i

\* A request is on its way, in work or answered, or the connection is cut: no client waits in vain.
Answered == client.waits # 0 =>
    \/ conn.closed
    \/ \E i \in DOMAIN asked : asked[i].id = client.waits
    \/ conn.at = "works" /\ conn.id = client.waits
    \/ \E i \in DOMAIN OnTheWay : OnTheWay[i] = Reply(client.waits)

(* A subscriber keeps up: it misses no event and is left with no outdated  *)
(* snapshot, and what it asks is answered, however slowly it reads and     *)
(* whatever is pushed while it waits for a reply; or it is cut off.        *)
KeepsUp == NoGap /\ LastSnapshot /\ Answered
=============================================================================
