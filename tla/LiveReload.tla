----------------------------- MODULE LiveReload -----------------------------
(***************************************************************************)
(* Live reloading in `gcx dev serve` (internal/server/livereload): a hub   *)
(* goroutine owns the set of browser connections, each connection has a    *)
(* reader (the HTTP handler) and a writer goroutine joined by a buffered   *)
(* channel, and the file watcher broadcasts a message for every change.    *)
(*                                                                         *)
(* Initialize starts a hub each time it is called. The server calls it     *)
(* once, and the command calls it once more when it watches files, each    *)
(* with a change callback of its own. So where files are watched there are *)
(* two hubs and two callbacks; where they are not, there is one hub and    *)
(* nothing changes. Two hubs share an unguarded map of connections.        *)
(***************************************************************************)
EXTENDS Integers

CONSTANTS
    Hubs,       \* goroutines running wsHub.run
    Callbacks,  \* change callbacks of the collection of resources
    Conns,      \* browser connections
    Cap,        \* capacity of a connection's channel: 256 in the code
    MaxChanges, \* bound: changes of watched files
    MaxHellos,  \* bound: hello messages a browser sends on a connection
    None        \* no connection

ASSUME LiveReloadAssumption ==
    /\ Callbacks \in Nat /\ Cap \in Nat /\ MaxChanges \in Nat /\ MaxHellos \in Nat
    /\ None \notin Conns

VARIABLES
    connections,    \* wsHub.connections
    hub,            \* what each hub is doing
    reader, writer, \* the two goroutines of each connection
    queue,          \* the number of messages in the channel c.send
    closed,         \* the closed channels
    open,           \* the websockets that are open
    pending,        \* broadcasts the watcher's callbacks still have to make
    changes, hellos,\* inputs so far
    panics          \* what panicked, sending on a closed channel; "runtime" is
                    \* Go's runtime, which found two hubs at the map

vars == <<connections, hub, reader, writer, queue, closed, open, pending,
          changes, hellos, panics>>

Panicking == {"hub", "reader", "runtime"}

\* A hub waits in its select, ranges over the connections (those it has seen),
\* or is about to send to one of them. It has yet to send to those that are `due`:
\* they were there when the broadcast began.
HubState == [at: {"select", "range", "send"}, seen: SUBSET Conns, due: SUBSET Conns,
             to: Conns \cup {None}]
Selecting == [at |-> "select", seen |-> {}, due |-> {}, to |-> None]

ReaderState == {"new", "registered", "reading", "hello", "leaving", "gone"}
WriterState == {"new", "receiving", "writing", "gone"}

Init ==
    /\ connections = {}
    /\ hub = [h \in Hubs |-> Selecting]
    /\ reader = [c \in Conns |-> "new"]
    /\ writer = [c \in Conns |-> "new"]
    /\ queue = [c \in Conns |-> 0]
    /\ closed = {}
    /\ open = Conns
    /\ pending = 0
    /\ changes = 0
    /\ hellos = [c \in Conns |-> 0]
    /\ panics = {}

\* A panic of a hub ends the program, as does the runtime's fatal error; net/http
\* recovers the panic of a handler.
Running == panics \subseteq {"reader"}

-----------------------------------------------------------------------------
(***************************************************************************)
(* The hub: hub.run. Its channels are unbuffered, so each of the three     *)
(* cases of its select is a meeting with the goroutine that sends.         *)
(***************************************************************************)
Register(h, c) ==
    /\ hub[h].at = "select"
    /\ reader[c] = "new"
    /\ reader' = [reader EXCEPT ![c] = "registered"]
    /\ connections' = connections \cup {c}
    /\ UNCHANGED <<hub, writer, queue, closed, open, pending, changes, hellos, panics>>

\* A mutant: the channel of a connection that has gone stays open.
UnregisterOpen(h, c) ==
    /\ hub[h].at = "select"
    /\ reader[c] = "leaving"
    /\ reader' = [reader EXCEPT ![c] = "gone"]
    /\ connections' = connections \ {c}
    /\ UNCHANGED <<hub, writer, queue, closed, open, pending, changes, hellos, panics>>

Unregister(h, c) ==
    /\ hub[h].at = "select"
    /\ reader[c] = "leaving"
    /\ reader' = [reader EXCEPT ![c] = "gone"]
    /\ connections' = connections \ {c}
    /\ closed' = closed \cup {c}
    /\ UNCHANGED <<hub, writer, queue, open, pending, changes, hellos, panics>>

Broadcast(h) ==
    /\ hub[h].at = "select"
    /\ pending > 0
    /\ pending' = pending - 1
    /\ hub' = [hub EXCEPT ![h] = [at |-> "range", seen |-> {}, due |-> connections, to |-> None]]
    /\ UNCHANGED <<connections, reader, writer, queue, closed, open, changes, hellos, panics>>

\* The range over the map yields each connection at most once, and every one that
\* was in the map when it began and still is; one added meanwhile it may skip.
Iterate(h) ==
    /\ hub[h].at = "range"
    /\ \/ \E c \in connections \ hub[h].seen :
            hub' = [hub EXCEPT ![h].at = "send", ![h].seen = @ \cup {c}, ![h].to = c]
       \/ /\ connections \cap hub[h].due \subseteq hub[h].seen
          /\ hub' = [hub EXCEPT ![h] = Selecting]
    /\ UNCHANGED <<connections, reader, writer, queue, closed, open, pending, changes, hellos, panics>>

\* A mutant: the hub waits for room in the channel.
SendWaiting(h) ==
    LET c == hub[h].to IN
    /\ hub[h].at = "send"
    /\ queue[c] < Cap
    /\ queue' = [queue EXCEPT ![c] = @ + 1]
    /\ hub' = [hub EXCEPT ![h].at = "range", ![h].due = @ \ {c}, ![h].to = None]
    /\ UNCHANGED <<connections, closed, panics, reader, writer, open, pending, changes, hellos>>

\* A mutant: a connection without room keeps its place and misses the message.
SendSkipping(h) ==
    LET c == hub[h].to IN
    /\ hub[h].at = "send"
    /\ \/ queue[c] < Cap /\ queue' = [queue EXCEPT ![c] = @ + 1]
       \/ queue[c] = Cap /\ UNCHANGED queue
    /\ hub' = [hub EXCEPT ![h].at = "range", ![h].to = None,
                          ![h].due = IF queue[c] < Cap THEN @ \ {c} ELSE @]
    /\ UNCHANGED <<connections, closed, panics, reader, writer, open, pending, changes, hellos>>

\* A send that would block drops the connection. A send on a closed channel
\* panics, in a select too.
Send(h) ==
    LET c == hub[h].to IN
    /\ hub[h].at = "send"
    /\ \/ /\ c \in closed
          /\ panics' = panics \cup {"hub"}
          /\ hub' = [hub EXCEPT ![h].at = "range", ![h].to = None]
          /\ UNCHANGED <<connections, queue, closed>>
       \/ /\ c \notin closed
          /\ queue[c] < Cap
          /\ queue' = [queue EXCEPT ![c] = @ + 1]
          /\ hub' = [hub EXCEPT ![h].at = "range", ![h].due = @ \ {c}, ![h].to = None]
          /\ UNCHANGED <<connections, closed, panics>>
       \/ /\ c \notin closed
          /\ queue[c] = Cap
          /\ connections' = connections \ {c}
          /\ closed' = closed \cup {c}
          /\ hub' = [hub EXCEPT ![h].at = "range", ![h].to = None]
          /\ UNCHANGED <<queue, panics>>
    /\ UNCHANGED <<reader, writer, open, pending, changes, hellos>>

Hub(h) == \/ \E c \in Conns : Register(h, c) \/ Unregister(h, c)
          \/ Broadcast(h) \/ Iterate(h) \/ Send(h)

\* A hub may be about to add connection c to the map or to delete it.
Writes(h, c) ==
    \/ hub[h].at = "select" /\ reader[c] \in {"new", "leaving"}
    \/ hub[h].at = "send" /\ hub[h].to = c /\ c \notin closed /\ queue[c] = Cap

\* One hub writes the map while another writes it too, or reads it for its range: the
\* runtime may notice, and then it ends the program. (A select takes a connection
\* from its reader, so two selects do not take the same.)
MapFault(g, h) ==
    /\ g # h
    /\ \E c \in Conns :
         /\ Writes(g, c)
         /\ \/ hub[h].at = "range"
            \/ \E d \in Conns : Writes(h, d) /\ (c = d => "send" \in {hub[g].at, hub[h].at})
    /\ panics' = panics \cup {"runtime"}
    /\ UNCHANGED <<connections, hub, reader, writer, queue, closed, open, pending, changes, hellos>>

-----------------------------------------------------------------------------
(***************************************************************************)
(* A connection: Handler, connection.reader and connection.writer.         *)
(***************************************************************************)
Serve(c) ==
    /\ reader[c] = "registered"
    /\ reader' = [reader EXCEPT ![c] = "reading"]
    /\ writer' = [writer EXCEPT ![c] = "receiving"]
    /\ UNCHANGED <<connections, hub, queue, closed, open, pending, changes, hellos, panics>>

\* ReadMessage returns a message, or fails because the websocket is closed.
ReadHello(c) ==
    /\ reader[c] = "reading"
    /\ c \in open
    /\ hellos[c] < MaxHellos
    /\ hellos' = [hellos EXCEPT ![c] = @ + 1]
    /\ reader' = [reader EXCEPT ![c] = "hello"]
    /\ UNCHANGED <<connections, hub, writer, queue, closed, open, pending, changes, panics>>

ReadFails(c) ==
    /\ reader[c] = "reading"
    /\ c \notin open
    /\ reader' = [reader EXCEPT ![c] = "leaving"]
    /\ UNCHANGED <<connections, hub, writer, queue, closed, open, pending, changes, hellos, panics>>

\* The answer to a hello waits for room in the channel. If the channel is closed,
\* or gets closed meanwhile, the handler panics; its deferred unregister still runs.
AnswerHello(c) ==
    /\ reader[c] = "hello"
    /\ \/ /\ c \in closed
          /\ panics' = panics \cup {"reader"}
          /\ reader' = [reader EXCEPT ![c] = "leaving"]
          /\ UNCHANGED queue
       \/ /\ c \notin closed
          /\ queue[c] < Cap
          /\ queue' = [queue EXCEPT ![c] = @ + 1]
          /\ reader' = [reader EXCEPT ![c] = "reading"]
          /\ UNCHANGED panics
    /\ UNCHANGED <<connections, hub, writer, closed, open, pending, changes, hellos>>

Reader(c) == Serve(c) \/ ReadFails(c) \/ AnswerHello(c)

Receive(c) ==
    /\ writer[c] = "receiving"
    /\ queue[c] > 0
    /\ queue' = [queue EXCEPT ![c] = @ - 1]
    /\ writer' = [writer EXCEPT ![c] = "writing"]
    /\ UNCHANGED <<connections, hub, reader, closed, open, pending, changes, hellos, panics>>

\* The writer leaves when the channel is closed and empty or a write fails, and
\* closes the websocket.
WriterLeaves(c) ==
    /\ \/ writer[c] = "receiving" /\ c \in closed /\ queue[c] = 0
       \/ writer[c] = "writing" /\ c \notin open
    /\ writer' = [writer EXCEPT ![c] = "gone"]
    /\ open' = open \ {c}
    /\ UNCHANGED <<connections, hub, reader, queue, closed, pending, changes, hellos, panics>>

Writer(c) == Receive(c) \/ WriterLeaves(c)

-----------------------------------------------------------------------------
(***************************************************************************)
(* The browser takes a message, or not, and goes away; a file changes and  *)
(* the watcher's goroutine calls the change callbacks one by one.          *)
(***************************************************************************)
Written(c) ==
    /\ writer[c] = "writing"
    /\ c \in open
    /\ writer' = [writer EXCEPT ![c] = "receiving"]
    /\ UNCHANGED <<connections, hub, reader, queue, closed, open, pending, changes, hellos, panics>>

Leave(c) ==
    /\ reader[c] # "new"
    /\ c \in open
    /\ open' = open \ {c}
    /\ UNCHANGED <<connections, hub, reader, writer, queue, closed, pending, changes, hellos, panics>>

Change ==
    /\ pending = 0
    /\ changes < MaxChanges
    /\ changes' = changes + 1
    /\ pending' = Callbacks
    /\ UNCHANGED <<connections, hub, reader, writer, queue, closed, open, hellos, panics>>

Next ==
    /\ Running
    /\ \/ \E h \in Hubs : Hub(h)
       \/ \E g, h \in Hubs : MapFault(g, h)
       \/ \E c \in Conns : Reader(c) \/ ReadHello(c) \/ Writer(c) \/ Written(c) \/ Leave(c)
       \/ Change

Spec == Init /\ [][Next]_vars

\* The Go scheduler runs every goroutine that can take a step; browsers and
\* files do as they please.
Fairness == /\ \A h \in Hubs : WF_vars(Running /\ Hub(h))
            /\ \A c \in Conns : WF_vars(Running /\ Reader(c)) /\ WF_vars(Running /\ Writer(c))
FairSpec == Spec /\ Fairness

-----------------------------------------------------------------------------
(***************************************************************************)
(* Properties.                                                             *)
(***************************************************************************)
\* The types of the hub's and the connections' state.
TypeOK ==
    /\ connections \subseteq Conns /\ closed \subseteq Conns /\ open \subseteq Conns
    /\ hub \in [Hubs -> HubState]
    /\ reader \in [Conns -> ReaderState]
    /\ writer \in [Conns -> WriterState]
    /\ queue \in [Conns -> 0 .. Cap]
    /\ pending \in 0 .. Callbacks
    /\ changes \in 0 .. MaxChanges
    /\ hellos \in [Conns -> 0 .. MaxHellos]
    /\ panics \subseteq Panicking

\* A hub never sends on a channel that has been closed, which would end the
\* server (the comment on connection.closer).
HubNeverPanics == "hub" \notin panics

\* A browser does not miss a change in silence: when a hub comes to the end of a
\* broadcast, every connection that was there when it began has been sent the message,
\* or its channel is closed (and so will be its websocket), whatever the other hub did
\* to the connections meanwhile.
NoChangeMissed == [][\A h \in Hubs :
    hub[h].at = "range" /\ hub'[h].at = "select"
        => hub[h].due \subseteq closed]_vars

\* Every change of a file gets to the hubs, whatever the browsers do: a slow one does
\* not block the watcher, as long as the program goes on.
ChangesBroadcast == pending > 0 ~> pending = 0 \/ ~Running

\* When the handler of a connection leaves after its websocket is closed, its writer
\* ends too, as long as the program goes on. (A handler that panicked leaves with the
\* websocket open: reader closes it only after its loop.)
HandlersEnd == \A c \in Conns :
    reader[c] = "leaving" /\ c \notin open
        ~> (reader[c] = "gone" /\ writer[c] = "gone") \/ ~Running
===============================================================================
