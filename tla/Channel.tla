------------------------------- MODULE Channel -------------------------------
(***************************************************************************)
(* One match's channel, from the document's writer to the browsers: the    *)
(* sequence number, the capped log and the publish in Redis, the WebSocket *)
(* hubs of the API tasks, and pages that load the match over REST and then *)
(* follow it, through dropped connections, slow clients and restarts.      *)
(*                                                                         *)
(* Sources: backend/onside/streams/bus.py, api/ws.py,                      *)
(* api/routes/matches.py, frontend/src/hooks/useLiveMatch.ts.              *)
(*                                                                         *)
(* The owner of the match's shard is the only publisher.  Each of its      *)
(* writes is announced by one message, so write n, message n and item n of *)
(* a page's timeline are the same number.                                  *)
(***************************************************************************)
EXTENDS Naturals, Sequences, FiniteSets, FiniteSetsExt

CONSTANTS
    Task,           \* API tasks, each with a hub and one Redis connection
    Client,         \* pages that follow the match
    NoTask,
    Correction,     \* messages that carry a correction and make a page refetch
    CHANLOG_MAXLEN,
    MAX_QUEUE,
    PromptSubscribe,    \* SUBSCRIBE takes effect before a later command of the
                        \* same task on its other connection
    MaxSeq,         \* bound: messages ever published
    MaxDrop,        \* bound: connections that break
    MaxRestart      \* bound: restarts of API tasks

ASSUME ChannelParameters ==
    /\ NoTask \notin Task
    /\ Correction \subseteq Nat
    /\ CHANLOG_MAXLEN \in Nat \ {0}
    /\ MAX_QUEUE \in Nat \ {0}
    /\ PromptSubscribe \in BOOLEAN
    /\ {MaxSeq, MaxDrop, MaxRestart} \subseteq Nat

VARIABLES
    written,    \* writes of the document
    seq,        \* seq:<channel>
    sent,       \* messages in the log and published
    chanlog,    \* chanlog:<channel>
    orders,     \* per task: SUBSCRIBE and UNSUBSCRIBE commands not yet handled
    subscribed, \* per task: Redis sends it the channel
    wire,       \* per task: messages Redis sent and the hub has not read
    reading,    \* per task: the hub's reader task is alive
    phase,      \* per client: where its page or its connection is
    at,         \* per client: the task that serves its connection
    since,      \* per connection: the query parameter
    lastSeq,    \* per connection: Client.last_seq
    replay,     \* per connection: what is left to send of the backlog
    queue,      \* per connection: Client.queue
    closing,    \* per connection: the hub has closed it as too slow
    seen,       \* per page: seq.current
    page,       \* per page: the items it shows
    refetch,    \* per page: the state of a refetch of the match
    start,      \* history: the seq the page started from
    got,        \* history: messages the page has received
    expired,    \* history: messages no longer in the log when it came back
    drops, restarts

redisVars == <<written, seq, sent, chanlog>>
hubVars   == <<orders, subscribed, wire, reading>>
connVars  == <<phase, at, since, lastSeq, replay, queue, closing>>
pageVars  == <<seen, page, refetch>>
history   == <<start, got, expired>>
budget    == <<drops, restarts>>
vars == <<redisVars, hubVars, connVars, pageVars, history, budget>>

\* of the phases "new", "loading", "away", "joined", "replaying" and "streaming"
Connected == {"joined", "replaying", "streaming"}
Idle == [state |-> "idle", items |-> {}]

\* backlog: what comes after a number, in a log whose numbers rise.
After(log, n) == SubSeq(log, Cardinality({i \in DOMAIN log : log[i] <= n}) + 1, Len(log))

\* self.clients[chan] of a task's hub
Members(t) == {c \in Client : at[c] = t}

Init ==
    /\ written = 0 /\ seq = 0 /\ sent = 0 /\ chanlog = <<>>
    /\ orders = [t \in Task |-> <<>>]
    /\ subscribed = [t \in Task |-> FALSE]
    /\ wire = [t \in Task |-> <<>>]
    /\ reading = [t \in Task |-> TRUE]
    /\ phase = [c \in Client |-> "new"]
    /\ at = [c \in Client |-> NoTask]
    /\ since = [c \in Client |-> 0]
    /\ lastSeq = [c \in Client |-> 0]
    /\ replay = [c \in Client |-> <<>>]
    /\ queue = [c \in Client |-> <<>>]
    /\ closing = [c \in Client |-> FALSE]
    /\ seen = [c \in Client |-> 0]
    /\ page = [c \in Client |-> {}]
    /\ refetch = [c \in Client |-> Idle]
    /\ start = [c \in Client |-> 0]
    /\ got = [c \in Client |-> {}]
    /\ expired = [c \in Client |-> {}]
    /\ drops = 0 /\ restarts = 0

-----------------------------------------------------------------------------
(* The publisher: project_log writes the document, then calls publish.     *)

Write ==
    /\ written < MaxSeq
    /\ written = sent
    /\ written' = written + 1
    /\ UNCHANGED <<seq, sent, chanlog, hubVars, connVars, pageVars, history, budget>>

\* INCR seq:<channel>
Stamp ==
    /\ seq < written
    /\ seq' = seq + 1
    /\ UNCHANGED <<written, sent, chanlog, hubVars, connVars, pageVars, history, budget>>

Capped(s) == IF Len(s) > CHANLOG_MAXLEN THEN Tail(s) ELSE s

\* MULTI: XADD to the capped log, PUBLISH to the tasks subscribed right now.
Send ==
    /\ sent < seq
    /\ sent' = seq
    /\ chanlog' = Capped(Append(chanlog, seq))
    /\ wire' = [t \in Task |-> IF subscribed[t] THEN Append(wire[t], seq) ELSE wire[t]]
    /\ UNCHANGED <<written, seq, orders, subscribed, reading, connVars, pageVars, history,
                   budget>>

-----------------------------------------------------------------------------
(* The hub. *)

\* Redis handles a task's next SUBSCRIBE or UNSUBSCRIBE.
HandleOrder(t) ==
    /\ orders[t] # <<>>
    /\ subscribed' = [subscribed EXCEPT ![t] = Head(orders[t]) = "subscribe"]
    /\ orders' = [orders EXCEPT ![t] = Tail(@)]
    /\ UNCHANGED <<wire, reading, redisVars, connVars, pageVars, history, budget>>

Full(c) == Len(queue[c]) >= MAX_QUEUE

\* Mutant: a full queue is skipped instead of closed.
FanOutSkipping(t) ==
    /\ reading[t]
    /\ wire[t] # <<>>
    /\ wire' = [wire EXCEPT ![t] = Tail(@)]
    /\ queue' = [c \in Client |-> IF at[c] = t /\ ~Full(c)
                                  THEN Append(queue[c], Head(wire[t])) ELSE queue[c]]
    /\ UNCHANGED <<orders, subscribed, reading, phase, at, since, lastSeq, replay, closing,
                   redisVars, pageVars, history, budget>>

\* _read: one message to every local client; a client whose queue is full is
\* closed instead, and stays a member until its own task has ended.
FanOut(t) ==
    /\ reading[t]
    /\ wire[t] # <<>>
    /\ \A c \in Members(t) : ~(Full(c) /\ closing[c])
    /\ wire' = [wire EXCEPT ![t] = Tail(@)]
    /\ queue' = [c \in Client |-> IF at[c] = t /\ ~Full(c)
                                  THEN Append(queue[c], Head(wire[t])) ELSE queue[c]]
    /\ closing' = [c \in Client |-> closing[c] \/ (at[c] = t /\ Full(c))]
    /\ UNCHANGED <<orders, subscribed, reading, phase, at, since, lastSeq, replay,
                   redisVars, pageVars, history, budget>>

\* A socket that was closed is closed again: WebSocket.close raises, outside
\* the reader's try, and nothing starts the reader again.
ReaderDies(t) ==
    /\ reading[t]
    /\ wire[t] # <<>>
    /\ \E c \in Members(t) : Full(c) /\ closing[c]
    /\ reading' = [reading EXCEPT ![t] = FALSE]
    /\ wire' = [wire EXCEPT ![t] = Tail(@)]
    /\ \E served \in SUBSET {c \in Members(t) : ~Full(c)} :
           queue' = [c \in Client |-> IF c \in served
                                      THEN Append(queue[c], Head(wire[t])) ELSE queue[c]]
    /\ UNCHANGED <<orders, subscribed, phase, at, since, lastSeq, replay, closing,
                   redisVars, pageVars, history, budget>>

-----------------------------------------------------------------------------
(* A connection: join, _serve, leave. *)

\* The connection of client c is over.
HangUp(c) ==
    /\ phase' = [phase EXCEPT ![c] = "away"]
    /\ at' = [at EXCEPT ![c] = NoTask]
    /\ since' = [since EXCEPT ![c] = 0]
    /\ lastSeq' = [lastSeq EXCEPT ![c] = 0]
    /\ replay' = [replay EXCEPT ![c] = <<>>]
    /\ queue' = [queue EXCEPT ![c] = <<>>]
    /\ closing' = [closing EXCEPT ![c] = FALSE]

\* Mutant: the backlog is read before the connection has joined.
ConnectAfterBacklog(c, t) ==
    /\ phase[c] = "away"
    /\ \/ /\ replay[c] = <<>>
          /\ replay' = [replay EXCEPT ![c] = After(chanlog, seen[c])]
          /\ UNCHANGED <<phase, at, since, orders>>
       \/ /\ phase' = [phase EXCEPT ![c] = "replaying"]
          /\ at' = [at EXCEPT ![c] = t]
          /\ since' = [since EXCEPT ![c] = seen[c]]
          /\ orders' = [orders EXCEPT ![t] = IF Members(t) = {} THEN Append(@, "subscribe") ELSE @]
          /\ UNCHANGED replay
    /\ UNCHANGED <<lastSeq, queue, closing, subscribed, wire, reading, redisVars, pageVars,
                   history, budget>>

\* connect: ?since=<seq.current>, and join at whatever task it is routed to.
Connect(c, t) ==
    /\ phase[c] = "away"
    /\ phase' = [phase EXCEPT ![c] = "joined"]
    /\ at' = [at EXCEPT ![c] = t]
    /\ since' = [since EXCEPT ![c] = seen[c]]
    /\ orders' = [orders EXCEPT ![t] = IF Members(t) = {} THEN Append(@, "subscribe") ELSE @]
    /\ UNCHANGED <<lastSeq, replay, queue, closing, subscribed, wire, reading, redisVars,
                   pageVars, history, budget>>

\* backlog: XRANGE of the log, after the join.
ReadBacklog(c) ==
    /\ phase[c] = "joined"
    /\ ~closing[c]
    /\ PromptSubscribe => orders[at[c]] = <<>>
    /\ phase' = [phase EXCEPT ![c] = "replaying"]
    /\ replay' = [replay EXCEPT ![c] = After(chanlog, since[c])]
    /\ expired' = [expired EXCEPT ![c] = @ \cup {m \in since[c] + 1 .. sent :
                                                   \A i \in DOMAIN chanlog : chanlog[i] # m}]
    /\ UNCHANGED <<at, since, lastSeq, queue, closing, start, got, hubVars, redisVars,
                   pageVars, budget>>

\* apply: the page takes a message in; a correction makes it refetch.
Receive(c, m) ==
    /\ got' = [got EXCEPT ![c] = @ \cup {m}]
    /\ seen' = [seen EXCEPT ![c] = Max({@, m})]
    /\ page' = [page EXCEPT ![c] = @ \cup {m}]
    /\ refetch' = IF m \in Correction THEN [refetch EXCEPT ![c] = [Idle EXCEPT !.state = "asked"]]
                  ELSE refetch
    /\ lastSeq' = [lastSeq EXCEPT ![c] = Max({@, m})]

\* The backlog is sent message by message.
SendReplay(c) ==
    /\ phase[c] = "replaying"
    /\ ~closing[c]
    /\ replay[c] # <<>>
    /\ Receive(c, Head(replay[c]))
    /\ replay' = [replay EXCEPT ![c] = Tail(@)]
    /\ UNCHANGED <<phase, at, since, queue, closing, start, expired, hubVars, redisVars,
                   budget>>

\* hello: the backlog is over, the pump starts.
Hello(c) ==
    /\ phase[c] = "replaying"
    /\ ~closing[c]
    /\ replay[c] = <<>>
    /\ phase' = [phase EXCEPT ![c] = "streaming"]
    /\ UNCHANGED <<at, since, lastSeq, replay, queue, closing, hubVars, redisVars, pageVars,
                   history, budget>>

\* pump: what the queue holds beyond last_seq is sent.
Pump(c) ==
    /\ phase[c] = "streaming"
    /\ ~closing[c]
    /\ queue[c] # <<>>
    /\ queue' = [queue EXCEPT ![c] = Tail(@)]
    /\ IF Head(queue[c]) > lastSeq[c]
       THEN Receive(c, Head(queue[c]))
       ELSE UNCHANGED <<got, lastSeq, pageVars>>
    /\ UNCHANGED <<phase, at, since, replay, closing, start, expired, hubVars, redisVars,
                   budget>>

\* Mutant: whoever leaves unsubscribes the task.
LeaveUnsubscribing(c) ==
    /\ HangUp(c)
    /\ orders' = [orders EXCEPT ![at[c]] = Append(@, "unsubscribe")]
    /\ UNCHANGED <<subscribed, wire, reading, redisVars, pageVars, history>>

\* leave: the last local client of the channel unsubscribes the task.
Leave(c) ==
    /\ HangUp(c)
    /\ orders' = [orders EXCEPT ![at[c]] = IF Members(at[c]) = {c}
                                           THEN Append(@, "unsubscribe") ELSE @]
    /\ UNCHANGED <<subscribed, wire, reading, redisVars, pageVars, history>>

\* The hub closed the connection: its own task ends with an error.
LeaveClosed(c) ==
    /\ closing[c]
    /\ Leave(c)
    /\ UNCHANGED budget

\* The network breaks the connection.
Drop(c) ==
    /\ drops < MaxDrop
    /\ phase[c] \in Connected
    /\ Leave(c)
    /\ drops' = drops + 1
    /\ UNCHANGED restarts

\* A deployment or a crash: the task and every connection of it are gone.
RestartTask(t) ==
    /\ restarts < MaxRestart
    /\ restarts' = restarts + 1
    /\ orders' = [orders EXCEPT ![t] = <<>>]
    /\ subscribed' = [subscribed EXCEPT ![t] = FALSE]
    /\ wire' = [wire EXCEPT ![t] = <<>>]
    /\ reading' = [reading EXCEPT ![t] = TRUE]
    /\ phase' = [c \in Client |-> IF at[c] = t THEN "away" ELSE phase[c]]
    /\ since' = [c \in Client |-> IF at[c] = t THEN 0 ELSE since[c]]
    /\ lastSeq' = [c \in Client |-> IF at[c] = t THEN 0 ELSE lastSeq[c]]
    /\ replay' = [c \in Client |-> IF at[c] = t THEN <<>> ELSE replay[c]]
    /\ queue' = [c \in Client |-> IF at[c] = t THEN <<>> ELSE queue[c]]
    /\ closing' = [c \in Client |-> closing[c] /\ at[c] # t]
    /\ at' = [c \in Client |-> IF at[c] = t THEN NoTask ELSE at[c]]
    /\ UNCHANGED <<redisVars, pageVars, history, drops>>

-----------------------------------------------------------------------------
(* A page: the match over REST, then the socket. *)

\* match reads the document ...
LoadState(c) ==
    /\ phase[c] = "new"
    /\ page' = [page EXCEPT ![c] = 1 .. written]
    /\ phase' = [phase EXCEPT ![c] = "loading"]
    /\ UNCHANGED <<seen, refetch, at, since, lastSeq, replay, queue, closing, hubVars,
                   redisVars, history, budget>>

\* ... and then the sequence number the page will resume from.
LoadSeq(c) ==
    /\ phase[c] = "loading"
    /\ seen' = [seen EXCEPT ![c] = seq]
    /\ start' = [start EXCEPT ![c] = seq]
    /\ phase' = [phase EXCEPT ![c] = "away"]
    /\ UNCHANGED <<page, refetch, got, expired, at, since, lastSeq, replay, queue, closing,
                   hubVars, redisVars, budget>>

\* invalidateQueries: the server reads the document for the refetch ...
RefetchRead(c) ==
    /\ refetch[c].state = "asked"
    /\ refetch' = [refetch EXCEPT ![c] = [state |-> "read", items |-> 1 .. written]]
    /\ UNCHANGED <<seen, page, connVars, hubVars, redisVars, history, budget>>

\* ... and the page is replaced by the answer.
RefetchApply(c) ==
    /\ refetch[c].state = "read"
    /\ page' = [page EXCEPT ![c] = refetch[c].items]
    /\ refetch' = [refetch EXCEPT ![c] = Idle]
    /\ UNCHANGED <<seen, connVars, hubVars, redisVars, history, budget>>

-----------------------------------------------------------------------------
Publish == Write \/ Stamp \/ Send
Hub(t) == HandleOrder(t) \/ FanOut(t) \/ ReaderDies(t)
Serve(c) == ReadBacklog(c) \/ SendReplay(c) \/ Hello(c) \/ Pump(c) \/ LeaveClosed(c)
Browser(c) ==
    \/ LoadState(c) \/ LoadSeq(c) \/ RefetchRead(c) \/ RefetchApply(c)
    \/ \E t \in Task : Connect(c, t)

Next ==
    \/ Publish
    \/ \E t \in Task : Hub(t) \/ RestartTask(t)
    \/ \E c \in Client : Serve(c) \/ Browser(c) \/ Drop(c)

Spec == Init /\ [][Next]_vars

\* Redis and the event loops of the API tasks run for ever, and a page tries
\* again until it is connected.
FairSpec ==
    /\ Spec
    /\ WF_vars(Publish)
    /\ \A t \in Task : WF_vars(HandleOrder(t)) /\ WF_vars(FanOut(t) \/ ReaderDies(t))
    /\ \A c \in Client : WF_vars(Serve(c)) /\ WF_vars(Browser(c))

-----------------------------------------------------------------------------
(* Properties. *)

Seqs == 1 .. MaxSeq

\* "no gap" (ws.py, 8-10): whatever happens to its connections, a page that
\* has received a message has received every earlier one since it loaded,
\* those aside that had left the log because it was away for more than
\* CHANLOG_MAXLEN messages.
NoGap ==
    \A c \in Client :
        start[c] + 1 .. seen[c] \subseteq got[c] \cup {m \in expired[c] : m + CHANLOG_MAXLEN <= sent}

\* "subscribed to a channel only while at least one local client wants it
\* (reference counted)" (ws.py, 6-7), and always then: once Redis has handled
\* what a hub asked for, it sends the channel to the hubs that have clients.
SubscribedWhileWanted ==
    \A t \in Task :
        (IF orders[t] = <<>> THEN subscribed[t] ELSE orders[t][Len(orders[t])] = "subscribe")
            <=> Members(t) # {}

\* A page that stays connected misses nothing in the end: every message
\* reaches it, unless its hub has lost its reader.
EveryMessageArrives ==
    \A c \in Client : \A m \in Seqs :
        m <= sent /\ phase[c] \notin {"new", "loading"} ~>
            \/ m <= start[c]
            \/ m \in got[c] \cup expired[c]
            \/ \E t \in Task : ~reading[t]

=============================================================================
