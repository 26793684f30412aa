----------------------------- MODULE TagClient -----------------------------
(***************************************************************************)
(* banto-tagclient against the Hub it reads: the worker of one handle, its *)
(* WebSocket with the Hub's task behind it, and the two REST requests.     *)
(*                                                                         *)
(* An attempt fetches the catalog, opens the WebSocket, subscribes to the  *)
(* names it resolved, waits for the first data, fetches the values, lays   *)
(* the newer of both over each other and publishes them as one snapshot.   *)
(* With nothing resolved it pings, fetches the catalog again and publishes *)
(* that.  Catalog, values and subscription come by three ways that nothing *)
(* keeps in step but the revision, the run and the notice of a change.     *)
(*                                                                         *)
(* Abstracted: the Hub's run id and mode are one number, a reading's value *)
(* and quality another; delays are not measured; a request that the worker *)
(* sends right after its connection stands is sent with it; frames that a  *)
(* Hub does not send (ProtocolError) are left out.                         *)
(***************************************************************************)
EXTENDS Naturals, Sequences

CONSTANTS Names,          \* the external names requested
          Contents,       \* values with their quality
          None,
          QueueCapacity,  \* OUTBOUND_QUEUE_CAPACITY
          MaxRebinds,     \* MAX_ADDITIONAL_ATTEMPTS
          Disturbances    \* bound: commits, starts and stops, readings, restarts of the Hub,
                          \* failed requests, broken links, a revoked key, calls of the handle

Hubs == [proc: Nat, rev: Nat, tags: SUBSET Names, on: BOOLEAN, runs: Nat]
Readings == [v: Contents, t: Nat]
Received == [v: Contents, t: Nat, late: BOOLEAN]
Values == [Names -> Readings \cup {None}]
Catalogs == [rev: Nat, run: Nat, tags: SUBSET Names, proc: Nat]
Messages == [op: {"data"}, vals: Values] \cup [op: {"config_changed", "unknown_tag", "pong"}]
Sockets == [at: {"none", "upgrading", "serving", "gone"}, why: {"none", "broken", "credential"},
            request: {"none", "subscribe", "ping"}, unread: BOOLEAN, tags: SUBSET Names,
            base: [Names -> Contents \cup {None}], down: Seq(Messages)]
Responses == [st: {"unauthorized", "failed"}]
             \cup [st: {"read"}, proc: Nat, rev: Nat, tags: SUBSET Names]
             \cup [st: {"sent"}, proc: Nat, rev: Nat, tags: SUBSET Names, run: Nat, vals: Values]
Shows == [st: {"stopped", "connecting", "handshaking", "live", "unbound", "rebinding",
               "reconnecting", "unauthorized"},
          cat: Catalogs \cup {None}, vals: Values \cup {None}]

ASSUME ClientAssumption ==
    /\ QueueCapacity \in Nat \ {0} /\ MaxRebinds \in Nat /\ Disturbances \in Nat
    /\ None \notin Contents \cup Nat \cup Readings \cup Received \cup Values \cup Catalogs \cup Responses
    /\ Contents # {}

VARIABLES hub,      \* the Hub: process, revision, tags, runs given out, collecting
          reading,  \* what the Hub has for each name: content and time
          unsent,   \* a commit has not sent its revision yet
          key,      \* the API key is good
          sock,     \* the WebSocket, both ends and what is on its way
          resp,     \* the REST request that the worker awaits
          at, mode, \* the worker: what it awaits; rebinds made in a row (0: Connecting)
          cat,      \* the catalog of the attempt
          gate,     \* PublishGate.pending
          rest,     \* PublishGate.rest_snapshot
          pub,      \* the watched TagClientState
          handle,   \* the TagClientHandle
          stop,     \* the stop signal: "no", "sent", and "racing" while a poll that began
                    \* before it was sent may still be running
          twin,     \* history: an answer that the worker compares with its catalog came from
                    \* another process with the same revision and run, of another catalog
          odd,      \* history: a reading was not later than the one before it, or came back
                    \* to the content last sent while the client had fetched one in between
          left      \* disturbances left

hubVars == <<hub, reading, unsent, key, odd>>
workVars == <<at, mode, cat, gate, rest, pub>>
vars == <<hub, reading, unsent, key, sock, resp, at, mode, cat, gate, rest, pub,
          handle, stop, twin, odd, left>>

Run == IF hub.on THEN hub.runs ELSE 0

NoSocket == [at |-> "none", why |-> "none", request |-> "none", unread |-> FALSE,
             tags |-> {}, base |-> [n \in Names |-> None], down |-> <<>>]
Upgrading == [NoSocket EXCEPT !.at = "upgrading"]

\* The Hub's task has ended, and its state with it; what it sent is on its way still.
Gone(s, why) == [NoSocket EXCEPT !.at = "gone", !.why = why, !.down = s.down]

NoGate == [n \in Names |-> None]

-----------------------------------------------------------------------------
(***************************************************************************)
(* The Hub.                                                                *)
(***************************************************************************)

Spend == left > 0 /\ left' = left - 1

\* Bound: what the Hub does is followed until the client is told to stop.  A poll that was
\* running by then has seen what came before, and no other follows it.
Watched == stop = "no"
Disturb == Watched /\ at # "ended" /\ Spend

\* commit_catalog: map and revision under one lock; the watch learns of it after that.
Commit ==
    /\ ~unsent /\ Disturb
    /\ \E tags \in SUBSET Names : hub' = [hub EXCEPT !.rev = @ + 1, !.tags = tags]
    /\ unsent' = TRUE
    /\ UNCHANGED <<reading, key, odd, sock, resp, workVars, handle, stop, twin>>

SendRevision ==
    /\ Watched /\ unsent /\ unsent' = FALSE
    /\ sock' = [sock EXCEPT !.unread = @ \/ sock.at = "serving"]
    /\ UNCHANGED <<hub, reading, key, odd, resp, workVars, handle, stop, twin, left>>

\* A start takes the next run id; nobody is notified of it.
StartOrStop ==
    /\ Disturb
    /\ hub' = [hub EXCEPT !.on = ~@, !.runs = IF hub.on THEN @ ELSE @ + 1]
    /\ UNCHANGED <<reading, unsent, key, odd, sock, resp, workVars, handle, stop, twin>>

\* The reading of a name that came, or comes, to the client with the REST values.
Fetched(n) == IF at = "values" /\ resp # None /\ resp.st = "sent" THEN resp.vals[n]
              ELSE IF rest # None THEN rest[n] ELSE None

\* The readings of a name on their way, and with the one received all that the WebSocket
\* has brought that still counts.
Coming(n) == {i \in DOMAIN sock.down : sock.down[i].op = "data" /\ sock.down[i].vals[n] # None}
Sent(n) == ({gate[n]} \ {None}) \cup {sock.down[i].vals[n] : i \in Coming(n)}

\* A content that comes back to the one sent last is not told; nor is it then to a client
\* that fetched another one after that.
Untold(n, v) ==
    /\ v = sock.base[n] /\ Fetched(n) # None /\ Fetched(n).v # v
    /\ \A m \in Sent(n) : m.t < Fetched(n).t

\* A new sample, or a quality derived anew.  Its time is taken from a wall clock, so it
\* may be no later than that of the one before.
NewReading(n) ==
    /\ Disturb
    /\ \E v \in Contents \ {reading[n].v}, t \in {reading[n].t, reading[n].t + 1} :
         /\ reading' = [reading EXCEPT ![n] = [v |-> v, t |-> t]]
         /\ odd' = (odd \/ t <= reading[n].t \/ Untold(n, v))
    /\ UNCHANGED <<hub, unsent, key, sock, resp, workVars, handle, stop, twin>>

\* The process ends, and another one comes up with the registry as it is by then; revision
\* and run ids count from the start again.
RestartHub ==
    /\ Disturb
    /\ \E tags \in SUBSET Names, on \in BOOLEAN :
         hub' = [proc |-> hub.proc + 1, rev |-> 1, tags |-> tags, on |-> on,
                 runs |-> IF on THEN 1 ELSE 0]
    /\ unsent' = FALSE
    /\ sock' = IF sock.at \in {"upgrading", "serving"}
               THEN Gone(sock, "broken") ELSE sock
    /\ resp' = IF resp # None /\ resp.st = "read" THEN [st |-> "failed"] ELSE resp
    /\ UNCHANGED <<reading, key, odd, workVars, handle, stop, twin>>

Revoke ==
    /\ key /\ Disturb
    /\ key' = FALSE
    /\ UNCHANGED <<hub, reading, unsent, odd, sock, resp, workVars, handle, stop, twin>>

\* The middleware, then the first of two reads: map and revision (catalog_with_revision).
\* Unknown names among those whose values are asked for are refused.
ReadMap ==
    /\ at \in {"catalog", "recheck", "values"} /\ resp = None /\ Watched
    /\ resp' = IF ~key THEN [st |-> "unauthorized"]
               ELSE IF at = "values" /\ ~(cat.tags \subseteq hub.tags) THEN [st |-> "failed"]
               ELSE [st |-> "read", proc |-> hub.proc, rev |-> hub.rev, tags |-> hub.tags]
    /\ UNCHANGED <<hubVars, sock, workVars, handle, stop, twin, left>>

\* The second: the run of the controller and, for the values, the readings.
Answer ==
    /\ resp # None /\ resp.st = "read" /\ Watched
    /\ resp' = [st |-> "sent", proc |-> resp.proc, rev |-> resp.rev, tags |-> resp.tags,
                run |-> Run, vals |-> [n \in Names |-> IF at = "values" /\ n \in cat.tags THEN reading[n] ELSE None]]
    /\ twin' = (twin \/ (cat # None /\ cat.rev = resp.rev /\ cat.run = Run
                         /\ cat.proc # resp.proc /\ cat.tags # resp.tags))
    /\ UNCHANGED <<hubVars, sock, workVars, handle, stop, left>>

-----------------------------------------------------------------------------
(***************************************************************************)
(* handle_socket.                                                          *)
(***************************************************************************)

SocketStep == /\ sock.at = "serving" /\ Watched
              /\ UNCHANGED <<hubVars, resp, workVars, handle, stop, twin, left>>

\* enqueue: a full queue closes the WebSocket.
Enqueue(s, m) ==
    IF Len(s.down) < QueueCapacity THEN [s EXCEPT !.down = Append(@, m)]
    ELSE Gone(s, "broken")

\* on_upgrade runs some time after the client has its 101: from here on the revision is
\* watched, starting from the present one.
Registers ==
    /\ sock.at = "upgrading" /\ Watched
    /\ sock' = [sock EXCEPT !.at = "serving"]
    /\ UNCHANGED <<hubVars, resp, workVars, handle, stop, twin, left>>

DataOf(ns) == [op |-> "data", vals |-> [n \in Names |-> IF n \in ns THEN reading[n] ELSE None]]

Baseline(ns) == [n \in Names |-> IF n \in ns THEN reading[n].v ELSE None]

\* handle_text of a subscribe: unknown names are refused, else what is sent first is what
\* later readings are compared with.
Subscribes ==
    /\ SocketStep /\ sock.request = "subscribe"
    /\ LET s == [sock EXCEPT !.request = "none"] IN
         sock' = IF cat.tags \subseteq hub.tags
                 THEN Enqueue([s EXCEPT !.tags = cat.tags, !.base = Baseline(cat.tags)], DataOf(cat.tags))
                 ELSE Enqueue(s, [op |-> "unknown_tag"])

Pongs ==
    /\ SocketStep /\ sock.request = "ping"
    /\ sock' = Enqueue([sock EXCEPT !.request = "none"], [op |-> "pong"])

\* The tick sends the names subscribed to that the map still has and whose content is
\* another than that sent last, and forgets those that the map has no more.
Evaluates ==
    /\ SocketStep
    /\ LET matched == sock.tags \cap hub.tags
           diff == {n \in matched : sock.base[n] # reading[n].v}
           s == [sock EXCEPT !.base = Baseline(matched)]
       IN /\ s # sock
          /\ sock' = IF diff = {} THEN s ELSE Enqueue(s, DataOf(diff))

Notifies ==
    /\ SocketStep /\ sock.unread
    /\ sock' = Enqueue([sock EXCEPT !.unread = FALSE], [op |-> "config_changed"])

\* The periodic recheck of the credential finds it unusable: close 1008.
Revalidates ==
    /\ SocketStep /\ ~key
    /\ sock' = Gone(sock, "credential")

Breaks ==
    /\ sock.at \in {"upgrading", "serving"} /\ Disturb
    /\ sock' = Gone(sock, "broken")
    /\ UNCHANGED <<hubVars, resp, workVars, handle, stop, twin>>

-----------------------------------------------------------------------------
(***************************************************************************)
(* The worker.  Each of its awaits looks at the stop signal first, so once *)
(* that is sent no step begins any more; one whose poll began before may   *)
(* still end (stop = "racing").                                            *)
(***************************************************************************)

WorkerStep ==
    /\ stop \in {"no", "racing"}
    /\ stop' = IF stop = "racing" THEN "sent" ELSE stop
    /\ UNCHANGED <<hubVars, handle, twin>>

Show(st) == [st |-> st, cat |-> None, vals |-> None]

\* The attempt is over, its connection dropped.
Ended == cat' = None /\ gate' = NoGate /\ rest' = None /\ sock' = NoSocket /\ resp' = None

\* plan_failure of RevisionMismatch, RuntimeMetadataMismatch, BindingUnresolved: the next
\* attempt begins at once unless the rebinds in a row are used up.  One that had gone Live
\* or Unbound begins a new row.
Rebinds ==
    LET next == IF mode = 0 \/ at \in {"live", "unbound"} THEN 1 ELSE mode + 1 IN
    /\ IF next <= MaxRebinds THEN mode' = next /\ at' = "catalog" /\ pub' = Show("rebinding")
                             ELSE mode' = 0 /\ at' = "backoff" /\ pub' = Show("reconnecting")
    /\ Ended

\* plan_failure of Transport, CatalogUnavailable.
BacksOffShowing == mode' = 0 /\ at' = "backoff" /\ pub' = [pub EXCEPT !.st = "reconnecting"] /\ Ended
BacksOff == mode' = 0 /\ at' = "backoff" /\ pub' = Show("reconnecting") /\ Ended

\* Unauthorized and the close 1008: the supervisor returns.
RejectedRetries == BacksOff
Rejected == mode' = mode /\ at' = "ended" /\ pub' = Show("unauthorized") /\ Ended

BackoffElapses ==
    /\ at = "backoff" /\ WorkerStep
    /\ at' = "catalog" /\ pub' = Show("connecting")
    /\ UNCHANGED <<mode, cat, gate, rest, sock, resp, left>>

Arrived == resp # None /\ resp.st = "sent"

TakesCatalog ==
    /\ at = "catalog" /\ Arrived /\ WorkerStep
    /\ cat' = [rev |-> resp.rev, run |-> resp.run, tags |-> resp.tags, proc |-> resp.proc]
    /\ resp' = None /\ at' = "connect"
    /\ pub' = IF mode = 0 THEN Show("handshaking") ELSE pub
    /\ UNCHANGED <<mode, gate, rest, sock, left>>

\* connect_stream, and the subscribe or the ping after it.
Connects ==
    /\ at = "connect" /\ key /\ WorkerStep
    /\ sock' = [Upgrading EXCEPT !.request = IF cat.tags = {} THEN "ping" ELSE "subscribe"]
    /\ at' = IF cat.tags = {} THEN "pong" ELSE "first"
    /\ UNCHANGED <<mode, cat, gate, rest, pub, resp, left>>

\* PublishGate::accept_data: what is not older than what it has replaces it.
Accepts(vals) ==
    [n \in Names |->
        IF vals[n] # None /\ (gate[n] = None \/ vals[n].t >= gate[n].t)
        THEN [v |-> vals[n].v, t |-> vals[n].t, late |-> rest # None] ELSE gate[n]]

\* PublishGate::finalize: a value received is laid over the one fetched if it is later, or
\* as late and received after it.
OverlaysReceivedAfter(p, r) == p # None /\ p.late
Overlays(p, r) == p # None /\ (p.t > r.t \/ (p.t = r.t /\ p.late))

Finalized(g, r) ==
    [n \in Names |-> IF r[n] # None /\ Overlays(g[n], r[n]) THEN [v |-> g[n].v, t |-> g[n].t] ELSE r[n]]

Publishes(g, r) == pub' = [st |-> "live", cat |-> cat, vals |-> Finalized(g, r)]

Message == Head(sock.down)
Receives == /\ sock.down # <<>> /\ WorkerStep
            /\ UNCHANGED left

ReceivesData ==
    /\ at \in {"first", "values", "live"} /\ Receives /\ Message.op = "data"
    /\ gate' = Accepts(Message.vals)
    /\ at' = IF at = "first" THEN "values" ELSE at
    /\ IF at = "live" THEN Publishes(gate', rest) ELSE pub' = pub
    /\ sock' = [sock EXCEPT !.down = Tail(@)]
    /\ UNCHANGED <<mode, cat, rest, resp>>

\* accept_wire of config_changed and of unknown_tag, parse_unbound_wire of config_changed.
ReceivesChange ==
    /\ at \in {"first", "values", "live", "pong", "unbound"}
    /\ Receives /\ Message.op \in {"config_changed", "unknown_tag"}
    /\ Rebinds

ReceivesPong ==
    /\ at = "pong" /\ Receives /\ Message.op = "pong"
    /\ at' = "recheck" /\ sock' = [sock EXCEPT !.down = Tail(@)]
    /\ UNCHANGED <<mode, cat, gate, rest, pub, resp>>

\* The WebSocket has ended; what was under way may be lost with it.
ReceivesEnd ==
    /\ at \in {"first", "values", "live", "pong", "unbound"} /\ sock.at = "gone" /\ WorkerStep
    /\ IF sock.why = "credential" THEN Rejected ELSE BacksOff
    /\ UNCHANGED left

\* PONG_TIMEOUT.
PongLate ==
    /\ at = "pong" /\ Spend /\ WorkerStep
    /\ BacksOff

AgreesOnRun(r) == r.run = cat.run
Agrees(r) == r.rev = cat.rev /\ r.run = cat.run

TakesValues ==
    /\ at = "values" /\ Arrived /\ WorkerStep
    /\ IF Agrees(resp)
       THEN /\ rest' = resp.vals /\ Publishes(gate, rest')
            /\ at' = "live" /\ resp' = None
            /\ UNCHANGED <<mode, cat, gate, sock>>
       ELSE Rebinds
    /\ UNCHANGED left

\* run_unbound, the catalog again: published is the second one.
TakesRecheck ==
    /\ at = "recheck" /\ Arrived /\ WorkerStep
    /\ IF Agrees(resp) /\ resp.tags = {}
       THEN /\ cat' = [cat EXCEPT !.tags = resp.tags, !.proc = resp.proc]
            /\ pub' = [st |-> "unbound", cat |-> cat', vals |-> None]
            /\ at' = "unbound" /\ resp' = None
            /\ UNCHANGED <<mode, gate, rest, sock>>
       ELSE Rebinds
    /\ UNCHANGED left

\* A request refused by the Hub, or one that fails on its way.
RequestRefused ==
    /\ at \in {"catalog", "values", "recheck"} /\ resp # None /\ WorkerStep
    /\ \/ resp.st = "unauthorized" /\ Rejected
       \/ resp.st = "failed" /\ BacksOff
    /\ UNCHANGED left

RequestFails ==
    /\ at \in {"catalog", "connect", "values", "recheck"} /\ Spend /\ WorkerStep
    /\ BacksOff

ConnectRefused ==
    /\ at = "connect" /\ ~key /\ WorkerStep
    /\ Rejected /\ UNCHANGED left

\* The stop signal is seen: the connection is closed, the state cleared, the task returns.
SeesStopConnecting ==
    /\ at \notin {"live", "unbound", "ended"} /\ stop # "no"
    /\ at' = "ended" /\ mode' = mode /\ pub' = Show("stopped") /\ Ended
    /\ UNCHANGED <<hubVars, handle, stop, twin, left>>

SeesStop ==
    /\ at # "ended" /\ stop # "no"
    /\ at' = "ended" /\ mode' = mode /\ pub' = Show("stopped") /\ Ended
    /\ UNCHANGED <<hubVars, handle, stop, twin, left>>

-----------------------------------------------------------------------------
(***************************************************************************)
(* The handle.                                                             *)
(***************************************************************************)

HandleStep == UNCHANGED <<hubVars, mode, cat, gate, rest, twin>>

Signal == stop' = IF stop = "no" THEN "racing" ELSE stop

\* shutdown, restart: the signal; then the join is awaited.
StopRequested ==
    /\ handle = "held" /\ Spend /\ HandleStep /\ Signal
    /\ handle' \in {"stopping", "restarting"}
    /\ UNCHANGED <<at, pub, sock, resp>>

\* The worker of a shutdown is joined: a clean end is published once more.
ShutdownReturns ==
    /\ handle = "stopping" /\ at = "ended" /\ HandleStep
    /\ handle' = "done"
    /\ pub' = IF pub.st = "unauthorized" THEN pub ELSE Show("stopped")
    /\ UNCHANGED <<at, sock, resp, stop, left>>

\* The worker of a restart is joined: another one starts, with a key of its own.
RestartReturns ==
    /\ handle = "restarting" /\ at = "ended"
    /\ handle' = "held" /\ stop' = "no" /\ key' \in {key, TRUE}
    /\ at' = "catalog" /\ mode' = 0 /\ pub' = Show("connecting")
    /\ UNCHANGED <<hub, reading, unsent, odd, sock, resp, cat, gate, rest, twin, left>>

\* Drop, of the handle or of a shutdown or restart that is not awaited to its end: the
\* state is cleared, the signal sent, the task aborted, which takes effect later.
Drop ==
    /\ handle \in {"held", "stopping", "restarting"} /\ Spend /\ HandleStep /\ Signal
    /\ handle' = "dropped" /\ pub' = Show("stopped")
    /\ UNCHANGED <<at, sock, resp>>

Aborted ==
    /\ handle = "dropped" /\ at # "ended"
    /\ at' = "ended" /\ mode' = mode /\ pub' = pub /\ Ended
    /\ UNCHANGED <<hubVars, handle, stop, twin, left>>

-----------------------------------------------------------------------------
Init ==
    /\ hub \in [proc: {1}, rev: {1}, tags: SUBSET Names, on: {TRUE}, runs: {1}]
    /\ reading = [n \in Names |-> [v |-> CHOOSE v \in Contents : TRUE, t |-> 1]]
    /\ unsent = FALSE /\ key = TRUE /\ odd = FALSE /\ twin = FALSE /\ left = Disturbances
    /\ sock = NoSocket /\ resp = None
    /\ at = "catalog" /\ mode = 0 /\ cat = None /\ gate = NoGate /\ rest = None
    /\ pub = Show("connecting") /\ handle = "held" /\ stop = "no"

HubWorks == SendRevision \/ ReadMap \/ Answer
SocketWorks == Registers \/ Subscribes \/ Pongs \/ Evaluates \/ Notifies \/ Revalidates
WorkerWorks == \/ BackoffElapses \/ TakesCatalog \/ Connects \/ ReceivesData \/ ReceivesChange
               \/ ReceivesPong \/ ReceivesEnd \/ TakesValues \/ TakesRecheck
               \/ RequestRefused \/ ConnectRefused \/ SeesStop \/ Aborted
HandleWorks == ShutdownReturns \/ RestartReturns
Environment == \/ Commit \/ StartOrStop \/ RestartHub \/ Revoke \/ Breaks
               \/ \E n \in Names : NewReading(n)
               \/ PongLate \/ RequestFails \/ StopRequested \/ Drop

Next == HubWorks \/ SocketWorks \/ WorkerWorks \/ HandleWorks \/ Environment

\* The branches of the socket's select are served in no fixed order, each in the end, and so
\* have fairness of their own.  The worker's select is biased (stop, text, values): it is
\* only promised to go on, and the values may wait for as long as there is text.
Fairness ==
    /\ WF_vars(SendRevision) /\ WF_vars(ReadMap) /\ WF_vars(Answer)
    /\ WF_vars(Registers) /\ WF_vars(Subscribes \/ Pongs) /\ WF_vars(Evaluates)
    /\ WF_vars(Notifies) /\ WF_vars(Revalidates)
    /\ WF_vars(WorkerWorks) /\ WF_vars(HandleWorks)

Spec == Init /\ [][Next]_vars /\ Fairness

-----------------------------------------------------------------------------
(* Properties. *)

\* Every variable has its type, and only a worker that is Live or Unbound shows a snapshot
\* as long as its handle is held.
TypeOK ==
    /\ hub \in Hubs /\ reading \in [Names -> Readings]
    /\ unsent \in BOOLEAN /\ key \in BOOLEAN /\ odd \in BOOLEAN /\ twin \in BOOLEAN
    /\ sock \in Sockets /\ resp \in Responses \cup {None}
    /\ at \in {"catalog", "connect", "first", "values", "live", "pong", "recheck", "unbound",
               "backoff", "ended"}
    /\ mode \in 0..MaxRebinds /\ cat \in Catalogs \cup {None}
    /\ gate \in [Names -> Received \cup {None}] /\ rest \in Values \cup {None} /\ pub \in Shows
    /\ handle \in {"held", "stopping", "restarting", "dropped", "done"}
    /\ stop \in {"no", "racing", "sent"} /\ left \in 0..Disturbances
    /\ handle = "held" => (pub.cat # None <=> at \in {"live", "unbound"})

Outdated == pub.cat.rev # hub.rev \/ pub.cat.tags # hub.tags

\* Whoever is shown a catalog that the Hub has replaced will be told: the notice is in the
\* watch, on its way, or the WebSocket has ended.
NewsOnItsWay ==
    stop = "no" /\ at \in {"live", "unbound"} /\ Outdated /\ ~twin =>
        \/ unsent \/ sock.unread \/ sock.at = "gone"
        \/ \E i \in DOMAIN sock.down : sock.down[i].op = "config_changed"

\* What the client will hold for a name once it has read all that is on its way.
Believed(n) ==
    LET later == {i \in Coming(n) : sock.down[i].vals[n].t >= pub.vals[n].t}
    IN IF later = {} THEN pub.vals[n].v
       ELSE sock.down[CHOOSE i \in later : \A j \in later : j <= i].vals[n].v

\* The Hub sends differences from what it sent last: when there is no difference left, what
\* the client holds, or is about to, is what the Hub has.
NothingLeftUnsaid ==
    stop = "no" /\ at = "live" /\ sock.at = "serving" /\ ~odd /\ ~Outdated =>
        \A n \in pub.cat.tags : sock.base[n] = reading[n].v => Believed(n) = reading[n].v

UpToDate ==
    /\ pub.st \in {"live", "unbound"} /\ ~Outdated
    /\ pub.st = "live" <=> hub.tags # {}
    /\ odd \/ \A n \in hub.tags : pub.vals[n].v = reading[n].v

\* Once nothing disturbs it any more, a client with a good key shows the Hub's catalog and
\* values, one whose key is revoked is told so, and a shutdown has returned with nothing
\* shown and no connection left.
Settles ==
    <>[](/\ handle = "held" /\ key /\ ~twin => UpToDate
         /\ handle = "held" /\ ~key => pub.st = "unauthorized"
         /\ handle \in {"held", "dropped", "done"}
         /\ handle = "done" => pub.st \in {"stopped", "unauthorized"}
         /\ handle # "held" => at = "ended" /\ sock = NoSocket)
=============================================================================
