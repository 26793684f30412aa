---------------------------- MODULE IngestBridge ----------------------------
(***************************************************************************)
(* One push connection fed by the DB bridge: the Hub's side of it (the     *)
(* registry, the collection's phase, the ingest slot with its epoch and    *)
(* the value it holds), the WebSocket streams between the two processes,   *)
(* and the bridge's side (the supervisor that fetches the configuration,   *)
(* the source it runs for the connection, the pollers that query).         *)
(*                                                                         *)
(* What the protocol is for: a value read before the collection stopped,   *)
(* or with SQL that has been replaced since, must not reach the Hub as a   *)
(* reading of the present.  The slot numbers its epochs, a message names   *)
(* the epoch it belongs to, and a bridge that hears of a new epoch begins  *)
(* again from the description of its query.                                *)
(*                                                                         *)
(* Not kept apart: the queries of a source (one stands for them), the keys *)
(* of a query, the quality of a reading (a failed query is sent as a       *)
(* reading of quality bad), `status`, `ping` and the sending budget.  A    *)
(* poller that panics is left out.                                         *)
(***************************************************************************)
EXTENDS Naturals, Sequences, FiniteSets

CONSTANTS Sqls,          \* the contents a bridge section may have
          Sources,       \* tasks of run_source: the one running and those being stopped
          Pollers,       \* tasks of run_poller
          Conns,         \* WebSockets
          None,
          Disturbances,  \* bound: saves, stops of the collection, broken links and periodic
                         \* fetches beside a running source
          MaxEpoch,      \* bound: the epoch up to which the collection is started again
          MaxUp          \* bound: values in flight on one WebSocket

ASSUME BridgeAssumption ==
    /\ Sqls # {} /\ Disturbances \in Nat /\ MaxEpoch \in Nat \ {0} /\ MaxUp \in Nat \ {0}
    /\ None \notin Sqls \cup Sources \cup Pollers \cup Conns \cup Nat

VARIABLES saves,      \* the settings of the connection: those the slot was built from, then
                      \* those saved since and not committed to it yet
          phase,      \* the collection: "stopped", "starting", "running", "faulted"
          slot,       \* the ingest slot: epoch, held value, last notice, registered WebSocket
          conn,       \* the WebSockets, both ends
          refresh,    \* the supervisor's Notify holds a permit
          fetch,      \* the fetch under way and what the Hub answered it with
          running,    \* the source the supervisor runs
          permit,     \* the poller permit in the supervisor's map, or None
          src, poller,
          newest,     \* history: the WebSocket registered last
          folded,     \* history: a notice of changed settings was overwritten unread
          skipped,    \* history: a commit passed over settings saved before and announced
                      \* nothing, its own being those of the slot
          left        \* disturbances left

hubVars == <<saves, phase, slot>>
bridgeVars == <<refresh, fetch, running, permit, src, poller>>
vars == <<saves, phase, slot, conn, refresh, fetch, running, permit,
          src, poller, newest, folded, skipped, left>>

Settings == [sql: Sqls, on: BOOLEAN]
Reasons == {"changed", "superseded", "closed"}
Epochs == Nat \ {0}

\* A reading: the SQL that took it, and (history) the epoch in which the query began.
Readings == [sql: Sqls, era: Epochs]

\* One that the slot holds, with (history) the WebSocket it came on.
Held == [sql: Sqls, era: Epochs, via: Conns]

\* The permits of a source's pollers: a semaphore of one, named by any id unused so far.
Permits == Sources

Collecting == slot.collecting
Committed == Head(saves)
Saved == saves[Len(saves)]

-----------------------------------------------------------------------------
(***************************************************************************)
(* The Hub: the slot.                                                      *)
(***************************************************************************)

Notice == [collecting: BOOLEAN, epoch: Epochs, changed: BOOLEAN]

\* What goes up a WebSocket (`values`) and down it (`welcome`, `state`, the close).
Values == [epoch: Epochs, reading: Readings]
Messages == [op: {"welcome", "state"}, notice: Notice] \cup [op: {"close"}, why: Reasons]

\* apply_effect with `notify`: the watch keeps the newest notice only, and every
\* WebSocket that has subscribed to it has something to read.
Notify(changed, collecting, epoch) ==
    [collecting |-> collecting, epoch |-> epoch, changed |-> changed]

Unread(cs) == [c \in Conns |-> IF cs[c].hub THEN [cs[c] EXCEPT !.unread = TRUE] ELSE cs[c]]

\* A notice of changed settings that the registered WebSocket has not read is replaced
\* by one that does not say so.
Folds(changed) ==
    /\ slot.reg # None /\ conn[slot.reg].unread
    /\ slot.notice.changed /\ ~changed

\* SlotShared::end_ws: the registered WebSocket is told why and is registered no more.
EndWs(cs, why) ==
    IF slot.reg = None THEN cs ELSE [cs EXCEPT ![slot.reg].ended = why]

Disturb == left > 0 /\ left' = left - 1

\* stop_locked: everything held is dropped, the epoch moves on, and it is announced.
CollectionStopped ==
    /\ phase \in {"running", "faulted"} /\ Disturb
    /\ phase' = "stopped"
    /\ slot' = [slot EXCEPT !.held = None, !.epoch = slot.epoch + 1, !.collecting = FALSE,
                            !.notice = Notify(FALSE, FALSE, slot.epoch + 1)]
    /\ conn' = Unread(conn)
    /\ folded' = (folded \/ Folds(FALSE))
    /\ UNCHANGED <<saves, bridgeVars, newest, skipped>>

\* start_locked, before apply_run: dropped, a new epoch, and nothing announced.
CollectionStarting ==
    /\ phase \in {"stopped", "faulted"} /\ slot.epoch < MaxEpoch
    /\ phase' = "starting"
    /\ slot' = [slot EXCEPT !.held = None, !.epoch = slot.epoch + 1]
    /\ UNCHANGED <<saves, conn, bridgeVars, newest, folded, skipped, left>>

\* start_locked, after apply_run succeeded.
CollectionStarted ==
    /\ phase = "starting"
    /\ phase' = "running"
    /\ slot' = [slot EXCEPT !.collecting = TRUE, !.notice = Notify(FALSE, TRUE, slot.epoch)]
    /\ conn' = Unread(conn)
    /\ folded' = (folded \/ Folds(FALSE))
    /\ UNCHANGED <<saves, bridgeVars, newest, skipped, left>>

\* start_locked, after apply_run failed: nobody is told.
CollectionFaulted ==
    /\ phase = "starting"
    /\ phase' = "faulted"
    /\ UNCHANGED <<saves, slot, conn, bridgeVars, newest, folded, skipped, left>>

\* A handler saves the registry; the slot learns of it at a later commit.
Save ==
    /\ Disturb
    /\ \E new \in Settings \ {Saved} : saves' = Append(saves, new)
    /\ UNCHANGED <<phase, slot, conn, bridgeVars, newest, folded, skipped>>

\* The saves not yet committed once the r-th is: the r-th is the slot's own from then on.
SinceNext(r) == SubSeq(saves, r + 1, Len(saves))
Since(r) == SubSeq(saves, r, Len(saves))

\* IngestHub::commit of a snapshot read under the transition lock: the registry may have
\* been saved again since it was read.
Commit ==
    /\ phase # "starting"
    /\ \E r \in 2..Len(saves) :
        LET bridge == saves[r].sql # Committed.sql
            switched == saves[r].on # Committed.on
        IN  /\ saves' = Since(r)
            /\ skipped' = (skipped \/ (r > 2 /\ ~bridge))
            /\ IF bridge \/ switched
               THEN /\ slot' = [slot EXCEPT !.held = None, !.epoch = slot.epoch + 1,
                                            !.notice = Notify(bridge, Collecting, slot.epoch + 1),
                                            !.reg = IF switched THEN None ELSE slot.reg]
                    /\ conn' = Unread(IF switched THEN EndWs(conn, "changed") ELSE conn)
                    /\ folded' = (folded \/ (Folds(bridge) /\ ~switched))
               ELSE UNCHANGED <<slot, conn, folded>>
    /\ UNCHANGED <<phase, bridgeVars, newest, left>>

-----------------------------------------------------------------------------
(***************************************************************************)
(* The Hub: one WebSocket (Conn::run; the arms of its select! are unbiased *)
(* and so in no order here).                                               *)
(***************************************************************************)

Free == [hub |-> FALSE, bridge |-> FALSE, ended |-> "no", unread |-> FALSE,
         up |-> <<>>, down |-> <<>>]

Say(c, message) ==
    IF conn[c].bridge THEN Append(conn[c].down, message) ELSE <<>>

SendState(c) ==
    /\ conn[c].hub /\ conn[c].unread
    /\ conn' = [conn EXCEPT ![c].unread = FALSE,
                            ![c].down = Say(c, [op |-> "state", notice |-> slot.notice])]
    /\ UNCHANGED <<hubVars, bridgeVars, newest, folded, skipped, left>>

\* WsSession's drop takes it off the register only if it is the one registered.
ClearRegister(c) == None
OffRegister(c) == IF slot.reg = c THEN None ELSE slot.reg

\* The end of Conn::run: what the bridge sent and was not read is lost.
Leave(c, why) ==
    /\ conn' = [conn EXCEPT ![c] =
                  IF conn[c].bridge
                  THEN [conn[c] EXCEPT !.hub = FALSE, !.up = <<>>, !.unread = FALSE, !.ended = "no",
                                 !.down = Append(conn[c].down, [op |-> "close", why |-> why])]
                  ELSE Free]
    /\ slot' = [slot EXCEPT !.reg = OffRegister(c)]
    /\ UNCHANGED <<saves, phase, bridgeVars, newest, folded, skipped, left>>

\* The close the slot asked for.
HubEnds(c) ==
    /\ conn[c].hub /\ conn[c].ended # "no"
    /\ Leave(c, conn[c].ended)

\* The bridge is gone: its close was read, or the link broke.
HubLoses(c) ==
    /\ conn[c].hub /\ ~conn[c].bridge
    /\ Leave(c, "closed")

AppliedUnseen(c, message) ==
    [slot EXCEPT !.held = [sql |-> message.reading.sql, era |-> message.reading.era, via |-> c]]

\* apply_inner, after the enabled and the current_ws_guard checks: a message of another
\* epoch is refused whole (stale_epoch), and the WebSocket goes on.
Applied(c, message) ==
    IF message.epoch = slot.epoch
    THEN [slot EXCEPT !.held = [sql |-> message.reading.sql, era |-> message.reading.era,
                                via |-> c]]
    ELSE slot

IsCurrent(c) == slot.reg = c

\* handle_values.  A WebSocket registered no more is refused and ends (HubEnds: the
\* reason has arrived by then).
HandleValues(c) ==
    /\ conn[c].hub /\ conn[c].up # <<>>
    /\ Committed.on /\ IsCurrent(c)
    /\ slot' = Applied(c, Head(conn[c].up))
    /\ conn' = [conn EXCEPT ![c].up = Tail(@)]
    /\ UNCHANGED <<saves, phase, bridgeVars, newest, folded, skipped, left>>

\* The link breaks between the two ends.
Break(c) ==
    /\ Disturb
    /\ conn[c].bridge /\ \E s \in Sources : src[s].conn = c
    /\ conn' = [conn EXCEPT ![c] = IF @.hub THEN [@ EXCEPT !.bridge = FALSE, !.down = <<>>]
                                   ELSE Free]
    /\ UNCHANGED <<hubVars, bridgeVars, newest, folded, skipped>>

-----------------------------------------------------------------------------
(***************************************************************************)
(* The bridge: pollers and permits.                                        *)
(***************************************************************************)

\* Tasks, permits and WebSockets are interchangeable: take any one that is free.
Any(S) == CHOOSE x \in S : TRUE

Idle == [alive |-> FALSE, permit |-> None, sql |-> None, stop |-> FALSE, era |-> None]

PermitFree(k) == \A p \in Pollers : poller[p].alive => poller[p].permit # k

FreePollers == {p \in Pollers : ~poller[p].alive}

\* waiting_for_slot: what the source wants before it asks for the permit.
Wants(x) == x.at = "open" /\ x.collecting /\ x.awaiting = "no" /\ x.poller = None

\* retire: the poller is told to stop, and nobody takes what it still reads.
Retired(p) ==
    [q \in Pollers |-> IF q = p THEN [poller[q] EXCEPT !.stop = TRUE, !.sql = None, !.era = None]
                       ELSE poller[q]]

CanStart(x) == Wants(x) /\ PermitFree(x.permit) /\ FreePollers # {}

\* resume: start the poller if it is wanted and the permit is free, else wait for it.
\* `retired` is the poller stopped by the same handler, or None.
Resume(s, x, retired) ==
    IF CanStart(x)
    THEN LET p == Any(FreePollers)
         IN  /\ poller' = [Retired(retired) EXCEPT
                             ![p] = [alive |-> TRUE, permit |-> x.permit, sql |-> x.sql,
                                     stop |-> FALSE, era |-> None]]
             /\ src' = [src EXCEPT ![s] = [x EXCEPT !.poller = p]]
    ELSE poller' = Retired(retired) /\ src' = [src EXCEPT ![s] = x]

\* run_poller: a query begins unless the poller was told to stop.
QueryBegins(p) ==
    /\ poller[p].alive /\ ~poller[p].stop /\ poller[p].era = None
    /\ poller' = [poller EXCEPT ![p].era = slot.epoch]
    /\ UNCHANGED <<hubVars, conn, refresh, fetch, running, permit, src, newest, folded, skipped, left>>

\* The query ends and its reading goes to the source's outbox, over an unsent older one.
QueryEnds(p) ==
    /\ poller[p].alive /\ ~poller[p].stop /\ poller[p].era # None
    /\ poller' = [poller EXCEPT ![p].era = None]
    /\ src' = [s \in Sources |->
                 IF src[s].poller = p
                 THEN [src[s] EXCEPT !.out = [sql |-> poller[p].sql, era |-> poller[p].era]]
                 ELSE src[s]]
    /\ UNCHANGED <<hubVars, conn, refresh, fetch, running, permit, newest, folded, skipped, left>>

\* Told to stop, the poller ends after the query under way: should_stop comes before the
\* reading is handed over.  The permit is free again.
PollerStops(p) ==
    /\ poller[p].alive /\ poller[p].stop
    /\ poller' = [poller EXCEPT ![p] = Idle]
    /\ UNCHANGED <<hubVars, conn, refresh, fetch, running, permit, src, newest, folded, skipped, left>>

-----------------------------------------------------------------------------
(***************************************************************************)
(* The bridge: a source (run_source and its session).  The select! polls   *)
(* the stop first.                                                         *)
(***************************************************************************)

NoSource == [at |-> "none", sql |-> None, permit |-> None, stop |-> FALSE, conn |-> None,
             epoch |-> 0, collecting |-> FALSE, awaiting |-> "no", poller |-> None, out |-> None]

Away(x) == [x EXCEPT !.at = "away", !.conn = None, !.epoch = 0, !.collecting = FALSE,
                     !.awaiting = "no", !.poller = None, !.out = None]

\* The bridge's end of a WebSocket is given up.
Detached(c) ==
    [conn EXCEPT ![c] = IF @.hub THEN [@ EXCEPT !.bridge = FALSE, !.down = <<>>] ELSE Free]

FreeConns == {c \in Conns : conn[c] = Free /\ \A s \in Sources : src[s].conn # c}

\* connect_ws and open_ws_session_from: the new WebSocket takes the place of the one
\* registered, which is told so, and is greeted with the epoch and the phase.
Connect(s) ==
    /\ src[s].at = "away" /\ ~src[s].stop
    /\ Committed.on
    /\ FreeConns # {}
    /\ LET c == Any(FreeConns) IN
        /\ conn' = [EndWs(conn, "superseded") EXCEPT
                      ![c] = [Free EXCEPT !.hub = TRUE, !.bridge = TRUE,
                                          !.down = <<[op |-> "welcome",
                                                      notice |-> Notify(FALSE, Collecting, slot.epoch)]>>]]
        /\ slot' = [slot EXCEPT !.reg = c]
        /\ src' = [src EXCEPT ![s].at = "greeting", ![s].conn = c]
        /\ newest' = c
    /\ UNCHANGED <<saves, phase, refresh, fetch, running, permit, poller, folded, skipped, left>>

\* on_connect_error of a disabled connection (409): have the configuration fetched.
ConnectRefused(s) ==
    /\ src[s].at = "away" /\ ~src[s].stop
    /\ ~Committed.on
    /\ refresh' = TRUE
    /\ UNCHANGED <<hubVars, conn, fetch, running, permit, src, poller, newest, folded, skipped, left>>

Hears(s, op) ==
    /\ src[s].at \in {"greeting", "open"} /\ ~src[s].stop
    /\ conn[src[s].conn].down # <<>>
    /\ Head(conn[src[s].conn].down).op = op

Heard(s) == [conn EXCEPT ![src[s].conn].down = Tail(@)]

GreetedAtOnce(x, n) ==
    [x EXCEPT !.at = "open", !.epoch = n.epoch, !.collecting = n.collecting]
Greeted(x, n) ==
    [x EXCEPT !.at = "open", !.epoch = n.epoch, !.collecting = n.collecting, !.awaiting = "asked"]

\* The welcome: ask for the configuration again and query nothing until a fetch that
\* began after this has been applied.
OnWelcome(s) ==
    /\ Hears(s, "welcome") /\ src[s].at = "greeting"
    /\ src' = [src EXCEPT ![s] = Greeted(@, Head(conn[src[s].conn].down).notice)]
    /\ conn' = Heard(s)
    /\ refresh' = TRUE
    /\ UNCHANGED <<hubVars, fetch, running, permit, poller, newest, folded, skipped, left>>

\* `state`: another epoch or phase, or changed settings, retire the poller and empty the
\* outbox; changed settings have the configuration fetched first.
OnState(s) ==
    /\ Hears(s, "state") /\ src[s].at = "open"
    /\ LET n == Head(conn[src[s].conn].down).notice
           again == n.epoch # src[s].epoch \/ n.collecting # src[s].collecting \/ n.changed
           told == [src[s] EXCEPT !.epoch = n.epoch, !.collecting = n.collecting,
                                  !.awaiting = IF n.changed THEN "asked" ELSE src[s].awaiting]
       IN  /\ IF again
              THEN Resume(s, [told EXCEPT !.poller = None, !.out = None], src[s].poller)
              ELSE Resume(s, told, None)
           /\ refresh' = (refresh \/ n.changed)
    /\ conn' = Heard(s)
    /\ UNCHANGED <<hubVars, fetch, running, permit, newest, folded, skipped, left>>

\* The Hub's close; one that says the connection changed has the configuration fetched.
\* Sent in place of the welcome, the close ends the session without looking at its reason.
OnClose(s) ==
    /\ Hears(s, "close")
    /\ refresh' = (refresh \/ (src[s].at = "open" /\ Head(conn[src[s].conn].down).why = "changed"))
    /\ src' = [src EXCEPT ![s] = Away(@)]
    /\ poller' = Retired(src[s].poller)
    /\ conn' = Detached(src[s].conn)
    /\ UNCHANGED <<hubVars, fetch, running, permit, newest, folded, skipped, left>>

\* The stream ends without a close, or a send fails.
OnLost(s) ==
    /\ src[s].at \in {"greeting", "open"} /\ ~src[s].stop
    /\ ~conn[src[s].conn].bridge
    /\ src' = [src EXCEPT ![s] = Away(@)]
    /\ poller' = Retired(src[s].poller)
    /\ UNCHANGED <<hubVars, conn, refresh, fetch, running, permit, newest, folded, skipped, left>>

\* ConfigConfirmed, after the stop was looked at once more.
OnConfirmed(s) ==
    /\ src[s].at = "open" /\ ~src[s].stop /\ src[s].awaiting = "confirmed"
    /\ Resume(s, [src[s] EXCEPT !.awaiting = "no"], None)
    /\ UNCHANGED <<hubVars, conn, refresh, fetch, running, permit, newest, folded, skipped, left>>

\* SlotFree: the poller that was waited for has ended.
OnSlotFree(s) ==
    /\ ~src[s].stop /\ CanStart(src[s])
    /\ Resume(s, src[s], None)
    /\ UNCHANGED <<hubVars, conn, refresh, fetch, running, permit, newest, folded, skipped, left>>

\* on_timer: the newest unsent reading goes out under the epoch the source knows.  It
\* sends many before it looks at the stop again, so a stopping source may still send.
Send(s) ==
    /\ src[s].at = "open" /\ src[s].out # None
    /\ LET c == src[s].conn
       IN  /\ conn[c].bridge /\ Len(conn[c].up) < MaxUp
           /\ conn' = [conn EXCEPT ![c].up =
                         IF conn[c].hub
                         THEN Append(@, [epoch |-> src[s].epoch, reading |-> src[s].out])
                         ELSE @]
    /\ src' = [src EXCEPT ![s].out = None]
    /\ UNCHANGED <<hubVars, refresh, fetch, running, permit, poller, newest, folded, skipped, left>>

\* Event::Stop, or the stop seen while away: close and retire.  All that is left of the
\* task then waits for the pollers it retired.
OnStop(s) ==
    /\ src[s].stop
    /\ src' = [src EXCEPT ![s] = NoSource]
    /\ poller' = Retired(src[s].poller)
    /\ conn' = IF src[s].conn # None /\ conn[src[s].conn].bridge
               THEN Detached(src[s].conn) ELSE conn
    /\ UNCHANGED <<hubVars, refresh, fetch, running, permit, newest, folded, skipped, left>>

-----------------------------------------------------------------------------
(***************************************************************************)
(* The bridge: the supervisor.                                             *)
(***************************************************************************)

\* Supervisor::run: on request or by its timer.  A wait asked for earlier is now covered
\* by a fetch that began after it (fetch_started).  GET /api/ingest/bridge-config answers
\* with what is saved, committed to the slot or not, at some moment of the fetch; the
\* first is the worst.  The timer of config_refresh_secs is what begins a fetch when no
\* source runs; beside a running source it counts as a disturbance, so that nothing else
\* comes to depend on it.
TimerFires ==
    /\ Disturb /\ ~refresh
    /\ refresh' = TRUE
    /\ UNCHANGED <<hubVars, conn, fetch, running, permit, src, poller, newest, folded, skipped>>

FetchBegins ==
    /\ fetch = None
    /\ refresh \/ running = None
    /\ fetch' = Saved
    /\ refresh' = FALSE
    /\ src' = [s \in Sources |->
                 [src[s] EXCEPT !.awaiting = IF @ = "asked" THEN "covered" ELSE @]]
    /\ UNCHANGED <<hubVars, conn, running, permit, poller, newest, folded, skipped, left>>

\* on_fetched of an error: what runs goes on running, and the timer is set to try again.
FetchFails ==
    /\ fetch # None
    /\ fetch' = None
    /\ refresh' = TRUE
    /\ UNCHANGED <<hubVars, conn, running, permit, src, poller, newest, folded, skipped, left>>

\* plan_sources: a source of equal settings is left alone.
Unchanged(want) == running # None /\ want.on /\ src[running].sql = want.sql

RetainedConfigured(want) == IF want.on THEN permit ELSE None

\* apply: the permits kept are those of the connection if it is still configured, and
\* those a poller still holds.
Retained(want) ==
    IF want.on \/ (permit # None /\ ~PermitFree(permit)) THEN permit ELSE None

FreeSources == {s \in Sources : src[s] = NoSource}
NewPermits == {k \in Permits : PermitFree(k) /\ \A s \in Sources : src[s].permit # k}

\* on_fetched: stop what is no longer wanted (the request only), start what is, and let
\* the waits that a fetch begun after them covers be confirmed.  One step: a source that had
\* chosen its event before the stop was signalled has acted on it by the time the permits
\* are looked through.
FetchApplied ==
    /\ fetch # None
    /\ fetch' = None
    /\ LET want == fetch
           told == [s \in Sources |->
                      [src[s] EXCEPT !.awaiting = IF src[s].awaiting = "covered"
                                                  THEN "confirmed" ELSE src[s].awaiting,
                                     !.stop = src[s].stop \/ (s = running /\ ~Unchanged(want))]]
       IN  IF Unchanged(want) \/ ~want.on
           THEN /\ src' = told
                /\ running' = IF Unchanged(want) THEN running ELSE None
                /\ permit' = Retained(want)
           ELSE /\ FreeSources # {} /\ (Retained(want) # None \/ NewPermits # {})
                /\ LET s == Any(FreeSources)
                       k == IF Retained(want) # None THEN Retained(want) ELSE Any(NewPermits)
                  IN  /\ src' = [told EXCEPT ![s] = [NoSource EXCEPT !.at = "away", !.sql = want.sql,
                                                                      !.permit = k]]
                      /\ running' = s
                      /\ permit' = k
    /\ UNCHANGED <<hubVars, conn, refresh, poller, newest, folded, skipped, left>>

-----------------------------------------------------------------------------
Init ==
    /\ saves \in {<<[sql |-> Any(Sqls), on |-> on]>> : on \in BOOLEAN}
    /\ phase = "running"
    /\ slot = [epoch |-> 1, held |-> None, collecting |-> TRUE, reg |-> None,
               notice |-> Notify(FALSE, TRUE, 1)]
    /\ conn = [c \in Conns |-> Free]
    /\ refresh = FALSE
    /\ fetch = None
    /\ running = None
    /\ permit = None
    /\ src = [s \in Sources |-> NoSource]
    /\ poller = [p \in Pollers |-> Idle]
    /\ newest = None
    /\ folded = FALSE /\ skipped = FALSE
    /\ left = Disturbances

Collection == CollectionStopped \/ CollectionStarting \/ CollectionStarted \/ CollectionFaulted
Registry == Save \/ Commit
Stream(c) == SendState(c) \/ HubEnds(c) \/ HubLoses(c) \/ HandleValues(c)
Poller(p) == QueryBegins(p) \/ QueryEnds(p) \/ PollerStops(p)
Incoming(s) == OnWelcome(s) \/ OnState(s) \/ OnClose(s) \/ OnLost(s)
Source(s) ==
    \/ Connect(s) \/ ConnectRefused(s) \/ Incoming(s)
    \/ OnConfirmed(s) \/ OnSlotFree(s) \/ Send(s) \/ OnStop(s)
Supervisor == TimerFires \/ FetchBegins \/ FetchFails \/ FetchApplied

Next ==
    \/ Collection \/ Registry \/ Supervisor
    \/ \E c \in Conns : Stream(c) \/ Break(c)
    \/ \E p \in Pollers : Poller(p)
    \/ \E s \in Sources : Source(s)

\* Every task is scheduled again and again while it has something to do; the arms of the
\* Hub's unbiased select! each get their turn; a source polls its stop first and the stream
\* next (biased), whatever else it has to do; the supervisor's timer fires; a fetch does not fail for ever.
Fairness ==
    /\ \A c \in Conns : WF_vars(SendState(c)) /\ WF_vars(HandleValues(c))
                        /\ WF_vars(HubEnds(c) \/ HubLoses(c))
    /\ \A p \in Pollers : WF_vars(Poller(p))
    /\ \A s \in Sources : WF_vars(Source(s)) /\ WF_vars(OnStop(s)) /\ WF_vars(Incoming(s))
    /\ WF_vars(FetchBegins) /\ SF_vars(FetchApplied)

Spec == Init /\ [][Next]_vars /\ Fairness

-----------------------------------------------------------------------------
(* Properties. *)

SlotStates == [epoch: Epochs, held: Held \cup {None}, collecting: BOOLEAN,
               reg: Conns \cup {None}, notice: Notice]
ConnStates == [hub: BOOLEAN, bridge: BOOLEAN, ended: {"no", "changed", "superseded"},
               unread: BOOLEAN, up: Seq(Values), down: Seq(Messages)]
SourceStates == [at: {"none", "away", "greeting", "open"}, sql: Sqls \cup {None},
                 permit: Permits \cup {None}, stop: BOOLEAN, conn: Conns \cup {None},
                 epoch: Epochs \cup {0}, collecting: BOOLEAN,
                 awaiting: {"no", "asked", "covered", "confirmed"},
                 poller: Pollers \cup {None}, out: Readings \cup {None}]
PollerStates == [alive: BOOLEAN, permit: Permits \cup {None}, sql: Sqls \cup {None},
                 stop: BOOLEAN, era: Epochs \cup {None}]

\* Every variable has its type.
TypeOK ==
    /\ saves \in Seq(Settings) \ {<<>>}
    /\ phase \in {"stopped", "starting", "running", "faulted"}
    /\ slot \in SlotStates
    /\ conn \in [Conns -> ConnStates]
    /\ src \in [Sources -> SourceStates]
    /\ poller \in [Pollers -> PollerStates]
    /\ fetch \in Settings \cup {None}
    /\ running \in Sources \cup {None} /\ permit \in Permits \cup {None}
    /\ refresh \in BOOLEAN /\ folded \in BOOLEAN /\ skipped \in BOOLEAN
    /\ newest \in Conns \cup {None} /\ left \in Nat

\* The slot holds only what was read in its own epoch and came on the newest stream: no
\* reading begun before the collection stopped or started, or before the settings changed,
\* and none of a WebSocket that has been superseded, comes in as the present one.
Slot == INSTANCE EpochSlot WITH Streams <- Conns, Contents <- Sqls,
                                epoch <- slot.epoch, stream <- newest, held <- slot.held
KeepsItsEpoch == Slot!Spec

\* What the slot holds was read with the SQL of the settings it was built from or of
\* later ones, unless a notice of the change was overwritten unread, or the bridge may
\* have fetched settings that were saved and changed back before the slot learnt of them.
HeldIsOurSql ==
    slot.held # None /\ ~folded /\ ~skipped => \E i \in DOMAIN saves : saves[i].sql = slot.held.sql

\* One poller of the connection at a time queries the database, even while the source is
\* replaced or the stream is opened again.
OnePoller == \A p, q \in Pollers : poller[p].alive /\ poller[q].alive => p = q

\* If the collection runs, the connection is enabled and nothing waits to be committed
\* from some time on, the slot comes to hold a reading of the settings saved, and no later
\* periodic fetch is needed for it, unless the bridge was not told of a change as above.
Flows ==
    <>[](phase = "running" /\ Len(saves) = 1 /\ Committed.on /\ ~folded /\ ~skipped)
        => <>[](slot.held # None /\ slot.held.sql = Committed.sql)
=============================================================================
