------------------------- MODULE CollectionController -------------------------
(***************************************************************************)
(* The collection lifecycle of banto-hub                                   *)
(* (apps/banto-hub/core/src/controller.rs over CollectorManager in hub.rs):*)
(* start, stop and set_mode requests, live applies of a changed registry,  *)
(* the tray's quit confirmation and the process shutdown.  Requests run    *)
(* concurrently; one transition lock (tokio's fair Mutex) serializes what  *)
(* they do, and every step between two awaits is an action here.           *)
(*                                                                         *)
(* The registry, the catalog and what the collector runs are versions of   *)
(* the registry.  Run ids, error texts and revision counters are left out, *)
(* and so is a registry without any enabled group.                         *)
(***************************************************************************)
EXTENDS Naturals, Sequences, SequencesExt

CONSTANTS
    Procs,      \* requests that may be under way at once
    Modes,      \* the run modes
    Ops,        \* the requests made
    Exits,      \* the ways out used: "quit" the tray, "down" the shutdown
    MayFail,    \* loading, committing or applying a registry may fail
    Droppable,  \* requests whose handler a client's disconnect may drop
    MaxDb,      \* bound: registry versions
    Free        \* stands for nobody

LifecycleOps == {"start", "stop", "mode"}

ASSUME ControllerAssumption ==
    /\ Free \notin Procs
    /\ Modes # {} /\ "off" \notin Modes
    /\ Ops \subseteq LifecycleOps \cup {"live"}
    /\ Exits \subseteq {"quit", "down"}
    /\ MayFail \in BOOLEAN
    /\ Droppable \subseteq Ops
    /\ MaxDb \in Nat \ {0}

VARIABLES
    state,      \* CollectionState
    mode,       \* the selected run mode
    hold,       \* quit_confirm_hold
    shutting,   \* shutting_down
    owner,      \* holder of the transition lock
    waiters,    \* requests queued for it
    live,       \* live_apply_in_progress
    pc, op,     \* pc[p], op[p]: where request p is, and what it is
    snap,       \* snap[p]: the registry version p has loaded
    refusedBy,  \* refusedBy[p]: kind of the holder that made p's try_lock fail
    db,         \* the registry, as a version
    cat,        \* the catalog's version (with the computed and DB plans)
    applied,    \* applied_registry (0: none)
    on,         \* the running collector's mode, or "off"
    sess,       \* the run's broker sessions exist
    dbsrc,      \* the DB Source tasks run
    ingest,     \* the push side was told that collection runs
    quit,       \* the tray's quit gate
    down,       \* how far RunningHub::shutdown is
    failed      \* loading, committing or applying has failed once (history)

lockVars == <<owner, waiters>>
ctrlVars == <<state, mode>>
markVars == <<hold, shutting>>
hubVars  == <<cat, applied, on, sess>>
srcVars  == <<dbsrc, ingest>>
restVars == <<quit, down, failed>>
procVars == <<pc, op, snap, refusedBy>>
vars == <<ctrlVars, markVars, lockVars, live, procVars, db, hubVars, srcVars, restVars>>

NoOp == [kind |-> "none", mode |-> CHOOSE m \in Modes : TRUE]

Init ==
    /\ state = "Stopped" /\ mode = CHOOSE m \in Modes : TRUE
    /\ hold = FALSE /\ shutting = FALSE
    /\ owner = Free /\ waiters = <<>> /\ live = FALSE
    /\ pc = [p \in Procs |-> "idle"] /\ op = [p \in Procs |-> NoOp]
    /\ snap = [p \in Procs |-> 0] /\ refusedBy = [p \in Procs |-> "none"]
    /\ db = 1 /\ cat = 1 /\ applied = 0 /\ on = "off" /\ sess = FALSE
    /\ dbsrc = FALSE /\ ingest = FALSE
    /\ quit = "none" /\ down = "up" /\ failed = FALSE

Goto(p, l) == pc' = [pc EXCEPT ![p] = l]
At(p, l, to) == pc[p] = l /\ Goto(p, to)

RefusesStarts == hold \/ shutting
Busy == state \in {"Starting", "Running", "Stopping"}

-----------------------------------------------------------------------------
(* The transition lock: first come, first served.                          *)

Take(p) == owner = Free /\ waiters = <<>> /\ owner' = p /\ UNCHANGED waiters
Queue(p) == waiters' = Append(waiters, p) /\ UNCHANGED owner
Unlock ==
    IF waiters = <<>> THEN owner' = Free /\ UNCHANGED waiters
                      ELSE owner' = Head(waiters) /\ waiters' = Tail(waiters)

-----------------------------------------------------------------------------
(* Requests arrive.  A start is refused at the door once the hub quits.    *)
(* A live apply follows the commit of a registry change, or repeats one.   *)

Request(p) ==
    /\ pc[p] = "idle" /\ down # "down"
    /\ \E k \in Ops, m \in Modes :
         /\ k \in {"stop", "live"} => m = NoOp.mode
         /\ k = "start" => ~RefusesStarts
         /\ op' = [op EXCEPT ![p] = [kind |-> k, mode |-> m]]
         /\ Goto(p, IF k = "live" THEN "raise" ELSE "try")
         /\ IF k = "live" THEN db' \in db..MaxDb /\ db' <= db + 1 ELSE db' = db
         /\ snap' = [snap EXCEPT ![p] = db']
    /\ UNCHANGED <<ctrlVars, markVars, lockVars, live, refusedBy, hubVars, srcVars, restVars>>

HolderKind == IF owner = Free THEN "none" ELSE op[owner].kind

(* acquire_transition: try_lock, then, as a second step, the flag; what    *)
(* meets another transition returns without having waited.                 *)
WithoutLock  == "dispatch"
AfterRefusal == "flag"
TriesAgain   == "try"
MeetsAnother == "dropped"

TryLock(p) ==
    /\ pc[p] = "try"
    /\ \/ Take(p) /\ Goto(p, "dispatch") /\ UNCHANGED refusedBy
       \/ /\ ~(owner = Free /\ waiters = <<>>)
          /\ refusedBy' = [refusedBy EXCEPT ![p] = HolderKind]
          /\ Goto(p, AfterRefusal) /\ UNCHANGED lockVars
    /\ UNCHANGED <<ctrlVars, markVars, live, op, snap, db, hubVars, srcVars, restVars>>

CheckFlag(p) ==
    /\ pc[p] = "flag"
    /\ \/ live /\ Goto(p, "waiting")
       \/ ~live /\ Goto(p, MeetsAnother)
    /\ UNCHANGED <<ctrlVars, markVars, lockVars, live, op, snap, refusedBy, db, hubVars, srcVars, restVars>>

(* lock().await.                                                           *)
Wait(p) ==
    /\ pc[p] = "waiting"
    /\ \/ Take(p) /\ Goto(p, "queued")
       \/ ~(owner = Free /\ waiters = <<>>) /\ Queue(p) /\ Goto(p, "queued")
    /\ UNCHANGED <<ctrlVars, markVars, live, op, snap, refusedBy, db, hubVars, srcVars, restVars>>

Granted(p) ==
    /\ owner = p
    /\ At(p, "queued", IF op[p].kind = "live" THEN "snapshot" ELSE "dispatch")
    /\ UNCHANGED <<ctrlVars, markVars, lockVars, live, op, snap, refusedBy, db, hubVars, srcVars, restVars>>

(* A request returns and its guard is dropped; a live apply still has its  *)
(* flag to clear.                                                          *)
Release(p) ==
    /\ pc[p] \in {"release", "applied"}
    /\ Unlock
    /\ Goto(p, IF op[p].kind = "live" THEN "lower" ELSE "idle")
    /\ refusedBy' = [refusedBy EXCEPT ![p] = "none"]
    /\ UNCHANGED <<ctrlVars, markVars, live, op, snap, db, hubVars, srcVars, restVars>>

ReturnNoOp(p) ==
    /\ At(p, "dropped", "idle")
    /\ refusedBy' = [refusedBy EXCEPT ![p] = "none"]
    /\ UNCHANGED <<ctrlVars, markVars, lockVars, live, op, snap, db, hubVars, srcVars, restVars>>

-----------------------------------------------------------------------------
(* start, stop and set_mode, holding the lock.                             *)

(* Which of them act, and on what: the rest return at once.                *)
StartsAnyway(p) == op[p].kind = "start" /\ state \in {"Stopped", "Faulted", "Running"}
StartsFresh(p) == op[p].kind = "start" /\ state \in {"Stopped", "Faulted"}
StopsFirst(p) ==
    \/ op[p].kind = "start" /\ state = "Running" /\ mode # op[p].mode
    \/ op[p].kind = "stop" /\ state \notin {"Stopped", "Stopping"}
    \/ /\ op[p].kind = "mode" /\ ~RefusesStarts
       /\ state = "Faulted" \/ (state = "Running" /\ mode # op[p].mode)

Dispatch(p) ==
    /\ pc[p] = "dispatch"
    /\ \/ StartsFresh(p) /\ Goto(p, "mark") /\ UNCHANGED ctrlVars
       \/ StopsFirst(p) /\ Goto(p, "dbsrcOff") /\ state' = "Stopping" /\ UNCHANGED mode
       \/ /\ op[p].kind = "mode" /\ state = "Stopped"
          /\ mode' = op[p].mode /\ Goto(p, "release") /\ UNCHANGED state
       \/ /\ ~StartsFresh(p) /\ ~StopsFirst(p) /\ ~(op[p].kind = "mode" /\ state = "Stopped")
          /\ Goto(p, "release") /\ UNCHANGED ctrlVars
    /\ UNCHANGED <<markVars, lockVars, live, op, snap, refusedBy, db, hubVars, srcVars, restVars>>

(* stop_locked: DB Source, collector, sessions, then the state.            *)
DbSourceOff(p) ==
    /\ At(p, "dbsrcOff", "collectorOff")
    /\ dbsrc' = FALSE
    /\ UNCHANGED <<ctrlVars, markVars, lockVars, live, op, snap, refusedBy, db, hubVars, ingest, restVars>>

CollectorOff(p) ==
    /\ At(p, "collectorOff", "sessionsOff")
    /\ on' = "off"
    /\ UNCHANGED <<ctrlVars, markVars, lockVars, live, op, snap, refusedBy, db, cat, applied, sess, srcVars, restVars>>

SessionsOff(p) ==
    /\ At(p, "sessionsOff", "stopped")
    /\ applied' = 0 /\ sess' = FALSE
    /\ UNCHANGED <<ctrlVars, markVars, lockVars, live, op, snap, refusedBy, db, cat, on, srcVars, restVars>>

Stopped(p) ==
    /\ At(p, "stopped", IF op[p].kind = "stop" THEN "release" ELSE "mark")
    /\ ingest' = FALSE /\ state' = "Stopped"
    /\ UNCHANGED <<mode, markVars, lockVars, live, op, snap, refusedBy, db, hubVars, dbsrc, restVars>>

(* start_locked.  The marks are read in the critical section that writes   *)
(* Starting; set_mode has selected its mode just before.                   *)
RefusedAtDoorOnly == FALSE
RefusedNow == RefusesStarts

MarkStarting(p) ==
    /\ pc[p] = "mark"
    /\ IF RefusedNow
         THEN /\ mode' = IF op[p].kind = "mode" THEN op[p].mode ELSE mode
              /\ Goto(p, "release") /\ UNCHANGED <<state, ingest>>
         ELSE /\ state' = "Starting" /\ mode' = op[p].mode
              /\ ingest' = FALSE /\ Goto(p, "load")
    /\ UNCHANGED <<markVars, lockVars, live, op, snap, refusedBy, db, hubVars, dbsrc, restVars>>

(* The end of start_locked: the state, then the sources of a started run.  *)
FinishStartAnyway(p, ok) ==
    Goto(p, "sources") /\ state' = (IF ok THEN "Running" ELSE "Faulted") /\ UNCHANGED mode
FinishStart(p, ok) ==
    /\ Goto(p, IF ok THEN "sources" ELSE "release")
    /\ state' = IF ok THEN "Running" ELSE "Faulted"
    /\ UNCHANGED mode

SourcesOn(p) ==
    /\ At(p, "sources", "release")
    /\ dbsrc' = TRUE /\ ingest' = TRUE
    /\ UNCHANGED <<ctrlVars, markVars, lockVars, live, op, snap, refusedBy, db, hubVars, restVars>>

-----------------------------------------------------------------------------
(* CollectorManager::apply_run, for a start and for a live apply: load the *)
(* registry, synchronize the sessions, commit to the collector or undo.    *)

LoadRegistry(p) ==
    /\ At(p, "load", "sync")
    /\ snap' = [snap EXCEPT ![p] = db]
    /\ UNCHANGED <<ctrlVars, markVars, lockVars, live, op, refusedBy, db, hubVars, srcVars, restVars>>

SyncSessions(p) ==
    /\ At(p, "sync", "commit")
    /\ sess' = TRUE
    /\ UNCHANGED <<ctrlVars, markVars, lockVars, live, op, snap, refusedBy, db, cat, applied, on, srcVars, restVars>>

CommitRun(p) ==
    /\ At(p, "commit", "applyOk")
    /\ on' = mode /\ applied' = snap[p]
    /\ UNCHANGED <<ctrlVars, markVars, lockVars, live, op, snap, refusedBy, db, cat, sess, srcVars, restVars>>

(* rollback_broker_sessions: the sessions of the last configuration that   *)
(* was applied, none if there is none.                                     *)
SessionsGone == FALSE
SessionsKept == sess
SessionsBefore == applied # 0

RunFails(p) ==
    /\ MayFail /\ failed' = TRUE
    /\ \/ At(p, "load", "applyErr") /\ UNCHANGED sess
       \/ At(p, "commit", "applyErr") /\ sess' = SessionsBefore
    /\ UNCHANGED <<ctrlVars, markVars, lockVars, live, op, snap, refusedBy, db, cat, applied, on, srcVars, quit, down>>

(* What its caller does with the result: start_locked sets the state, a    *)
(* live apply that failed commits the catalog of the applied registry.     *)
CatalogKept == cat
CatalogEmptied == 0
CatalogBefore == applied

Settle(p) ==
    /\ pc[p] \in {"applyOk", "applyErr"}
    /\ IF op[p].kind = "live"
         THEN /\ Goto(p, "applied")
              /\ cat' = IF pc[p] = "applyErr" THEN CatalogBefore ELSE cat
              /\ UNCHANGED ctrlVars
         ELSE FinishStart(p, pc[p] = "applyOk") /\ UNCHANGED cat
    /\ UNCHANGED <<markVars, lockVars, live, op, snap, refusedBy, db, applied, on, sess, srcVars, restVars>>

-----------------------------------------------------------------------------
(* commit_catalog_and_apply_live.                                          *)

RaiseFlag(p) ==
    /\ At(p, "raise", "waiting")
    /\ live' = TRUE
    /\ UNCHANGED <<ctrlVars, markVars, lockVars, op, snap, refusedBy, db, hubVars, srcVars, restVars>>

(* The registry is read under the lock.                                    *)
RegistryOfCaller(p) == snap[p]
RegistryNow(p) == db

Snapshot(p) ==
    /\ pc[p] = "snapshot"
    /\ \/ Goto(p, "catalog") /\ snap' = [snap EXCEPT ![p] = RegistryNow(p)] /\ UNCHANGED failed
       \/ MayFail /\ Goto(p, "release") /\ failed' = TRUE /\ UNCHANGED snap
    /\ UNCHANGED <<ctrlVars, markVars, lockVars, live, op, refusedBy, db, hubVars, srcVars, quit, down>>

CommitCatalog(p) ==
    /\ pc[p] = "catalog"
    /\ \/ cat' = snap[p] /\ Goto(p, IF state = "Running" THEN "load" ELSE "release") /\ UNCHANGED failed
       \/ MayFail /\ Goto(p, "release") /\ failed' = TRUE /\ UNCHANGED cat
    /\ UNCHANGED <<ctrlVars, markVars, lockVars, live, op, snap, refusedBy, db, applied, on, sess, srcVars, quit, down>>

LowerFlag(p) ==
    /\ At(p, "lower", "idle")
    /\ live' = FALSE
    /\ UNCHANGED <<ctrlVars, markVars, lockVars, op, snap, refusedBy, db, hubVars, srcVars, restVars>>

-----------------------------------------------------------------------------
(* A handler is dropped while it awaits: guard and flag go with it.        *)
AwaitPoints == {"queued", "dbsrcOff", "collectorOff", "sessionsOff", "load", "sync", "commit",
                "snapshot", "catalog"}

LetGo(p) ==
    \/ owner = p /\ Unlock
    \/ /\ owner # p
       /\ \E i \in DOMAIN waiters : waiters[i] = p /\ waiters' = RemoveAt(waiters, i)
       /\ UNCHANGED owner

Drop(p) ==
    /\ op[p].kind \in Droppable /\ pc[p] \in AwaitPoints
    /\ LetGo(p)
    /\ Goto(p, IF op[p].kind = "live" THEN "lower" ELSE "idle")
    /\ refusedBy' = [refusedBy EXCEPT ![p] = "none"]
    /\ UNCHANGED <<ctrlVars, markVars, live, op, snap, db, hubVars, srcVars, restVars>>

-----------------------------------------------------------------------------
(* The tray's quit (QuitGate): ask with the wording of the moment; on a    *)
(* yes, mark and look again in one critical section; busier than the       *)
(* wording said means asking again.                                        *)

AskQuit ==
    /\ "quit" \in Exits /\ quit = "none"
    /\ quit' = IF Busy THEN "askBusy" ELSE "askIdle"
    /\ UNCHANGED <<ctrlVars, markVars, lockVars, live, procVars, db, hubVars, srcVars, down, failed>>

AnswerYes ==
    /\ quit \in {"askIdle", "askBusy"}
    /\ IF quit = "askIdle" /\ Busy
         THEN quit' = "askBusy" /\ hold' = FALSE
         ELSE quit' = (IF quit = "askIdle" THEN "quitIdle" ELSE "quitBusy") /\ hold' = TRUE
    /\ UNCHANGED <<ctrlVars, shutting, lockVars, live, procVars, db, hubVars, srcVars, down, failed>>

AnswerNo ==
    /\ quit \in {"askIdle", "askBusy"} /\ quit' = "none"
    /\ UNCHANGED <<ctrlVars, markVars, lockVars, live, procVars, db, hubVars, srcVars, down, failed>>

(* RunningHub::shutdown, as far as it concerns the collection: without the *)
(* transition lock.                                                        *)
BeginShutdown ==
    /\ "down" \in Exits /\ down = "up"
    /\ shutting' = TRUE /\ down' = "marked"
    /\ UNCHANGED <<ctrlVars, hold, lockVars, live, procVars, db, hubVars, srcVars, quit, failed>>

ShutdownDbSource ==
    /\ down = "marked" /\ down' = "dbsrc" /\ dbsrc' = FALSE
    /\ UNCHANGED <<ctrlVars, markVars, lockVars, live, procVars, db, hubVars, ingest, quit, failed>>

ShutdownCollector ==
    /\ down = "dbsrc" /\ down' = "collector" /\ on' = "off"
    /\ UNCHANGED <<ctrlVars, markVars, lockVars, live, procVars, db, cat, applied, sess, srcVars, quit, failed>>

ShutdownSessions ==
    /\ down = "collector" /\ down' = "down" /\ sess' = FALSE
    /\ UNCHANGED <<ctrlVars, markVars, lockVars, live, procVars, db, cat, applied, on, srcVars, quit, failed>>

-----------------------------------------------------------------------------
Locking(p)   == TryLock(p) \/ CheckFlag(p) \/ Wait(p) \/ Granted(p) \/ Release(p) \/ ReturnNoOp(p)
Stopping(p)  == DbSourceOff(p) \/ CollectorOff(p) \/ SessionsOff(p) \/ Stopped(p)
Starting(p)  == MarkStarting(p) \/ SourcesOn(p)
Applying(p)  == LoadRegistry(p) \/ SyncSessions(p) \/ CommitRun(p) \/ RunFails(p) \/ Settle(p)
LiveApply(p) == RaiseFlag(p) \/ Snapshot(p) \/ CommitCatalog(p) \/ LowerFlag(p)
Step(p) == Locking(p) \/ Dispatch(p) \/ Stopping(p) \/ Starting(p) \/ Applying(p) \/ LiveApply(p)
Quit    == AskQuit \/ AnswerYes \/ AnswerNo
Shutdown == BeginShutdown \/ ShutdownDbSource \/ ShutdownCollector \/ ShutdownSessions

Next == (\E p \in Procs : Request(p) \/ Step(p) \/ Drop(p)) \/ Quit \/ Shutdown

Spec == Init /\ [][Next]_vars

(* A request that is polled goes on; nobody need make one.                 *)
LiveSpec == Spec /\ \A p \in Procs : WF_vars(Step(p))

-----------------------------------------------------------------------------
(* Properties.                                                             *)

Labels == {"idle", "try", "flag", "waiting", "queued", "dropped", "dispatch", "release", "applied",
           "dbsrcOff", "collectorOff", "sessionsOff", "stopped", "mark", "sources",
           "load", "sync", "commit", "applyOk", "applyErr", "raise", "snapshot", "catalog", "lower"}
NeedsLock == Labels \ {"idle", "try", "flag", "waiting", "queued", "dropped", "raise", "lower"}

(* The types.                                                              *)
TypeOK ==
    /\ state \in {"Stopped", "Starting", "Running", "Stopping", "Faulted"} /\ mode \in Modes
    /\ hold \in BOOLEAN /\ shutting \in BOOLEAN /\ live \in BOOLEAN
    /\ owner \in Procs \cup {Free} /\ waiters \in Seq(Procs)
    /\ pc \in [Procs -> Labels]
    /\ op \in [Procs -> [kind : Ops \cup {"none"}, mode : Modes]]
    /\ snap \in [Procs -> 0..MaxDb] /\ refusedBy \in [Procs -> Ops \cup {"none"}]
    /\ db \in 1..MaxDb /\ cat \in 1..MaxDb /\ applied \in 0..MaxDb
    /\ on \in Modes \cup {"off"} /\ sess \in BOOLEAN
    /\ dbsrc \in BOOLEAN /\ ingest \in BOOLEAN
    /\ quit \in {"none", "askIdle", "askBusy", "quitIdle", "quitBusy"}
    /\ down \in {"up", "marked", "dbsrc", "collector", "down"} /\ failed \in BOOLEAN

(* What changes the collection is never done by two requests at once,      *)
(* whoever queues, returns or is dropped.                                  *)
LockHeld == \A p \in Procs : pc[p] \in NeedsLock => owner = p

\* The collector reads through open sessions and is in the selected mode, which never changes
\* under it; DB Source reads the database only while the collection runs or stops.
WhileItRuns ==
    /\ on # "off" => sess /\ on = mode
    /\ dbsrc => state \in {"Running", "Stopping"}

\* Whenever nobody holds the lock the state tells the truth about all four parts of a run.
AtRest ==
    owner = Free =>
        /\ state \in {"Stopped", "Running", "Faulted"}
        /\ (on # "off") = (state = "Running") /\ sess = (state = "Running")
        /\ dbsrc = (state = "Running") /\ ingest = (state = "Running")
        /\ (applied # 0) = (state = "Running")

(* A run holds together at every moment, whatever fails in bringing it up, *)
(* changing it or taking it down, and no failure leaves half of one.       *)
RunHoldsTogether == WhileItRuns /\ AtRest

\* After a live apply that reached the collector, readers and collection have the same
\* configuration, the new one or the one before, unless one more change has been made since,
\* whose own live apply is still to come.
LiveAppliesWhole ==
    \A p \in Procs :
        pc[p] = "applied" =>
            cat = applied \/ \E q \in Procs \ {p} : op[q].kind = "live" /\ pc[q] # "idle"

\* As long as nothing has failed, once all is quiet the catalog is the registry, and a
\* running collection runs it.
NothingOvertaken ==
    ~failed /\ (\A p \in Procs : pc[p] = "idle") =>
        cat = db /\ (state = "Running" => applied = db)

(* What readers see and what is collected are one configuration, and in    *)
(* the end the newest: no change is overtaken by an older one.             *)
Reflected == LiveAppliesWhole /\ NothingOvertaken

(* A user who agreed to quit while nothing was collecting never has a      *)
(* collection stopped by it: none begins after the answer.                 *)
QuitConsent == quit = "quitIdle" => state \notin {"Starting", "Running"}

(* Every request returns.                                                  *)
RequestsReturn == \A p \in Procs : pc[p] # "idle" ~> pc[p] = "idle"

(* A request is dropped as a repetition only in favour of another          *)
(* lifecycle request: during a live apply it waits.                        *)
DroppedForLifecycle == \A p \in Procs : pc[p] = "dropped" => refusedBy[p] # "live"

(* A transition that was begun ends: nothing is left between two states    *)
(* once the lock is free.                                                  *)
TransitionsEnd == owner = Free => state \notin {"Starting", "Stopping"}
=============================================================================
