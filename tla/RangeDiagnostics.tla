-------------------------- MODULE RangeDiagnostics --------------------------
(***************************************************************************)
(* The range diagnostic of one connection, end to end: the REST handlers   *)
(* (apps/banto-hub/core/src/rest/diagnostics.rs) driving the broker task   *)
(* of BrokerTask, and the store of reports in CollectorManager (hub.rs).   *)
(* A handler captures a session epoch, refreshes, diagnoses, has the       *)
(* report accepted (which starts suppressing reads), publishes it if       *)
(* nothing changed meanwhile, and finalizes it, or discards it.            *)
(*                                                                         *)
(* A handler is an async function of an HTTP server that drops it when the *)
(* client disconnects; Cancellable says whether clients do that.           *)
(***************************************************************************)
EXTENDS BrokerTask

CONSTANTS
    MaxRevision,    \* bound: catalog revisions
    Cancellable     \* clients may disconnect while a handler waits

ASSUME DiagnosticAssumption ==
    /\ Kinds = {"Refresh", "Call", "Accept", "Discard", "Finalize"}
    /\ MaxRevision \in Nat
    /\ Cancellable \in BOOLEAN

VARIABLES
    pc,         \* pc[c]: what handler c does next, or waits for
    rev,        \* rev[c]: the catalog revision its snapshot has
    revision,   \* the manager's catalog revision
    report,     \* range_diagnostics: the stored report, by epoch and revision
    cut         \* the diagnostics whose client has disconnected (history)

hubVars  == <<pc, rev, revision, report, cut>>
diagAll  == <<vars, hubVars>>

NoReport == [epoch |-> NoEpoch, rev |-> 0]

Awaits == {"refreshing", "diagnosing", "accepting", "finalizing", "discarding"}
Steps  == {"toRefresh", "toDiagnose", "toAccept", "publishing", "toFinalize", "toDiscard"}

DiagInit ==
    /\ Init
    /\ pc = [c \in Callers |-> "idle"] /\ rev = [c \in Callers |-> 0]
    /\ revision = 0 /\ report = NoReport /\ cut = {}

-----------------------------------------------------------------------------
(* range_diagnostic_post.  It reads the revision before it captures the    *)
(* epoch; a commit between the two is the same as one just after both.     *)

Begin(c) ==
    /\ pc[c] = "idle"
    /\ CaptureEpoch(c)
    /\ rev' = [rev EXCEPT ![c] = revision]
    /\ pc' = [pc EXCEPT ![c] = "toRefresh"]
    /\ UNCHANGED <<revision, report, cut>>

Send(c, from, kind, to) ==
    /\ pc[c] = from
    /\ Submit(c, kind)
    /\ pc' = [pc EXCEPT ![c] = to]
    /\ UNCHANGED <<rev, revision, report, cut>>

(* The reply is polled; anything but a success ends the request.           *)
Receive(c, from, success, to) ==
    /\ pc[c] = from
    /\ Collect(c)
    /\ pc' = [pc EXCEPT ![c] = IF success THEN to ELSE "idle"]
    /\ UNCHANGED <<rev, revision, report, cut>>

Ok(c) == req[c] = "ok"

SendStep(c) ==
    \/ Send(c, "toRefresh", "Refresh", "refreshing")
    \/ Send(c, "toDiagnose", "Call", "diagnosing")
    \/ Send(c, "toAccept", "Accept", "accepting")
    \/ Send(c, "toFinalize", "Finalize", "finalizing")
    \/ Send(c, "toDiscard", "Discard", "discarding")

ReceiveStep(c) ==
    \/ Receive(c, "refreshing", Ok(c) /\ IsCurrent(ep[c]), "toDiagnose")
    \/ Receive(c, "diagnosing", Ok(c) /\ IsCurrent(ep[c]), "toAccept")
    \/ Receive(c, "accepting", Ok(c), "publishing")
    \/ Receive(c, "finalizing", FALSE, "idle")
    \/ Receive(c, "discarding", FALSE, "idle")

(* CollectorManager::publish_range_diagnostic: the revision and the        *)
(* session must be those the diagnostic was taken from.                    *)
Publishable(c) == revision = rev[c] /\ IsCurrent(ep[c])

AfterRefusalReturn == "idle"
AfterRefusal == "toDiscard"

PublishReport(c) ==
    /\ pc[c] = "publishing"
    /\ IF Publishable(c)
         THEN /\ report' = [epoch |-> ep[c], rev |-> rev[c]]
              /\ pc' = [pc EXCEPT ![c] = "toFinalize"]
         ELSE /\ pc' = [pc EXCEPT ![c] = AfterRefusal]
              /\ UNCHANGED report
    /\ UNCHANGED <<vars, rev, revision, cut>>

(* The handler stops waiting: its future is dropped with the reply         *)
(* outstanding, or delivered and never polled.                             *)
StopWaiting(c) ==
    /\ Abandon(c) \/ Collect(c)
    /\ pc' = [pc EXCEPT ![c] = "idle"]
    /\ UNCHANGED <<rev, revision, report>>

(* The 12 s limit covers the refresh and the diagnosis only.               *)
TimeOut(c) == pc[c] \in {"refreshing", "diagnosing"} /\ StopWaiting(c) /\ UNCHANGED cut

Disconnect(c) ==
    /\ Cancellable /\ pc[c] \in Awaits
    /\ StopWaiting(c)
    /\ cut' = cut \cup {ep[c].n}

-----------------------------------------------------------------------------
(* current_range_diagnostic: a report is shown only while the session and  *)
(* the revision it was published for still stand.                          *)
Shown == report # NoReport /\ report.rev = revision /\ IsCurrent(report.epoch)

GetReport ==
    /\ report # NoReport /\ ~Shown
    /\ report' = NoReport
    /\ UNCHANGED <<vars, pc, rev, revision, cut>>

(* A catalog commit.                                                       *)
CommitCatalog ==
    /\ revision < MaxRevision
    /\ revision' = revision + 1
    /\ UNCHANGED <<vars, pc, rev, report, cut>>

Handler(c) ==
    Begin(c) \/ SendStep(c) \/ ReceiveStep(c) \/ PublishReport(c) \/ TimeOut(c) \/ Disconnect(c)

DiagNext ==
    \/ (Task \/ Stop) /\ UNCHANGED hubVars
    \/ GetReport \/ CommitCatalog
    \/ \E c \in Callers : Handler(c)

DiagSpec == DiagInit /\ [][DiagNext]_diagAll

(* The handler's own steps are polled, and so is the job loop as long as   *)
(* the runtime runs; every session call is bounded; select picks among     *)
(* ready branches at random, so a trigger is not overtaken for ever by     *)
(* jobs.  A dial may stay unanswered, and a client need not leave.         *)
DiagLiveSpec ==
    /\ DiagSpec
    /\ WF_diagAll(TakeJob /\ UNCHANGED hubVars) /\ WF_diagAll(EndJob /\ UNCHANGED hubVars)
    /\ SF_diagAll(Break /\ UNCHANGED hubVars) /\ WF_diagAll(Leave /\ UNCHANGED hubVars)
    /\ \A c \in Callers : WF_diagAll(SendStep(c) \/ ReceiveStep(c) \/ PublishReport(c))

-----------------------------------------------------------------------------
(* Properties.                                                             *)

(* What is shown to the operator is what the session does: a report that   *)
(* is displayed is the one the live session suppresses reads by.           *)
ShownIsInstalled == Shown => outside = report.epoch

(* Unless its client disconnected, a tentative acceptance has someone who  *)
(* will finalize or discard it: the handler that asked for it, or a job of *)
(* its already queued; a reconnect, a refusal or another handler's accept  *)
(* never leaves one behind, which would block the session for good.        *)
Responsible(c) == ep[c].n = pending /\ pc[c] \in {"accepting", "publishing", "toFinalize",
                                                  "finalizing", "toDiscard", "discarding"}
TentativeHasOwner ==
    pending # 0 /\ pending \notin cut =>
      \/ \E c \in Callers : Responsible(c)
      \/ \E i \in 1..Len(queue) :
            queue[i].kind \in {"Finalize", "Discard"} /\ queue[i].epoch.n = pending
      \/ busy.stage = "accepted"

\* Every handler returns, whatever the device and the other handlers do: the task answers
\* every job, fail-fast while there is no connection, and with TaskGone once it has left.
HandlerReturns == \A c \in Callers : pc[c] # "idle" ~> pc[c] = "idle"

(* Nobody waits for ever: handlers return, before a stop and after it, and *)
(* the task they wait for leaves when it is told to.                       *)
ComesToRest == HandlerReturns /\ StopEndsTask
=============================================================================
