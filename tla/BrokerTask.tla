----------------------------- MODULE BrokerTask -----------------------------
(***************************************************************************)
(* One connection's broker task (crates/banto-broker/src/lib.rs): the only *)
(* owner of the one session a PLC port accepts.  Callers submit jobs       *)
(* through clones of a BrokerHandle; the task dials, serves one job at a   *)
(* time to completion, re-dials after a fatal error, and leaves on a stop  *)
(* signal or when the last handle is gone.                                 *)
(*                                                                         *)
(* A job is served in two steps, its call on the session (an await during  *)
(* which every other actor may run) and the answer; a fatal answer leaves  *)
(* the task before the status is published, which is a third step.         *)
(*                                                                         *)
(* Read, Write, Diagnose, SetClock and ReadClock share their control and   *)
(* are the kind "Call".  Dials and sessions are numbered by the connect    *)
(* attempt that made them (dialNo), which is history: no guard reads it    *)
(* except the bound MaxDial.                                               *)
(***************************************************************************)
EXTENDS Naturals, Sequences, FiniteSets, SequencesExt

CONSTANTS
    Callers,    \* the holders of a handle
    Kinds,      \* the jobs they submit
    Capacity,   \* JOB_CHANNEL_CAPACITY
    MaxDial,    \* bound: connect attempts
    MaxEpoch,   \* bound: diagnostic attempts
    Nobody      \* stands for the caller of a job whose reply channel is closed

AwaitKinds == {"Call", "Refresh"}
DiagKinds  == {"Accept", "Discard", "Finalize"}

ASSUME BrokerAssumption ==
    /\ Nobody \notin Callers
    /\ Kinds \subseteq AwaitKinds \cup DiagKinds
    /\ Capacity \in Nat \ {0}
    /\ MaxDial \in Nat
    /\ MaxEpoch \in Nat

VARIABLES
    conn,       \* ConnState, or where the task is after its loop
    attempt,    \* consecutive connect attempts
    status,     \* the value of the status watch
    ver,        \* its version: how often it was sent
    dialNo,     \* number of the latest connect attempt
    dials,      \* connect sub-tasks alive, by number
    socks,      \* sessions open at the device, by number
    stop,       \* the stop or the shutdown trigger has fired
    held,       \* some handle is still held
    queue,      \* the job channel, then the senders blocked on it
    busy,       \* the job the task has taken and not finished
    req,        \* req[c]: the caller's pending request or the reply to it
    ep,         \* ep[c]: the SessionEpoch the caller captured last
    epochs,     \* diagnostic_attempt
    pending,    \* pending_diagnostic (0: None)
    outside,    \* the epoch whose report the session suppresses reads by
    before      \* outside_before_accept (<<>>: None)

connVars == <<conn, attempt, status, ver, dialNo, dials, socks>>
diagVars == <<pending, outside, before>>
envVars  == <<stop, held>>
vars == <<connVars, queue, busy, req, ep, epochs, diagVars, envVars>>

NoEpoch == [n |-> 0, ver |-> 0, dial |-> 0]
NoJob   == [kind |-> "none", by |-> Nobody, epoch |-> NoEpoch, stage |-> "none"]

Epoch == [n : 0..MaxEpoch, ver : Nat, dial : 0..MaxDial]
Job   == [kind : AwaitKinds \cup DiagKinds, by : Callers \cup {Nobody}, epoch : Epoch]

Reconnecting(n) == <<"Reconnecting", n>>
Publish(s) == status' = s /\ ver' = ver + 1

InLoop == conn \in {"Backoff", "Connecting", "Connected"}
Idle   == InLoop /\ busy = NoJob

Init ==
    /\ conn = "Backoff" /\ attempt = 0 /\ status = Reconnecting(1) /\ ver = 0
    /\ dialNo = 0 /\ dials = {} /\ socks = {}
    /\ stop = FALSE /\ held = TRUE
    /\ queue = <<>> /\ busy = NoJob
    /\ req = [c \in Callers |-> "idle"]
    /\ ep = [c \in Callers |-> NoEpoch] /\ epochs = 0
    /\ pending = 0 /\ outside = NoEpoch /\ before = <<>>

-----------------------------------------------------------------------------
(* The handle side: what a caller's thread does.                           *)

(* SessionEpoch::is_current: no later attempt, no status sent since, the   *)
(* sender alive, and Connected.                                            *)
IsCurrentAnySession(e) == epochs = e.n /\ conn # "Gone" /\ status = <<"Connected", 0>>
IsCurrent(e) ==
    /\ epochs = e.n /\ ver = e.ver
    /\ conn # "Gone" /\ status = <<"Connected", 0>>

(* BrokerHandle::session_epoch.                                            *)
CaptureEpoch(c) ==
    /\ held /\ req[c] = "idle" /\ epochs < MaxEpoch
    /\ status = <<"Connected", 0>>
    /\ epochs' = epochs + 1
    /\ ep' = [ep EXCEPT ![c] = [n |-> epochs + 1, ver |-> ver, dial |-> dialNo]]
    /\ UNCHANGED <<connVars, queue, busy, req, diagVars, envVars>>

(* The submitting half of each BrokerHandle operation.  The job joins the  *)
(* channel, or, beyond Capacity, waits for its turn to join.               *)
Submit(c, kind) ==
    /\ held /\ req[c] = "idle"
    /\ kind \in DiagKinds => ep[c].n # 0
    /\ CASE kind = "Accept" /\ ~IsCurrent(ep[c]) ->
                req' = [req EXCEPT ![c] = "no"] /\ UNCHANGED queue
         [] ~(kind = "Accept" /\ ~IsCurrent(ep[c])) /\ conn = "Gone" ->
                req' = [req EXCEPT ![c] = "TaskGone"] /\ UNCHANGED queue
         [] OTHER ->
                /\ req' = [req EXCEPT ![c] = "waiting"]
                /\ queue' = Append(queue, [kind |-> kind, by |-> c, epoch |-> ep[c]])
    /\ UNCHANGED <<connVars, busy, ep, epochs, diagVars, envVars>>

(* The caller's future is dropped while it waits: a job in the channel or  *)
(* in service loses its reply channel; a blocked send never happens.       *)
Abandon(c) ==
    /\ req[c] = "waiting"
    /\ req' = [req EXCEPT ![c] = "idle"]
    /\ \/ /\ busy.by = c
          /\ busy' = [busy EXCEPT !.by = Nobody]
          /\ UNCHANGED queue
       \/ \E i \in 1..Len(queue) :
            /\ queue[i].by = c
            /\ queue' = IF i <= Capacity
                          THEN [queue EXCEPT ![i].by = Nobody]
                          ELSE RemoveAt(queue, i)
            /\ UNCHANGED busy
    /\ UNCHANGED <<connVars, ep, epochs, diagVars, envVars>>

(* The caller sees the reply.                                              *)
Collect(c) ==
    /\ req[c] \notin {"idle", "waiting"}
    /\ req' = [req EXCEPT ![c] = "idle"]
    /\ UNCHANGED <<connVars, queue, busy, ep, epochs, diagVars, envVars>>

(* A stop signal, or every handle dropped (no caller is left waiting).     *)
Stop == ~stop /\ stop' = TRUE /\ UNCHANGED <<connVars, queue, busy, req, ep, epochs, diagVars, held>>
DropHandles ==
    /\ held /\ held' = FALSE
    /\ \A c \in Callers : req[c] = "idle"
    /\ UNCHANGED <<connVars, queue, busy, req, ep, epochs, diagVars, stop>>

-----------------------------------------------------------------------------
(* The connection side of the task's select.                               *)

(* A session's read rules live in the session object, so they end with it; *)
(* pending_diagnostic is the task's and is reset with it.                  *)
EndSessionKeepPending == pending' = pending /\ outside' = NoEpoch /\ before' = <<>>
EndSession == pending' = 0 /\ outside' = NoEpoch /\ before' = <<>>

(* The status a fatal job leaves: attempt 1 of a fresh series.             *)
AfterFatalZero == Reconnecting(0)
AfterFatal == Reconnecting(1)

Due ==
    /\ Idle /\ conn = "Backoff" /\ dialNo < MaxDial
    /\ attempt' = attempt + 1
    /\ Publish(Reconnecting(attempt'))
    /\ dialNo' = dialNo + 1
    /\ dials' = dials \cup {dialNo'}
    /\ conn' = "Connecting"
    /\ UNCHANGED <<socks, queue, busy, req, ep, epochs, diagVars, envVars>>

DialOk ==
    /\ Idle /\ conn = "Connecting"
    /\ attempt' = 0 /\ EndSession
    /\ conn' = "Connected"
    /\ dials' = dials \ {dialNo} /\ socks' = socks \cup {dialNo}
    /\ Publish(<<"Connected", 0>>)
    /\ UNCHANGED <<dialNo, queue, busy, req, ep, epochs, envVars>>

(* The connector's error, its outer bound, or a panicked sub-task.         *)
DialFailed ==
    /\ Idle /\ conn = "Connecting"
    /\ conn' = "Backoff" /\ dials' = dials \ {dialNo}
    /\ Publish(Reconnecting(attempt + 1))
    /\ UNCHANGED <<attempt, dialNo, socks, queue, busy, req, ep, epochs, diagVars, envVars>>

-----------------------------------------------------------------------------
(* The job side.                                                           *)

Answer(c, v) == req' = IF c \in Callers THEN [req EXCEPT ![c] = v] ELSE req

(* The guard of the three diagnostic jobs against a session that changed.  *)
StatusIgnored(e) == TRUE
StatusUnchanged(e) == ver = e.ver

Head1 == queue[1]
Rest  == SubSeq(queue, 2, Len(queue))

(* A call the session answers: begun if it is up, refused at once if not.  *)
TakeCall ==
    /\ Idle /\ queue # <<>> /\ Head1.kind \in AwaitKinds
    /\ ~(Head1.kind = "Refresh" /\ Head1.by = Nobody)
    /\ queue' = Rest
    /\ IF conn = "Connected"
         THEN /\ busy' = [kind |-> Head1.kind, by |-> Head1.by,
                          epoch |-> Head1.epoch, stage |-> "calling"]
              /\ UNCHANGED req
         ELSE Answer(Head1.by, "Disconnected") /\ UNCHANGED busy
    /\ UNCHANGED <<connVars, ep, epochs, diagVars, envVars>>

(* A refresh whose caller has gone is skipped.                             *)
SkipRefresh ==
    /\ Idle /\ queue # <<>> /\ Head1.kind = "Refresh" /\ Head1.by = Nobody
    /\ queue' = Rest
    /\ UNCHANGED <<connVars, busy, req, ep, epochs, diagVars, envVars>>

CallOk ==
    /\ InLoop /\ busy.stage = "calling"
    /\ Answer(busy.by, "ok")
    /\ busy' = NoJob
    /\ UNCHANGED <<connVars, queue, ep, epochs, diagVars, envVars>>

(* FatalError, the outer bound, or a wrong number of results.              *)
CallFatal ==
    /\ InLoop /\ busy.stage = "calling"
    /\ Answer(busy.by, "ConnectionFailed")
    /\ busy' = [busy EXCEPT !.stage = "fatal", !.by = Nobody]
    /\ UNCHANGED <<connVars, queue, ep, epochs, diagVars, envVars>>

DropSession ==
    /\ InLoop /\ busy.stage = "fatal"
    /\ conn' = "Backoff" /\ socks' = socks \ {dialNo}
    /\ EndSession /\ attempt' = 0
    /\ Publish(AfterFatal)
    /\ busy' = NoJob
    /\ UNCHANGED <<dialNo, dials, queue, req, ep, epochs, envVars>>

OverTentative == TRUE
NoneTentative == pending = 0

(* AcceptDiagnostic, up to the reply: install the report on the session.   *)
(* (The driver engine installs nothing if the report is not of these tags; *)
(* it is, as the diagnosis that made it was given the same.)               *)
TakeAccept ==
    /\ Idle /\ queue # <<>> /\ Head1.kind = "Accept"
    /\ queue' = Rest
    /\ IF /\ epochs = Head1.epoch.n /\ StatusUnchanged(Head1.epoch)
          /\ Head1.by # Nobody /\ NoneTentative /\ conn = "Connected"
         THEN /\ before' = <<outside>> /\ outside' = Head1.epoch
              /\ pending' = Head1.epoch.n
              /\ busy' = [kind |-> "Accept", by |-> Head1.by,
                          epoch |-> Head1.epoch, stage |-> "accepted"]
              /\ UNCHANGED req
         ELSE Answer(Head1.by, "no") /\ UNCHANGED <<busy, diagVars>>
    /\ UNCHANGED <<connVars, ep, epochs, envVars>>

(* session.discard_diagnostic: back to the rules before the last accept.   *)
RestoreOutside ==
    /\ outside' = IF before # <<>> THEN before[1] ELSE outside
    /\ before' = <<>>

(* The reply of an accepted report; undone if the requester disappeared.   *)
ReplyAccept ==
    /\ InLoop /\ busy.stage = "accepted"
    /\ IF busy.by = Nobody
         THEN RestoreOutside /\ pending' = 0 /\ UNCHANGED req
         ELSE Answer(busy.by, "ok") /\ UNCHANGED diagVars
    /\ busy' = NoJob
    /\ UNCHANGED <<connVars, queue, ep, epochs, envVars>>

Owns(e) == pending = e.n /\ StatusUnchanged(e)

TakeDiscard ==
    /\ Idle /\ queue # <<>> /\ Head1.kind = "Discard"
    /\ queue' = Rest
    /\ IF Owns(Head1.epoch) /\ conn = "Connected"
         THEN RestoreOutside /\ pending' = 0 /\ Answer(Head1.by, "ok")
         ELSE Answer(Head1.by, "no") /\ UNCHANGED diagVars
    /\ UNCHANGED <<connVars, busy, ep, epochs, envVars>>

TakeFinalize ==
    /\ Idle /\ queue # <<>> /\ Head1.kind = "Finalize"
    /\ queue' = Rest
    /\ pending' = IF Owns(Head1.epoch) THEN 0 ELSE pending
    /\ Answer(Head1.by, IF Owns(Head1.epoch) THEN "ok" ELSE "no")
    /\ UNCHANGED <<connVars, busy, ep, epochs, outside, before, envVars>>

-----------------------------------------------------------------------------
(* Leaving.                                                                *)

(* A trigger fired, or recv() found every handle dropped.  The triggers    *)
(* wait neither for the queue to drain nor for a dial to be answered.      *)
MustLeaveAfterDial == (stop /\ conn # "Connecting") \/ (~held /\ queue = <<>>)
MustLeave == stop \/ (~held /\ queue = <<>>)

Break ==
    /\ Idle /\ MustLeave
    /\ conn' = "Leaving"
    /\ UNCHANGED <<attempt, status, ver, dialNo, dials, socks,
                   queue, busy, req, ep, epochs, diagVars, envVars>>

CloseSocketOnly == dials' = dials /\ socks' = socks \ {dialNo}
CloseDevice     == dials' = dials \ {dialNo} /\ socks' = socks \ {dialNo}

(* The requests that get TaskGone: every one still unanswered.             *)
OrphanedInChannel == {queue[i].by : i \in {j \in 1..Len(queue) : j <= Capacity}}
Orphaned == {c \in Callers : req[c] = "waiting"}

(* Abort and await the dial, or disconnect the session (bounded); then the *)
(* channel is dropped, and with it every job that nobody took.             *)
Leave ==
    /\ conn = "Leaving"
    /\ conn' = "Gone"
    /\ CloseDevice /\ EndSession
    /\ Publish(<<"Stopped", 0>>)
    /\ queue' = <<>>
    /\ req' = [c \in Callers |-> IF c \in Orphaned THEN "TaskGone" ELSE req[c]]
    /\ UNCHANGED <<attempt, dialNo, busy, ep, epochs, envVars>>

-----------------------------------------------------------------------------
ConnEvent == Due \/ DialOk \/ DialFailed
TakeJob   == TakeCall \/ SkipRefresh \/ TakeAccept \/ TakeDiscard \/ TakeFinalize
EndJob    == CallOk \/ CallFatal \/ DropSession \/ ReplyAccept
Task      == ConnEvent \/ TakeJob \/ EndJob \/ Break \/ Leave
Caller(c) == CaptureEpoch(c) \/ Abandon(c) \/ Collect(c) \/ \E k \in Kinds : Submit(c, k)
Next      == Task \/ Stop \/ DropHandles \/ \E c \in Callers : Caller(c)

Spec == Init /\ [][Next]_vars

-----------------------------------------------------------------------------
(* Properties.                                                             *)

Status == {<<"Connected", 0>>, <<"Stopped", 0>>} \cup {Reconnecting(n) : n \in 1..MaxDial + 1}
Replies == {"ok", "no", "Disconnected", "ConnectionFailed", "TaskGone"}
Stages == {"none", "calling", "fatal", "accepted"}

(* The types; attempt numbers in the status are 1-based, as the doc of     *)
(* BrokerConnectionStatus says.                                            *)
TypeOK ==
    /\ conn \in {"Backoff", "Connecting", "Connected", "Leaving", "Gone"}
    /\ attempt \in 0..MaxDial /\ status \in Status /\ ver \in Nat
    /\ dialNo \in 0..MaxDial /\ dials \subseteq 1..MaxDial /\ socks \subseteq 1..MaxDial
    /\ stop \in BOOLEAN /\ held \in BOOLEAN
    /\ queue \in Seq(Job)
    /\ busy \in [kind : AwaitKinds \cup DiagKinds \cup {"none"}, by : Callers \cup {Nobody},
                  epoch : Epoch, stage : Stages]
    /\ req \in [Callers -> Replies \cup {"idle", "waiting"}]
    /\ ep \in [Callers -> Epoch] /\ epochs \in 0..MaxEpoch
    /\ pending \in 0..MaxEpoch /\ outside \in Epoch
    /\ before \in Seq(Epoch) /\ Len(before) <= 1

(* The device never has more than one connection of this task open or      *)
(* being opened, and none once the task is gone.                           *)
SingleDeviceConnection ==
    /\ \A x, y \in dials \cup socks : x = y
    /\ conn = "Gone" => dials \cup socks = {}

\* Read suppression never outlives the physical session its diagnostic was started on.
SuppressionOfThisSession ==
    outside.n # 0 => conn \in {"Connected", "Leaving"} /\ outside.dial = dialNo /\ dialNo \in socks

\* A tentative acceptance is always that of the report installed now, so its discard removes
\* what its accept installed.
PendingIsInstalled == pending # 0 => outside.n = pending /\ before # <<>>

(* A report is installed only on the connection it was taken from,         *)
(* whatever reconnects and delays lie between, and a tentative one can     *)
(* still be taken back.                                                    *)
SuppressionHolds == SuppressionOfThisSession /\ PendingIsInstalled

(* While a session lasts, its suppression changes only by an accept when   *)
(* none is tentative, or by the discard of the tentative one: a finalized  *)
(* report is never undone by a late, repeated or foreign discard.          *)
SuppressionOwned ==
    [][ outside # outside' /\ dialNo \in socks \cap socks'
          => \/ pending = 0 /\ pending' = outside'.n
             \/ pending = outside.n /\ pending' = 0 ]_vars

(* A stop signal ends the task, whatever the callers submit and even if    *)
(* the dial in progress is never answered.                                 *)
StopEndsTask == stop ~> conn = "Gone"
=============================================================================
