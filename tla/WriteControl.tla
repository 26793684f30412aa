---------------------------- MODULE WriteControl ----------------------------
(***************************************************************************)
(* The emergency stop of writes to PLCs                                    *)
(* (apps/banto-hub/core/src/write_control.rs): a live flag, and its record *)
(* in two places, the database and a state file.  A stop lowers the flag   *)
(* at once and then saves; a resume saves first and raises the flag last.  *)
(* Both save under op_lock; a stop does not wait for a hung database, nor  *)
(* for a resume that does.                                                 *)
(*                                                                         *)
(* The process may crash between any two steps; it restarts as             *)
(* decide_startup decides.  The future of set_enabled may be dropped at    *)
(* any await; set_enabled_detached, which the handlers use, prevents that, *)
(* and some properties hold only if it is never dropped.                   *)
(***************************************************************************)
EXTENDS Naturals, Sequences, FiniteSets, SequencesExt

CONSTANTS
    Procs,      \* stops and resumes that may be under way at once
    MaxOps,     \* bound: operations in one life of the process
    Free        \* stands for nobody

ASSUME WriteControlAssumption ==
    /\ IsFiniteSet(Procs) /\ Free \notin Procs
    /\ MaxOps \in Nat

Ids == 1..MaxOps    \* operations, numbered; each spawns at most one DB write

VARIABLES
    live,       \* enabled: writes are accepted
    gen,        \* StopState.generation
    lined,      \* StopState.queued: stops that have not got op_lock yet
    owner,      \* holder of op_lock
    waiters,    \* those queued for it
    pc, kind,   \* pc[p], kind[p]: where operation p is, and what it is
    num,        \* num[p]: its number
    started,    \* started[p]: the generation a resume read before it waited
    fileOk,     \* fileOk[p]: the stop has saved the state file
    nOps,       \* operations begun in this life
    writes,     \* writes[n]: the DB write of operation n
    lagStop,    \* lagging_stop_db
    lagResume,  \* lagging_resume_db
    slot,       \* persistence_warning
    orphans,    \* state file records being written for a dropped operation
    db, file,   \* what the two places say
    stopSaved,  \* a stop reported success, and no resume was confirmed since (history)
    detached    \* no future of an operation was ever dropped (history)

flagVars == <<live, gen, lined>>
lockVars == <<owner, waiters>>
procVars == <<pc, kind, num, started, fileOk, nOps>>
dbVars   == <<writes, lagStop, lagResume>>
diskVars == <<db, file>>
histVars == <<stopSaved, detached>>
vars == <<flagVars, lockVars, procVars, dbVars, slot, orphans, diskVars, histVars>>

NoWrite == [st |-> "none", val |-> "Disabled", after |-> {}, follow |-> FALSE, seq |-> 0, file |-> FALSE]

(* decide_startup: enabled only if both places allow it.                   *)
FileAllowsResuming == file \in {"Absent", "Enabled", "Pending"}
FileAllows == file \in {"Absent", "Enabled"}
Boots == db = "Enabled" /\ FileAllows

Everyone(v) == [p \in Procs |-> v]

(* Before the first stop or resume there is no state file.                 *)
Init ==
    /\ gen = 0 /\ lined = 0 /\ owner = Free /\ waiters = <<>>
    /\ pc = Everyone("idle") /\ kind = Everyone("stop") /\ num = Everyone(0)
    /\ started = Everyone(0) /\ fileOk = Everyone(FALSE) /\ nOps = 0
    /\ writes = [n \in Ids |-> NoWrite] /\ lagStop = {} /\ lagResume = {} /\ orphans = {}
    /\ db \in {"Enabled", "Disabled"} /\ file = "Absent"
    /\ live = Boots /\ slot = [seq |-> 0, warn |-> FALSE]
    /\ stopSaved = FALSE /\ detached = TRUE

Goto(p, l) == pc' = [pc EXCEPT ![p] = l]
At(p, k, l) == pc[p] = l /\ kind[p] = k

-----------------------------------------------------------------------------
(* The live flag and the generation, under the stop_state mutex.           *)

(* StopState::stopped_since.                                               *)
StoppedSinceRead(p) == gen # started[p]
StoppedSince(p) == gen # started[p] \/ lined > 0

Lower == gen' = gen + 1 /\ live' = FALSE

Begin(p, k) ==
    /\ pc[p] = "idle" /\ nOps < MaxOps
    /\ nOps' = nOps + 1
    /\ num' = [num EXCEPT ![p] = nOps + 1]
    /\ kind' = [kind EXCEPT ![p] = k]
    /\ Goto(p, "lock")
    /\ IF k = "stop"
         THEN Lower /\ lined' = lined + 1 /\ UNCHANGED started
         ELSE started' = [started EXCEPT ![p] = gen] /\ UNCHANGED flagVars
    /\ UNCHANGED <<lockVars, fileOk, dbVars, slot, orphans, diskVars, histVars>>

-----------------------------------------------------------------------------
(* op_lock: first come, first served.                                      *)

Lock(p) ==
    /\ pc[p] = "lock" /\ Goto(p, "queued")
    /\ IF owner = Free THEN owner' = p /\ UNCHANGED waiters
                       ELSE waiters' = Append(waiters, p) /\ UNCHANGED owner
    /\ UNCHANGED <<flagVars, kind, num, started, fileOk, nOps, dbVars, slot, orphans, diskVars, histVars>>

Unlock ==
    IF waiters = <<>> THEN owner' = Free /\ UNCHANGED waiters
                      ELSE owner' = Head(waiters) /\ waiters' = Tail(waiters)

(* The operation's own variables end with it.                              *)
End(p) ==
    /\ Goto(p, "idle") /\ UNCHANGED nOps
    /\ kind' = [kind EXCEPT ![p] = "stop"] /\ num' = [num EXCEPT ![p] = 0]
    /\ started' = [started EXCEPT ![p] = 0] /\ fileOk' = [fileOk EXCEPT ![p] = FALSE]

Return(p) == End(p) /\ Unlock

(* record_outcome of a change that was not interrupted by a stop.          *)
Record(warn) == slot' = [seq |-> slot.seq + 1, warn |-> warn]

FullyPersisted(d, f) == d /\ f
SavedSomewhere(d, f) == d \/ f

-----------------------------------------------------------------------------
(* DB writes, each in a task of its own.                                   *)

Finished(n) == writes[n].st \in {"ok", "err"}
Over(n) == Finished(n) /\ ~writes[n].follow
Runnable(n) == writes[n].st = "running" /\ \A m \in writes[n].after : Finished(m)

SpawnWrite(n, val, after) ==
    writes' = [writes EXCEPT ![n] = [NoWrite EXCEPT !.st = "running", !.val = val, !.after = after]]

(* An error does not say whether the row was changed.                      *)
Land(n) ==
    /\ Runnable(n)
    /\ \E st \in {"ok", "err"} :
         /\ writes' = [writes EXCEPT ![n].st = st]
         /\ db' \in IF st = "ok" THEN {writes[n].val} ELSE {writes[n].val, db}
    /\ UNCHANGED <<flagVars, lockVars, procVars, lagStop, lagResume, slot, orphans, file, histVars>>

(* follow_lagging_stop_db: the late result of a stop that was cut short.   *)
Follow(n) ==
    /\ writes[n].follow /\ Finished(n)
    /\ writes' = [writes EXCEPT ![n].follow = FALSE]
    /\ slot' = IF slot.seq = writes[n].seq
                 THEN [slot EXCEPT !.warn = ~FullyPersisted(writes[n].st = "ok", writes[n].file)]
                 ELSE slot
    /\ UNCHANGED <<flagVars, lockVars, procVars, lagStop, lagResume, orphans, diskVars, histVars>>

-----------------------------------------------------------------------------
(* save_stop, from op_lock on.                                             *)

Relower(p) ==
    /\ At(p, "stop", "queued") /\ owner = p
    /\ Lower /\ Goto(p, "lowered")
    /\ UNCHANGED <<lined, lockVars, kind, num, started, fileOk, nOps, dbVars, slot, orphans, diskVars, histVars>>

KeepLined == lined' = lined
LeaveLine == lined' = IF lined = 0 THEN 0 ELSE lined - 1

GotLock(p) ==
    /\ At(p, "stop", "lowered")
    /\ LeaveLine /\ Goto(p, "file")
    /\ UNCHANGED <<live, gen, lockVars, kind, num, started, fileOk, nOps, dbVars, slot, orphans, diskVars, histVars>>

(* The writes of resumes it interrupted, which its own must follow.        *)
TakeWrites == lagResume

(* The state file, then, without an await, its own DB write.               *)
SaveStop(p) ==
    /\ At(p, "stop", "file")
    /\ \E ok \in BOOLEAN :
         /\ fileOk' = [fileOk EXCEPT ![p] = ok]
         /\ file' = IF ok THEN "Disabled" ELSE file
    /\ SpawnWrite(num[p], "Disabled", TakeWrites) /\ lagResume' = {}
    /\ Goto(p, "saving")
    /\ UNCHANGED <<flagVars, lockVars, kind, num, started, nOps, lagStop, slot, orphans, db, histVars>>

StopEnds(p, dbOk) ==
    /\ Record(~FullyPersisted(dbOk, fileOk[p]))
    /\ stopSaved' = (stopSaved \/ SavedSomewhere(dbOk, fileOk[p]))
    /\ Return(p)
    /\ UNCHANGED <<flagVars, lagResume, orphans, diskVars, detached>>

StopDone(p) ==
    /\ At(p, "stop", "saving") /\ Finished(num[p])
    /\ StopEnds(p, writes[num[p]].st = "ok")
    /\ UNCHANGED <<writes, lagStop>>

(* STOP_DB_SAVE_TIMEOUT: the write goes on, a follower waits for it.       *)
StopTimesOut(p) ==
    /\ At(p, "stop", "saving") /\ ~Finished(num[p])
    /\ StopEnds(p, FALSE)
    /\ writes' = [writes EXCEPT ![num[p]] =
                    [@ EXCEPT !.follow = TRUE, !.seq = slot.seq + 1, !.file = fileOk[p]]]
    /\ lagStop' = lagStop \cup {num[p]}

-----------------------------------------------------------------------------
(* resume, from op_lock on.                                                *)

(* It stops without a record: the stop that interrupted it will make one.  *)
Interrupted(p) == StoppedSince(p) /\ Return(p) /\ UNCHANGED slot

FailsSilently(p) == Return(p) /\ UNCHANGED slot
Fails(p) == Record(TRUE) /\ Return(p)

(* wait_lagging_stop_db and the check after it.                            *)
LagIgnored == TRUE
LagOver == \A n \in lagStop : Over(n)

WaitLag(p) ==
    /\ At(p, "resume", "queued") /\ owner = p
    /\ \/ /\ Interrupted(p)
          /\ lagStop' = {n \in lagStop : ~Over(n)}
       \/ /\ LagOver /\ ~StoppedSince(p)
          /\ lagStop' = {} /\ Goto(p, "pend")
          /\ UNCHANGED <<lockVars, kind, num, started, fileOk, nOps, slot>>
    /\ UNCHANGED <<flagVars, writes, lagResume, orphans, diskVars, histVars>>

(* 1. "Resume pending", which a restart takes for a stop.                  *)
SkipPending == "Enabled"
PendingRecord == "Pending"

WritePending(p) ==
    /\ At(p, "resume", "pend")
    /\ \/ /\ file' = PendingRecord /\ Goto(p, "check")
          /\ UNCHANGED <<lockVars, kind, num, started, fileOk, nOps, slot>>
       \/ Fails(p) /\ UNCHANGED file
    /\ UNCHANGED <<flagVars, dbVars, orphans, db, histVars>>

(* 2. The DB, unless a stop has come.                                      *)
StoreEnabled(p) ==
    /\ At(p, "resume", "check")
    /\ \/ Interrupted(p) /\ UNCHANGED writes
       \/ /\ ~StoppedSince(p)
          /\ SpawnWrite(num[p], "Enabled", {}) /\ Goto(p, "storing")
          /\ UNCHANGED <<lockVars, kind, num, started, fileOk, nOps, slot>>
    /\ UNCHANGED <<flagVars, lagStop, lagResume, orphans, diskVars, histVars>>

(* A stop that comes meanwhile does not wait: it takes over the write.     *)
AbandonStore(p) ==
    /\ At(p, "resume", "storing") /\ Interrupted(p)
    /\ lagResume' = lagResume \cup {num[p]}
    /\ UNCHANGED <<flagVars, writes, lagStop, orphans, diskVars, histVars>>

Stored(p) ==
    /\ At(p, "resume", "storing") /\ Finished(num[p]) /\ ~StoppedSince(p)
    /\ \/ /\ writes[num[p]].st = "ok" /\ Goto(p, "confirm")
          /\ UNCHANGED <<lockVars, kind, num, started, fileOk, nOps, slot>>
       \/ writes[num[p]].st = "err" /\ Fails(p)
    /\ UNCHANGED <<flagVars, dbVars, orphans, diskVars, histVars>>

(* 3. The state file again: the resume is confirmed.                       *)
Confirm(p) ==
    /\ At(p, "resume", "confirm")
    /\ \/ /\ file' = "Enabled" /\ stopSaved' = FALSE /\ Goto(p, "raise")
          /\ UNCHANGED <<lockVars, kind, num, started, fileOk, nOps, slot>>
       \/ Fails(p) /\ UNCHANGED <<file, histVars>>
    /\ UNCHANGED <<flagVars, dbVars, orphans, db, detached>>

Raise(p) ==
    /\ At(p, "resume", "raise")
    /\ \/ Interrupted(p) /\ UNCHANGED live
       \/ ~StoppedSince(p) /\ live' = TRUE /\ Record(FALSE) /\ Return(p)
    /\ UNCHANGED <<gen, lined, dbVars, orphans, diskVars, histVars>>

-----------------------------------------------------------------------------
(* The future of set_enabled is dropped at an await.  Its guards hand over *)
(* what runs on: DB writes to the lists, a file write to nobody.           *)

WrittenRecord(p) == CASE At(p, "stop", "file") -> {"Disabled"}
                      [] At(p, "resume", "pend") -> {PendingRecord}
                      [] At(p, "resume", "confirm") -> {"Enabled"}
                      [] OTHER -> {}

NoneLeft(p) == {}
StopWriteLeft(p) == IF At(p, "stop", "saving") THEN {num[p]} ELSE {}

Drop(p) ==
    /\ pc[p] \in {"queued", "file", "saving", "pend", "storing", "confirm"}
    /\ IF owner = p
         THEN Unlock
         ELSE /\ \E i \in DOMAIN waiters : waiters[i] = p /\ waiters' = RemoveAt(waiters, i)
              /\ UNCHANGED owner
    /\ IF At(p, "stop", "queued") THEN LeaveLine ELSE UNCHANGED lined
    /\ lagStop' = lagStop \cup StopWriteLeft(p)
    /\ lagResume' = IF At(p, "resume", "storing") THEN lagResume \cup {num[p]} ELSE lagResume
    /\ orphans' = orphans \cup WrittenRecord(p)
    /\ End(p) /\ detached' = FALSE
    /\ UNCHANGED <<live, gen, writes, slot, diskVars, stopSaved>>

OrphanLands ==
    /\ \E r \in orphans : file' \in {r, file} /\ orphans' = orphans \ {r}
    /\ UNCHANGED <<flagVars, lockVars, procVars, dbVars, slot, db, histVars>>

(* A crash and the restart after it; the DB may be unreadable then.        *)
Restart ==
    /\ gen' = 0 /\ lined' = 0 /\ owner' = Free /\ waiters' = <<>>
    /\ pc' = Everyone("idle") /\ kind' = Everyone("stop") /\ num' = Everyone(0)
    /\ started' = Everyone(0) /\ fileOk' = Everyone(FALSE) /\ nOps' = 0
    /\ writes' = [n \in Ids |-> NoWrite] /\ lagStop' = {} /\ lagResume' = {} /\ orphans' = {}
    /\ \E readable \in BOOLEAN :
         /\ live' = (readable /\ Boots)
         /\ slot' = [seq |-> 0,
                     warn |-> \/ ~readable
                              \/ file = "Pending"
                              \/ file # "Absent" /\ file # db]
    /\ UNCHANGED <<diskVars, histVars>>

-----------------------------------------------------------------------------
Stopping(p) == Relower(p) \/ GotLock(p) \/ SaveStop(p) \/ StopDone(p) \/ StopTimesOut(p)
Resuming(p) ==
    \/ WaitLag(p) \/ WritePending(p) \/ StoreEnabled(p) \/ AbandonStore(p)
    \/ Stored(p) \/ Confirm(p) \/ Raise(p)
Step(p) == Lock(p) \/ Stopping(p) \/ Resuming(p)

Next ==
    \/ \E p \in Procs : Step(p) \/ Drop(p) \/ \E k \in {"stop", "resume"} : Begin(p, k)
    \/ \E n \in Ids : Land(n) \/ Follow(n)
    \/ OrphanLands \/ Restart

Spec == Init /\ [][Next]_vars

(* Operations are polled, local files answer, the timer fires.  Nothing is *)
(* assumed of the DB.                                                      *)
LiveSpec == Spec /\ \A p \in Procs : WF_vars(Step(p))

-----------------------------------------------------------------------------
(* Properties.                                                             *)

Steps == {"idle", "lock", "queued", "lowered", "file", "saving",
          "pend", "check", "storing", "confirm", "raise"}
Saving == {"pend", "check", "storing", "confirm", "raise"}
Write == [st : {"none", "running", "ok", "err"}, val : {"Enabled", "Disabled"},
          after : SUBSET Ids, follow : BOOLEAN, seq : 0..MaxOps, file : BOOLEAN]

(* The types; never more stops in line than there are operations.          *)
TypeOK ==
    /\ live \in BOOLEAN /\ gen \in 0..2 * MaxOps /\ lined \in 0..Cardinality(Procs)
    /\ owner \in Procs \cup {Free} /\ waiters \in Seq(Procs)
    /\ pc \in [Procs -> Steps] /\ kind \in [Procs -> {"stop", "resume"}]
    /\ num \in [Procs -> 0..MaxOps] /\ started \in [Procs -> 0..2 * MaxOps]
    /\ fileOk \in [Procs -> BOOLEAN] /\ nOps \in 0..MaxOps
    /\ writes \in [Ids -> Write] /\ lagStop \subseteq Ids /\ lagResume \subseteq Ids
    /\ slot \in [seq : 0..MaxOps, warn : BOOLEAN]
    /\ orphans \subseteq {"Enabled", "Disabled", "Pending"}
    /\ db \in {"Enabled", "Disabled"} /\ file \in {"Absent", "Enabled", "Disabled", "Pending"}
    /\ stopSaved \in BOOLEAN /\ detached \in BOOLEAN

\* While writes are accepted neither place records a stop: no late result of an earlier
\* stop overtakes the resume that raised the flag.
LiveIsSaved == live /\ detached => db = "Enabled" /\ file # "Disabled"

\* While a resume saves, no DB write of a stop is under way: none can come after the
\* resume's and undo it, futures dropped or not.
ResumeSavesAlone ==
    \A p \in Procs :
        kind[p] = "resume" /\ pc[p] \in Saving =>
            \A n \in Ids : writes[n].st = "running" => writes[n].val = "Enabled"

(* A resume is the last word on the stops before it: none of their writes  *)
(* is left to undo it, and once writes are accepted no place says stop.    *)
ResumeIsFinal == LiveIsSaved /\ ResumeSavesAlone

(* A stop that was reported as saved holds, across crashes, failing disks  *)
(* and databases, and resumes that fail, until a resume is confirmed.      *)
SavedStopHolds == stopSaved /\ detached => ~live /\ ~Boots

(* From "a restart stops" to "a restart accepts writes" only the last step *)
(* of a resume leads: no late DB write, no failed save, no restart does.   *)
OnlyConfirmationEnables ==
    [][ ~Boots /\ Boots' /\ detached => \E p \in Procs : At(p, "resume", "confirm") ]_vars

Quiet == (\A p \in Procs : pc[p] = "idle") /\ \A n \in Ids : writes[n].st # "none" => Over(n)

(* Once all is quiet, an administrator who sees no warning can rely on it  *)
(* that a restart changes nothing.                                         *)
NoWarningNoSurprise == Quiet /\ detached /\ ~slot.warn => Boots = live

(* A stop is answered even if the DB never is, whatever resumes wait.      *)
StopReturns == \A p \in Procs : pc[p] # "idle" /\ kind[p] = "stop" ~> pc[p] = "idle"
=============================================================================
