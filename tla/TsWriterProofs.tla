--------------------------- MODULE TsWriterProofs ---------------------------
(***************************************************************************)
(* Theorems about TsWriter for any times, day length, offset,              *)
(* configurations, caps and bounds: everything its run checks but that     *)
(* operations return.                                                      *)
(*                                                                         *)
(* None of the properties is inductive, and the invariants are three, each *)
(* resting on the one before.  DayInv: a commit puts the rows of `current` *)
(* into the file that is open, so that file must be of that date, through  *)
(* failed, retried and abandoned rotations (Position), but for the moment  *)
(* between the change of file and the change of date.  CountInv: what is   *)
(* in no buffer is in a file, replaced, or counted.  OrderInv: the open    *)
(* file is the last of its date, and earlier files have earlier rows.      *)
(***************************************************************************)
EXTENDS TsWriter, TLAPS, FiniteSetTheorems, WellFoundedInduction

-----------------------------------------------------------------------------
(* The inductive invariant: what is stored, and where the writer stands.   *)

StoreTypes ==
    /\ log \in Seq([ptime : Times, date : Dates])
    /\ buf \in [Dates -> SUBSET (DOMAIN log)]
    /\ files \in [DOMAIN files -> [cfg : Configs \cup {None}, rows : SUBSET (DOMAIN log)]]

(* Every row waits for the date it was accepted for, and is in its file.   *)
RowsPlaced ==
    /\ \A d \in Dates : \A r \in buf[d] : log[r].date = d
    /\ RowsInTheirDay

RowsFindable == \A r \in DOMAIN log : Findable(log[r].date, log[r].ptime)

Storage == StoreTypes /\ RowsPlaced /\ RowsFindable

OpenIs(d) == ~torn => pool[1] = d /\ pool \in DOMAIN files
Settled == current \in Dates /\ OpenIs(current)

(* The open file exists and is of the writer's date, but while it switches.*)
Position ==
    /\ pc \in Busy \cup {"idle", "down"}
    /\ cfg \in Configs \cup {None} /\ torn \in BOOLEAN
    /\ op.target \in Dates \cup {None} /\ (op.kind = "append" => op.target \in Dates)
    /\ pc = "buffer" => op.kind = "append"
    /\ next \in Dates \cup {None}
    /\ pc \in {"resolve", "create", "closing"} => next \in Dates
    /\ pc \in {"idle", "rotate", "flush", "committed", "flushed", "buffer"} =>
         Settled /\ op.kind # "open"
    /\ pc \in {"resolve", "create"} /\ op.kind # "open" => Settled
    /\ pc = "closing" => current \in Dates /\ op.kind # "open" /\ OpenIs(next)

DayInv == Storage /\ Position

-----------------------------------------------------------------------------
(* An operation that gives up leaves the writer where it was.              *)
LEMMA GiveUpStands ==
    ASSUME DayInv, NEW outcome, GiveUp(outcome), UNCHANGED <<files, log, torn>>,
           pc \in {"flush", "resolve", "create"}
    PROVE  DayInv'
<1>1. CASE op.kind = "append"
  <2>1. GiveUp(outcome) => /\ pc' = "buffer" /\ next' = None
                           /\ UNCHANGED <<op, buf, cfg, pool, current>>
    BY <1>1 DEF GiveUp, Return, WriterGone, Leave, bufferVars, openVars
  <2>2. Storage'
    BY <2>1 DEF DayInv, Storage, StoreTypes, RowsPlaced, RowsInTheirDay, RowsFindable
  <2>3. Position'
    BY <1>1, <2>1 DEF DayInv, Position, Settled, OpenIs, Busy
  <2> QED BY <2>2, <2>3 DEF DayInv
<1>2. CASE op.kind \in {"flush", "threshold"}
  <2>1. /\ pc' = "idle" /\ next' = None /\ op' = NoOp
        /\ UNCHANGED <<buf, cfg, pool, current>>
    BY <1>2 DEF GiveUp, Return, WriterGone, Leave, bufferVars, openVars
  <2>2. Storage'
    BY <2>1 DEF DayInv, Storage, StoreTypes, RowsPlaced, RowsInTheirDay, RowsFindable
  <2>3. Position'
    BY <1>2, <2>1 DEF DayInv, Position, Settled, OpenIs, Busy, NoOp
  <2> QED BY <2>2, <2>3 DEF DayInv
<1>3. CASE op.kind \in {"close", "open"}
  <2>1. /\ pc' = "down" /\ next' = None /\ op' = NoOp /\ buf' = Empty
        /\ cfg' = None
    BY <1>3 DEF GiveUp, Return, WriterGone, Leave
  <2>2. Storage'
    BY <2>1 DEF DayInv, Storage, StoreTypes, RowsPlaced, RowsInTheirDay, RowsFindable, Empty
  <2>3. Position'
    BY <1>3, <2>1 DEF DayInv, Position, Settled, OpenIs, Busy, NoOp
  <2> QED BY <2>2, <2>3 DEF DayInv
<1> QED BY <1>1, <1>2, <1>3 DEF GiveUp

-----------------------------------------------------------------------------
(* The actions that change no row and no file.                             *)
LEMMA StartsStand ==
    ASSUME DayInv, StartAppend \/ StartFlush \/ StartOpen
    PROVE  DayInv'
<1>1. UNCHANGED <<buf, files, log, torn>>
  BY DEF StartAppend, StartFlush, StartOpen, Start, bufferVars
<1>2. Storage'
  BY <1>1 DEF DayInv, Storage, StoreTypes, RowsPlaced, RowsInTheirDay, RowsFindable
<1>3. Position'
  <2>1. CASE StartAppend
    <3>1. PICK now \in Times : Start("append", DateAt(now, Offset))
      BY <2>1 DEF StartAppend
    <3>2. DateAt(now, Offset) \in Dates
      BY DEF Dates
    <3> QED
      BY <3>1, <3>2 DEF Start, DayInv, Position, Settled, OpenIs, Busy, openVars
  <2>2. CASE StartFlush
    BY <2>2 DEF StartFlush, Start, DayInv, Position, Settled, OpenIs, Busy, openVars
  <2>3. CASE StartOpen
    <3>1. PICK now \in Times, c \in Configs : next' = DateAt(now, Offset) /\ cfg' = c
      BY <2>3 DEF StartOpen
    <3>2. next' \in Dates
      BY <3>1 DEF Dates
    <3>3. pc' = "resolve" /\ op' = [kind |-> "open", target |-> None] /\ UNCHANGED torn
      BY <2>3 DEF StartOpen, NoOp
    <3> QED
      BY <3>1, <3>2, <3>3 DEF DayInv, Position, Settled, OpenIs, Busy
  <2> QED
    BY <2>1, <2>2, <2>3
<1> QED
  BY <1>2, <1>3 DEF DayInv

(* Nor do those that only move on.                                         *)
LEMMA WalkStands ==
    ASSUME DayInv, NothingToWrite \/ Flushed \/ Rotate \/ Switched \/ Reject
    PROVE  DayInv'
<1>0. UNCHANGED <<files, log, torn>>
  BY DEF NothingToWrite, Flushed, Rotate, Switched, Reject, histVars
<1>1. CASE NothingToWrite \/ Rotate \/ Switched \/ Reject
  <2>1. UNCHANGED <<buf, cfg>>
    BY <1>1 DEF NothingToWrite, Rotate, Switched, Reject, Return, bufferVars, openVars
  <2>2. Storage'
    BY <1>0, <2>1 DEF DayInv, Storage, StoreTypes, RowsPlaced, RowsInTheirDay, RowsFindable
  <2>3. Position'
    <3>1. CASE NothingToWrite
      BY <1>0, <3>1 DEF NothingToWrite, DayInv, Position, Settled, OpenIs, Busy, openVars
    <3>2. CASE Rotate
      <4>1. /\ pc = "rotate" /\ pc' \in {"flush", "buffer"} /\ next' \in Dates \cup {None}
            /\ pc' = "buffer" => op.kind = "append"
            /\ UNCHANGED <<op, pool, current>>
        BY <3>2 DEF Rotate, Waiting, Switches, DayInv, Position, openVars
      <4> QED
        BY <1>0, <2>1, <4>1 DEF DayInv, Position, Settled, OpenIs, Busy
    <3>3. CASE Switched
      BY <1>0, <3>3 DEF Switched, DayInv, Position, Settled, OpenIs, Busy
    <3>4. CASE Reject
      BY <1>0, <3>4 DEF Reject, Return, Leave, NoOp, DayInv, Position, Settled, OpenIs, Busy, openVars
    <3> QED
      BY <1>1, <3>1, <3>2, <3>3, <3>4
  <2> QED
    BY <2>2, <2>3 DEF DayInv
<1>2. CASE Flushed
  <2>1. CASE next # None
    <3>1. pc = "flushed" /\ pc' = "resolve" /\ UNCHANGED <<op, next, buf, cfg, pool, current>>
      BY <1>2, <2>1 DEF Flushed, bufferVars, openVars
    <3>2. Storage'
      BY <1>0, <3>1 DEF DayInv, Storage, StoreTypes, RowsPlaced, RowsInTheirDay, RowsFindable
    <3>3. Position'
      BY <1>0, <2>1, <3>1 DEF DayInv, Position, Settled, OpenIs, Busy
    <3> QED
      BY <3>2, <3>3 DEF DayInv
  <2>2. CASE next = None /\ op.kind = "close"
    <3>1. pc' = "down" /\ next' = None /\ op' = NoOp /\ buf' = Empty /\ cfg' = None
      BY <1>2, <2>2 DEF Flushed, Done, WriterGone, Leave
    <3>2. Storage'
      BY <1>0, <3>1 DEF DayInv, Storage, StoreTypes, RowsPlaced, RowsInTheirDay, RowsFindable, Empty
    <3>3. Position'
      BY <1>0, <3>1 DEF DayInv, Position, Settled, OpenIs, Busy, NoOp
    <3> QED
      BY <3>2, <3>3 DEF DayInv
  <2>3. CASE next = None /\ op.kind \in {"flush", "threshold"}
    <3>1. /\ pc = "flushed" /\ pc' = "idle" /\ next' = None /\ op' = NoOp
          /\ UNCHANGED <<buf, cfg, pool, current>>
      BY <1>2, <2>3 DEF Flushed, Done, Return, Leave, bufferVars, openVars
    <3>2. Storage'
      BY <1>0, <3>1 DEF DayInv, Storage, StoreTypes, RowsPlaced, RowsInTheirDay, RowsFindable
    <3>3. Position'
      BY <1>0, <3>1 DEF DayInv, Position, Settled, OpenIs, Busy, NoOp
    <3> QED
      BY <3>2, <3>3 DEF DayInv
  <2> QED
    BY <1>2, <2>1, <2>2, <2>3 DEF Flushed, Done
<1> QED
  BY <1>1, <1>2

(* Neither does the end of a process nor of a future.                      *)
LEMMA EndsStand ==
    ASSUME DayInv, Crash \/ Drop
    PROVE  DayInv'
<1>1. CASE Crash
  <2>1. /\ pc' = "down" /\ next' = None /\ op' = NoOp /\ buf' = Empty /\ cfg' = None
        /\ UNCHANGED <<files, log, torn>>
    BY <1>1 DEF Crash, WriterGone, Leave
  <2>2. Storage'
    BY <2>1 DEF DayInv, Storage, StoreTypes, RowsPlaced, RowsInTheirDay, RowsFindable, Empty
  <2>3. Position'
    BY <2>1 DEF DayInv, Position, Settled, OpenIs, Busy, NoOp
  <2> QED
    BY <2>2, <2>3 DEF DayInv
<1>2. CASE Drop
  <2>1. /\ pc' = "idle" /\ next' = None /\ op' = NoOp /\ torn' = (torn \/ pc = "closing")
        /\ op.kind # "open" /\ pc \in {"flush", "committed", "resolve", "create", "closing"}
        /\ UNCHANGED <<buf, cfg, pool, current, files, log>>
    BY <1>2 DEF Drop, Leave, bufferVars, openVars
  <2>2. Storage'
    BY <2>1 DEF DayInv, Storage, StoreTypes, RowsPlaced, RowsInTheirDay, RowsFindable
  <2>3. torn' \in BOOLEAN /\ (~torn' => ~torn /\ pc # "closing")
    BY <2>1
  <2>4. Position'
    BY <2>1, <2>3 DEF DayInv, Position, Settled, OpenIs, Busy, NoOp
  <2> QED
    BY <2>2, <2>4 DEF DayInv
<1> QED
  BY <1>1, <1>2

-----------------------------------------------------------------------------
(* A flush writes the rows of the open file's date, and takes only those   *)
(* out of the buffers.                                                     *)
LEMMA FlushStands ==
    ASSUME DayInv, Commit \/ Taken
    PROVE  DayInv'
<1>1. CASE Commit
  <2>1. /\ pc = "flush" /\ pc' = "committed"
        /\ UNCHANGED <<op, next, buf, cfg, pool, current, log, torn>>
    BY <1>1 DEF Commit, bufferVars, openVars, histVars
  <2>2. current \in Dates /\ (~torn => pool[1] = current)
    BY <2>1 DEF DayInv, Position, Settled, OpenIs, Busy
  <2>0. DOMAIN files' = DOMAIN files
    BY <1>1 DEF Commit
  <2>3. Position'
    BY <2>0, <2>1 DEF DayInv, Position, Settled, OpenIs, Busy
  <2>4. CASE pool \notin DOMAIN files
    <3>1. files' = files
      BY <1>1, <2>4 DEF Commit
    <3>2. Storage'
      BY <2>1, <3>1 DEF DayInv, Storage, StoreTypes, RowsPlaced, RowsInTheirDay, RowsFindable
    <3> QED
      BY <2>3, <3>2 DEF DayInv
  <2>5. CASE pool \in DOMAIN files
    <3> DEFINE into == Upsert(files[pool].rows, buf[current])
    <3>1. files' = [files EXCEPT ![pool].rows = into]
      BY <1>1, <2>5 DEF Commit
    <3>2. /\ files \in [DOMAIN files -> [cfg : Configs \cup {None}, rows : SUBSET (DOMAIN log)]]
          /\ buf \in [Dates -> SUBSET (DOMAIN log)]
      BY DEF DayInv, Storage, StoreTypes
    <3>3. into \subseteq files[pool].rows \cup buf[current]
      BY DEF Upsert
    <3>4. into \in SUBSET (DOMAIN log)
      BY <2>2, <2>5, <3>2, <3>3
    <3> HIDE DEF into
    <3>5. /\ files' \in [DOMAIN files -> [cfg : Configs \cup {None}, rows : SUBSET (DOMAIN log)]]
          /\ DOMAIN files' = DOMAIN files
      BY <2>5, <3>1, <3>2, <3>4
    <3>6. StoreTypes'
      BY <2>1, <3>2, <3>5 DEF DayInv, Storage, StoreTypes
    <3>7. \A f \in DOMAIN files : files'[f].rows = IF f = pool THEN into ELSE files[f].rows
      BY <2>5, <3>1, <3>2
    <3>8. RowsPlaced'
      BY <2>1, <2>2, <2>5, <3>3, <3>5, <3>7 DEF DayInv, Storage, RowsPlaced, RowsInTheirDay
    <3>9. RowsFindable'
      BY <2>1 DEF DayInv, Storage, RowsFindable
    <3> QED
      BY <2>3, <3>6, <3>8, <3>9 DEF DayInv, Storage
  <2> QED
    BY <2>4, <2>5
<1>2. CASE Taken
  <2>1. /\ pc = "committed" /\ pc' = "flushed" /\ buf' = [buf EXCEPT ![current] = {}]
        /\ UNCHANGED <<op, next, cfg, pool, current, files, log, torn>>
    BY <1>2 DEF Taken, Unwritten, openVars, histVars
  <2>2. buf \in [Dates -> SUBSET (DOMAIN log)]
    BY DEF DayInv, Storage, StoreTypes
  <2>3. /\ buf' \in [Dates -> SUBSET (DOMAIN log)]
        /\ \A d \in Dates : buf'[d] \subseteq buf[d]
    BY <2>1, <2>2
  <2>4. Storage'
    BY <2>1, <2>3 DEF DayInv, Storage, StoreTypes, RowsPlaced, RowsInTheirDay, RowsFindable
  <2>5. Position'
    BY <2>1 DEF DayInv, Position, Settled, OpenIs, Busy
  <2> QED
    BY <2>4, <2>5 DEF DayInv
<1> QED
  BY <1>1, <1>2

(* The open file is of the date the writer was switching to.               *)
LEMMA AttachStands ==
    ASSUME DayInv, NEW f, f[1] = next, f \in DOMAIN files', pc \in {"resolve", "create"},
           Attach(f), Storage'
    PROVE  DayInv'
<1>1. next \in Dates /\ cfg' = cfg /\ torn' = torn /\ pool' = f
  BY DEF DayInv, Position, Attach
<1>2. CASE op.kind = "open"
  <2>1. pc' = "idle" /\ current' = next /\ next' = None /\ op' = NoOp
    BY <1>2 DEF Attach, Leave
  <2> QED
    BY <1>1, <2>1 DEF DayInv, Position, Settled, OpenIs, Busy, NoOp
<1>3. CASE op.kind # "open"
  <2>1. pc' = "closing" /\ UNCHANGED <<op, next, current>>
    BY <1>3 DEF Attach
  <2> QED
    BY <1>1, <1>3, <2>1 DEF DayInv, Position, Settled, OpenIs, Busy
<1> QED
  BY <1>2, <1>3

(* A file is found or made for the date asked for, its rows untouched.     *)
LEMMA ResolveStands ==
    ASSUME DayInv, Reuse \/ CreateFile \/ CreateSchema
    PROVE  DayInv'
<1>0. UNCHANGED <<buf, log, torn>>
  BY DEF Reuse, CreateFile, CreateSchema, Attach, bufferVars, histVars
<1>1. CASE Reuse
  <2>1. PICK f \in Latest(next) : Attach(f)
    BY <1>1 DEF Reuse
  <2>2. f[1] = next /\ f \in DOMAIN files /\ pc \in {"resolve", "create"} /\ files' = files
    BY <1>1 DEF Reuse, Latest, FilesOf
  <2>3. Storage'
    BY <1>0, <2>2 DEF DayInv, Storage, StoreTypes, RowsPlaced, RowsInTheirDay, RowsFindable
  <2> QED
    BY <2>1, <2>2, <2>3, AttachStands
<1>2. CASE CreateFile
  <2> DEFINE g == NewFile(next)
  <2>1. /\ pc = "resolve" /\ pc' = "create" /\ UNCHANGED <<op, next, cfg, pool, current>>
        /\ files' = [f \in DOMAIN files \cup {g} |-> IF f = g THEN Created ELSE files[f]]
    BY <1>2 DEF CreateFile, openVars
  <2> HIDE DEF g
  <2>2. Created \in [cfg : Configs \cup {None}, rows : SUBSET (DOMAIN log)] /\ Created.rows = {}
    BY DEF Created
  <2>3. StoreTypes'
    BY <1>0, <2>1, <2>2 DEF DayInv, Storage, StoreTypes
  <2>4. RowsPlaced' /\ RowsFindable'
    BY <1>0, <2>1, <2>2 DEF DayInv, Storage, RowsPlaced, RowsInTheirDay, RowsFindable
  <2>5. Position'
    BY <1>0, <2>1 DEF DayInv, Position, Settled, OpenIs, Busy
  <2> QED
    BY <2>3, <2>4, <2>5 DEF DayInv, Storage
<1>3. CASE CreateSchema
  <2>1. PICK f \in Latest(next) : files' = [files EXCEPT ![f].cfg = cfg] /\ Attach(f)
    BY <1>3 DEF CreateSchema
  <2>2. f[1] = next /\ f \in DOMAIN files /\ pc \in {"resolve", "create"}
    BY <1>3 DEF CreateSchema, Latest, FilesOf
  <2>3. files \in [DOMAIN files -> [cfg : Configs \cup {None}, rows : SUBSET (DOMAIN log)]]
        /\ cfg \in Configs \cup {None}
    BY DEF DayInv, Storage, StoreTypes, Position
  <2>4. /\ files' \in [DOMAIN files -> [cfg : Configs \cup {None}, rows : SUBSET (DOMAIN log)]]
        /\ DOMAIN files' = DOMAIN files
        /\ \A h \in DOMAIN files : files'[h].rows = files[h].rows
    BY <2>1, <2>2, <2>3
  <2>5. Storage'
    BY <1>0, <2>4 DEF DayInv, Storage, StoreTypes, RowsPlaced, RowsInTheirDay, RowsFindable
  <2> QED
    BY <2>1, <2>2, <2>4, <2>5, AttachStands
<1> QED
  BY <1>1, <1>2, <1>3

(* A prune takes files away and changes none.                              *)
LEMMA PruneStands ==
    ASSUME DayInv, Prune
    PROVE  DayInv'
<1>1. UNCHANGED <<pc, op, next, buf, cfg, pool, current, log, torn>>
  BY DEF Prune, opVars, bufferVars, openVars
<1>2. PICK gone : /\ files' = Restrict(files, DOMAIN files \ gone)
                   /\ \A f \in gone : f[1] \notin PinnedDates
  BY DEF Prune
<1>3. files' = [f \in DOMAIN files \ gone |-> files[f]]
  BY <1>2 DEF Restrict
<1>4. Storage'
  BY <1>1, <1>3 DEF DayInv, Storage, StoreTypes, RowsPlaced, RowsInTheirDay, RowsFindable
<1>5. Position'
  <2>1. pc \in {"idle", "down"}
    BY DEF Prune
  <2>2. pool[1] = current /\ pool \in DOMAIN files => pool \in DOMAIN files'
    BY <1>2, <1>3 DEF PinnedDates
  <2> QED
    BY <1>1, <2>1, <2>2 DEF DayInv, Position, Settled, OpenIs, Busy
<1> QED
  BY <1>4, <1>5 DEF DayInv

-----------------------------------------------------------------------------
(* A row is accepted for the date its append read from the clock.          *)
LEMMA AcceptStands ==
    ASSUME DayInv, Accept
    PROVE  DayInv'
<1>1. PICK ptime \in Times : /\ Findable(op.target, ptime)
                             /\ log' = Append(log, [ptime |-> ptime, date |-> op.target])
  BY DEF Accept
<1> DEFINE row == Len(log) + 1
<1>2. op.target \in Dates /\ pc = "buffer"
  BY DEF Accept, DayInv, Position
<1>3. log \in Seq([ptime : Times, date : Dates])
  BY DEF DayInv, Storage, StoreTypes
<1>4. /\ log' \in Seq([ptime : Times, date : Dates]) /\ Len(log') = row
      /\ DOMAIN log' = DOMAIN log \cup {row}
      /\ \A r \in DOMAIN log : log'[r] = log[r]
      /\ log'[row] = [ptime |-> ptime, date |-> op.target]
  BY <1>1, <1>2, <1>3
<1>5. UNCHANGED <<files, torn, cfg, pool, current>>
  BY DEF Accept, openVars
<1>6. PICK excess : buf' = [d \in Dates |-> [buf EXCEPT ![op.target] = @ \cup {row}][d] \ excess]
  BY <1>4 DEF Accept, Push, Home
<1>7. buf \in [Dates -> SUBSET (DOMAIN log)]
  BY DEF DayInv, Storage, StoreTypes
<1> HIDE DEF row
<1>8. \A d \in Dates : buf'[d] \subseteq IF d = op.target THEN buf[d] \cup {row} ELSE buf[d]
  BY <1>2, <1>6, <1>7
<1>9. StoreTypes'
  <2>1. buf' \in [Dates -> SUBSET (DOMAIN log')]
    BY <1>4, <1>6, <1>7, <1>8
  <2> QED
    BY <1>4, <1>5, <2>1 DEF DayInv, Storage, StoreTypes
<1>10. RowsPlaced'
  <2>1. \A d \in Dates : \A r \in buf'[d] : log'[r].date = d
    BY <1>4, <1>7, <1>8 DEF DayInv, Storage, RowsPlaced
  <2>2. RowsInTheirDay'
    BY <1>4, <1>5 DEF DayInv, Storage, StoreTypes, RowsPlaced, RowsInTheirDay
  <2> QED
    BY <2>1, <2>2 DEF RowsPlaced
<1>11. RowsFindable'
  BY <1>1, <1>4 DEF DayInv, Storage, RowsFindable
<1>12. Position'
  <2>1. CASE pc' = "rotate" /\ op' = [NoOp EXCEPT !.kind = "threshold"] /\ next' = next
    BY <1>2, <1>5, <2>1 DEF DayInv, Position, Settled, OpenIs, Busy, NoOp
  <2>2. CASE pc' = "idle" /\ op' = NoOp /\ next' = None
    BY <1>2, <1>5, <2>2 DEF DayInv, Position, Settled, OpenIs, Busy, NoOp
  <2> QED
    BY <2>1, <2>2 DEF Accept, Leave
<1> QED
  BY <1>9, <1>10, <1>11, <1>12 DEF DayInv, Storage

-----------------------------------------------------------------------------
(* The invariant holds before the first writer is opened.                  *)
LEMMA DayInvInit == Init => DayInv
<1> SUFFICES ASSUME Init PROVE DayInv
  OBVIOUS
<1>1. Storage
  BY DEF Init, Storage, StoreTypes, RowsPlaced, RowsInTheirDay, RowsFindable, Empty
<1>2. Position
  BY DEF Init, Position, Settled, OpenIs, Busy, NoOp
<1> QED
  BY <1>1, <1>2 DEF DayInv

(* Every step keeps it.                                                    *)
LEMMA DayInvStep == DayInv /\ [Next]_vars => DayInv'
<1> SUFFICES ASSUME DayInv, [Next]_vars PROVE DayInv'
  OBVIOUS
<1>1. CASE StartAppend \/ StartFlush \/ StartOpen
  BY <1>1, StartsStand
<1>2. CASE NothingToWrite \/ Flushed \/ Rotate \/ Switched \/ Reject
  BY <1>2, WalkStands
<1>3. CASE Commit \/ Taken
  BY <1>3, FlushStands
<1>4. CASE CommitFails \/ Uninitialized \/ ResolveFails
  BY <1>4, GiveUpStands DEF CommitFails, Uninitialized, ResolveFails
<1>5. CASE Reuse \/ CreateFile \/ CreateSchema
  BY <1>5, ResolveStands
<1>6. CASE Accept
  BY <1>6, AcceptStands
<1>7. CASE Prune
  BY <1>7, PruneStands
<1>8. CASE Crash \/ Drop
  BY <1>8, EndsStand
<1>9. CASE UNCHANGED vars
  <2>1. UNCHANGED <<pc, op, next, buf, cfg, pool, current, files, log, torn>>
    BY <1>9 DEF vars, opVars, bufferVars, openVars, histVars
  <2>2. Storage'
    BY <2>1 DEF DayInv, Storage, StoreTypes, RowsPlaced, RowsInTheirDay, RowsFindable
  <2>3. Position'
    BY <2>1 DEF DayInv, Position, Settled, OpenIs, Busy
  <2> QED
    BY <2>2, <2>3 DEF DayInv
<1> QED
  BY <1>1, <1>2, <1>3, <1>4, <1>5, <1>6, <1>7, <1>8, <1>9 DEF Next, Step

(* However long a change of date takes, whatever fails in it and wherever  *)
(* the clock jumps, a row is in no file but that of the date its append    *)
(* read (rotate_if_needed, flush_locked), as long as no future is dropped  *)
(* between the two files.                                                  *)
THEOREM RowsStayInTheirDay == Spec => []RowsInTheirDay
<1>1. DayInv => RowsInTheirDay
  BY DEF DayInv, Storage, RowsPlaced
<1> QED
  BY DayInvInit, DayInvStep, <1>1, PTL DEF Spec

-----------------------------------------------------------------------------
(* Whole days do not decrease with time.                                   *)
LEMMA DaysGrow ==
    ASSUME NEW a \in Int, NEW b \in Int, NEW n \in Nat \ {0}, a <= b
    PROVE  a \div n <= b \div n
  OBVIOUS

(* Nor do the dates of UTC.                                                *)
LEMMA DateGrows ==
    ASSUME NEW a \in Int, NEW b \in Int, a <= b
    PROVE  DateAt(a, 0) \in Int /\ DateAt(a, 0) <= DateAt(b, 0)
<1>1. Day \in Nat \ {0}
  BY TsWriterAssumption
<1>2. DateAt(a, 0) = a \div Day /\ DateAt(b, 0) = b \div Day
  BY DEF DateAt
<1> QED
  BY <1>1, <1>2, DaysGrow

(* A file found by the query for one time is found by every wider one.     *)
LEMMA WiderFindsMore ==
    ASSUME NEW t \in Times, NEW from \in Times, NEW to \in Times, from <= t, t <= to,
           NEW d, Findable(d, t)
    PROVE  d \in Candidates(from, to)
<1>1. /\ t \in Int /\ from \in Int /\ to \in Int /\ Day \in Int /\ Offset \in Int
      /\ Day \in Nat \ {0} /\ Times \subseteq Int
  BY TsWriterAssumption
<1>2. d \in Dates /\ DateAt(t - Day, 0) <= d /\ d <= DateAt(t + Day, 0)
  BY DEF Findable, Candidates
<1>3. d \in Int
  <2>1. PICK u \in Times : d = (u + Offset) \div Day
    BY <1>2 DEF Dates, DateAt
  <2> QED
    BY <1>1, <2>1
<1>4. /\ DateAt(from - Day, 0) \in Int /\ DateAt(t - Day, 0) \in Int
      /\ DateAt(from - Day, 0) <= DateAt(t - Day, 0)
  BY <1>1, DateGrows
<1>5. /\ DateAt(t + Day, 0) \in Int /\ DateAt(to + Day, 0) \in Int
      /\ DateAt(t + Day, 0) <= DateAt(to + Day, 0)
  BY <1>1, DateGrows
<1> QED
  BY <1>2, <1>3, <1>4, <1>5 DEF Candidates

(* An entry of a sequence is of what the sequence is of.                   *)
LEMMA EntryOfSeq ==
    ASSUME NEW S, NEW s \in Seq(S), NEW k \in DOMAIN s
    PROVE  s[k] \in S
  OBVIOUS

(* Every query whose range holds the time of a stored row opens the row's  *)
(* file: what append checks (ptime_is_findable_in) is what a query opens   *)
(* (candidate_date_range).                                                 *)
THEOREM QueriesOpenTheFile == Spec => []QueriesFindRows
<1>1. DayInv => QueriesFindRows
  <2> SUFFICES ASSUME DayInv, ~torn, NEW f \in DOMAIN files, NEW r \in files[f].rows,
                      NEW from \in Times, NEW to \in Times,
                      from <= log[r].ptime, log[r].ptime <= to
               PROVE  f[1] \in Candidates(from, to)
    BY DEF QueriesFindRows
  <2>1. r \in DOMAIN log
    BY DEF DayInv, Storage, StoreTypes
  <2>2. log[r].date = f[1]
    BY DEF DayInv, Storage, RowsPlaced, RowsInTheirDay
  <2>3. log[r].ptime \in Times
    <3>1. log \in Seq([ptime : Times, date : Dates])
      BY DEF DayInv, Storage, StoreTypes
    <3>2. log[r] \in [ptime : Times, date : Dates]
      BY <2>1, <3>1, EntryOfSeq
    <3> QED
      BY <3>2
  <2>4. Findable(f[1], log[r].ptime)
    BY <2>1, <2>2 DEF DayInv, Storage, RowsFindable
  <2> QED
    BY <2>3, <2>4, WiderFindsMore
<1> QED
  BY DayInvInit, DayInvStep, <1>1, PTL DEF Spec

(* No prune, with whatever retention and whatever `today`, takes the file  *)
(* the writer has open (prune_files, pinned_dates).                        *)
THEOREM OpenFileStays == Spec => []OpenFileKept
<1>1. DayInv => OpenFileKept
  BY DEF DayInv, Position, Settled, OpenIs, Busy, OpenFileKept
<1> QED
  BY DayInvInit, DayInvStep, <1>1, PTL DEF Spec

-----------------------------------------------------------------------------
(* The three together.                                                     *)
THEOREM RowsStayFound == Spec => []RowsAreFound
  BY RowsStayInTheirDay, QueriesOpenTheFile, OpenFileStays, PTL DEF RowsAreFound

-----------------------------------------------------------------------------
(* What is accounted for.  Two places are delicate: between a commit and   *)
(* the removal of what it wrote (Written), and the last flush of a close,  *)
(* after which the buffers go uncounted (NothingHeld).                     *)

(* A file has the row, or one that replaced it.                            *)
Kept(n) == \E f \in DOMAIN files : \E r \in files[f].rows :
             n <= r /\ SameTime(n, r) /\ log[n].date = log[r].date

Accounted == ~torn => \A n \in DOMAIN log : n \in RowsIn(buf) \cup discarded \cup lost \/ Kept(n)

Written == pc = "committed" /\ ~torn => \A n \in buf[current] : Kept(n)

NothingHeld ==
    /\ pc = "down" \/ op.kind = "open" => buf = Empty
    /\ pc \in {"flush", "committed", "flushed"} /\ next = None => Waiting = {}
    /\ pc = "flushed" => buf[current] = {}

Counted ==
    /\ rows = Cardinality(RowsIn(buf)) /\ dropped = Cardinality(discarded)
    /\ discarded \subseteq DOMAIN log /\ discarded \cap RowsIn(buf) = {}

(* An operation says nothing until it ends, and "written" only of all rows.*)
Said ==
    /\ pc \in Busy => said = "nothing"
    /\ said = "written" => rows = 0
    /\ stale \in {"no", "failed", "refused"}

(* There is a last file, so a new one is not one of the old.               *)
Numbered == \E top \in Nat : \A f \in DOMAIN files : f[2] \in Nat /\ f[2] <= top

Account == Accounted /\ Written /\ NothingHeld /\ Counted /\ Said /\ Numbered
CountInv == DayInv /\ Account

-----------------------------------------------------------------------------
(* A bounded set of numbers that is not empty has a largest one.           *)
LEMMA Largest ==
    ASSUME NEW S \in SUBSET Nat, S # {}, NEW top \in Nat, \A s \in S : s <= top
    PROVE  \E m \in S : \A s \in S : s <= m
<1> DEFINE Bounds == {n \in Nat : \A s \in S : s <= n}
<1>1. PICK m \in Bounds : \A n \in Bounds : ~(<<n, m>> \in OpToRel(<, Nat))
  <2>1. Bounds \subseteq Nat /\ Bounds # {}
    OBVIOUS
  <2> HIDE DEF Bounds
  <2> QED
    BY <2>1, NatLessThanWellFounded, WFMin
<1>2. \A n \in Bounds : m <= n
  <2>1. m \in Nat /\ Bounds \subseteq Nat
    OBVIOUS
  <2> HIDE DEF Bounds
  <2>2. \A n \in Bounds : ~(n < m)
    BY <1>1, <2>1, Zenon DEF OpToRel
  <2> QED
    BY <2>1, <2>2
<1>3. m \in S
  <2> SUFFICES ASSUME m \notin S PROVE FALSE
    OBVIOUS
  <2>1. PICK s \in S : TRUE
    OBVIOUS
  <2>2. s <= m /\ s # m /\ m - 1 \in Nat
    BY <2>1
  <2>3. m - 1 \in Bounds
    BY <2>2
  <2> QED
    BY <1>2, <2>2, <2>3
<1> QED
  BY <1>3

(* The rows have finitely many numbers.                                    *)
LEMMA FewRows ==
    ASSUME DayInv
    PROVE  /\ DOMAIN log \subseteq Nat /\ IsFiniteSet(DOMAIN log)
           /\ RowsIn(buf) \subseteq DOMAIN log /\ IsFiniteSet(RowsIn(buf))
           /\ Len(log) \in Nat /\ \A n \in DOMAIN log : n <= Len(log)
<1>1. log \in Seq([ptime : Times, date : Dates]) /\ buf \in [Dates -> SUBSET (DOMAIN log)]
  BY DEF DayInv, Storage, StoreTypes
<1>2. DOMAIN log = 1..Len(log) /\ Len(log) \in Nat
  BY <1>1
<1>3. IsFiniteSet(DOMAIN log)
  BY <1>2, FS_Interval
<1>4. RowsIn(buf) \subseteq DOMAIN log
  BY <1>1 DEF RowsIn
<1> QED
  BY <1>2, <1>3, <1>4, FS_Subset

(* A commit keeps of every row the newest of its time.                     *)
LEMMA UpsertKeeps ==
    ASSUME DayInv, NEW old \in SUBSET DOMAIN log, NEW new \in SUBSET DOMAIN log,
           NEW r \in old \cup new
    PROVE  \E q \in Upsert(old, new) : r <= q /\ SameTime(r, q)
<1> DEFINE Same == {s \in new : SameTime(s, r)}
<1>1. DOMAIN log \subseteq Nat /\ Len(log) \in Nat /\ \A n \in DOMAIN log : n <= Len(log)
  BY FewRows
<1>2. r \in Nat
  BY <1>1
<1>3. CASE \A s \in Same : s <= r
  BY <1>2, <1>3 DEF Upsert, SameTime
<1>4. CASE \E s \in Same : ~(s <= r)
  <2>1. Same \in SUBSET Nat /\ Same # {} /\ \A s \in Same : s <= Len(log)
    BY <1>1, <1>4
  <2> HIDE DEF Same
  <2>2. PICK m \in Same : \A s \in Same : s <= m
    BY <1>1, <2>1, Largest
  <2>3. r <= m
    BY <1>2, <1>4, <2>1, <2>2
  <2> USE DEF Same
  <2>4. m \in Upsert(old, new)
    BY <2>2 DEF Upsert, SameTime
  <2> QED
    BY <2>2, <2>3, <2>4 DEF SameTime
<1> QED
  BY <1>3, <1>4

(* The dates are numbers, and "no date" is none of them.                   *)
LEMMA DatesAreNumbers == Dates \subseteq Nat /\ None \notin Dates
<1>1. \A t \in Times : DateAt(t, Offset) \in Nat
  <2>1. Times \subseteq Nat /\ Day \in Nat \ {0} /\ Offset \in Nat
    BY TsWriterAssumption
  <2> QED
    BY <2>1 DEF DateAt
<1> QED
  BY <1>1, TsWriterAssumption DEF Dates

(* What a file keeps it keeps as long as nothing is written.               *)
LEMMA KeptStays ==
    ASSUME log' = log, \A f \in DOMAIN files : f \in DOMAIN files' /\ files'[f].rows = files[f].rows
    PROVE  \A n : Kept(n) => Kept(n)'
  BY DEF Kept, SameTime

(* With nothing waiting there is nothing to count.                         *)
LEMMA NoRows ==
    ASSUME buf = Empty \/ (buf \in [Dates -> SUBSET DOMAIN log] /\ \A d \in Dates : buf[d] = {})
    PROVE  RowsIn(buf) = {} /\ Cardinality(RowsIn(buf)) = 0
<1>1. RowsIn(buf) = {}
  BY DEF RowsIn, Empty
<1> QED
  BY <1>1, FS_EmptySet

(* Rows in two places that share none count for both.                      *)
LEMMA TogetherCounted ==
    ASSUME NEW S, NEW T, IsFiniteSet(S), IsFiniteSet(T), S \cap T = {}
    PROVE  IsFiniteSet(S \cup T) /\ Cardinality(S \cup T) = Cardinality(S) + Cardinality(T)
<1>1. Cardinality(S \cap T) = 0
  BY FS_EmptySet
<1>2. Cardinality(S) \in Nat /\ Cardinality(T) \in Nat
  BY FS_CardinalityType
<1>3. /\ IsFiniteSet(S \cup T)
      /\ Cardinality(S \cup T) = Cardinality(S) + Cardinality(T) - Cardinality(S \cap T)
  BY FS_Union
<1> QED
  BY <1>1, <1>2, <1>3

-----------------------------------------------------------------------------
(* Steps that leave rows, files and counts alone keep Accounted and        *)
(* Counted.                                                                *)
LEMMA StillCounted ==
    ASSUME CountInv, UNCHANGED <<buf, rows, dropped, log, discarded, lost, torn>>,
           \A f \in DOMAIN files : f \in DOMAIN files' /\ files'[f].rows = files[f].rows
    PROVE  Accounted' /\ Counted'
<1>1. \A n : Kept(n) => Kept(n)'
  BY KeptStays
<1>2. RowsIn(buf)' = RowsIn(buf)
  BY DEF RowsIn
<1>3. Accounted'
  BY <1>1, <1>2 DEF CountInv, Account, Accounted
<1>4. Counted'
  BY <1>2 DEF CountInv, Account, Counted
<1> QED
  BY <1>3, <1>4

(* An operation that begins says nothing yet; an open starts new counts.   *)
LEMMA StartsCount ==
    ASSUME CountInv, StartAppend \/ StartFlush \/ StartOpen
    PROVE  Account'
<1>1. UNCHANGED <<buf, rows, files, log, torn, stale>> /\ said' = "nothing"
  BY DEF StartAppend, StartFlush, StartOpen, Start, bufferVars
<1>2. Numbered' /\ Said'
  BY <1>1 DEF CountInv, Account, Numbered, Said
<1>3. CASE StartAppend \/ StartFlush
  <2>1. pc' = "rotate" /\ op'.kind # "open" /\ UNCHANGED <<dropped, discarded, lost>>
    BY <1>3 DEF StartAppend, StartFlush, Start, bufferVars
  <2>2. Accounted' /\ Counted'
    BY <1>1, <2>1, StillCounted
  <2>3. Written' /\ NothingHeld'
    BY <2>1 DEF Written, NothingHeld
  <2> QED
    BY <1>2, <2>2, <2>3 DEF Account
<1>4. CASE StartOpen
  <2>1. /\ pc = "down" /\ pc' = "resolve" /\ dropped' = 0
        /\ lost' = lost \cup discarded /\ discarded' = {}
    BY <1>4 DEF StartOpen
  <2>2. buf = Empty
    BY <2>1 DEF CountInv, Account, NothingHeld
  <2>3. Accounted'
    BY <1>1, <2>1, KeptStays DEF CountInv, Account, Accounted, RowsIn
  <2>4. Counted'
    BY <1>1, <2>1, FS_EmptySet DEF CountInv, Account, Counted, RowsIn
  <2>5. Written' /\ NothingHeld'
    BY <1>1, <2>1, <2>2 DEF Written, NothingHeld
  <2> QED
    BY <1>2, <2>3, <2>4, <2>5 DEF Account
<1> QED
  BY <1>3, <1>4

(* With a closed or crashed writer its buffers go.                         *)
LEMMA GoneCounts ==
    ASSUME CountInv, NEW outcome, WriterGone(outcome), UNCHANGED <<files, log, torn>>,
           outcome \in {"nothing", "written", "failed", "refused"},
           \/ RowsIn(buf) = {} /\ UNCHANGED <<dropped, discarded, lost>>
           \/ dropped' = dropped + rows /\ discarded' = discarded \cup RowsIn(buf) /\ lost' = lost
           \/ lost' = lost \cup RowsIn(buf) /\ UNCHANGED <<dropped, discarded>>
    PROVE  Account'
<1>1. pc' = "down" /\ buf' = Empty /\ rows' = 0 /\ said' = outcome /\ stale' = "no" /\ op' = NoOp
  BY DEF WriterGone, Leave
<1>2. RowsIn(buf)' = {} /\ Cardinality(RowsIn(buf)') = 0
  <2>1. RowsIn(buf)' = {}
    BY <1>1 DEF RowsIn, Empty
  <2> QED
    BY <2>1, FS_EmptySet
<1>3. Accounted'
  BY <1>2, KeptStays DEF CountInv, Account, Accounted
<1>4. Counted'
  <2>1. CASE UNCHANGED <<dropped, discarded>>
    BY <1>1, <1>2, <2>1 DEF CountInv, Account, Counted
  <2>2. CASE dropped' = dropped + rows /\ discarded' = discarded \cup RowsIn(buf)
    <3>1. /\ IsFiniteSet(RowsIn(buf)) /\ RowsIn(buf) \subseteq DOMAIN log
          /\ IsFiniteSet(DOMAIN log)
      BY FewRows DEF CountInv
    <3>2. discarded \subseteq DOMAIN log /\ discarded \cap RowsIn(buf) = {}
      BY DEF CountInv, Account, Counted
    <3>3. IsFiniteSet(discarded)
      BY <3>1, <3>2, FS_Subset
    <3>4. Cardinality(discarded \cup RowsIn(buf)) = Cardinality(discarded) + Cardinality(RowsIn(buf))
      BY <3>1, <3>2, <3>3, TogetherCounted
    <3>5. rows' = Cardinality(RowsIn(buf)') /\ discarded' \subseteq DOMAIN log'
      BY <1>1, <1>2, <2>2, <3>1, <3>2
    <3>6. dropped' = Cardinality(discarded')
      BY <2>2, <3>4 DEF CountInv, Account, Counted
    <3> QED
      BY <1>2, <3>5, <3>6 DEF Counted
  <2> QED
    BY <2>1, <2>2
<1>5. Written' /\ NothingHeld' /\ Said'
  BY <1>1 DEF Written, NothingHeld, Said, Busy, NoOp
<1>6. Numbered'
  BY DEF CountInv, Account, Numbered
<1> QED
  BY <1>3, <1>4, <1>5, <1>6 DEF Account

(* An operation that gives up leaves the counts, or counts what goes.      *)
LEMMA GiveUpCounts ==
    ASSUME CountInv, NEW outcome \in {"failed", "refused"}, GiveUp(outcome),
           UNCHANGED <<files, log, lost, torn>>, pc \in {"flush", "resolve", "create"}
    PROVE  Account'
<1>1. CASE op.kind = "append"
  <2>1. pc' = "buffer" /\ stale' = outcome
        /\ UNCHANGED <<op, buf, rows, dropped, discarded, said>>
    BY <1>1 DEF GiveUp, Return, WriterGone, Leave, bufferVars, openVars
  <2>2. Accounted' /\ Counted'
    BY <2>1, StillCounted
  <2>3. Written' /\ NothingHeld' /\ Numbered'
    BY <1>1, <2>1 DEF Written, NothingHeld, CountInv, Account, Numbered
  <2>4. Said'
    BY <2>1 DEF CountInv, Account, Said, Busy
  <2> QED
    BY <2>2, <2>3, <2>4 DEF Account
<1>2. CASE op.kind \in {"flush", "threshold"}
  <2>1. /\ pc' = "idle" /\ op' = NoOp /\ said' = outcome /\ stale' = "no"
        /\ UNCHANGED <<buf, rows, dropped, discarded>>
    BY <1>2 DEF GiveUp, Return, WriterGone, Leave, bufferVars, openVars
  <2>2. Accounted' /\ Counted'
    BY <2>1, StillCounted
  <2>3. Written' /\ NothingHeld' /\ Numbered'
    BY <2>1 DEF Written, NothingHeld, NoOp, CountInv, Account, Numbered
  <2>4. Said'
    BY <2>1 DEF Said, Busy
  <2> QED
    BY <2>2, <2>3, <2>4 DEF Account
<1>3. CASE op.kind = "close"
  <2>1. /\ WriterGone(outcome) /\ dropped' = dropped + rows
        /\ discarded' = discarded \cup RowsIn(buf)
    BY <1>3 DEF GiveUp, Return, LastCount
  <2> QED
    BY <2>1, GoneCounts
<1>4. CASE op.kind = "open"
  <2>1. WriterGone(outcome) /\ UNCHANGED <<dropped, discarded>>
    BY <1>4 DEF GiveUp, Return
  <2>2. RowsIn(buf) = {}
    BY <1>4, NoRows DEF CountInv, Account, NothingHeld
  <2> QED
    BY <2>1, <2>2, GoneCounts
<1> QED
  BY <1>1, <1>2, <1>3, <1>4 DEF GiveUp

(* Steps that only move on, and the end of a flush.                        *)
LEMMA WalkCounts ==
    ASSUME CountInv, NothingToWrite \/ Rotate \/ Switched \/ Reject
    PROVE  Account'
<1>1. UNCHANGED <<buf, rows, dropped, files, log, discarded, lost, torn>>
  BY DEF NothingToWrite, Rotate, Switched, Reject, Return, bufferVars, openVars, histVars
<1>2. Accounted' /\ Counted' /\ Numbered'
  BY <1>1, StillCounted DEF CountInv, Account, Numbered
<1>3. CASE NothingToWrite
  <2>1. pc = "flush" /\ pc' = "flushed" /\ buf[current] = {}
        /\ UNCHANGED <<op, next, stale, current, said>>
    BY <1>3 DEF NothingToWrite, openVars, histVars
  <2>2. Written' /\ NothingHeld' /\ Said'
    BY <1>1, <2>1 DEF Written, CountInv, Account, NothingHeld, Waiting, Said, Busy
  <2> QED
    BY <1>2, <2>2 DEF Account
<1>4. CASE Rotate
  <2>1. /\ pc = "rotate" /\ pc' \in {"flush", "buffer"}
        /\ UNCHANGED <<op, stale, current, said>>
    BY <1>4 DEF Rotate, openVars, histVars
  <2>2. next' = None => Waiting = {}
    BY <1>4, DatesAreNumbers DEF Rotate, Waiting, Switches
  <2>3. Written' /\ NothingHeld' /\ Said'
    BY <1>1, <2>1, <2>2 DEF Written, CountInv, Account, NothingHeld, Waiting, Said, Busy
  <2> QED
    BY <1>2, <2>3 DEF Account
<1>5. CASE Switched
  <2>1. pc = "closing" /\ pc' = "rotate" /\ UNCHANGED <<op, stale, said>>
    BY <1>5 DEF Switched, histVars
  <2>2. Written' /\ NothingHeld' /\ Said'
    BY <1>1, <2>1 DEF Written, CountInv, Account, NothingHeld, Said, Busy
  <2> QED
    BY <1>2, <2>2 DEF Account
<1>6. CASE Reject
  <2>1. pc' = "idle" /\ op' = NoOp /\ stale' = "no" /\ said' = "nothing"
    BY <1>6 DEF Reject, Return, Leave
  <2>2. Written' /\ NothingHeld' /\ Said'
    BY <2>1 DEF Written, NothingHeld, NoOp, Said, Busy
  <2> QED
    BY <1>2, <2>2 DEF Account
<1> QED
  BY <1>3, <1>4, <1>5, <1>6

(* A flush that returns has left nothing in any buffer.                    *)
LEMMA FlushedCounts ==
    ASSUME CountInv, Flushed
    PROVE  Account'
<1>1. pc = "flushed" /\ UNCHANGED <<files, log, lost, torn>> /\ buf[current] = {}
  BY DEF Flushed, CountInv, Account, NothingHeld
<1>2. CASE next # None
  <2>1. pc' = "resolve" /\ UNCHANGED <<op, next, stale, buf, rows, dropped, discarded, said>>
    BY <1>2 DEF Flushed, bufferVars
  <2>2. Accounted' /\ Counted' /\ Numbered'
    BY <1>1, <2>1, StillCounted DEF CountInv, Account, Numbered
  <2>3. Written' /\ NothingHeld' /\ Said'
    BY <1>1, <2>1 DEF Written, CountInv, Account, NothingHeld, Said, Busy
  <2> QED
    BY <2>2, <2>3 DEF Account
<1>3. CASE next = None
  <2>1. RowsIn(buf) = {} /\ rows = 0
    <3>1. \A d \in Dates : buf[d] = {}
      BY <1>1, <1>3 DEF CountInv, Account, NothingHeld, Waiting
    <3>2. buf \in [Dates -> SUBSET DOMAIN log]
      BY DEF CountInv, DayInv, Storage, StoreTypes
    <3> QED
      BY <3>1, <3>2, NoRows DEF CountInv, Account, Counted
  <2>2. CASE Return("written")
    <3>1. pc' = "idle" /\ op' = NoOp /\ stale' = "no" /\ said' = "written"
          /\ UNCHANGED <<buf, rows, dropped, discarded>>
      BY <2>2 DEF Return, Leave, bufferVars
    <3>2. Accounted' /\ Counted' /\ Numbered'
      BY <1>1, <3>1, StillCounted DEF CountInv, Account, Numbered
    <3>3. Written' /\ NothingHeld' /\ Said'
      BY <2>1, <3>1 DEF Written, NothingHeld, NoOp, Said, Busy
    <3> QED
      BY <3>2, <3>3 DEF Account
  <2>3. CASE WriterGone("written") /\ UNCHANGED <<dropped, discarded>>
    BY <1>1, <2>1, <2>3, GoneCounts
  <2> QED
    BY <1>3, <2>2, <2>3 DEF Flushed, Done
<1> QED
  BY <1>2, <1>3

-----------------------------------------------------------------------------
(* What a commit replaces, a newer row of the same time replaces.          *)
LEMMA CommitCounts ==
    ASSUME CountInv, Commit
    PROVE  Account'
<1>1. /\ pc = "flush" /\ pc' = "committed" /\ buf[current] # {}
      /\ UNCHANGED <<op, next, stale, buf, rows, dropped, cfg, pool, current,
                     log, discarded, lost, said, torn>>
  BY DEF Commit, bufferVars, openVars, histVars
<1>2. /\ files \in [DOMAIN files -> [cfg : Configs \cup {None}, rows : SUBSET (DOMAIN log)]]
      /\ buf \in [Dates -> SUBSET (DOMAIN log)] /\ DOMAIN log \subseteq Nat
  BY FewRows DEF CountInv, DayInv, Storage, StoreTypes
<1>3. ~torn => /\ \A n : Kept(n) /\ n \in DOMAIN log => Kept(n)'
               /\ \A n \in buf[current] : Kept(n)'
  <2> SUFFICES ASSUME ~torn
               PROVE  /\ \A n : Kept(n) /\ n \in DOMAIN log => Kept(n)'
                      /\ \A n \in buf[current] : Kept(n)'
    OBVIOUS
  <2> DEFINE into == Upsert(files[pool].rows, buf[current])
  <2>1. current \in Dates /\ pool[1] = current /\ pool \in DOMAIN files
    BY <1>1 DEF CountInv, DayInv, Position, Settled, OpenIs
  <2>2. files' = [files EXCEPT ![pool].rows = into]
    BY <2>1 DEF Commit
  <2>3. \A r \in files[pool].rows \cup buf[current] :
          \E q \in into : r <= q /\ SameTime(r, q)
    BY <1>2, <2>1, UpsertKeeps DEF CountInv
  <2>4. \A r \in files[pool].rows \cup buf[current] : log[r].date = current /\ r \in DOMAIN log
    BY <1>2, <2>1 DEF CountInv, DayInv, Storage, RowsPlaced, RowsInTheirDay
  <2>5. into \subseteq files[pool].rows \cup buf[current]
    BY DEF Upsert
  <2> HIDE DEF into
  <2>6. /\ DOMAIN files' = DOMAIN files /\ files'[pool].rows = into
        /\ \A f \in DOMAIN files : f # pool => files'[f].rows = files[f].rows
    BY <1>2, <2>1, <2>2
  <2>7. \A r \in files[pool].rows \cup buf[current] :
          \E q \in files'[pool].rows : r <= q /\ SameTime(r, q) /\ log[r].date = log[q].date
    BY <2>3, <2>4, <2>5, <2>6
  <2>8. \A n \in buf[current] : Kept(n)'
    BY <1>1, <2>1, <2>6, <2>7 DEF Kept, SameTime
  <2>9. ASSUME NEW n \in DOMAIN log, Kept(n) PROVE Kept(n)'
    <3>0. PICK f \in DOMAIN files : \E r \in files[f].rows :
            n <= r /\ SameTime(n, r) /\ log[n].date = log[r].date
      BY <2>9 DEF Kept
    <3>1. PICK r \in files[f].rows : n <= r /\ SameTime(n, r) /\ log[n].date = log[r].date
      BY <3>0
    <3>2. CASE f # pool
      BY <1>1, <2>6, <3>1, <3>2 DEF Kept, SameTime
    <3>3. CASE f = pool
      <4>1. PICK q \in files'[pool].rows :
              r <= q /\ SameTime(r, q) /\ log[r].date = log[q].date
        BY <2>7, <3>1, <3>3
      <4>2. n \in Nat /\ r \in Nat /\ q \in Nat
        BY <1>2, <2>4, <2>5, <2>6, <3>1, <3>3, <4>1
      <4>3. n <= q /\ SameTime(n, q) /\ log[n].date = log[q].date
        BY <3>1, <4>1, <4>2 DEF SameTime
      <4> QED
        BY <1>1, <2>1, <2>6, <4>3 DEF Kept, SameTime
    <3> QED
      BY <3>2, <3>3
  <2> QED
    BY <2>8, <2>9
<1>4. RowsIn(buf)' = RowsIn(buf)
  BY <1>1 DEF RowsIn
<1>5. Accounted' /\ Written' /\ Counted'
  BY <1>1, <1>3, <1>4 DEF CountInv, Account, Accounted, Written, Counted
<1>6. NothingHeld' /\ Said'
  BY <1>1 DEF CountInv, Account, NothingHeld, Waiting, Said, Busy
<1>7. Numbered'
  BY DEF Commit, CountInv, Account, Numbered
<1> QED
  BY <1>5, <1>6, <1>7 DEF Account

(* Only what the commit has written leaves the buffer, and it is counted.  *)
LEMMA TakenCounts ==
    ASSUME CountInv, Taken
    PROVE  Account'
<1>1. /\ pc = "committed" /\ pc' = "flushed" /\ buf' = [buf EXCEPT ![current] = {}]
      /\ rows' = rows - Cardinality(buf[current])
      /\ UNCHANGED <<op, next, stale, dropped, current, files, log, discarded, lost, said, torn>>
  BY DEF Taken, Unwritten, openVars, histVars
<1>2. buf \in [Dates -> SUBSET (DOMAIN log)] /\ current \in Dates
  BY <1>1 DEF CountInv, DayInv, Storage, StoreTypes, Position, Settled
<1>3. \A d \in Dates : buf'[d] = IF d = current THEN {} ELSE buf[d]
  BY <1>1, <1>2
<1>4. \A d \in Dates : \A r \in buf[d] : log[r].date = d
  BY DEF CountInv, DayInv, Storage, RowsPlaced
<1>5. RowsIn(buf) = (RowsIn(buf)') \cup buf[current] /\ (RowsIn(buf)') \cap buf[current] = {}
  BY <1>2, <1>3, <1>4 DEF RowsIn
<1>6. Accounted'
  <2>1. \A n : Kept(n) => Kept(n)'
    BY <1>1, KeptStays
  <2> QED
    BY <1>1, <1>5, <2>1 DEF CountInv, Account, Accounted, Written
<1>7. Counted'
  <2>1. IsFiniteSet(RowsIn(buf))
    BY FewRows DEF CountInv
  <2>2. IsFiniteSet(RowsIn(buf)') /\ IsFiniteSet(buf[current])
    BY <1>5, <2>1, FS_Subset
  <2>3. Cardinality(RowsIn(buf)) = Cardinality(RowsIn(buf)') + Cardinality(buf[current])
    BY <1>5, <2>2, TogetherCounted
  <2>4. Cardinality(RowsIn(buf)') \in Nat /\ Cardinality(buf[current]) \in Nat
    BY <2>2, FS_CardinalityType
  <2>5. rows = Cardinality(RowsIn(buf)) /\ dropped = Cardinality(discarded)
        /\ discarded \subseteq DOMAIN log /\ discarded \cap RowsIn(buf) = {}
    BY DEF CountInv, Account, Counted
  <2>6. rows' = Cardinality(RowsIn(buf)')
    BY <1>1, <2>3, <2>4, <2>5
  <2> QED
    BY <1>1, <1>5, <2>5, <2>6 DEF Counted
<1>8. NothingHeld'
  <2>1. op.kind # "open"
    BY <1>1 DEF CountInv, DayInv, Position
  <2> QED
    BY <1>1, <1>3, <1>2, <2>1 DEF CountInv, Account, NothingHeld, Waiting
<1>9. Written' /\ Said' /\ Numbered'
  BY <1>1 DEF Written, CountInv, Account, Said, Busy, Numbered
<1> QED
  BY <1>6, <1>7, <1>8, <1>9 DEF Account

-----------------------------------------------------------------------------
(* A new file is none of the old, so nothing stored is lost with it.       *)
LEMMA NewFileIsNew ==
    ASSUME CountInv, next \in Dates
    PROVE  /\ NewFile(next) \notin DOMAIN files
           /\ (\E top \in Nat : \A f \in DOMAIN files \cup {NewFile(next)} :
                 f[2] \in Nat /\ f[2] <= top)
<1> DEFINE seqs == {f[2] : f \in FilesOf(next)}
<1>1. PICK top \in Nat : \A f \in DOMAIN files : f[2] \in Nat /\ f[2] <= top
  BY DEF CountInv, Account, Numbered
<1>2. CASE FilesOf(next) = {}
  <2>1. NewFile(next) = <<next, 1>>
    BY <1>2 DEF NewFile
  <2>2. NewFile(next) \notin DOMAIN files
    BY <1>2, <2>1 DEF FilesOf
  <2>3. \A f \in DOMAIN files \cup {NewFile(next)} : f[2] \in Nat /\ f[2] <= top + 1
    BY <1>1, <2>1
  <2> QED
    BY <1>1, <2>2, <2>3
<1>3. CASE FilesOf(next) # {}
  <2>1. seqs \in SUBSET Nat /\ seqs # {} /\ \A s \in seqs : s <= top
    BY <1>1, <1>3 DEF FilesOf
  <2> HIDE DEF seqs
  <2>2. Max(seqs) \in seqs /\ \A s \in seqs : s <= Max(seqs)
    <3>1. \E m \in seqs : \A s \in seqs : m >= s
      BY <1>1, <2>1, Largest
    <3>2. Max(seqs) = CHOOSE m \in seqs : \A s \in seqs : m >= s
      BY DEF Max
    <3>3. Max(seqs) \in seqs /\ \A s \in seqs : Max(seqs) >= s
      BY <3>1, <3>2
    <3> QED
      BY <2>1, <3>3
  <2>3. NewFile(next) = <<next, 1 + Max(seqs)>>
    BY <1>3 DEF NewFile, seqs
  <2>4. Max(seqs) \in Nat /\ Max(seqs) <= top
    BY <2>1, <2>2
  <2>5. NewFile(next) \notin DOMAIN files
    <3> SUFFICES ASSUME NewFile(next) \in DOMAIN files PROVE FALSE
      OBVIOUS
    <3>1. NewFile(next)[1] = next /\ NewFile(next)[2] = 1 + Max(seqs)
      BY <2>3
    <3>2. 1 + Max(seqs) \in seqs
      BY <3>1 DEF FilesOf, seqs
    <3> QED
      BY <2>2, <2>4, <3>2
  <2>6. \A f \in DOMAIN files \cup {NewFile(next)} : f[2] \in Nat /\ f[2] <= top + 1
    BY <1>1, <2>3, <2>4
  <2> QED
    BY <1>1, <2>5, <2>6
<1> QED
  BY <1>2, <1>3

(* A file found or made changes no row.                                    *)
LEMMA ResolveCounts ==
    ASSUME CountInv, Reuse \/ CreateFile \/ CreateSchema
    PROVE  Account'
<1>1. /\ pc \in {"resolve", "create"} /\ next \in Dates
      /\ UNCHANGED <<buf, rows, dropped, log, discarded, lost, torn>>
  BY DEF Reuse, CreateFile, CreateSchema, Attach, bufferVars, histVars, CountInv, DayInv, Position
<1>2. /\ \A f \in DOMAIN files : f \in DOMAIN files' /\ files'[f].rows = files[f].rows
      /\ Numbered'
  <2>1. CASE Reuse
    BY <2>1 DEF Reuse, CountInv, Account, Numbered
  <2>2. CASE CreateFile
    <3> DEFINE g == NewFile(next)
    <3>1. files' = [f \in DOMAIN files \cup {g} |-> IF f = g THEN Created ELSE files[f]]
      BY <2>2 DEF CreateFile
    <3>2. /\ g \notin DOMAIN files
          /\ (\E top \in Nat : \A f \in DOMAIN files \cup {g} : f[2] \in Nat /\ f[2] <= top)
      BY <1>1, NewFileIsNew
    <3> HIDE DEF g
    <3> QED
      BY <3>1, <3>2 DEF Numbered
  <2>3. CASE CreateSchema
    <3>1. PICK f \in Latest(next) : files' = [files EXCEPT ![f].cfg = cfg]
      BY <2>3 DEF CreateSchema
    <3>2. files \in [DOMAIN files -> [cfg : Configs \cup {None}, rows : SUBSET (DOMAIN log)]]
          /\ f \in DOMAIN files
      BY DEF CountInv, DayInv, Storage, StoreTypes, Latest, FilesOf
    <3>3. DOMAIN files' = DOMAIN files /\ \A h \in DOMAIN files : files'[h].rows = files[h].rows
      BY <3>1, <3>2
    <3> QED
      BY <3>3 DEF CountInv, Account, Numbered
  <2> QED
    BY <2>1, <2>2, <2>3
<1>3. Accounted' /\ Counted'
  BY <1>1, <1>2, StillCounted
<1>4. Written' /\ NothingHeld' /\ Said'
  <2>1. CASE pc' = "create" /\ UNCHANGED <<op, next, stale, said>>
    BY <1>1, <2>1 DEF Written, CountInv, Account, NothingHeld, Said, Busy
  <2>2. CASE pc' = "idle" /\ op' = NoOp /\ stale' = "no" /\ said' = "nothing"
    BY <2>2 DEF Written, NothingHeld, NoOp, Said, Busy
  <2>3. CASE pc' = "closing" /\ UNCHANGED <<op, next, stale, said>>
    BY <1>1, <2>3 DEF Written, CountInv, Account, NothingHeld, Said, Busy
  <2> QED
    BY <2>1, <2>2, <2>3 DEF Reuse, CreateFile, CreateSchema, Attach, Leave, histVars
<1> QED
  BY <1>2, <1>3, <1>4 DEF Account

(* What a prune takes is lost to retention.                                *)
LEMMA PruneCounts ==
    ASSUME CountInv, Prune
    PROVE  Account'
<1>1. /\ pc \in {"idle", "down"}
      /\ UNCHANGED <<pc, op, next, stale, buf, rows, dropped, current, log, discarded, said, torn>>
  BY DEF Prune, opVars, bufferVars, openVars
<1>2. PICK gone : /\ files' = Restrict(files, DOMAIN files \ gone)
                  /\ lost' = lost \cup {n \in DOMAIN log :
                       \E f \in gone : \E r \in files[f].rows :
                         n <= r /\ SameTime(n, r) /\ log[n].date = log[r].date}
  BY DEF Prune
<1>3. files' = [f \in DOMAIN files \ gone |-> files[f]]
  BY <1>2 DEF Restrict
<1>4. \A n \in DOMAIN log : Kept(n) => n \in lost' \/ Kept(n)'
  BY <1>1, <1>2, <1>3 DEF Kept, SameTime
<1>5. RowsIn(buf)' = RowsIn(buf) /\ lost \subseteq lost'
  BY <1>1, <1>2 DEF RowsIn
<1>6. Accounted' /\ Counted'
  BY <1>1, <1>4, <1>5 DEF CountInv, Account, Accounted, Counted
<1>7. Written' /\ NothingHeld' /\ Said'
  BY <1>1 DEF CountInv, Account, Written, NothingHeld, Said, Busy
<1>8. Numbered'
  BY <1>3 DEF CountInv, Account, Numbered
<1> QED
  BY <1>6, <1>7, <1>8 DEF Account

(* A row accepted is in its buffer, or goes over the cap and is counted.   *)
LEMMA AcceptCounts ==
    ASSUME CountInv, Accept
    PROVE  Account'
<1> DEFINE row == Len(log) + 1
           all == RowsIn(buf) \cup {row}
<1>1. PICK ptime \in Times : log' = Append(log, [ptime |-> ptime, date |-> op.target])
  BY DEF Accept
<1>2. /\ pc = "buffer" /\ op.target \in Dates
      /\ log \in Seq([ptime : Times, date : Dates])
      /\ buf \in [Dates -> SUBSET (DOMAIN log)] /\ DOMAIN log \subseteq Nat
      /\ RowsIn(buf) \subseteq DOMAIN log /\ IsFiniteSet(RowsIn(buf)) /\ IsFiniteSet(DOMAIN log)
  BY FewRows DEF Accept, CountInv, DayInv, Position, Storage, StoreTypes
<1>3. /\ Len(log') = row /\ DOMAIN log' = DOMAIN log \cup {row} /\ row \notin DOMAIN log
      /\ \A r \in DOMAIN log : log'[r] = log[r]
  BY <1>1, <1>2
<1>4. UNCHANGED <<files, lost, torn>>
  BY DEF Accept
<1> HIDE DEF row
<1> DEFINE pushed == [buf EXCEPT ![op.target] = @ \cup {row}]
           excess == Excess(pushed, log')
<1>5. /\ buf' = [d \in Dates |-> pushed[d] \ excess]
      /\ rows' = rows + 1 - Cardinality(excess)
      /\ dropped' = dropped + Cardinality(excess)
      /\ discarded' = discarded \cup excess
  BY <1>3 DEF Accept, Push, Home
<1>6. \A d \in Dates : pushed[d] = IF d = op.target THEN buf[d] \cup {row} ELSE buf[d]
  BY <1>2
<1>7. RowsIn(pushed) = all
  BY <1>2, <1>6 DEF RowsIn
<1>8. excess \subseteq all
  <2>1. excess \subseteq RowsIn(pushed)
    BY DEF Excess
  <2> QED
    BY <1>7, <2>1
<1> HIDE DEF pushed, excess, all
<1>9. RowsIn(buf)' = all \ excess
  BY <1>5, <1>7 DEF RowsIn
<1>10. Accounted'
  <2>1. \A n \in DOMAIN log : Kept(n) => Kept(n)'
    <3> SUFFICES ASSUME NEW n \in DOMAIN log, NEW f \in DOMAIN files, NEW r \in files[f].rows,
                        n <= r, SameTime(n, r), log[n].date = log[r].date
                 PROVE  Kept(n)'
      BY DEF Kept
    <3>1. r \in DOMAIN log
      BY DEF CountInv, DayInv, Storage, StoreTypes
    <3> QED
      BY <1>3, <1>4, <3>1 DEF Kept, SameTime
  <2>2. \A n \in DOMAIN log' : n \in DOMAIN log \/ n \in all
    BY <1>3 DEF all
  <2>3. RowsIn(buf) \subseteq all /\ all \subseteq (RowsIn(buf)') \cup discarded'
    BY <1>5, <1>9 DEF all
  <2>4. discarded \subseteq discarded' /\ lost' = lost /\ torn' = torn
    BY <1>4, <1>5
  <2> QED
    BY <2>1, <2>2, <2>3, <2>4 DEF CountInv, Account, Accounted
<1>11. Counted'
  <2>1. /\ rows = Cardinality(RowsIn(buf)) /\ dropped = Cardinality(discarded)
        /\ discarded \subseteq DOMAIN log /\ discarded \cap RowsIn(buf) = {}
    BY DEF CountInv, Account, Counted
  <2>2. IsFiniteSet(all) /\ Cardinality(all) = Cardinality(RowsIn(buf)) + 1
    BY <1>2, <1>3, FS_AddElement DEF all
  <2>3. IsFiniteSet(excess) /\ IsFiniteSet(all \ excess) /\ IsFiniteSet(discarded)
    BY <1>2, <1>8, <2>1, <2>2, FS_Subset
  <2>4. Cardinality(all) = Cardinality(all \ excess) + Cardinality(excess)
    <3>1. (all \ excess) \cap excess = {} /\ (all \ excess) \cup excess = all
      BY <1>8
    <3> QED
      BY <2>3, <3>1, TogetherCounted
  <2>5. discarded \cap excess = {}
    BY <1>3, <1>8, <2>1 DEF all
  <2>6. Cardinality(discarded \cup excess) = Cardinality(discarded) + Cardinality(excess)
    BY <2>3, <2>5, TogetherCounted
  <2>7. /\ Cardinality(all \ excess) \in Nat /\ Cardinality(excess) \in Nat
        /\ Cardinality(RowsIn(buf)) \in Nat
    BY <1>2, <2>3, FS_CardinalityType
  <2>8. rows' = Cardinality(RowsIn(buf)')
    <3>1. Cardinality(RowsIn(buf)') = Cardinality(all \ excess)
      BY <1>9
    <3>2. rows' = rows + 1 - Cardinality(excess) /\ rows = Cardinality(RowsIn(buf))
      BY <1>5, <2>1
    <3>3. Cardinality(RowsIn(buf)) + 1 = Cardinality(all \ excess) + Cardinality(excess)
      BY <2>2, <2>4
    <3> QED
      BY <2>7, <3>1, <3>2, <3>3
  <2>9. dropped' = Cardinality(discarded')
    BY <1>5, <2>1, <2>6
  <2>10. discarded' \subseteq DOMAIN log' /\ discarded' \cap (RowsIn(buf)') = {}
    BY <1>2, <1>3, <1>5, <1>8, <1>9, <2>1 DEF all
  <2> QED
    BY <2>8, <2>9, <2>10 DEF Counted
<1>12. Written' /\ NothingHeld' /\ Said'
  <2>1. CASE pc' = "rotate" /\ op' = [NoOp EXCEPT !.kind = "threshold"] /\ UNCHANGED <<stale, said>>
    BY <1>2, <2>1 DEF Written, NothingHeld, NoOp, CountInv, Account, Said, Busy
  <2>2. CASE /\ pc' = "idle" /\ op' = NoOp /\ stale' = "no"
             /\ said' = IF stale = "no" THEN "nothing" ELSE stale
    BY <2>2 DEF Written, NothingHeld, NoOp, CountInv, Account, Said, Busy
  <2> QED
    BY <2>1, <2>2 DEF Accept, Leave
<1>13. Numbered'
  BY <1>4 DEF CountInv, Account, Numbered
<1> QED
  BY <1>10, <1>11, <1>12, <1>13 DEF Account

(* The end of a process loses what it buffers, that of a future nothing.   *)
LEMMA EndsCount ==
    ASSUME CountInv, Crash \/ Drop
    PROVE  Account'
<1>1. CASE Crash
  BY <1>1, GoneCounts DEF Crash
<1>2. CASE Drop
  <2>1. /\ pc' = "idle" /\ op' = NoOp /\ stale' = "no" /\ said' = "nothing"
        /\ torn' = (torn \/ pc = "closing")
        /\ UNCHANGED <<buf, rows, dropped, files, log, discarded, lost>>
    BY <1>2 DEF Drop, Leave, bufferVars
  <2>2. \A n : Kept(n) => Kept(n)'
    BY <2>1, KeptStays
  <2>3. torn \in BOOLEAN
    BY DEF CountInv, DayInv, Position
  <2>4. RowsIn(buf)' = RowsIn(buf)
    BY <2>1 DEF RowsIn
  <2>5. Accounted' /\ Counted'
    BY <2>1, <2>2, <2>3, <2>4 DEF CountInv, Account, Accounted, Counted
  <2>6. Written' /\ NothingHeld' /\ Said' /\ Numbered'
    BY <2>1 DEF Written, NothingHeld, NoOp, Said, Busy, CountInv, Account, Numbered
  <2> QED
    BY <2>5, <2>6 DEF Account
<1> QED
  BY <1>1, <1>2

-----------------------------------------------------------------------------
(* Before the first writer there is nothing to count.                      *)
LEMMA CountInvInit == Init => CountInv
<1> SUFFICES ASSUME Init PROVE CountInv
  OBVIOUS
<1>1. Accounted /\ Written /\ NothingHeld /\ Said /\ Numbered
  BY DEF Init, Accounted, Written, NothingHeld, Said, Busy, Numbered, Empty, NoOp
<1>2. Counted
  <2>1. RowsIn(buf) = {} /\ Cardinality(RowsIn(buf)) = 0
    BY NoRows DEF Init
  <2> QED
    BY <2>1, FS_EmptySet DEF Init, Counted
<1> QED
  BY <1>1, <1>2, DayInvInit DEF CountInv, Account

(* Every step keeps the account.                                           *)
LEMMA CountInvStep == CountInv /\ [Next]_vars => CountInv'
<1> SUFFICES ASSUME CountInv, [Next]_vars PROVE CountInv'
  OBVIOUS
<1>1. DayInv'
  BY DayInvStep DEF CountInv
<1>2. CASE StartAppend \/ StartFlush \/ StartOpen
  BY <1>1, <1>2, StartsCount DEF CountInv
<1>3. CASE NothingToWrite \/ Rotate \/ Switched \/ Reject
  BY <1>1, <1>3, WalkCounts DEF CountInv
<1>4. CASE Flushed
  BY <1>1, <1>4, FlushedCounts DEF CountInv
<1>5. CASE Commit
  BY <1>1, <1>5, CommitCounts DEF CountInv
<1>6. CASE Taken
  BY <1>1, <1>6, TakenCounts DEF CountInv
<1>7. CASE CommitFails \/ Uninitialized \/ ResolveFails
  BY <1>1, <1>7, GiveUpCounts DEF CommitFails, Uninitialized, ResolveFails, CountInv
<1>8. CASE Reuse \/ CreateFile \/ CreateSchema
  BY <1>1, <1>8, ResolveCounts DEF CountInv
<1>9. CASE Accept
  BY <1>1, <1>9, AcceptCounts DEF CountInv
<1>10. CASE Prune
  BY <1>1, <1>10, PruneCounts DEF CountInv
<1>11. CASE Crash \/ Drop
  BY <1>1, <1>11, EndsCount DEF CountInv
<1>12. CASE UNCHANGED vars
  <2>1. UNCHANGED <<pc, op, next, stale, buf, rows, dropped, current, files, log,
                    discarded, lost, said, torn>>
    BY <1>12 DEF vars, opVars, bufferVars, openVars, histVars
  <2>2. Accounted' /\ Counted'
    BY <2>1, StillCounted
  <2>3. Written'
    BY <2>1, KeptStays DEF CountInv, Account, Written
  <2>4. NothingHeld' /\ Said' /\ Numbered'
    BY <2>1 DEF CountInv, Account, NothingHeld, Waiting, Said, Busy, Numbered
  <2> QED
    BY <1>1, <2>2, <2>3, <2>4 DEF CountInv, Account
<1> QED
  BY <1>2, <1>3, <1>4, <1>5, <1>6, <1>7, <1>8, <1>9, <1>10, <1>11, <1>12 DEF Next, Step

(* No accepted row disappears unnoticed, through failed commits, abandoned *)
(* rotations, the cap, crashes and retention; what the writer says of its  *)
(* rows, buffered and dropped, is true (append, flush_locked, close).      *)
THEOREM NothingEverVanishes == Spec => []NothingVanishes
<1>1. CountInv => NothingVanishes
  <2> SUFFICES ASSUME CountInv PROVE NothingVanishes
    OBVIOUS
  <2>1. CountsAgree
    BY DEF CountInv, Account, Counted, Said, CountsAgree
  <2>2. ASSUME NEW n \in DOMAIN log, Kept(n) PROVE n \in Stored \/ Replaced(n)
    <3>0. PICK f \in DOMAIN files : \E r \in files[f].rows :
            n <= r /\ SameTime(n, r) /\ log[n].date = log[r].date
      BY <2>2 DEF Kept
    <3>1. PICK r \in files[f].rows : n <= r /\ SameTime(n, r) /\ log[n].date = log[r].date
      BY <3>0
    <3>2. r \in Stored
      BY DEF Stored
    <3>3. r \in DOMAIN log /\ DOMAIN log \subseteq Nat
      BY FewRows DEF CountInv, DayInv, Storage, StoreTypes
    <3>4. n = r \/ r > n
      BY <3>1, <3>3
    <3> QED
      BY <3>1, <3>2, <3>4 DEF Replaced
  <2>3. AllAccounted
    BY <2>2 DEF CountInv, Account, Accounted, AllAccounted, RowIds
  <2> QED
    BY <2>1, <2>3 DEF NothingVanishes
<1> QED
  BY CountInvInit, CountInvStep, <1>1, PTL DEF Spec

-----------------------------------------------------------------------------
(* The order of rows.  A file of an earlier writer, or that another file   *)
(* of its date follows, has only rows older than those that wait; and the  *)
(* open file is the last of its date, with this writer's configuration.    *)

Named == \A f \in DOMAIN files : f \in Dates \X Nat

LastOf(d) == ~torn => pool \in Latest(d) /\ files[pool].cfg = cfg
OpenIsLast ==
    /\ pc # "down" => cfg \in Configs
    /\ pc \in {"idle", "rotate", "flush", "committed", "flushed", "buffer"} => LastOf(current)
    /\ pc \in {"resolve", "create"} /\ op.kind # "open" => LastOf(current)
    /\ pc = "closing" => LastOf(next)

OlderFiles ==
    ~torn => \A f \in DOMAIN files : f \notin Latest(f[1]) \/ files[f].cfg # cfg =>
               \A q \in files[f].rows, n \in buf[f[1]] : q < n

(* A row written before one that waits is older, or waits still itself.    *)
OlderRows ==
    ~torn => \A f \in DOMAIN files : \A q \in files[f].rows, n \in buf[f[1]] :
               SameTime(q, n) /\ n < q => q \in buf[f[1]]

Overwritten ==
    pc = "committed" /\ ~torn =>
      \A r \in files[pool].rows, n \in buf[current] : SameTime(n, r) => n <= r

Order == Named /\ OpenIsLast /\ OlderFiles /\ OlderRows /\ Overwritten
OrderInv == CountInv /\ Order /\ NewestWins

-----------------------------------------------------------------------------
(* Of two files of one date one has the higher number.                     *)
LEMMA FilesOrdered ==
    ASSUME OrderInv, NEW f \in DOMAIN files, NEW g \in DOMAIN files, f[1] = g[1], f # g
    PROVE  /\ f[2] \in Nat /\ g[2] \in Nat
           /\ f[2] < g[2] \/ g[2] < f[2]
           /\ f \in Latest(f[1]) => g[2] < f[2]
<1>1. f \in Dates \X Nat /\ g \in Dates \X Nat
  BY DEF OrderInv, Order, Named
<1>2. f = <<f[1], f[2]>> /\ g = <<g[1], g[2]>> /\ f[2] \in Nat /\ g[2] \in Nat
  BY <1>1
<1>3. f[2] # g[2]
  BY <1>2
<1>4. f \in Latest(f[1]) => g[2] <= f[2]
  BY DEF Latest, FilesOf
<1> QED
  BY <1>2, <1>3, <1>4

(* As long as rows, files and configuration stay, only OpenIsLast can break. *)
LEMMA OrderStays ==
    ASSUME OrderInv, UNCHANGED <<buf, files, log, torn>>, cfg' = cfg \/ buf = Empty,
           discarded \cup lost \subseteq discarded' \cup lost'
    PROVE  Named' /\ OlderFiles' /\ OlderRows' /\ NewestWins'
<1>1. \A d : Latest(d)' = Latest(d)
  BY DEF Latest, FilesOf
<1>2. RowsIn(buf)' = RowsIn(buf)
  BY DEF RowsIn
<1>3. Named' /\ OlderRows'
  BY DEF OrderInv, Order, Named, OlderRows, SameTime
<1>4. OlderFiles'
  <2>1. CASE cfg' = cfg
    BY <1>1, <2>1 DEF OrderInv, Order, OlderFiles
  <2>2. CASE buf = Empty
    BY <2>2 DEF OrderInv, Order, Named, OlderFiles, Empty
  <2> QED
    BY <2>1, <2>2
<1>5. NewestWins'
  BY <1>2 DEF OrderInv, NewestWins, NewestInFile, LaterFileIsNewer, SameTime, RowIds
<1> QED
  BY <1>3, <1>4, <1>5

(* So it does when the buffers go with the writer.                         *)
LEMMA OrderGone ==
    ASSUME OrderInv, NEW outcome, WriterGone(outcome), UNCHANGED <<files, log, torn>>,
           RowsIn(buf) \cup discarded \cup lost \subseteq discarded' \cup lost'
    PROVE  Order' /\ NewestWins'
<1>1. pc' = "down" /\ buf' = Empty /\ cfg' = None
  BY DEF WriterGone, Leave
<1>2. Named' /\ OpenIsLast' /\ Overwritten'
  BY <1>1 DEF OrderInv, Order, Named, OpenIsLast, Overwritten
<1>3. OlderFiles' /\ OlderRows'
  BY <1>1 DEF OrderInv, Order, Named, OlderFiles, OlderRows, Empty
<1>4. NewestWins'
  BY <1>1 DEF OrderInv, NewestWins, NewestInFile, LaterFileIsNewer, SameTime, RowIds
<1> QED
  BY <1>2, <1>3, <1>4 DEF Order

(* Starting an operation moves no row.                                     *)
LEMMA StartsOrder ==
    ASSUME OrderInv, StartAppend \/ StartFlush \/ StartOpen
    PROVE  Order' /\ NewestWins'
<1>1. UNCHANGED <<buf, files, log, torn, pool, current>>
  BY DEF StartAppend, StartFlush, StartOpen, Start, bufferVars, openVars
<1>2. discarded \cup lost \subseteq discarded' \cup lost'
  BY DEF StartAppend, StartFlush, StartOpen, Start
<1>3. \A d : Latest(d)' = Latest(d)
  BY <1>1 DEF Latest, FilesOf
<1>4. CASE StartAppend \/ StartFlush
  <2>1. pc = "idle" /\ pc' = "rotate" /\ cfg' = cfg
    BY <1>4 DEF StartAppend, StartFlush, Start, openVars
  <2>2. OpenIsLast' /\ Overwritten'
    BY <1>1, <1>3, <2>1 DEF OrderInv, Order, OpenIsLast, LastOf, Overwritten
  <2> QED
    BY <1>1, <1>2, <2>1, <2>2, OrderStays DEF Order
<1>5. CASE StartOpen
  <2>1. pc = "down" /\ pc' = "resolve" /\ op'.kind = "open" /\ cfg' \in Configs
    BY <1>5 DEF StartOpen, NoOp
  <2>2. buf = Empty
    BY <2>1 DEF OrderInv, CountInv, Account, NothingHeld
  <2>3. OpenIsLast' /\ Overwritten'
    BY <2>1 DEF OpenIsLast, Overwritten
  <2> QED
    BY <1>1, <1>2, <2>2, <2>3, OrderStays DEF Order
<1> QED
  BY <1>4, <1>5

(* Nor does moving on, nor a future that is dropped.                       *)
LEMMA WalkOrder ==
    ASSUME OrderInv, NothingToWrite \/ Rotate \/ Switched \/ Reject \/ Drop
    PROVE  Order' /\ NewestWins'
<1>1. UNCHANGED <<buf, files, log, cfg, pool, discarded, lost>> /\ (~torn' => ~torn)
  BY DEF NothingToWrite, Rotate, Switched, Reject, Drop, Return, bufferVars, openVars, histVars,
         OrderInv, CountInv, DayInv, Position
<1>2. \A d : Latest(d)' = Latest(d)
  BY <1>1 DEF Latest, FilesOf
<1>3. Named' /\ OlderFiles' /\ OlderRows' /\ NewestWins'
  <2>1. RowsIn(buf)' = RowsIn(buf)
    BY <1>1 DEF RowsIn
  <2> QED
    BY <1>1, <1>2, <2>1 DEF OrderInv, Order, Named, OlderFiles, OlderRows, NewestWins, NewestInFile,
         LaterFileIsNewer, SameTime, RowIds
<1>4. OpenIsLast' /\ Overwritten'
  <2>1. CASE NothingToWrite \/ Rotate \/ Reject
    <3>1. /\ pc \in {"flush", "rotate", "buffer"} /\ pc' \in {"idle", "flush", "flushed", "buffer"}
          /\ current' = current
      BY <2>1 DEF NothingToWrite, Rotate, Reject, Return, Leave, openVars
    <3> QED
      BY <1>1, <1>2, <3>1 DEF OrderInv, Order, OpenIsLast, LastOf, Overwritten
  <2>2. CASE Switched
    BY <1>1, <1>2, <2>2 DEF Switched, OrderInv, Order, OpenIsLast, LastOf, Overwritten
  <2>3. CASE Drop
    <3>1. /\ pc' = "idle" /\ current' = current /\ op.kind # "open" /\ (~torn' => pc # "closing")
          /\ pc \in {"flush", "committed", "resolve", "create", "closing"}
      BY <2>3 DEF Drop, Leave, openVars, OrderInv, CountInv, DayInv, Position
    <3> QED
      BY <1>1, <1>2, <3>1 DEF OrderInv, Order, OpenIsLast, LastOf, Overwritten
  <2> QED
    BY <2>1, <2>2, <2>3
<1> QED
  BY <1>3, <1>4 DEF Order

(* Nor the end of a flush; a close that has flushed leaves nothing behind. *)
LEMMA FlushedOrder ==
    ASSUME OrderInv, Flushed
    PROVE  Order' /\ NewestWins'
<1>1. pc = "flushed" /\ UNCHANGED <<files, log, lost, torn>>
  BY DEF Flushed
<1>2. \A d : Latest(d)' = Latest(d)
  BY <1>1 DEF Latest, FilesOf
<1>3. CASE pc' \in {"idle", "resolve"} /\ UNCHANGED <<buf, cfg, pool, current, discarded>>
  <2>1. OpenIsLast' /\ Overwritten'
    BY <1>1, <1>2, <1>3 DEF OrderInv, Order, OpenIsLast, LastOf, Overwritten
  <2> QED
    BY <1>1, <1>3, <2>1, OrderStays DEF Order
<1>4. CASE WriterGone("written") /\ UNCHANGED discarded /\ next = None
  <2>1. RowsIn(buf) = {}
    <3>1. \A d \in Dates : buf[d] = {}
      BY <1>1, <1>4 DEF OrderInv, CountInv, Account, NothingHeld, Waiting
    <3> QED
      BY <3>1 DEF RowsIn
  <2> QED
    BY <1>1, <1>4, <2>1, OrderGone
<1> QED
  BY <1>3, <1>4 DEF Flushed, Done, Return, Leave, bufferVars, openVars

(* Nor giving up, unless the writer goes.                                  *)
LEMMA GiveUpOrder ==
    ASSUME OrderInv, NEW outcome, GiveUp(outcome), UNCHANGED <<files, log, lost, torn>>,
           pc \in {"flush", "resolve", "create"}
    PROVE  Order' /\ NewestWins'
<1>1. CASE op.kind \in {"append", "flush", "threshold"}
  <2>1. pc' \in {"buffer", "idle"} /\ UNCHANGED <<buf, cfg, pool, current, discarded>>
    BY <1>1 DEF GiveUp, Return, WriterGone, Leave, bufferVars, openVars
  <2>2. OpenIsLast' /\ Overwritten'
    BY <1>1, <2>1 DEF OrderInv, Order, OpenIsLast, LastOf, Latest, FilesOf, Overwritten
  <2> QED
    BY <2>1, <2>2, OrderStays DEF Order
<1>2. CASE op.kind = "close"
  <2>1. WriterGone(outcome) /\ discarded' = discarded \cup RowsIn(buf)
    BY <1>2 DEF GiveUp, Return
  <2> QED
    BY <2>1, OrderGone
<1>3. CASE op.kind = "open"
  <2>1. WriterGone(outcome) /\ UNCHANGED discarded
    BY <1>3 DEF GiveUp, Return
  <2>2. RowsIn(buf) = {}
    BY <1>3, NoRows DEF OrderInv, CountInv, Account, NothingHeld
  <2> QED
    BY <2>1, <2>2, OrderGone
<1> QED
  BY <1>1, <1>2, <1>3 DEF GiveUp

-----------------------------------------------------------------------------
(* What a commit writes is newer than every earlier file of the date, and  *)
(* than what it replaces.                                                  *)
LEMMA CommitOrder ==
    ASSUME OrderInv, Commit
    PROVE  Order' /\ NewestWins'
<1>1. /\ pc = "flush" /\ pc' = "committed"
      /\ UNCHANGED <<op, next, buf, cfg, pool, current, log, discarded, lost, torn>>
  BY DEF Commit, bufferVars, openVars, histVars
<1>2. /\ files \in [DOMAIN files -> [cfg : Configs \cup {None}, rows : SUBSET (DOMAIN log)]]
      /\ buf \in [Dates -> SUBSET (DOMAIN log)] /\ DOMAIN log \subseteq Nat
  BY FewRows DEF OrderInv, CountInv, DayInv, Storage, StoreTypes
<1>3. CASE torn
  <2>1. DOMAIN files' = DOMAIN files
    BY DEF Commit
  <2> QED
    BY <1>1, <1>3, <2>1 DEF OrderInv, Order, Named, OpenIsLast, LastOf, OlderFiles, OlderRows,
       Overwritten, NewestWins, NewestInFile, LaterFileIsNewer
<1>4. CASE ~torn
  <2> DEFINE old == files[pool].rows
             new == buf[current]
             into == Upsert(old, new)
  <2>1. /\ current \in Dates /\ pool[1] = current /\ pool \in DOMAIN files
        /\ pool \in Latest(current) /\ files[pool].cfg = cfg
    BY <1>1, <1>4 DEF OrderInv, CountInv, DayInv, Position, Settled, OpenIs, Order, OpenIsLast, LastOf
  <2>2. files' = [files EXCEPT ![pool].rows = into]
    BY <2>1 DEF Commit
  <2>3. /\ into \subseteq old \cup new
        /\ \A r \in into, s \in new : SameTime(r, s) => s <= r
    BY DEF Upsert, SameTime
  <2>4. old \in SUBSET Nat /\ new \in SUBSET Nat /\ old \cup new \subseteq DOMAIN log
    BY <1>2, <2>1
  <2> HIDE DEF old, new, into
  <2>5. /\ DOMAIN files' = DOMAIN files /\ files'[pool].rows = into
        /\ \A f \in DOMAIN files : /\ files'[f].cfg = files[f].cfg
                                   /\ f # pool => files'[f].rows = files[f].rows
    BY <1>2, <2>1, <2>2
  <2>6. \A d : Latest(d)' = Latest(d)
    BY <2>5 DEF Latest, FilesOf
  <2>7. \A f \in DOMAIN files : f[1] = current /\ f # pool =>
          f \notin Latest(f[1]) /\ f[2] < pool[2] /\ ~(pool[2] < f[2])
    <3> SUFFICES ASSUME NEW f \in DOMAIN files, f[1] = current, f # pool
                 PROVE  f \notin Latest(f[1]) /\ f[2] < pool[2] /\ ~(pool[2] < f[2])
      OBVIOUS
    <3>1. f[2] \in Nat /\ pool[2] \in Nat /\ f[2] < pool[2]
      BY <2>1, FilesOrdered
    <3>2. f \notin Latest(f[1])
      BY <2>1, <3>1 DEF Latest, FilesOf
    <3> QED
      BY <3>1, <3>2
  <2>8. \A f \in DOMAIN files : f[1] = current /\ f # pool =>
          \A q \in files[f].rows, n \in new : q < n
    BY <1>4, <2>1, <2>7 DEF OrderInv, Order, OlderFiles, new
  <2>9. Named' /\ OpenIsLast'
    BY <1>1, <2>1, <2>5, <2>6 DEF OrderInv, Order, Named, OpenIsLast, LastOf
  <2>10. OlderFiles'
    BY <1>1, <2>1, <2>5, <2>6 DEF OrderInv, Order, OlderFiles
  <2>11. OlderRows'
    <3> SUFFICES ASSUME NEW f \in DOMAIN files, NEW q \in files'[f].rows, NEW n \in buf[f[1]],
                        SameTime(q, n), n < q
                 PROVE  q \in buf[f[1]]
      BY <1>1, <2>5 DEF OlderRows, SameTime
    <3>1. q \in files[f].rows \/ (f = pool /\ q \in new)
      BY <2>3, <2>5 DEF old
    <3>2. CASE q \in files[f].rows
      BY <1>4, <3>2 DEF OrderInv, Order, OlderRows
    <3>3. CASE f = pool /\ q \in new
      BY <2>1, <3>3 DEF new
    <3> QED
      BY <3>1, <3>2, <3>3
  <2>12. Overwritten'
    BY <1>1, <2>3, <2>5 DEF Overwritten, SameTime, new
  <2>13. NewestInFile'
    <3> SUFFICES ASSUME NEW f \in DOMAIN files, NEW r \in files'[f].rows, NEW n \in DOMAIN log,
                        n > r, SameTime(n, r), log[n].date = f[1]
                 PROVE  \/ n \in RowsIn(buf) \cup discarded \cup lost
                        \/ \E g \in DOMAIN files : g[1] = f[1] /\ g[2] > f[2]
      <4>1. RowsIn(buf)' = RowsIn(buf)
        BY <1>1 DEF RowsIn
      <4> QED
        BY <1>1, <2>5, <4>1 DEF NewestInFile, SameTime, RowIds
    <3>1. CASE r \in files[f].rows
      BY <1>4, <3>1 DEF OrderInv, NewestWins, NewestInFile, RowIds
    <3>2. CASE r \notin files[f].rows
      <4>1. f = pool /\ r \in new /\ r \in into /\ f[1] = current
        BY <2>1, <2>3, <2>5, <3>2 DEF old
      <4>2. CASE Kept(n) /\ n \notin RowsIn(buf)
        <5>0. PICK g \in DOMAIN files : \E q \in files[g].rows :
                n <= q /\ SameTime(n, q) /\ log[n].date = log[q].date
          BY <4>2 DEF Kept
        <5>1. PICK q \in files[g].rows : n <= q /\ SameTime(n, q) /\ log[n].date = log[q].date
          BY <5>0
        <5>2. q \in Nat /\ n \in Nat /\ r \in Nat /\ r < q /\ SameTime(q, r)
          BY <1>2, <2>4, <4>1, <5>1 DEF SameTime
        <5>3. g[1] = current
          BY <1>4, <4>1, <5>1 DEF OrderInv, CountInv, DayInv, Storage, RowsPlaced, RowsInTheirDay
        <5>4. CASE g # pool
          BY <2>8, <4>1, <5>2, <5>3, <5>4
        <5>5. CASE g = pool
          <6>1. q \in new
            BY <1>4, <2>1, <4>1, <5>1, <5>2, <5>5 DEF OrderInv, Order, OlderRows, new
          <6>2. q <= r
            BY <2>3, <4>1, <5>2, <6>1 DEF SameTime
          <6> QED
            BY <5>2, <6>2
        <5> QED
          BY <5>4, <5>5
      <4> QED
        BY <1>4, <4>2 DEF OrderInv, CountInv, Account, Accounted
    <3> QED
      BY <3>1, <3>2
  <2>14. LaterFileIsNewer'
    <3> SUFFICES ASSUME NEW f \in DOMAIN files, NEW g \in DOMAIN files,
                        NEW r \in files'[f].rows, NEW s \in files'[g].rows,
                        f[1] = g[1], f[2] < g[2]
                 PROVE  r < s
      BY <1>1, <2>5 DEF LaterFileIsNewer
    <3>1. f # pool
      <4> SUFFICES ASSUME f = pool PROVE FALSE
        OBVIOUS
      <4>1. pool[2] \in Nat /\ g[2] \in Nat /\ pool[2] < g[2] /\ g[1] = current
        BY <2>1 DEF OrderInv, Order, Named
      <4>2. g # pool
        BY <4>1
      <4> QED
        BY <2>7, <4>1, <4>2
    <3>2. r \in files[f].rows
      BY <2>5, <3>1
    <3>3. CASE s \in files[g].rows
      BY <1>4, <3>2, <3>3 DEF OrderInv, NewestWins, LaterFileIsNewer
    <3>4. CASE g = pool /\ s \in new
      BY <2>1, <2>8, <3>1, <3>2, <3>4
    <3> QED
      BY <2>3, <2>5, <3>3, <3>4 DEF old
  <2> QED
    BY <2>9, <2>10, <2>11, <2>12, <2>13, <2>14 DEF Order, NewestWins
<1> QED
  BY <1>3, <1>4

(* Then it leaves the buffer: the open file is the last of its date and    *)
(* has nothing older in its place.                                         *)
LEMMA TakenOrder ==
    ASSUME OrderInv, Taken
    PROVE  Order' /\ NewestWins'
<1>1. /\ pc = "committed" /\ pc' = "flushed" /\ buf' = [buf EXCEPT ![current] = {}]
      /\ UNCHANGED <<op, next, cfg, pool, current, files, log, discarded, lost, torn>>
  BY DEF Taken, Unwritten, openVars, histVars
<1>2. buf \in [Dates -> SUBSET (DOMAIN log)] /\ current \in Dates /\ DOMAIN log \subseteq Nat
  BY <1>1, FewRows DEF OrderInv, CountInv, DayInv, Storage, StoreTypes, Position, Settled
<1>3. \A d \in Dates : buf'[d] = IF d = current THEN {} ELSE buf[d]
  BY <1>1, <1>2
<1>4. \A d : Latest(d)' = Latest(d)
  BY <1>1 DEF Latest, FilesOf
<1>5. \A f \in DOMAIN files : f[1] \in Dates
  BY DEF OrderInv, Order, Named
<1>6. Named' /\ OpenIsLast' /\ Overwritten'
  BY <1>1, <1>4 DEF OrderInv, Order, Named, OpenIsLast, LastOf, Overwritten
<1>7. OlderFiles' /\ OlderRows'
  BY <1>1, <1>3, <1>4, <1>5 DEF OrderInv, Order, OlderFiles, OlderRows, SameTime
<1>8. NewestInFile'
  <2> SUFFICES ASSUME ~torn, NEW f \in DOMAIN files, NEW r \in files[f].rows, NEW n \in DOMAIN log,
                      n > r, SameTime(n, r), log[n].date = f[1]
               PROVE  \/ n \in (RowsIn(buf)') \cup discarded \cup lost
                      \/ \E g \in DOMAIN files : g[1] = f[1] /\ g[2] > f[2]
    BY <1>1 DEF NewestInFile, SameTime, RowIds
  <2>1. \/ n \in RowsIn(buf) \cup discarded \cup lost
        \/ \E g \in DOMAIN files : g[1] = f[1] /\ g[2] > f[2]
    BY DEF OrderInv, NewestWins, NewestInFile, RowIds
  <2>2. CASE n \in RowsIn(buf) /\ n \notin RowsIn(buf)'
    <3>1. n \in buf[current]
      BY <1>3, <2>2 DEF RowsIn
    <3>2. f[1] = current
      BY <1>2, <3>1 DEF OrderInv, CountInv, DayInv, Storage, RowsPlaced
    <3>3. /\ pool[1] = current /\ pool \in DOMAIN files /\ pool \in Latest(current)
      BY <1>1 DEF OrderInv, CountInv, DayInv, Position, Settled, OpenIs, Order, OpenIsLast, LastOf
    <3>4. CASE f = pool
      <4>1. n <= r
        BY <1>1, <3>1, <3>4 DEF OrderInv, Order, Overwritten
      <4>2. n \in Nat /\ r \in Nat
        BY <1>2 DEF OrderInv, CountInv, DayInv, Storage, StoreTypes
      <4> QED
        BY <4>1, <4>2
    <3>5. CASE f # pool
      BY <3>2, <3>3, <3>5, FilesOrdered
    <3> QED
      BY <3>4, <3>5
  <2> QED
    BY <2>1, <2>2
<1>9. LaterFileIsNewer'
  BY <1>1 DEF OrderInv, NewestWins, LaterFileIsNewer
<1> QED
  BY <1>6, <1>7, <1>8, <1>9 DEF Order, NewestWins

(* A new file follows one of another configuration, whose rows are older.  *)
LEMMA CreateOrder ==
    ASSUME OrderInv, CreateFile
    PROVE  Order' /\ NewestWins'
<1> DEFINE g == NewFile(next)
<1>1. /\ pc = "resolve" /\ pc' = "create" /\ next \in Dates
      /\ \A f \in Latest(next) : files[f].cfg # cfg
      /\ UNCHANGED <<op, next, buf, cfg, pool, current, log, discarded, lost, torn>>
  BY DEF CreateFile, bufferVars, openVars, histVars, OrderInv, CountInv, DayInv, Position
<1>2. files' = [f \in DOMAIN files \cup {g} |-> IF f = g THEN Created ELSE files[f]]
  BY DEF CreateFile
<1>3. /\ g \notin DOMAIN files
      /\ (\E top \in Nat : \A f \in DOMAIN files \cup {g} : f[2] \in Nat /\ f[2] <= top)
  BY <1>1, NewFileIsNew DEF OrderInv
<1>4. g[1] = next /\ g = <<next, g[2]>>
  BY DEF NewFile
<1> HIDE DEF g
<1>5. /\ DOMAIN files' = DOMAIN files \cup {g} /\ files'[g].rows = {}
      /\ \A f \in DOMAIN files : files'[f] = files[f]
  BY <1>2, <1>3 DEF Created
<1>6. \A f \in DOMAIN files : f[1] # next => (f \in Latest(f[1])) = (f \in Latest(f[1]))'
  BY <1>4, <1>5 DEF Latest, FilesOf
<1>7. Named'
  <2>1. g \in Dates \X Nat
    BY <1>1, <1>3, <1>4
  <2> QED
    BY <1>5, <2>1 DEF OrderInv, Order, Named
<1>8. OpenIsLast'
  <2> SUFFICES ASSUME op.kind # "open", ~torn
               PROVE  (pool \in Latest(current))' /\ files'[pool].cfg = cfg
    BY <1>1 DEF OrderInv, Order, OpenIsLast, LastOf
  <2>1. pool \in Latest(current) /\ files[pool].cfg = cfg
    BY <1>1 DEF OrderInv, Order, OpenIsLast, LastOf
  <2>2. pool \in DOMAIN files /\ pool[1] = current /\ current # next
    BY <1>1, <2>1 DEF Latest, FilesOf
  <2> QED
    BY <1>1, <1>5, <1>6, <2>1, <2>2
<1>9. OlderFiles'
  <2> SUFFICES ASSUME ~torn, NEW f \in DOMAIN files, (f \notin Latest(f[1]))' \/ files[f].cfg # cfg,
                      NEW q \in files[f].rows, NEW n \in buf[f[1]]
               PROVE  q < n
    BY <1>1, <1>5 DEF OlderFiles
  <2>1. f \notin Latest(f[1]) \/ files[f].cfg # cfg
    BY <1>1, <1>6
  <2> QED
    BY <2>1 DEF OrderInv, Order, OlderFiles
<1>10. OlderRows' /\ Overwritten'
  BY <1>1, <1>5 DEF OrderInv, Order, OlderRows, SameTime, Overwritten
<1>11. NewestWins'
  <2>1. RowsIn(buf)' = RowsIn(buf)
    BY <1>1 DEF RowsIn
  <2> QED
    BY <1>1, <1>5, <2>1 DEF OrderInv, NewestWins, NewestInFile, LaterFileIsNewer, SameTime, RowIds
<1> QED
  BY <1>7, <1>8, <1>9, <1>10, <1>11 DEF Order

(* The open file is again the last, and of the writer's configuration.     *)
LEMMA AttachOrder ==
    ASSUME OrderInv, Reuse \/ CreateSchema
    PROVE  Order' /\ NewestWins'
<1>1. UNCHANGED <<buf, cfg, log, discarded, lost, torn>>
  BY DEF Reuse, CreateSchema, Attach, bufferVars
<1>2. PICK f \in Latest(next) : /\ Attach(f) /\ files'[f].cfg = cfg
                                /\ DOMAIN files' = DOMAIN files
                                /\ \A h \in DOMAIN files : /\ files'[h].rows = files[h].rows
                                                           /\ h # f => files'[h].cfg = files[h].cfg
  <2>1. CASE Reuse
    BY <2>1 DEF Reuse
  <2>2. CASE CreateSchema
    <3>1. PICK f \in Latest(next) : files' = [files EXCEPT ![f].cfg = cfg] /\ Attach(f)
      BY <2>2 DEF CreateSchema
    <3>2. files \in [DOMAIN files -> [cfg : Configs \cup {None}, rows : SUBSET (DOMAIN log)]]
          /\ f \in DOMAIN files
      BY DEF OrderInv, CountInv, DayInv, Storage, StoreTypes, Latest, FilesOf
    <3> QED
      BY <3>1, <3>2
  <2> QED
    BY <2>1, <2>2
<1>3. \A d : Latest(d)' = Latest(d)
  BY <1>2 DEF Latest, FilesOf
<1>4. pool' = f /\ ((pc' = "idle" /\ current' = next) \/ (pc' = "closing" /\ next' = next))
  <2>1. CASE op.kind = "open"
    BY <1>2, <2>1 DEF Attach, Leave
  <2>2. CASE op.kind # "open"
    BY <1>2, <2>2 DEF Attach
  <2> QED
    BY <2>1, <2>2
<1>5. OpenIsLast' /\ Overwritten'
  <2>1. cfg \in Configs
    BY DEF Reuse, CreateSchema, OrderInv, Order, OpenIsLast
  <2> QED
    BY <1>1, <1>2, <1>3, <1>4, <2>1 DEF OpenIsLast, LastOf, Overwritten
<1>6. Named' /\ OlderRows'
  BY <1>1, <1>2 DEF OrderInv, Order, Named, OlderRows, SameTime
<1>7. OlderFiles'
  <2> SUFFICES ASSUME ~torn, NEW h \in DOMAIN files, h \notin Latest(h[1]) \/ files'[h].cfg # cfg,
                      NEW q \in files[h].rows, NEW n \in buf[h[1]]
               PROVE  q < n
    BY <1>1, <1>2, <1>3 DEF OlderFiles
  <2>1. h \notin Latest(h[1]) \/ files[h].cfg # cfg
    BY <1>2
  <2> QED
    BY <2>1 DEF OrderInv, Order, OlderFiles
<1>8. NewestWins'
  <2>1. RowsIn(buf)' = RowsIn(buf)
    BY <1>1 DEF RowsIn
  <2> QED
    BY <1>1, <1>2, <2>1 DEF OrderInv, NewestWins, NewestInFile, LaterFileIsNewer, SameTime, RowIds
<1> QED
  BY <1>5, <1>6, <1>7, <1>8 DEF Order

(* A prune takes the older files of a date before the newer.               *)
LEMMA PruneOrder ==
    ASSUME OrderInv, Prune
    PROVE  Order' /\ NewestWins'
<1>1. /\ pc \in {"idle", "down"}
      /\ UNCHANGED <<pc, op, next, buf, cfg, pool, current, log, discarded, torn>>
  BY DEF Prune, opVars, bufferVars, openVars
<1>0. PICK today \in Dates, days \in Retentions : \E gone :
        /\ \A f \in gone : f \in DOMAIN files /\ today - f[1] > days /\ f[1] \notin PinnedDates
        /\ \A f \in gone, h \in DOMAIN files :
             today - h[1] > days /\ h[1] \notin PinnedDates =>
               (h[1] < f[1] \/ (h[1] = f[1] /\ h[2] < f[2]) => h \in gone)
        /\ files' = Restrict(files, DOMAIN files \ gone)
        /\ lost \subseteq lost'
  BY DEF Prune
<1>2. PICK gone :
        /\ \A f \in gone : f \in DOMAIN files /\ today - f[1] > days /\ f[1] \notin PinnedDates
        /\ \A f \in gone, h \in DOMAIN files :
             today - h[1] > days /\ h[1] \notin PinnedDates =>
               (h[1] < f[1] \/ (h[1] = f[1] /\ h[2] < f[2]) => h \in gone)
        /\ files' = Restrict(files, DOMAIN files \ gone)
        /\ lost \subseteq lost'
  BY <1>0
<1>3. files' = [f \in DOMAIN files \ gone |-> files[f]]
  BY <1>2 DEF Restrict
<1>4. \A f \in gone, h \in DOMAIN files : h[1] = f[1] /\ h[2] < f[2] => h \in gone
  BY <1>2
<1>5. \A f \in DOMAIN files' : f \in Latest(f[1]) => (f \in Latest(f[1]))'
  BY <1>3 DEF Latest, FilesOf
<1>6. Named' /\ OlderRows' /\ Overwritten'
  BY <1>1, <1>3 DEF OrderInv, Order, Named, OlderRows, SameTime, Overwritten
<1>7. OlderFiles'
  <2> SUFFICES ASSUME ~torn, NEW f \in DOMAIN files', (f \notin Latest(f[1]))' \/ files'[f].cfg # cfg,
                      NEW q \in files'[f].rows, NEW n \in buf[f[1]]
               PROVE  q < n
    BY <1>1 DEF OlderFiles
  <2>1. f \in DOMAIN files /\ files'[f] = files[f]
    BY <1>3
  <2>2. f \notin Latest(f[1]) \/ files[f].cfg # cfg
    BY <1>5, <2>1
  <2> QED
    BY <2>1, <2>2 DEF OrderInv, Order, OlderFiles
<1>8. OpenIsLast'
  <2> SUFFICES ASSUME pc = "idle", ~torn PROVE (pool \in Latest(current))' /\ files'[pool].cfg = cfg
    BY <1>1 DEF OrderInv, Order, OpenIsLast, LastOf
  <2>1. pool \in Latest(current) /\ files[pool].cfg = cfg
    BY DEF OrderInv, Order, OpenIsLast, LastOf
  <2>2. pool \in DOMAIN files /\ pool[1] = current /\ pool \notin gone
    BY <1>2, <2>1 DEF Latest, FilesOf, PinnedDates
  <2> QED
    BY <1>1, <1>3, <1>5, <2>1, <2>2
<1>9. NewestInFile'
  <2> SUFFICES ASSUME ~torn, NEW f \in DOMAIN files', NEW r \in files'[f].rows, NEW n \in DOMAIN log,
                      n > r, SameTime(n, r), log[n].date = f[1]
               PROVE  \/ n \in RowsIn(buf) \cup discarded \cup lost'
                      \/ \E h \in DOMAIN files' : h[1] = f[1] /\ h[2] > f[2]
    <3>1. RowsIn(buf)' = RowsIn(buf)
      BY <1>1 DEF RowsIn
    <3> QED
      BY <1>1, <3>1 DEF NewestInFile, SameTime, RowIds
  <2>1. f \in DOMAIN files /\ f \notin gone /\ r \in files[f].rows
    BY <1>3
  <2>2. \/ n \in RowsIn(buf) \cup discarded \cup lost
        \/ \E h \in DOMAIN files : h[1] = f[1] /\ h[2] > f[2]
    BY <2>1 DEF OrderInv, NewestWins, NewestInFile, RowIds
  <2>3. ASSUME NEW h \in DOMAIN files, h[1] = f[1], h[2] > f[2] PROVE h \in DOMAIN files'
    <3>1. h[2] \in Nat /\ f[2] \in Nat
      BY <2>1 DEF OrderInv, Order, Named
    <3>2. h \notin gone
      BY <1>4, <2>1, <2>3, <3>1
    <3> QED
      BY <1>3, <3>2
  <2> QED
    BY <1>2, <2>2, <2>3
<1>10. LaterFileIsNewer'
  BY <1>1, <1>3 DEF OrderInv, NewestWins, LaterFileIsNewer
<1> QED
  BY <1>6, <1>7, <1>8, <1>9, <1>10 DEF Order, NewestWins

-----------------------------------------------------------------------------
(* More rows need no fewer cells.                                          *)
LEMMA MoreCells ==
    ASSUME NEW a \in Nat, NEW x \in Nat, NEW y \in Nat, x <= y
    PROVE  a * x <= a * y
  OBVIOUS

(* What goes over the cap goes oldest first.                               *)
LEMMA OldestGoFirst ==
    ASSUME cfg \in Configs, NEW b, NEW at, IsFiniteSet(RowsIn(b)), RowsIn(b) \subseteq Nat,
           NEW r \in RowsIn(b), NEW q \in Excess(b, at), r < q,
           at[r].ptime = at[q].ptime, at[r].date = at[q].date
    PROVE  r \in Excess(b, at)
<1> DEFINE Older(s, u) == \/ at[s].ptime < at[u].ptime
                          \/ at[s].ptime = at[u].ptime /\ at[s].date < at[u].date
                          \/ at[s].ptime = at[u].ptime /\ at[s].date = at[u].date /\ s < u
           Left(u) == {s \in RowsIn(b) : ~Older(s, u)}
<1>1. /\ Cells[cfg] * Cardinality(RowsIn(b)) > MaxRetained \/ Excess(b, at) # {}
      /\ \A u : u \in Excess(b, at) =>
           /\ u \in RowsIn(b)
           /\ Cells[cfg] * Cardinality(Left(u)) > Target /\ Cardinality(Left(u)) > 1
  BY DEF Excess
<1>2. ASSUME NEW u \in RowsIn(b), Cells[cfg] * Cardinality(Left(u)) > Target, Cardinality(Left(u)) > 1
      PROVE  u \in Excess(b, at)
  <2>1. Cells[cfg] * Cardinality(RowsIn(b)) <= MaxRetained => Excess(b, at) = {}
    BY DEF Excess
  <2> QED
    BY <1>2, <2>1 DEF Excess
<1>3. q \in RowsIn(b) /\ Left(q) \subseteq Left(r)
  <2>1. q \in RowsIn(b)
    BY <1>1
  <2>2. \A s \in RowsIn(b) : Older(s, r) => Older(s, q)
    BY <2>1
  <2> QED
    BY <2>1, <2>2
<1> HIDE DEF Older
<1>4. IsFiniteSet(Left(r)) /\ IsFiniteSet(Left(q))
  BY FS_Subset
<1>5. /\ Cardinality(Left(r)) \in Nat /\ Cardinality(Left(q)) \in Nat
      /\ Cardinality(Left(q)) <= Cardinality(Left(r))
  BY <1>3, <1>4, FS_Subset, FS_CardinalityType
<1>6. Cells[cfg] \in Nat /\ Target \in Int
  <2>1. Cells \in [Configs -> Nat \ {0}] /\ MaxRetained \in Nat
    BY TsWriterAssumption
  <2> QED
    BY <2>1 DEF Target
<1> HIDE DEF Left
<1>7. Cells[cfg] * Cardinality(Left(q)) <= Cells[cfg] * Cardinality(Left(r))
  BY <1>5, <1>6, MoreCells
<1>8. Cells[cfg] * Cardinality(Left(r)) > Target /\ Cardinality(Left(r)) > 1
  <2>1. Cells[cfg] * Cardinality(Left(q)) > Target /\ Cardinality(Left(q)) > 1
    BY <1>1
  <2>2. Cells[cfg] * Cardinality(Left(q)) \in Int /\ Cells[cfg] * Cardinality(Left(r)) \in Int
    BY <1>5, <1>6
  <2> QED
    BY <1>5, <1>6, <1>7, <2>1, <2>2
<1> QED
  BY <1>2, <1>8

(* A row accepted is the newest of all.                                    *)
LEMMA AcceptOrder ==
    ASSUME OrderInv, Accept
    PROVE  Order' /\ NewestWins'
<1> DEFINE row == Len(log) + 1
<1>1. PICK ptime \in Times : log' = Append(log, [ptime |-> ptime, date |-> op.target])
  BY DEF Accept
<1>2. /\ pc = "buffer" /\ op.target \in Dates
      /\ log \in Seq([ptime : Times, date : Dates])
      /\ buf \in [Dates -> SUBSET (DOMAIN log)] /\ DOMAIN log \subseteq Nat
      /\ RowsIn(buf) \subseteq DOMAIN log /\ IsFiniteSet(RowsIn(buf))
      /\ Len(log) \in Nat /\ \A n \in DOMAIN log : n <= Len(log)
  BY FewRows DEF Accept, OrderInv, CountInv, DayInv, Position, Storage, StoreTypes
<1>3. /\ Len(log') = row /\ DOMAIN log' = DOMAIN log \cup {row} /\ row \in Nat
      /\ row \notin DOMAIN log
      /\ \A r \in DOMAIN log : log'[r] = log[r] /\ r < row /\ ~(row < r)
  BY <1>1, <1>2
<1>4. /\ UNCHANGED <<files, cfg, pool, current, lost, torn>>
      /\ pc' \in {"rotate", "idle"}
  BY DEF Accept, Leave, openVars
<1> HIDE DEF row
<1> DEFINE pushed == [buf EXCEPT ![op.target] = @ \cup {row}]
           excess == Excess(pushed, log')
<1>5. /\ buf' = [d \in Dates |-> pushed[d] \ excess]
      /\ discarded' = discarded \cup excess
  BY <1>3 DEF Accept, Push, Home
<1>6. \A d \in Dates : pushed[d] = IF d = op.target THEN buf[d] \cup {row} ELSE buf[d]
  BY <1>2
<1>7. RowsIn(pushed) = RowsIn(buf) \cup {row}
  BY <1>2, <1>6 DEF RowsIn
<1>8. IsFiniteSet(RowsIn(pushed)) /\ RowsIn(pushed) \subseteq Nat
  <2>1. IsFiniteSet(RowsIn(buf) \cup {row})
    BY <1>2, FS_AddElement
  <2>2. RowsIn(buf) \cup {row} \subseteq Nat
    BY <1>2, <1>3
  <2> HIDE DEF pushed
  <2> QED
    BY <1>7, <2>1, <2>2
<1>9. ASSUME NEW r \in RowsIn(pushed), NEW q \in excess, r < q,
             log'[r].ptime = log'[q].ptime, log'[r].date = log'[q].date
      PROVE  r \in excess
  <2>1. cfg \in Configs
    BY <1>2 DEF OrderInv, Order, OpenIsLast
  <2> HIDE DEF pushed
  <2> QED
    BY <1>8, <1>9, <2>1, OldestGoFirst
<1> HIDE DEF pushed, excess
<1>10. /\ RowsIn(buf)' = (RowsIn(buf) \cup {row}) \ excess
       /\ \A d \in Dates : buf'[d] \subseteq buf[d] \cup {row} /\ buf'[d] = pushed[d] \ excess
  <2>1. \A d \in Dates : buf'[d] = pushed[d] \ excess
    BY <1>5
  <2>2. RowsIn(buf)' = RowsIn(pushed) \ excess
    BY <2>1 DEF RowsIn
  <2>3. \A d \in Dates : buf'[d] \subseteq buf[d] \cup {row}
    BY <1>6, <2>1
  <2> QED
    BY <1>7, <2>1, <2>2, <2>3
<1>11. \A f \in DOMAIN files : f[1] \in Dates /\ files[f].rows \subseteq DOMAIN log
  BY DEF OrderInv, Order, Named, CountInv, DayInv, Storage, StoreTypes
<1>12. Named' /\ OpenIsLast' /\ Overwritten'
  <2>1. \A d : Latest(d)' = Latest(d)
    BY <1>4 DEF Latest, FilesOf
  <2> QED
    BY <1>2, <1>4, <2>1 DEF OrderInv, Order, Named, OpenIsLast, LastOf, Overwritten
<1>13. OlderFiles'
  <2> SUFFICES ASSUME ~torn, NEW f \in DOMAIN files, f \notin Latest(f[1]) \/ files[f].cfg # cfg,
                      NEW q \in files[f].rows, NEW n \in buf'[f[1]]
               PROVE  q < n
    BY <1>4 DEF OlderFiles, Latest, FilesOf
  <2>1. n \in buf[f[1]] \/ n = row
    BY <1>10, <1>11
  <2>2. q < row
    BY <1>3, <1>11
  <2> QED
    BY <2>1, <2>2 DEF OrderInv, Order, OlderFiles
<1>14. OlderRows'
  <2> SUFFICES ASSUME ~torn, NEW f \in DOMAIN files, NEW q \in files[f].rows, NEW n \in buf'[f[1]],
                      log'[q].ptime = log'[n].ptime, n < q
               PROVE  q \in buf'[f[1]]
    BY <1>4 DEF OlderRows, SameTime
  <2>1. q \in DOMAIN log /\ f[1] \in Dates
    BY <1>11
  <2>2. n \in buf[f[1]]
    BY <1>3, <1>10, <2>1
  <2>3. n \in DOMAIN log
    BY <1>2, <2>1, <2>2
  <2>4. q \in buf[f[1]]
    BY <1>3, <2>1, <2>2, <2>3 DEF OrderInv, Order, OlderRows, SameTime
  <2>5. q \in pushed[f[1]] /\ n \in RowsIn(pushed) /\ n \notin excess
    <3>1. q \in pushed[f[1]] /\ n \in pushed[f[1]]
      BY <1>6, <2>1, <2>2, <2>4
    <3>2. n \notin excess
      BY <1>10, <2>1
    <3> QED
      BY <2>1, <3>1, <3>2 DEF RowsIn
  <2>6. log[n].date = f[1] /\ log[q].date = f[1]
    BY <2>1, <2>2, <2>4 DEF OrderInv, CountInv, DayInv, Storage, RowsPlaced
  <2>7. q \notin excess
    BY <1>3, <1>9, <2>1, <2>3, <2>5, <2>6
  <2> QED
    BY <1>10, <2>1, <2>5, <2>7
<1>15. NewestInFile'
  <2> SUFFICES ASSUME ~torn, NEW f \in DOMAIN files, NEW r \in files[f].rows, NEW n \in DOMAIN log',
                      n > r, log'[n].ptime = log'[r].ptime, log'[n].date = f[1]
               PROVE  \/ n \in (RowsIn(buf)') \cup discarded' \cup lost
                      \/ \E g \in DOMAIN files : g[1] = f[1] /\ g[2] > f[2]
    BY <1>4 DEF NewestInFile, SameTime, RowIds
  <2>1. CASE n = row
    BY <1>5, <1>10, <2>1
  <2>2. CASE n \in DOMAIN log
    <3>1. \/ n \in RowsIn(buf) \cup discarded \cup lost
          \/ \E g \in DOMAIN files : g[1] = f[1] /\ g[2] > f[2]
      BY <1>3, <1>11, <2>2 DEF OrderInv, NewestWins, NewestInFile, SameTime, RowIds
    <3> QED
      BY <1>5, <1>10, <3>1
  <2> QED
    BY <1>3, <2>1, <2>2
<1>16. LaterFileIsNewer'
  BY <1>4 DEF OrderInv, NewestWins, LaterFileIsNewer
<1> QED
  BY <1>12, <1>13, <1>14, <1>15, <1>16 DEF Order, NewestWins

-----------------------------------------------------------------------------
(* Without files there is no order to keep.                                *)
LEMMA OrderInvInit == Init => OrderInv
<1> SUFFICES ASSUME Init PROVE OrderInv
  OBVIOUS
<1>1. Order
  BY DEF Init, Order, Named, OpenIsLast, OlderFiles, OlderRows, Overwritten
<1>2. NewestWins
  BY DEF Init, NewestWins, NewestInFile, LaterFileIsNewer
<1> QED
  BY <1>1, <1>2, CountInvInit DEF OrderInv

(* Every step keeps the order.                                             *)
LEMMA OrderInvStep == OrderInv /\ [Next]_vars => OrderInv'
<1> SUFFICES ASSUME OrderInv, [Next]_vars PROVE OrderInv'
  OBVIOUS
<1>1. CountInv'
  BY CountInvStep DEF OrderInv
<1>2. CASE StartAppend \/ StartFlush \/ StartOpen
  BY <1>1, <1>2, StartsOrder DEF OrderInv
<1>3. CASE NothingToWrite \/ Rotate \/ Switched \/ Reject \/ Drop
  BY <1>1, <1>3, WalkOrder DEF OrderInv
<1>4. CASE Flushed
  BY <1>1, <1>4, FlushedOrder DEF OrderInv
<1>5. CASE Commit
  BY <1>1, <1>5, CommitOrder DEF OrderInv
<1>6. CASE Taken
  BY <1>1, <1>6, TakenOrder DEF OrderInv
<1>7. CASE CommitFails \/ Uninitialized \/ ResolveFails
  BY <1>1, <1>7, GiveUpOrder DEF CommitFails, Uninitialized, ResolveFails, OrderInv
<1>8. CASE CreateFile
  BY <1>1, <1>8, CreateOrder DEF OrderInv
<1>9. CASE Reuse \/ CreateSchema
  BY <1>1, <1>9, AttachOrder DEF OrderInv
<1>10. CASE Accept
  BY <1>1, <1>10, AcceptOrder DEF OrderInv
<1>11. CASE Prune
  BY <1>1, <1>11, PruneOrder DEF OrderInv
<1>12. CASE Crash
  <2>1. Order' /\ NewestWins'
    BY <1>12, OrderGone DEF Crash
  <2> QED
    BY <1>1, <2>1 DEF OrderInv
<1>13. CASE UNCHANGED vars
  <2>1. UNCHANGED <<pc, op, next, buf, cfg, pool, current, files, log, discarded, lost, torn>>
    BY <1>13 DEF vars, opVars, bufferVars, openVars, histVars
  <2>2. Named' /\ OlderFiles' /\ OlderRows' /\ NewestWins'
    BY <2>1, OrderStays
  <2>3. OpenIsLast' /\ Overwritten'
    BY <2>1 DEF OrderInv, Order, OpenIsLast, LastOf, Latest, FilesOf, Overwritten, SameTime
  <2> QED
    BY <1>1, <2>2, <2>3 DEF OrderInv, Order
<1> QED
  BY <1>2, <1>3, <1>4, <1>5, <1>6, <1>7, <1>8, <1>9, <1>10, <1>11, <1>12, <1>13 DEF Next, Step

(* Whoever reads the files of a date and lets the later file win reads the *)
(* newest value of every time, whatever is retried, dropped or reopened    *)
(* (flush_locked's upsert, resolve_file).                                  *)
THEOREM NewestStays == Spec => []NewestWins
<1>1. OrderInv => NewestWins
  BY DEF OrderInv
<1> QED
  BY OrderInvInit, OrderInvStep, <1>1, PTL DEF Spec

-----------------------------------------------------------------------------
(* What is left of the types.                                              *)

Kinds == {"none", "append", "threshold", "flush", "close", "open"}
RestTyped ==
    /\ op \in [kind : Kinds, target : Dates \cup {None}]
    /\ current \in Dates \cup {None}
    /\ pool \in (Dates \X Nat) \cup {NoFile}
    /\ lost \subseteq DOMAIN log
    /\ said \in {"nothing", "written", "failed", "refused"} /\ opens \in 0..MaxOpens

(* They stay.                                                              *)
LEMMA RestStays == OrderInv /\ RestTyped /\ [Next]_vars => RestTyped'
<1> SUFFICES ASSUME OrderInv, RestTyped, [Next]_vars PROVE RestTyped'
  OBVIOUS
<1>0. /\ next \in Dates \cup {None} /\ discarded \subseteq DOMAIN log
      /\ RowsIn(buf) \subseteq DOMAIN log /\ stale \in {"no", "failed", "refused"}
      /\ \A f \in DOMAIN files : f \in Dates \X Nat
  BY FewRows DEF OrderInv, CountInv, DayInv, Position, Account, Counted, Said, Order, Named
<1>1. CASE StartAppend \/ StartFlush
  <2>1. PICK kind \in {"append", "flush", "close"}, target \in Dates \cup {None} : Start(kind, target)
    BY <1>1 DEF StartAppend, StartFlush, Dates
  <2> QED
    BY <2>1 DEF Start, openVars, RestTyped, Kinds
<1>2. CASE StartOpen
  <2>1. opens' \in 0..MaxOpens
    BY <1>2, TsWriterAssumption DEF StartOpen, RestTyped
  <2> QED
    BY <1>0, <1>2, <2>1 DEF StartOpen, NoOp, RestTyped, Kinds
<1>3. CASE NothingToWrite \/ Commit \/ Taken \/ Rotate \/ Switched \/ Prune \/ CreateFile
  <2>1. UNCHANGED <<op, pool, log, said, opens>> /\ current' \in {current, next}
    BY <1>3 DEF NothingToWrite, Commit, Taken, Rotate, Switched, Prune, CreateFile, opVars,
       openVars, histVars
  <2>2. lost' \subseteq DOMAIN log
    BY <1>3 DEF NothingToWrite, Commit, Taken, Rotate, Switched, Prune, CreateFile, histVars, RestTyped
  <2> QED
    BY <1>0, <2>1, <2>2 DEF RestTyped
<1>4. CASE Flushed \/ CommitFails \/ Uninitialized \/ ResolveFails \/ Reject
  <2>1. UNCHANGED <<log, lost, opens>>
    BY <1>4 DEF Flushed, CommitFails, Uninitialized, ResolveFails, Reject
  <2>2. /\ op' \in {op, NoOp} /\ current' \in {current, None} /\ pool' \in {pool, NoFile}
        /\ said' \in {said, "nothing", "written", "failed", "refused"}
    BY <1>4 DEF Flushed, CommitFails, Uninitialized, ResolveFails, Reject, Done, GiveUp, Return,
       WriterGone, Leave, openVars
  <2> QED
    BY <2>1, <2>2 DEF RestTyped, NoOp, Kinds
<1>5. CASE Reuse \/ CreateSchema
  <2>1. PICK f \in DOMAIN files : Attach(f)
    BY <1>5 DEF Reuse, CreateSchema, Latest, FilesOf
  <2>2. /\ op' \in {op, NoOp} /\ current' \in {current, next} /\ pool' = f
        /\ said' \in {said, "nothing"} /\ UNCHANGED <<log, lost>>
    BY <2>1 DEF Attach, Leave
  <2>3. opens' = opens
    BY <2>1 DEF Attach
  <2> QED
    BY <1>0, <2>2, <2>3 DEF RestTyped, NoOp, Kinds
<1>6. CASE Accept
  <2>1. /\ op' \in {NoOp, [NoOp EXCEPT !.kind = "threshold"]} /\ UNCHANGED <<current, pool, lost, opens>>
        /\ said' \in {said, "nothing", stale}
    BY <1>6 DEF Accept, Leave, openVars
  <2>2. DOMAIN log \subseteq DOMAIN log'
    <3>1. PICK row : log' = Append(log, row)
      BY <1>6 DEF Accept
    <3>2. log \in Seq([ptime : Times, date : Dates])
      BY DEF OrderInv, CountInv, DayInv, Storage, StoreTypes
    <3> QED
      BY <3>1, <3>2
  <2>3. stale = "no" => said' \in {said, "nothing"}
    BY <1>6 DEF Accept, Leave
  <2> QED
    BY <1>0, <2>1, <2>2, <2>3 DEF RestTyped, NoOp, Kinds
<1>7. CASE Crash \/ Drop
  BY <1>0, <1>7 DEF Crash, Drop, WriterGone, Leave, openVars, RestTyped, NoOp, Kinds
<1>8. CASE UNCHANGED vars
  BY <1>8 DEF vars, opVars, openVars, histVars, RestTyped
<1> QED
  BY <1>1, <1>2, <1>3, <1>4, <1>5, <1>6, <1>7, <1>8 DEF Next, Step

(* Every variable has its type, whatever the clock reads and fails.        *)
THEOREM TypeCorrect == Spec => []TypeOK
<1>1. Init => OrderInv /\ RestTyped
  <2> SUFFICES ASSUME Init PROVE OrderInv /\ RestTyped
    OBVIOUS
  <2>1. RestTyped
    BY TsWriterAssumption DEF Init, RestTyped, Kinds, NoOp
  <2> QED
    BY <2>1, OrderInvInit
<1>2. (OrderInv /\ RestTyped) /\ [Next]_vars => (OrderInv /\ RestTyped)'
  BY OrderInvStep, RestStays
<1>3. OrderInv /\ RestTyped => TypeOK
  <2> SUFFICES ASSUME OrderInv, RestTyped PROVE TypeOK
    OBVIOUS
  <2>1. rows \in Nat /\ dropped \in Nat
    <3>1. IsFiniteSet(RowsIn(buf)) /\ IsFiniteSet(DOMAIN log)
      BY FewRows DEF OrderInv, CountInv
    <3>2. discarded \in SUBSET (DOMAIN log)
      BY DEF OrderInv, CountInv, Account, Counted
    <3>3. IsFiniteSet(discarded)
      BY <3>1, <3>2, FS_Subset
    <3> QED
      BY <3>1, <3>3, FS_CardinalityType DEF OrderInv, CountInv, Account, Counted
  <2>2. \A f \in DOMAIN files : /\ f \in Dates \X Nat
                                /\ files[f] \in [cfg : Configs \cup {None}, rows : SUBSET RowIds]
    BY DEF OrderInv, Order, Named, CountInv, DayInv, Storage, StoreTypes, RowIds
  <2>3. /\ buf \in [Dates -> SUBSET RowIds] /\ log \in Seq([ptime : Times, date : Dates])
        /\ discarded \in SUBSET RowIds
    BY DEF OrderInv, CountInv, DayInv, Storage, StoreTypes, Account, Counted, RowIds
  <2>4. /\ pc \in Busy \cup {"idle", "down"} /\ next \in Dates \cup {None}
        /\ stale \in {"no", "failed", "refused"} /\ cfg \in Configs \cup {None} /\ torn \in BOOLEAN
    BY DEF OrderInv, CountInv, DayInv, Position, Account, Said
  <2> QED
    BY <2>1, <2>2, <2>3, <2>4 DEF TypeOK, RestTyped, Kinds, RowIds
<1> QED
  BY <1>1, <1>2, <1>3, PTL DEF Spec
=============================================================================
