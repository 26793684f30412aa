------------------------------ MODULE TsWriter ------------------------------
(***************************************************************************)
(* The writer of the time series store (crates/banto-tstore/src/writer.rs) *)
(* and the daily files it writes.  A row is filed under the local date of  *)
(* the clock at the moment of append, waits in the buffer of that date,    *)
(* and is written in one transaction; when the date changes the writer     *)
(* flushes, opens the file of the next date, and closes the one before.    *)
(*                                                                         *)
(* One mutex serialises the operations, so one is under way at a time; it  *)
(* is cut into steps at its awaits, where the storage may fail, the        *)
(* process may crash and the caller's future may be dropped.  The clock    *)
(* may jump anywhere: each operation reads any time.  Groups are separate  *)
(* tables of one transaction, and one is modelled.                         *)
(***************************************************************************)
EXTENDS Integers, Sequences, FiniteSets, Functions, FiniteSetsExt

CONSTANTS
    Times,        \* what the clock may read, in ticks
    Day, Offset,  \* ticks in a day, and the UTC offset
    Configs,      \* configurations (their hashes)
    Cells,        \* cells of a row, by configuration
    MaxRetained,  \* max_retained_cells
    MaxBuffered,  \* max_buffered_rows
    Retentions,   \* retention_days a prune may be asked for
    MaxRows,      \* bound: rows accepted
    MaxOpens,     \* bound: writers opened
    None          \* stands for no date, and for the hash of a file without schema

ASSUME TsWriterAssumption ==
    /\ Times \subseteq Nat /\ Times # {} /\ IsFiniteSet(Times)
    /\ Day \in Nat \ {0} /\ Offset \in Nat
    /\ Cells \in [Configs -> Nat \ {0}] /\ MaxRetained \in Nat \ {0} /\ MaxBuffered \in Nat \ {0}
    /\ Retentions \subseteq Nat /\ MaxRows \in Nat /\ MaxOpens \in Nat
    /\ None \notin Configs /\ None \notin Nat

(* LocalDate::from_epoch_ms.                                               *)
DateAt(t, offset) == (t + offset) \div Day
Dates == {DateAt(t, Offset) : t \in Times}

(* candidate_date_range, and ptime_is_findable_in, made of it.             *)
Candidates(from, to) == {d \in Dates : DateAt(from - Day, 0) <= d /\ d <= DateAt(to + Day, 0)}
FindableNearly(d, t) == d \in Candidates(t - Day, t + Day)
Findable(d, t) == d \in Candidates(t, t)

VARIABLES
    pc, op,     \* the operation that holds the mutex
    next,       \* the date the rotation is switching to
    stale,      \* how the rotation of this append failed, if it did
    buf,        \* buffers: buf[d] are the rows waiting for date d, by their numbers
    rows,       \* buffered_row_count
    dropped,    \* dropped_rows
    cfg,        \* config_hash of the writer
    pool,       \* the file its connections lead to
    current,    \* current_date
    files,      \* the data directory
    log,        \* rows accepted: time, and date they were filed under (history)
    discarded,  \* rows this writer gave up (history)
    lost,       \* rows lost to a crash, to retention, or to earlier writers (history)
    said,       \* outcome of the last operation (history)
    torn,       \* a future was dropped between two files (history)
    opens       \* writers opened (history)

opVars     == <<pc, op, next, stale>>
bufferVars == <<buf, rows, dropped>>
openVars   == <<cfg, pool, current>>
histVars   == <<log, discarded, lost, said, torn, opens>>
vars == <<opVars, bufferVars, openVars, files, histVars>>

NoOp == [kind |-> "none", target |-> None]
NoFile == <<0, 0>>
Empty == [d \in Dates |-> {}]
RowsIn(b) == UNION {b[d] : d \in Dates}

Init ==
    /\ pc = "down" /\ op = NoOp /\ next = None /\ stale = "no"
    /\ buf = Empty /\ rows = 0 /\ dropped = 0
    /\ cfg = None /\ pool = NoFile /\ current = None
    /\ files = <<>>
    /\ log = <<>> /\ discarded = {} /\ lost = {}
    /\ said = "nothing" /\ torn = FALSE /\ opens = 0

-----------------------------------------------------------------------------
(* The end of an operation.                                                *)

Leave(l, outcome) ==
    /\ pc' = l /\ op' = NoOp /\ next' = None /\ stale' = "no"
    /\ said' = outcome

Return(outcome) == Leave("idle", outcome) /\ UNCHANGED <<bufferVars, openVars, discarded>>

(* With the writer go its buffers.                                         *)
WriterGone(outcome) ==
    /\ Leave("down", outcome)
    /\ buf' = Empty /\ rows' = 0
    /\ cfg' = None /\ pool' = NoFile /\ current' = None

(* close counts what its last flush could not write.                       *)
LastCountSkipped == dropped
LastCount == dropped + rows

(* The `?` after a failure.  An append whose rotation fails goes on.       *)
GiveUp(outcome) ==
    \/ /\ op.kind = "append"
       /\ pc' = "buffer" /\ next' = None /\ stale' = outcome
       /\ UNCHANGED <<op, bufferVars, openVars, discarded, said>>
    \/ op.kind \in {"flush", "threshold"} /\ Return(outcome)
    \/ /\ op.kind = "close" /\ WriterGone(outcome)
       /\ dropped' = LastCount /\ discarded' = discarded \cup RowsIn(buf)
    \/ op.kind = "open" /\ WriterGone(outcome) /\ UNCHANGED <<dropped, discarded>>

Done ==
    \/ op.kind \in {"flush", "threshold"} /\ Return("written")
    \/ op.kind = "close" /\ WriterGone("written") /\ UNCHANGED <<dropped, discarded>>

-----------------------------------------------------------------------------
(* append, flush, close and open take the mutex.                           *)

Start(kind, target) ==
    /\ pc = "idle" /\ pc' = "rotate"
    /\ op' = [kind |-> kind, target |-> target]
    /\ said' = "nothing"
    /\ UNCHANGED <<next, stale, bufferVars, openVars, files, log, discarded, lost, torn, opens>>

StartAppend ==
    /\ Len(log) < MaxRows
    /\ \E now \in Times : Start("append", DateAt(now, Offset))

StartFlush == \E kind \in {"flush", "close"} : Start(kind, None)

StartOpen ==
    /\ pc = "down" /\ pc' = "resolve" /\ opens < MaxOpens
    /\ op' = [NoOp EXCEPT !.kind = "open"]
    /\ \E now \in Times, c \in Configs : next' = DateAt(now, Offset) /\ cfg' = c
    /\ dropped' = 0 /\ lost' = lost \cup discarded /\ discarded' = {}
    /\ said' = "nothing" /\ opens' = opens + 1
    /\ UNCHANGED <<stale, buf, rows, pool, current, files, log, torn>>

-----------------------------------------------------------------------------
(* flush_locked: the rows of the open file's date.                         *)

(* A later row of the same time replaces an earlier one, in the file and   *)
(* within the statement.                                                   *)
SameTime(r, s) == log[r].ptime = log[s].ptime
InsertOnly(old, new) ==
    old \cup {r \in new : \A s \in old \cup new : SameTime(r, s) => r <= s /\ s \notin old}
Upsert(old, new) == {r \in old \cup new : \A s \in new : SameTime(r, s) => s <= r}

NothingToWrite ==
    /\ pc = "flush" /\ buf[current] = {} /\ pc' = "flushed"
    /\ UNCHANGED <<op, next, stale, bufferVars, openVars, files, histVars>>

(* begin, the statements, commit.                                          *)
Commit ==
    /\ pc = "flush" /\ buf[current] # {} /\ pc' = "committed"
    /\ files' = IF pool \in DOMAIN files
                  THEN [files EXCEPT ![pool].rows = Upsert(@, buf[current])] ELSE files
    /\ UNCHANGED <<op, next, stale, bufferVars, openVars, histVars>>

CommitFails ==
    /\ pc = "flush" /\ buf[current] # {}
    /\ GiveUp("failed") /\ UNCHANGED <<files, log, lost, torn, opens>>

(* Only after the commit do the rows leave the buffer.                     *)
NotTaken == buf
AllCleared == Empty
Unwritten == [buf EXCEPT ![current] = {}]

Taken ==
    /\ pc = "committed" /\ pc' = "flushed"
    /\ buf' = Unwritten /\ rows' = rows - Cardinality(buf[current])
    /\ UNCHANGED <<op, next, stale, dropped, openVars, files, histVars>>

Flushed ==
    /\ pc = "flushed"
    /\ IF next = None
         THEN Done
         ELSE /\ pc' = "resolve"
              /\ UNCHANGED <<op, next, stale, bufferVars, openVars, discarded, said>>
    /\ UNCHANGED <<files, log, lost, torn, opens>>

-----------------------------------------------------------------------------
(* resolve_file: the newest file of the date if it has this configuration, *)
(* else a new one.  A file exists before its schema does.                  *)

FilesOf(d) == {f \in DOMAIN files : f[1] = d}
AnyMatching(d) ==
    LET same == {f \in FilesOf(d) : files[f].cfg = cfg}
    IN  IF same # {} THEN same ELSE {f \in FilesOf(d) : \A g \in FilesOf(d) : g[2] <= f[2]}
Latest(d) == {f \in FilesOf(d) : \A g \in FilesOf(d) : g[2] <= f[2]}
\* (No run comes near the 999 files a day that parse_data_file_name can read back.)
NewFile(d) == <<d, IF FilesOf(d) = {} THEN 1 ELSE 1 + Max({f[2] : f \in FilesOf(d)})>>
Created == [cfg |-> None, rows |-> {}]

Attach(f) ==
    /\ pool' = f
    /\ IF op.kind = "open"
         THEN Leave("idle", "nothing") /\ current' = next
         ELSE pc' = "closing" /\ UNCHANGED <<op, next, stale, said, current>>
    /\ UNCHANGED <<bufferVars, cfg, log, discarded, lost, torn, opens>>

Reuse ==
    /\ pc = "resolve"
    /\ \E f \in Latest(next) : files[f].cfg = cfg /\ Attach(f)
    /\ UNCHANGED files

CreateFile ==
    /\ pc = "resolve" /\ pc' = "create"
    /\ \A f \in Latest(next) : files[f].cfg \notin {cfg, None}
    /\ files' = [f \in DOMAIN files \cup {NewFile(next)} |->
                    IF f = NewFile(next) THEN Created ELSE files[f]]
    /\ UNCHANGED <<op, next, stale, bufferVars, openVars, histVars>>

CreateSchema ==
    /\ pc = "create"
    /\ \E f \in Latest(next) : files' = [files EXCEPT ![f].cfg = cfg] /\ Attach(f)

(* read_file_meta: the schema is missing.                                  *)
Uninitialized ==
    /\ pc = "resolve" /\ \E f \in Latest(next) : files[f].cfg = None
    /\ GiveUp("refused") /\ UNCHANGED <<files, log, lost, torn, opens>>

ResolveFails ==
    /\ pc \in {"resolve", "create"}
    /\ GiveUp("failed") /\ UNCHANGED <<files, log, lost, torn, opens>>

-----------------------------------------------------------------------------
(* rotate_if_needed: first the other dates that have rows, oldest first,   *)
(* then the date asked for.                                                *)

ClockOnly == {}
Waiting == {d \in Dates : buf[d] # {} /\ d # current}

AnyTarget == op.target # None
Switches == op.target \notin {None, current}

Rotate ==
    /\ pc = "rotate"
    /\ \/ /\ \E d \in Waiting : (\A e \in Waiting : d <= e) /\ next' = d
          /\ pc' = "flush"
       \/ Waiting = {} /\ Switches /\ next' = op.target /\ pc' = "flush"
       \/ /\ Waiting = {} /\ ~Switches /\ next' = None
          /\ pc' = IF op.kind = "append" THEN "buffer" ELSE "flush"
    /\ UNCHANGED <<op, stale, bufferVars, openVars, files, histVars>>

(* The file has been replaced; the one before is closed, and only then is  *)
(* the date changed.                                                       *)
Switched ==
    /\ pc = "closing" /\ pc' = "rotate"
    /\ current' = next /\ next' = None
    /\ UNCHANGED <<op, stale, bufferVars, cfg, pool, files, histVars>>

-----------------------------------------------------------------------------
(* The rest of append, without an await.                                   *)

(* enforce_retention_cap: the oldest rows go, whatever their date, until   *)
(* 7/8 of the cap is left or one row is.                                   *)
Target == MaxRetained - (MaxRetained \div 8)
Excess(b, at) ==
    LET older(r, s) ==
          \/ at[r].ptime < at[s].ptime
          \/ at[r].ptime = at[s].ptime /\ at[r].date < at[s].date
          \/ at[r].ptime = at[s].ptime /\ at[r].date = at[s].date /\ r < s
        left(r) == Cardinality({s \in RowsIn(b) : ~older(s, r)})
    IN  IF Cells[cfg] * Cardinality(RowsIn(b)) <= MaxRetained THEN {}
        ELSE {r \in RowsIn(b) : Cells[cfg] * left(r) > Target /\ left(r) > 1}

OpenFileDate == current
Home == op.target

Push(row, at) ==
    LET pushed == [buf EXCEPT ![Home] = @ \cup {row}]
        excess == Excess(pushed, at)
    IN  /\ buf' = [d \in Dates |-> pushed[d] \ excess]
        /\ rows' = rows + 1 - Cardinality(excess)
        /\ dropped' = dropped + Cardinality(excess)
        /\ discarded' = discarded \cup excess

(* An unknown group, a wrong number of values, or a time no query for      *)
(* which would open the file.                                              *)
Reject ==
    /\ pc = "buffer"
    /\ Return("nothing") /\ UNCHANGED <<files, log, lost, torn, opens>>

(* maybe_flush; how long ago the last flush was is left open.              *)
Accept ==
    /\ pc = "buffer"
    /\ \E ptime \in Times :
         /\ Findable(op.target, ptime)
         /\ log' = Append(log, [ptime |-> ptime, date |-> op.target])
    /\ Push(Len(log'), log')
    /\ \/ /\ stale = "no"
          /\ pc' = "rotate" /\ op' = [NoOp EXCEPT !.kind = "threshold"]
          /\ UNCHANGED <<next, stale, said>>
       \/ /\ stale = "no" => rows' < MaxBuffered
          /\ Leave("idle", IF stale = "no" THEN "nothing" ELSE stale)
    /\ UNCHANGED <<openVars, files, lost, torn, opens>>

-----------------------------------------------------------------------------
(* prune_files, under the mutex while there is a writer; `today` may have  *)
(* been read before.  It may fail after some files.                        *)

BufferedDates == {d \in Dates : buf[d] # {}}
PinnedDates == BufferedDates \cup {current}

Prune ==
    /\ pc \in {"idle", "down"}
    /\ \E today \in Dates, days \in Retentions :
         LET old == {f \in DOMAIN files : today - f[1] > days /\ f[1] \notin PinnedDates}
         IN  \E gone \in (SUBSET old) \ {{}} :
               /\ \A f \in gone, g \in old :
                    g[1] < f[1] \/ (g[1] = f[1] /\ g[2] < f[2]) => g \in gone
               /\ files' = Restrict(files, DOMAIN files \ gone)
               /\ lost' = lost \cup {n \in DOMAIN log :
                    \E f \in gone : \E r \in files[f].rows :
                      n <= r /\ SameTime(n, r) /\ log[n].date = log[r].date}
    /\ UNCHANGED <<opVars, bufferVars, openVars, log, discarded, said, torn, opens>>

-----------------------------------------------------------------------------
(* The process crashes; or the future of an operation is dropped at an     *)
(* await.  close and open own the writer, the others only borrow it.       *)

Crash ==
    /\ pc # "down" /\ WriterGone("nothing")
    /\ lost' = lost \cup RowsIn(buf)
    /\ UNCHANGED <<dropped, files, log, discarded, torn, opens>>

Drop ==
    /\ pc \in {"flush", "committed", "resolve", "create", "closing"}
    /\ op.kind \notin {"open", "close"}
    /\ Leave("idle", "nothing")
    /\ torn' = (torn \/ pc = "closing")
    /\ UNCHANGED <<bufferVars, openVars, files, log, discarded, lost, opens>>

-----------------------------------------------------------------------------
Step ==
    \/ Rotate \/ NothingToWrite \/ Commit \/ CommitFails \/ Taken \/ Flushed
    \/ Reuse \/ CreateFile \/ CreateSchema \/ Uninitialized \/ ResolveFails
    \/ Switched \/ Reject \/ Accept

Next == StartAppend \/ StartFlush \/ StartOpen \/ Step \/ Prune \/ Crash \/ Drop

Spec == Init /\ [][Next]_vars

(* Operations are polled and the storage answers, if only with an error.   *)
LiveSpec == Spec /\ WF_vars(Step)

-----------------------------------------------------------------------------
RowIds == DOMAIN log
Busy == {"rotate", "flush", "committed", "flushed", "resolve", "create", "closing", "buffer"}

(* The types.                                                              *)
TypeOK ==
    /\ pc \in Busy \cup {"idle", "down"}
    /\ op \in [kind : {"none", "append", "threshold", "flush", "close", "open"},
               target : Dates \cup {None}]
    /\ next \in Dates \cup {None} /\ stale \in {"no", "failed", "refused"}
    /\ buf \in [Dates -> SUBSET RowIds] /\ rows \in Nat /\ dropped \in Nat
    /\ cfg \in Configs \cup {None} /\ current \in Dates \cup {None}
    /\ pool \in (Dates \X Nat) \cup {NoFile}
    /\ \A f \in DOMAIN files :
         /\ f \in Dates \X Nat
         /\ files[f] \in [cfg : Configs \cup {None}, rows : SUBSET RowIds]
    /\ log \in Seq([ptime : Times, date : Dates])
    /\ discarded \in SUBSET RowIds /\ lost \in SUBSET RowIds
    /\ said \in {"nothing", "written", "failed", "refused"} /\ torn \in BOOLEAN /\ opens \in 0..MaxOpens

Stored == UNION {files[f].rows : f \in DOMAIN files}
Replaced(n) == \E r \in Stored : r > n /\ SameTime(n, r) /\ log[n].date = log[r].date

\* A row is in no file but one of the date it was accepted for, however long the change
\* of date took.
RowsInTheirDay == ~torn => \A f \in DOMAIN files : \A r \in files[f].rows : log[r].date = f[1]

\* Every query whose range holds the time of a row opens the row's file.
QueriesFindRows ==
    ~torn => \A f \in DOMAIN files : \A r \in files[f].rows, from, to \in Times :
               from <= log[r].ptime /\ log[r].ptime <= to => f[1] \in Candidates(from, to)

\* No prune takes the file that is open.
OpenFileKept == pc # "down" /\ op.kind # "open" /\ ~torn => pool \in DOMAIN files

(* A row is where its date and every query look for it, and the file the   *)
(* next ones go to is never pruned away.                                   *)
RowsAreFound == RowsInTheirDay /\ QueriesFindRows /\ OpenFileKept

\* An accepted row is waiting, stored, replaced by a newer one of its time, dropped, or lost
\* to a crash or to retention.
AllAccounted ==
    ~torn => \A n \in RowIds : n \in RowsIn(buf) \cup Stored \cup discarded \cup lost \/ Replaced(n)

\* The writer counts its rows right, and a flush that returns without an error has left
\* nothing behind.
CountsAgree ==
    /\ rows = Cardinality(RowsIn(buf))
    /\ dropped = Cardinality(discarded)
    /\ said = "written" => rows = 0

(* No accepted row disappears unnoticed: where it is not, it has been      *)
(* counted as dropped, and what the writer says of its rows is true.       *)
NothingVanishes == AllAccounted /\ CountsAgree

\* The newest row of a time is the one a file keeps: a newer one is still waiting, never got
\* there, or is in a later file of the date.
NewestInFile ==
    ~torn => \A f \in DOMAIN files : \A r \in files[f].rows, n \in RowIds :
      n > r /\ SameTime(n, r) /\ log[n].date = f[1] =>
        \/ n \in RowsIn(buf) \cup discarded \cup lost
        \/ \E g \in DOMAIN files : g[1] = f[1] /\ g[2] > f[2]

\* Of two files of a date the later one has the later rows.
LaterFileIsNewer ==
    ~torn => \A f, g \in DOMAIN files : \A r \in files[f].rows, s \in files[g].rows :
               f[1] = g[1] /\ f[2] < g[2] => r < s

(* Whoever reads the files of a date and lets the later file win reads the *)
(* newest value of every time.                                             *)
NewestWins == NewestInFile /\ LaterFileIsNewer

(* Every operation returns, however many dates are waiting.                *)
OperationsReturn == pc \in Busy ~> pc \in {"idle", "down"}

(* An operation fails only if the storage failed while it ran: the next    *)
(* one takes up the rotation where it was left.                            *)
RetryRecovers == said # "refused"
=============================================================================
