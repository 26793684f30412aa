------------------------------ MODULE SinkQueue ------------------------------
(***************************************************************************)
(* The database sink: one group of tags, its producer, its bounded queue,  *)
(* the flusher of its database connection, and the engine that applies     *)
(* changed settings and shuts the sidecar down.                            *)
(*                                                                         *)
(* What it is for: a row that was sampled is stored, is still queued, or   *)
(* has been counted as dropped, whatever settings change, whichever        *)
(* answers of the database are lost and wherever the stop comes.           *)
(*                                                                         *)
(* Not kept apart: several groups of one connection, several connections,  *)
(* the reasons for which a group cannot run, the length of the waits (a    *)
(* timer may fire at once or late), the subscription and the periodic      *)
(* status.  A transaction whose answer is lost is stored before the loss   *)
(* is noticed or not at all.  Nobody looks again at a queue that was given *)
(* up (a flush in the middle of it could still find a late row).  A group  *)
(* is never deleted, and the pool of a connection can always be built (the *)
(* Hub checks the port).                                                   *)
(***************************************************************************)
EXTENDS Naturals, Sequences, FiniteSets

CONSTANTS Tables,
          Specs,      \* what else a group's settings say, with at least one tag
          Conns,      \* contents of the connection's settings
          Initial,    \* the settings applied first
          Settings,   \* bound: the settings that follow
          None,       \* no tags; no connection; none of something
          Flushers,   \* tasks of Flusher::run
          MaxRows,    \* queue_max_rows
          Batch,      \* batch_size
          Samples,    \* bound: rows that are sampled
          Changes,    \* bound: changes of the settings
          Troubles    \* bound: operations of the database that fail

Configs == [table: Tables, spec: Specs \cup {None}, conn: Conns \cup {None}]

Groups    == [gen: Nat, q: Nat, table: Tables, state: {"running", "backoff", "error"}, ready: BOOLEAN]
Producers == [q: Nat, table: Tables]
Jobs      == [gen: Nat, q: Nat, table: Tables]

ASSUME SinkAssumption ==
    /\ Tables # {} /\ Specs # {} /\ Conns # {} /\ Flushers # {}
    /\ None \notin Specs \cup Conns \cup Flushers \cup Nat \cup Groups \cup Producers \cup Jobs
    /\ MaxRows \in Nat \ {0} /\ Batch \in Nat \ {0}
    /\ Samples \in Nat /\ Changes \in Nat /\ Troubles \in Nat
    /\ Initial \in [table: Tables, spec: Specs, conn: Conns]
    /\ Settings \subseteq Configs

VARIABLES applied,   \* the settings applied last
          engine,    \* where the engine is in applying or shutting down
          group,     \* the registered runtime, or None
          rows,      \* its queue: the rows, oldest first
          dropped,   \* its queue: the rows dropped so far
          broken,    \* for a group that cannot run: the rows dropped before, or None
          producer,  \* the producer in the engine's table, or None
          ending,    \* producers aborted within a poll, which finish it
          serving,   \* the flusher in the engine's table, or None
          fl,        \* the flushers
          stored,    \* the database: rows by table
          made,      \* history: for each row sampled, the table of its group
          strays,    \* history: rows put into a queue that was given up
          twice,     \* history: rows stored again
          unsure,    \* history: an INSERT ended without an answer
          gone,      \* history: rows counted as dropped
          cut,       \* history: how many of these counts went with a plan that was cut off
          changes, troubles

settings == <<applied, changes>>
queue == <<group, rows, dropped, broken>>
tasks == <<producer, ending, serving, fl>>
history == <<made, strays, twice, unsure, gone, cut>>
vars == <<settings, engine, queue, tasks, stored, history, troubles>>

Contents(q) == {q[i] : i \in DOMAIN q}

-----------------------------------------------------------------------------
(***************************************************************************)
(* The queue and the producer.                                             *)
(***************************************************************************)

\* RowQueue::push: over the limit, the oldest row is dropped and counted.
FullLate == Len(rows) > MaxRows
Full == Len(rows) >= MaxRows
Pushed(row) == Append(IF Full THEN Tail(rows) ELSE rows, row)

\* peek_batch: copies; the rows stay in the queue until they are acknowledged.
Peeked(q) == SubSeq(q, 1, IF Len(q) < Batch THEN Len(q) ELSE Batch)

\* RowQueue::commit: rows leave from the front while their number is no larger than the
\* last one sent; what overflowed meanwhile is gone.
AckedByCount(batch) == SubSeq(rows, Len(batch) + 1, Len(rows))
Popped(batch) == CHOOSE n \in 0..Len(rows) : /\ \A i \in 1..n : rows[i] <= batch[Len(batch)]
                                             /\ n < Len(rows) => rows[n + 1] > batch[Len(batch)]
Acked(batch) == SubSeq(rows, Popped(batch) + 1, Len(rows))

\* One round of a producer.  The queue is the one its runtime holds: if that is the one
\* registered the row is queued, else nobody will look at it again.
Push(p) ==
    /\ engine.at # "done" /\ Len(made) < Samples
    /\ made' = Append(made, p.table)
    /\ LET row == Len(made) + 1
       IN  IF group # None /\ group.q = p.q
           THEN /\ rows' = Pushed(row)
                /\ dropped' = IF Full THEN dropped + 1 ELSE dropped
                /\ gone' = IF Full THEN gone \cup {Head(rows)} ELSE gone
                /\ UNCHANGED strays
           ELSE /\ strays' = strays \cup {row}
                /\ UNCHANGED <<rows, dropped, gone>>
    /\ UNCHANGED <<settings, engine, group, broken, producer, serving, fl, stored,
                   twice, unsure, cut, troubles>>

Sample == producer # None /\ Push(producer) /\ UNCHANGED ending

\* An abort takes effect at the next await: a producer within a poll may still push.
LastSample == \E p \in ending : Push(p) /\ ending' = ending \ {p}

-----------------------------------------------------------------------------
(***************************************************************************)
(* The flusher.                                                            *)
(***************************************************************************)

Gone == [at |-> "none", stop |-> FALSE, drain |-> FALSE, aborted |-> FALSE,
         job |-> None, batch |-> <<>>]

\* The top of Flusher::run's loop: wait for the interval or a wake-up; if it is to drain,
\* go on at once, or wait only for the stop when nothing is queued.
Rest(x, q) ==
    IF x.aborted THEN Gone
    ELSE [x EXCEPT !.at = IF ~x.drain THEN "timed" ELSE IF q = <<>> THEN "last" ELSE "drain",
                   !.job = None, !.batch = <<>>]

\* flush_group: the next batch, or the end of the round.
Sending(x, job, q) ==
    IF q = <<>> \/ x.aborted THEN Rest(x, q)
    ELSE [x EXCEPT !.at = "insert", !.job = job, !.batch = Peeked(q)]

\* What a job sees of its queue: one that was given up is empty.
Queued(job) == IF group # None /\ group.q = job.q THEN rows ELSE <<>>

Job == [gen |-> group.gen, q |-> group.q, table |-> group.table]

\* round: the group as it is registered now.  A table that has not passed its check is
\* checked first.
RoundBegins(f) ==
    /\ fl[f].at = "timed" \/ (fl[f].at = "drain" /\ ~fl[f].stop)
    /\ group # None
    /\ \/ /\ group.ready /\ rows # <<>>
          /\ fl' = [fl EXCEPT ![f] = Sending(fl[f], Job, rows)]
       \/ /\ ~group.ready
          /\ fl' = [fl EXCEPT ![f].at = "check", ![f].job = Job]
    /\ UNCHANGED <<settings, engine, queue, producer, ending, serving, stored, history, troubles>>

\* A drain that finds the queue emptied waits for the stop.
DrainedDry(f) ==
    /\ fl[f].drain /\ fl[f].at \in {"timed", "drain"}
    /\ group = None \/ rows = <<>>
    /\ fl' = [fl EXCEPT ![f] = Rest(fl[f], <<>>)]
    /\ UNCHANGED <<settings, engine, queue, producer, ending, serving, stored, history, troubles>>

\* The marks go to the runtime the job was begun with, which may be registered no more.
Marked(f, g) == group' = IF group # None /\ group.gen = fl[f].job.gen THEN g ELSE group

\* check_table passes: mark_table_ready, and on to the rows.
CheckPasses(f) ==
    /\ fl[f].at = "check"
    /\ Marked(f, [group EXCEPT !.state = "running", !.ready = TRUE])
    /\ fl' = [fl EXCEPT ![f] = Sending(fl[f], fl[f].job, Queued(fl[f].job))]
    /\ UNCHANGED <<settings, engine, rows, dropped, broken, producer, ending, serving,
                   stored, history, troubles>>

\* The database commits the batch of an INSERT.
Written(f) ==
    LET into == fl[f].job.table
        sent == Contents(fl[f].batch)
    IN  /\ stored' = stored \cup {<<row, into>> : row \in sent}
        /\ twice' = twice \cup {row \in sent : \E u \in Tables : <<row, u>> \in stored}

\* The answer: acknowledge, mark_flushed, and take the next batch.
Answered(f) ==
    /\ fl[f].at = "insert"
    /\ Written(f)
    /\ LET job == fl[f].job
           ours == group # None /\ group.q = job.q
           left == IF ours THEN Acked(fl[f].batch) ELSE <<>>
       IN  /\ rows' = IF ours THEN left ELSE rows
           /\ Marked(f, [group EXCEPT !.state = "running"])
           /\ fl' = [fl EXCEPT ![f] = Sending(fl[f], job, left)]
    /\ UNCHANGED <<settings, engine, dropped, broken, producer, ending, serving,
                   made, strays, unsure, gone, cut, troubles>>

\* An INSERT ends without an answer: its transaction may have been committed.
Unanswered(f) ==
    \/ fl[f].at = "insert" /\ Written(f)
    \/ UNCHANGED <<stored, twice>>

\* A check or an INSERT fails or exceeds its 30 seconds.  A failure of the connection puts
\* the registered group of that connection into backoff; any other one is the job's own:
\* error.  Either way the table is checked again before the next rows.
Fails(f) ==
    /\ engine.at # "done" /\ fl[f].at \in {"check", "insert"} /\ troubles > 0
    /\ troubles' = troubles - 1
    /\ \/ group' = IF group = None THEN None ELSE [group EXCEPT !.state = "backoff", !.ready = FALSE]
       \/ Marked(f, [group EXCEPT !.state = "error", !.ready = FALSE])
    /\ fl' = [fl EXCEPT ![f] = Rest(fl[f], rows)]
    /\ Unanswered(f)
    /\ unsure' = (unsure \/ fl[f].at = "insert")
    /\ UNCHANGED <<settings, engine, rows, dropped, broken, producer, ending, serving,
                   made, strays, gone, cut>>

\* The stop is looked at between rounds, never within one; an abort lands at any await.
FlusherEnds(f) ==
    /\ \/ fl[f].stop /\ fl[f].at \in {"timed", "drain", "last"}
       \/ fl[f].aborted
    /\ fl' = [fl EXCEPT ![f] = Gone]
    /\ Unanswered(f)
    /\ unsure' = (unsure \/ fl[f].at = "insert")
    /\ UNCHANGED <<settings, engine, queue, producer, ending, serving,
                   made, strays, gone, cut, troubles>>

-----------------------------------------------------------------------------
(***************************************************************************)
(* The engine: settings.                                                   *)
(***************************************************************************)

\* plan_changes.  A group is made anew if its own settings changed or its connection
\* appeared or vanished; a connection whose contents changed leaves its group alone.
Connected(a) == a.conn # None
RestartsIfChanged(a, w) == a.table # w.table \/ a.spec # w.spec
Restarts(a, w) ==
    a.table # w.table \/ a.spec # w.spec \/ Connected(a) # Connected(w)
ConnStops(a, w) == Connected(a) /\ a.conn # w.conn
ConnStarts(a, w) == Connected(w) /\ a.conn # w.conn

\* queue_carries_over, for a group that can run.
CarriesWhenRunnable(a, w) == w.spec # None /\ ~ConnStops(a, w)
Carries(a, w) == a.table = w.table /\ w.spec # None /\ ~ConnStops(a, w)

\* The next generation of the registered runtime, on the same queue.
Fresh(gen, q, w) == [gen |-> gen, q |-> q, table |-> w.table, state |-> "running",
                     ready |-> FALSE]
NextOnACopy(w) == Fresh(engine.last + 1, engine.last + 1, w)
NextGeneration(w) == Fresh(engine.last + 1, group.q, w)

\* Worth waiting for: rows left, the group is running, its flusher is there.
WorthWaiting == group # None /\ rows # <<>> /\ group.state = "running" /\ serving # None

\* The settings fetched from the Hub are others than those applied.
\* apply_plan, 1: stop the producer; pass the queue on, or keep the group registered for a
\* last flush.  `waiting` says that 1.5 has to wait.
ApplyBegins(w) ==
    /\ engine.at = "run" /\ w # applied
    /\ changes > 0 /\ changes' = changes - 1
    /\ LET restart == Restarts(applied, w)
           carry == restart /\ group # None /\ Carries(applied, w)
           flush == restart /\ group # None /\ ~carry
       IN  /\ producer' = IF restart THEN None ELSE producer
           /\ ending' = IF restart /\ producer # None THEN ending \cup {producer} ELSE ending
           /\ group' = IF carry THEN NextGeneration(w) ELSE group
           /\ broken' = IF restart THEN None ELSE broken
           /\ engine' = [engine EXCEPT !.at = "flushing", !.to = w, !.flush = flush,
                                       !.waiting = flush /\ WorthWaiting,
                                       !.last = IF carry THEN engine.last + 1 ELSE engine.last,
                                       !.carried = IF restart THEN broken ELSE None]
    /\ UNCHANGED <<applied, rows, dropped, serving, fl, stored, history, troubles>>

\* apply_plan, after 1.5 (emptied, or shutdown_flush has passed): what is left is dropped
\* and counted; then 2: a connection that changed has its flusher asked to stop.
ApplyDiscards ==
    /\ engine.at = "flushing"
    /\ LET stops == ConnStops(applied, engine.to) /\ serving # None
       IN  /\ IF engine.flush
              THEN /\ group' = None /\ rows' = <<>> /\ dropped' = 0
                   /\ gone' = gone \cup Contents(rows)
                   /\ engine' = [engine EXCEPT !.at = IF stops THEN "stopping" ELSE "starting",
                                               !.flusher = IF stops THEN serving ELSE None,
                                               !.carried = dropped + Len(rows), !.waiting = FALSE]
              ELSE /\ engine' = [engine EXCEPT !.at = IF stops THEN "stopping" ELSE "starting",
                                               !.flusher = IF stops THEN serving ELSE None,
                                               !.waiting = FALSE]
                   /\ UNCHANGED <<group, rows, dropped, gone>>
           /\ serving' = IF stops THEN None ELSE serving
           /\ fl' = IF stops THEN [fl EXCEPT ![serving].stop = TRUE] ELSE fl
    /\ UNCHANGED <<settings, broken, producer, ending, stored,
                   made, strays, twice, unsure, cut, troubles>>

\* FlusherHandle::stop returns (or its handle is dropped): a task that has not ended by
\* then is aborted, and nobody waits for it any longer.
Dismissed(f) ==
    IF f = None \/ fl[f].at = "none" THEN fl ELSE [fl EXCEPT ![f].aborted = TRUE]
InsertCut(f) == f # None /\ fl[f].at = "insert"

FreeFlushers == {f \in Flushers : fl[f] = Gone}

\* apply_plan, 3 and 4: a connection that changed gets a flusher, a group that was stopped
\* a producer with the flusher to wake, or the group is broken.
ApplyStarts ==
    /\ engine.at \in {"stopping", "starting"}
    /\ LET w == engine.to
           new == ConnStarts(applied, w)
           count == IF engine.carried = None THEN 0 ELSE engine.carried
           runnable == w.spec # None /\ Connected(w)
       IN  \E f \in Flushers :
             /\ IF new THEN f \in FreeFlushers ELSE f = serving \/ serving = None
             /\ serving' = IF new THEN f ELSE serving
             /\ fl' = IF new THEN [Dismissed(engine.flusher) EXCEPT ![f] = [Gone EXCEPT !.at = "timed"]]
                      ELSE Dismissed(engine.flusher)
             /\ IF ~Restarts(applied, w)
                THEN UNCHANGED <<queue, producer>>
                ELSE IF ~runnable
                THEN /\ broken' = count
                     /\ UNCHANGED <<group, rows, dropped, producer>>
                ELSE /\ IF group # None
                        THEN UNCHANGED <<group, rows, dropped>>
                        ELSE /\ group' = Fresh(engine.last + 1, engine.last + 1, w)
                             /\ rows' = <<>> /\ dropped' = count
                     /\ producer' = [q |-> group'.q, table |-> w.table]
                     /\ UNCHANGED broken
    /\ applied' = engine.to
    /\ unsure' = (unsure \/ InsertCut(engine.flusher))
    /\ engine' = [engine EXCEPT !.at = "run", !.flush = FALSE, !.flusher = None, !.carried = None,
                                !.last = IF group' # None THEN group'.gen ELSE engine.last]
    /\ UNCHANGED <<changes, ending, stored, made, strays, twice, gone, cut, troubles>>

-----------------------------------------------------------------------------
(***************************************************************************)
(* The engine: the stop.                                                   *)
(***************************************************************************)

\* run_inner selects the stop against apply_plan: at the two awaits of it the plan is
\* dropped, with the counts it carries and the handle of the flusher it was stopping.
\* Then shutdown, 1 to 3: stop the producer, ask the flusher to drain.
ShutdownBegins ==
    /\ engine.at \in {"run", "stopping"} \/ (engine.at = "flushing" /\ engine.waiting)
    /\ cut' = IF engine.carried = None THEN cut ELSE cut + engine.carried
    /\ unsure' = (unsure \/ InsertCut(engine.flusher))
    /\ ending' = IF producer = None THEN ending ELSE ending \cup {producer}
    /\ producer' = None
    /\ fl' = IF serving = None THEN Dismissed(engine.flusher)
             ELSE [Dismissed(engine.flusher) EXCEPT ![serving].drain = TRUE]
    /\ engine' = [engine EXCEPT !.at = "draining", !.to = applied, !.flush = FALSE, !.waiting = FALSE,
                                !.carried = None, !.flusher = None]
    /\ UNCHANGED <<settings, queue, serving, stored, made, strays, twice, gone, troubles>>

\* 4: the queue is empty or shutdown_flush has passed; ask the flusher to stop.
DrainEnds ==
    /\ engine.at = "draining"
    /\ fl' = IF serving = None THEN fl ELSE [fl EXCEPT ![serving].stop = TRUE]
    /\ engine' = [engine EXCEPT !.at = "closing", !.flusher = serving]
    /\ serving' = None
    /\ UNCHANGED <<settings, queue, producer, ending, stored, history, troubles>>

\* 4 to 6: the flusher has ended or is aborted; what is left is dropped and counted, the
\* count goes to the Hub, and the process ends with all its tasks.
CountedReport ==
    /\ rows' = <<>>
    /\ dropped' = dropped + Len(rows)
    /\ gone' = gone \cup Contents(rows)
Report ==
    /\ engine.at = "closing"
    /\ fl' = Dismissed(engine.flusher)
    /\ unsure' = (unsure \/ InsertCut(engine.flusher))
    /\ CountedReport
    /\ engine' = [engine EXCEPT !.at = "done", !.flusher = None]
    /\ UNCHANGED <<settings, group, broken, producer, ending, serving, stored,
                   made, strays, twice, cut, troubles>>

-----------------------------------------------------------------------------
\* The settings have been applied once.
Init ==
    LET f == CHOOSE g \in Flushers : TRUE
    IN  /\ applied = Initial
        /\ engine = [at |-> "run", to |-> Initial, flush |-> FALSE, waiting |-> FALSE,
                     carried |-> None, flusher |-> None, last |-> 1]
        /\ group = [gen |-> 1, q |-> 1, table |-> Initial.table, state |-> "running",
                    ready |-> FALSE]
        /\ rows = <<>> /\ dropped = 0 /\ broken = None
        /\ producer = [q |-> 1, table |-> Initial.table] /\ ending = {}
        /\ serving = f
        /\ fl = [g \in Flushers |-> IF g = f THEN [Gone EXCEPT !.at = "timed"] ELSE Gone]
        /\ stored = {} /\ made = <<>> /\ strays = {} /\ twice = {} /\ gone = {}
        /\ unsure = FALSE /\ cut = 0
        /\ changes = Changes /\ troubles = Troubles

FlusherWorks(f) ==
    /\ engine.at # "done"
    /\ \/ RoundBegins(f) \/ DrainedDry(f) \/ CheckPasses(f) \/ Answered(f)
       \/ FlusherEnds(f)

EngineWorks ==
    ApplyDiscards \/ ApplyStarts \/ DrainEnds \/ Report

Next ==
    \/ Sample \/ LastSample
    \/ \E f \in Flushers : FlusherWorks(f) \/ Fails(f)
    \/ EngineWorks \/ ShutdownBegins
    \/ \E w \in Settings : ApplyBegins(w)

\* Tasks go on, timers fire, and every operation of the database ends within its 30
\* seconds: with its answer, or with a failure.  Nothing makes the settings change.
Fairness ==
    /\ \A f \in Flushers : WF_vars(FlusherWorks(f))
    /\ WF_vars(EngineWorks)

Spec == Init /\ [][Next]_vars
LiveSpec == Spec /\ Fairness

-----------------------------------------------------------------------------
(***************************************************************************)
(* Properties.                                                             *)
(***************************************************************************)

(* Every variable has its type: the queue never exceeds queue_max_rows, what a flusher *)
(* sends never exceeds batch_size, and there is a queue only while a group is registered. *)
EngineStates == [at: {"run", "flushing", "stopping", "starting", "draining", "closing", "done"},
                 to: Configs, flush: BOOLEAN, waiting: BOOLEAN, carried: Nat \cup {None},
                 flusher: Flushers \cup {None}, last: Nat]
FlusherStates == [at: {"none", "timed", "drain", "last", "check", "insert"}, stop: BOOLEAN,
                  drain: BOOLEAN, aborted: BOOLEAN, job: Jobs \cup {None}, batch: Seq(Nat)]
TypeOK ==
    /\ applied \in Configs /\ engine \in EngineStates
    /\ group \in Groups \cup {None} /\ rows \in Seq(Nat) /\ dropped \in Nat /\ broken \in Nat \cup {None}
    /\ Len(rows) <= MaxRows /\ (group = None => rows = <<>>)
    /\ producer \in Producers \cup {None} /\ ending \subseteq Producers
    /\ serving \in Flushers \cup {None} /\ fl \in [Flushers -> FlusherStates]
    /\ \A f \in Flushers : /\ Len(fl[f].batch) <= Batch
                           /\ fl[f].at \in {"check", "insert"} <=> fl[f].job # None
    /\ stored \subseteq Nat \X Tables /\ made \in Seq(Tables)
    /\ strays \subseteq Nat /\ twice \subseteq Nat /\ gone \subseteq Nat
    /\ unsure \in BOOLEAN /\ cut \in Nat /\ changes \in 0..Changes /\ troubles \in 0..Troubles

StoredRows == {p[1] : p \in stored}
Lost == (DOMAIN made) \ (StoredRows \cup Contents(rows) \cup gone \cup strays)

\* What the sink says it has dropped: the queue, a broken group, or what apply_plan carries.
Counted ==
    IF group # None THEN dropped
    ELSE IF broken # None THEN broken
    ELSE IF engine.carried # None THEN engine.carried
    ELSE 0

(* A row that was sampled is stored, is still queued, or was dropped and counted: an        *)
(* acknowledgement never takes rows that were not sent, although the queue may have         *)
(* overflowed or been passed on while the INSERT was under way, and the count survives      *)
(* every change of the settings.  (But for rows that an aborted producer put into a queue   *)
(* already given up, and counts that went with a plan that was cut off.)                    *)
NothingVanishes == Lost = {} /\ Cardinality(gone) = Counted + cut

\* A row goes to the table its group had when it was sampled, whatever happens to the
\* settings while it waits.
RowsInTheirTable == \A p \in stored : p[2] = made[p[1]]

\* As long as no INSERT ended without an answer, no row is stored twice: passing the queue
\* on to the next generation, or the flusher to the next connection, resends nothing.
SentOnce == ~unsure => twice = {}

(* What a change of the settings hands on, rows and flushers, stores every row where it     *)
(* belongs, and once.                                                                       *)
StoredRight == RowsInTheirTable /\ SentOnce

(* Once the settings rest and the database answers, they are applied and nothing stays      *)
(* queued; once a stop is asked for, the sidecar reports and ends. *)
Settles == <>[](engine.at = "done" \/ (engine.at = "run" /\ rows = <<>>))
=============================================================================
