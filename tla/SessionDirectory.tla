-------------------------- MODULE SessionDirectory --------------------------
(***************************************************************************)
(* The session directory of crates/banto-broker/src/lib.rs: two maps, each *)
(* under a mutex of its own, from a connection to the handle of its broker *)
(* task and to the entry that can stop and join it.  ensure, remove,       *)
(* stop_and_join and shutdown run on any thread; between two locks another *)
(* thread may take either.  stop_and_join and shutdown await a join, and a *)
(* caller may be dropped there (the hub calls them from HTTP handlers).    *)
(*                                                                         *)
(* A task is what BrokerTask shows it to be: it runs until its own signal, *)
(* the shutdown signal or the loss of its last handle reaches it, then     *)
(* leaves (still holding the device) and is gone.                          *)
(***************************************************************************)
EXTENDS Naturals, FiniteSets

CONSTANTS
    Callers,    \* threads that use the directory
    Conns,      \* connection ids
    Ops,        \* the operations they use
    MaxTask     \* bound: tasks spawned

ASSUME DirectoryAssumption ==
    /\ Ops \subseteq {"ensure", "remove", "stop", "shutdown"}
    /\ Conns # {} /\ MaxTask \in Nat

Tasks  == 1..MaxTask
NoTask == 0

VARIABLES
    handles,    \* the handle map: the task of each connection, or NoTask
    tasks,      \* the task-entry map
    nTask,      \* tasks spawned so far
    connOf,     \* connOf[t]: the connection task t was spawned for
    run,        \* run[t]: none, running, leaving, gone
    signal,     \* signal[t]: stop_tx untouched (armed), sent or dropped
    down,       \* the shared shutdown value
    seen,       \* seen[t]: the shutdown value its receiver counts as seen
    pc,         \* pc[c]: what the caller does next
    arg,        \* arg[c]: the connection it operates on
    took,       \* took[c]: the entry it removed from the task map
    drain,      \* entries the shutdown has taken and not yet joined
    got,        \* got[c]: the handle clone the caller holds
    unjoined,   \* tasks not yet gone whose join was dropped with its caller (history)
    turns       \* the callers took turns and none used remove (history)

mapVars  == <<handles, tasks>>
taskVars == <<nTask, connOf, run, signal, seen>>
callVars == <<pc, arg, took, got>>
histVars == <<unjoined, turns>>
vars == <<mapVars, taskVars, down, drain, callVars, histVars>>

AnyConn == CHOOSE k \in Conns : TRUE

Init ==
    /\ handles = [k \in Conns |-> NoTask] /\ tasks = [k \in Conns |-> NoTask]
    /\ nTask = 0
    /\ connOf = [t \in Tasks |-> AnyConn]
    /\ run = [t \in Tasks |-> "none"] /\ signal = [t \in Tasks |-> "armed"]
    /\ down = FALSE /\ seen = [t \in Tasks |-> FALSE]
    /\ pc = [c \in Callers |-> "idle"]
    /\ arg = [c \in Callers |-> AnyConn]
    /\ took = [c \in Callers |-> NoTask] /\ got = [c \in Callers |-> NoTask]
    /\ drain = {}
    /\ unjoined = {} /\ turns = TRUE

Goto(c, l) == pc' = [pc EXCEPT ![c] = l]

(* What dropping or replacing a task's entry does to its stop channel.     *)
DropLeavesArmed(t) == signal' = signal
DropEntry(t) ==
    signal' = IF t # NoTask /\ signal[t] = "armed" THEN [signal EXCEPT ![t] = "dropped"] ELSE signal

-----------------------------------------------------------------------------
(* ensure_with, from the handle lock on (both maps are written under it).  *)
(* The new task subscribes to the shutdown watch: it counts the present    *)
(* value as seen.                                                          *)
Fresh == nTask + 1

Ensure(c, k) ==
    /\ "ensure" \in Ops /\ pc[c] = "idle"
    /\ IF handles[k] # NoTask
         THEN /\ got' = [got EXCEPT ![c] = handles[k]]
              /\ UNCHANGED <<mapVars, taskVars>>
         ELSE /\ nTask < MaxTask
              /\ nTask' = Fresh
              /\ connOf' = [connOf EXCEPT ![Fresh] = k]
              /\ run' = [run EXCEPT ![Fresh] = "running"]
              /\ seen' = [seen EXCEPT ![Fresh] = down]
              /\ handles' = [handles EXCEPT ![k] = Fresh]
              /\ tasks' = [tasks EXCEPT ![k] = Fresh]
              /\ DropEntry(tasks[k])
              /\ got' = [got EXCEPT ![c] = Fresh]
    /\ UNCHANGED <<down, drain, pc, arg, took>>

(* The caller lets go of its handle clone.                                 *)
Release(c) ==
    /\ pc[c] = "idle" /\ got[c] # NoTask
    /\ got' = [got EXCEPT ![c] = NoTask]
    /\ UNCHANGED <<mapVars, taskVars, down, drain, pc, arg, took>>

KeepHandle(k) == handles' = handles
ForgetHandle(k) == handles' = [handles EXCEPT ![k] = NoTask]

(* remove: the handle first, then the entry of whoever is there by then.   *)
(* (A call that returns forgets its argument.)                             *)
Remove1(c, k) ==
    /\ "remove" \in Ops /\ pc[c] = "idle"
    /\ arg' = [arg EXCEPT ![c] = k]
    /\ ForgetHandle(k)
    /\ Goto(c, "remove2")
    /\ UNCHANGED <<tasks, taskVars, down, drain, took, got>>

Remove2(c) ==
    /\ pc[c] = "remove2"
    /\ DropEntry(tasks[arg[c]])
    /\ tasks' = [tasks EXCEPT ![arg[c]] = NoTask]
    /\ Goto(c, "idle") /\ arg' = [arg EXCEPT ![c] = AnyConn]
    /\ UNCHANGED <<handles, nTask, connOf, run, seen, down, drain, took, got>>

(* stop_and_join: the entry, the handle, the signal, the join.             *)
Stop1(c, k) ==
    /\ "stop" \in Ops /\ pc[c] = "idle"
    /\ arg' = [arg EXCEPT ![c] = k]
    /\ took' = [took EXCEPT ![c] = tasks[k]]
    /\ tasks' = [tasks EXCEPT ![k] = NoTask]
    /\ Goto(c, "stop2")
    /\ UNCHANGED <<handles, taskVars, down, drain, got>>

SendStopNever(t) == signal' = signal
SendStop(t) == signal' = IF t = NoTask THEN signal ELSE [signal EXCEPT ![t] = "sent"]

Stop2(c) ==
    /\ pc[c] = "stop2"
    /\ ForgetHandle(arg[c])
    /\ SendStop(took[c])
    /\ Goto(c, "joining")
    /\ UNCHANGED <<tasks, nTask, connOf, run, seen, down, drain, arg, took, got>>

JoinedEarly(t) == TRUE
Joined(t) == t # NoTask => run[t] = "gone"

Join(c) ==
    /\ pc[c] = "joining" /\ Joined(took[c])
    /\ took' = [took EXCEPT ![c] = NoTask]
    /\ Goto(c, "idle") /\ arg' = [arg EXCEPT ![c] = AnyConn]
    /\ UNCHANGED <<mapVars, taskVars, down, drain, got>>

(* shutdown, once: the signal, the handles, the entries, then one entry    *)
(* after the other.                                                        *)
Shutdown1(c) ==
    /\ "shutdown" \in Ops /\ pc[c] = "idle" /\ ~down
    /\ down' = TRUE
    /\ Goto(c, "down2")
    /\ UNCHANGED <<mapVars, taskVars, drain, arg, took, got>>

Shutdown2(c) ==
    /\ pc[c] = "down2"
    /\ handles' = [k \in Conns |-> NoTask]
    /\ Goto(c, "down3")
    /\ UNCHANGED <<tasks, taskVars, down, drain, arg, took, got>>

EntriesOfAllSlots == {tasks[k] : k \in Conns}
Entries == {tasks[k] : k \in Conns} \ {NoTask}

Shutdown3(c) ==
    /\ pc[c] = "down3"
    /\ drain' = Entries
    /\ tasks' = [k \in Conns |-> NoTask]
    /\ Goto(c, "draining")
    /\ UNCHANGED <<handles, taskVars, down, arg, took, got>>

DrainNext(c) ==
    /\ pc[c] = "draining" /\ took[c] = NoTask
    /\ \E t \in drain :
         /\ SendStop(t)
         /\ took' = [took EXCEPT ![c] = t]
    /\ UNCHANGED <<mapVars, nTask, connOf, run, seen, down, drain, pc, arg, got>>

DrainJoin(c) ==
    /\ pc[c] = "draining" /\ took[c] # NoTask /\ Joined(took[c])
    /\ drain' = drain \ {took[c]}
    /\ took' = [took EXCEPT ![c] = NoTask]
    /\ UNCHANGED <<mapVars, taskVars, down, pc, arg, got>>

DrainDone(c) ==
    /\ pc[c] = "draining" /\ drain = {}
    /\ Goto(c, "idle")
    /\ UNCHANGED <<mapVars, taskVars, down, drain, arg, took, got>>

(* The caller's future is dropped at the join: a JoinHandle that goes away *)
(* detaches its task, and the entries a shutdown has not come to lose      *)
(* their sender.  (No other place awaits anything.)                        *)
LetGo(c) == {took[c]} \cup (IF pc[c] = "draining" THEN drain ELSE {})

Abandon(c) ==
    /\ pc[c] \in {"joining", "draining"} /\ took[c] # NoTask
    /\ signal' = [t \in Tasks |->
                     IF t \in LetGo(c) /\ signal[t] = "armed" THEN "dropped" ELSE signal[t]]
    /\ unjoined' = unjoined \cup {t \in LetGo(c) : run[t] # "gone"}
    /\ drain' = IF pc[c] = "draining" THEN {} ELSE drain
    /\ took' = [took EXCEPT ![c] = NoTask]
    /\ Goto(c, "idle") /\ arg' = [arg EXCEPT ![c] = AnyConn]
    /\ UNCHANGED <<mapVars, nTask, connOf, run, seen, down, got>>

-----------------------------------------------------------------------------
(* A broker task, seen from the directory.                                 *)
Held(t) == (\E k \in Conns : handles[k] = t) \/ (\E c \in Callers : got[c] = t)

(* changed() resolves for a value newer than the seen one, or, of the stop *)
(* watch, for a dropped sender.                                            *)
ToldToStop(t) == signal[t] # "armed" \/ (down /\ ~seen[t])

TaskBreak(t) ==
    /\ run[t] = "running"
    /\ ToldToStop(t) \/ ~Held(t)
    /\ run' = [run EXCEPT ![t] = "leaving"]
    /\ UNCHANGED <<mapVars, nTask, connOf, signal, seen, down, drain, callVars>>

TaskGone(t) ==
    /\ run[t] = "leaving"
    /\ run' = [run EXCEPT ![t] = "gone"]
    /\ UNCHANGED <<mapVars, nTask, connOf, signal, seen, down, drain, callVars>>

-----------------------------------------------------------------------------
ShutdownRest(c) ==
    Shutdown2(c) \/ Shutdown3(c) \/ DrainNext(c) \/ DrainJoin(c) \/ DrainDone(c)

Quiet == \A c \in Callers : pc[c] = "idle"

(* The hub changes the session set under rebuild_lock and stops it under   *)
(* the controller's transition lock, one operation at a time, and never    *)
(* calls remove; other callers of the crate may do as they like.           *)
Begin(c) ==
    /\ \/ Shutdown1(c)
       \/ \E k \in Conns : Ensure(c, k) \/ Remove1(c, k) \/ Stop1(c, k)
    /\ turns' = (turns /\ Quiet /\ pc'[c] # "remove2") /\ UNCHANGED unjoined
Finish(c) == Remove2(c) \/ Stop2(c) \/ Join(c)
GoOn(c) == (Finish(c) \/ ShutdownRest(c)) /\ UNCHANGED histVars
TaskStep(t) ==
    /\ TaskBreak(t) \/ TaskGone(t)
    /\ unjoined' = {u \in unjoined : run'[u] # "gone"}
    /\ UNCHANGED turns

Next ==
    \/ \E c \in Callers : Begin(c) \/ (Release(c) /\ UNCHANGED histVars) \/ GoOn(c)
    \/ \E c \in Callers : Abandon(c) /\ UNCHANGED turns
    \/ \E t \in Tasks : TaskStep(t)

Spec == Init /\ [][Next]_vars

(* A call that was made runs on (it need not be dropped), and a task acts  *)
(* on its signals (BrokerTask!StopEndsTask).                               *)
LiveSpec ==
    /\ Spec
    /\ \A c \in Callers : WF_vars(GoOn(c))
    /\ \A t \in Tasks : WF_vars(TaskStep(t))
-----------------------------------------------------------------------------
(* Properties.                                                             *)

TypeOK ==
    /\ handles \in [Conns -> Tasks \cup {NoTask}] /\ tasks \in [Conns -> Tasks \cup {NoTask}]
    /\ nTask \in 0..MaxTask /\ connOf \in [Tasks -> Conns]
    /\ run \in [Tasks -> {"none", "running", "leaving", "gone"}]
    /\ signal \in [Tasks -> {"armed", "sent", "dropped"}]
    /\ down \in BOOLEAN /\ seen \in [Tasks -> BOOLEAN]
    /\ pc \in [Callers -> {"idle", "remove2", "stop2", "joining", "down2", "down3", "draining"}]
    /\ arg \in [Callers -> Conns] /\ took \in [Callers -> Tasks \cup {NoTask}]
    /\ got \in [Callers -> Tasks \cup {NoTask}] /\ drain \subseteq Tasks
    /\ unjoined \subseteq Tasks /\ turns \in BOOLEAN

Live(t) == run[t] \in {"running", "leaving"}

\* Two broker tasks never hold the port of one connection at once (the device accepts one
\* session, so the second could not even connect), unless the caller that was joining the
\* first was dropped: the map is empty by then, and the next ensure does not wait.  Even then
\* the first has been told to stop.
OneTaskPerPort ==
    /\ turns => \A t, u \in Tasks \ unjoined :
                  Live(t) /\ Live(u) /\ connOf[t] = connOf[u] => t = u
    /\ \A t \in unjoined : signal[t] # "armed"

(* Whatever the callers do and in whatever order, no task runs on out of   *)
(* reach: it has been told to stop, or someone can still stop it.          *)
NoTaskOutOfReach ==
    \A t \in Tasks : run[t] = "running" /\ ~ToldToStop(t) =>
        t \in drain \/ (\E k \in Conns : tasks[k] = t) \/ (\E c \in Callers : took[c] = t)

\* The handle the directory would hand out between operations belongs to a task that it can
\* stop and that nobody has told to stop.
HandleIsLive ==
    turns /\ Quiet /\ ~down =>
        \A k \in Conns : handles[k] = tasks[k] /\ (handles[k] # NoTask => ~ToldToStop(handles[k]))

(* As long as the callers take turns a connection has one task besides     *)
(* those whose join was dropped, which are on their way out; and the       *)
(* handle on offer is that of a task that runs and can be stopped.         *)
OneLiveTask == OneTaskPerPort /\ HandleIsLive

(* stop_and_join and shutdown return, whatever clones of handles are kept. *)
OperationsReturn == \A c \in Callers : pc[c] # "idle" ~> pc[c] = "idle"

(* After a shutdown every task the directory ever created comes to an end. *)
ShutdownEndsAll == down ~> \A t \in Tasks : ~Live(t)
=============================================================================
