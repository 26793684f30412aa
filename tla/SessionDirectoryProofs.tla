------------------------ MODULE SessionDirectoryProofs ------------------------
(***************************************************************************)
(* Theorems about SessionDirectory for every set of callers, connections   *)
(* and tasks, and every choice of the operations used.                     *)
(*                                                                         *)
(* NoTaskOutOfReach is not inductive: an operation that overwrites what a  *)
(* caller took, or what the shutdown drains, would lose a task.  IInv adds *)
(* why that never happens: a caller holds an entry only inside the part of *)
(* an operation that uses it, and one caller at most is shutting down.     *)
(* OneLiveTask needs, for as long as the callers take turns, where a live  *)
(* task may be, and that the two maps differ only within an operation:     *)
(* Orderly.                                                                *)
(***************************************************************************)
EXTENDS SessionDirectory, TLAPS

ShuttingDown(c) == pc[c] \in {"down2", "down3", "draining"}

(* An entry is in a caller's hands only from the removal to the join, and  *)
(* the one a shutdown is joining is still among those it drains.           *)
TookInside ==
    \A c \in Callers :
      /\ pc[c] \in {"idle", "remove2", "down2", "down3"} => took[c] = NoTask
      /\ pc[c] = "draining" /\ took[c] # NoTask => took[c] \in drain

(* The shutdown is one caller's, and only it has entries to drain.         *)
OneShutdown ==
    /\ \A c \in Callers : ShuttingDown(c) => down
    /\ \A c, d \in Callers : ShuttingDown(c) /\ ShuttingDown(d) => c = d
    /\ drain # {} => \E c \in Callers : pc[c] = "draining"

(* Somebody can still stop task t.                                         *)
Reach(t) == t \in drain \/ (\E k \in Conns : tasks[k] = t) \/ (\E c \in Callers : took[c] = t)

IInv == TypeOK /\ TookInside /\ OneShutdown /\ NoTaskOutOfReach

USE DEF Tasks, NoTask

-----------------------------------------------------------------------------
(* The types hold initially.                                               *)
LEMMA InitTypeOK == Init => TypeOK
<1>1. AnyConn \in Conns
  BY DirectoryAssumption DEF AnyConn
<1> SUFFICES ASSUME Init PROVE TypeOK
  OBVIOUS
<1>2. handles \in [Conns -> Tasks \cup {NoTask}] /\ tasks \in [Conns -> Tasks \cup {NoTask}]
  BY DEF Init
<1>3. nTask \in 0..MaxTask
  BY DirectoryAssumption DEF Init
<1>7. drain \subseteq Tasks
  BY DEF Init
<1>8. down \in BOOLEAN /\ turns \in BOOLEAN /\ unjoined \subseteq Tasks
  BY DEF Init
<1>4. connOf \in [Tasks -> Conns] /\ arg \in [Callers -> Conns]
  BY <1>1 DEF Init
<1>5. /\ run \in [Tasks -> {"none", "running", "leaving", "gone"}]
      /\ signal \in [Tasks -> {"armed", "sent", "dropped"}]
      /\ seen \in [Tasks -> BOOLEAN]
  BY DEF Init
<1>6. /\ pc \in [Callers -> {"idle", "remove2", "stop2", "joining", "down2", "down3", "draining"}]
      /\ took \in [Callers -> Tasks \cup {NoTask}] /\ got \in [Callers -> Tasks \cup {NoTask}]
  BY DEF Init
<1> QED
  BY <1>2, <1>3, <1>4, <1>5, <1>6, <1>7, <1>8 DEF TypeOK

(* No step leaves the types.                                               *)
LEMMA StepTypeOK == TypeOK /\ [Next]_vars => TypeOK'
<1> SUFFICES ASSUME TypeOK, [Next]_vars PROVE TypeOK'
  OBVIOUS
<1> USE DirectoryAssumption DEF TypeOK
<1>0. turns' \in BOOLEAN /\ unjoined' \subseteq Tasks
  <2>1. turns' \in BOOLEAN
    BY DEF Next, Begin, GoOn, TaskStep, vars, histVars
  <2>2. ASSUME NEW c \in Callers, Abandon(c) PROVE unjoined' \subseteq Tasks
    <3>1. LetGo(c) \subseteq Tasks
      BY <2>2 DEF Abandon, LetGo
    <3> QED
      BY <2>2, <3>1 DEF Abandon
  <2> QED
    BY <2>1, <2>2 DEF Next, Begin, GoOn, TaskStep, vars, histVars
<1> USE <1>0
<1>1. ASSUME NEW c \in Callers, NEW k \in Conns, Ensure(c, k) PROVE TypeOK'
  <2>1. CASE handles[k] # NoTask
    BY <1>1, <2>1 DEF Ensure, mapVars, taskVars
  <2>2. CASE handles[k] = NoTask
    <3>1. Fresh \in 1..MaxTask
      BY <1>1, <2>2 DEF Ensure, Fresh
    <3>2. signal' \in [Tasks -> {"armed", "sent", "dropped"}]
      <4>1. DropEntry(tasks[k])
        BY <1>1, <2>2 DEF Ensure
      <4> QED
        BY <4>1 DEF DropEntry
    <3>10. /\ nTask' = Fresh /\ connOf' = [connOf EXCEPT ![Fresh] = k]
           /\ run' = [run EXCEPT ![Fresh] = "running"] /\ seen' = [seen EXCEPT ![Fresh] = down]
           /\ handles' = [handles EXCEPT ![k] = Fresh] /\ tasks' = [tasks EXCEPT ![k] = Fresh]
           /\ got' = [got EXCEPT ![c] = Fresh]
      BY <1>1, <2>2, Zenon DEF Ensure
    <3>3. handles' \in [Conns -> Tasks \cup {NoTask}]
      BY <3>1, <3>10
    <3>5. tasks' \in [Conns -> Tasks \cup {NoTask}]
      BY <3>1, <3>10
    <3>6. got' \in [Callers -> Tasks \cup {NoTask}]
      BY <3>1, <3>10
    <3>4. nTask' \in 0..MaxTask
      BY <3>1, <3>10
    <3>7. connOf' \in [Tasks -> Conns]
      BY <3>1, <3>10
    <3>8. run' \in [Tasks -> {"none", "running", "leaving", "gone"}]
      BY <3>1, <3>10
    <3>9. seen' \in [Tasks -> BOOLEAN]
      BY <3>1, <3>10
    <3> QED
      BY <1>1, <3>2, <3>3, <3>4, <3>5, <3>6, <3>7, <3>8, <3>9 DEF Ensure
  <2> QED
    BY <2>1, <2>2
<1>2. ASSUME NEW c \in Callers, NEW k \in Conns, Remove1(c, k) PROVE TypeOK'
  BY <1>2 DEF Remove1, ForgetHandle, Goto, taskVars
<1>9. ASSUME NEW c \in Callers, NEW k \in Conns, Stop1(c, k) PROVE TypeOK'
  <2>1. took' \in [Callers -> Tasks \cup {NoTask}] /\ tasks' \in [Conns -> Tasks \cup {NoTask}]
    BY <1>9 DEF Stop1
  <2> QED
    BY <1>9, <2>1 DEF Stop1, Goto, taskVars
<1>3. ASSUME NEW c \in Callers, Shutdown1(c) PROVE TypeOK'
  BY <1>3 DEF Shutdown1, Goto, mapVars, taskVars
<1>4. ASSUME NEW c \in Callers, Release(c) PROVE TypeOK'
  BY <1>4 DEF Release, mapVars, taskVars
<1>5. ASSUME NEW c \in Callers, Finish(c) PROVE TypeOK'
  <2>0. AnyConn \in Conns
    BY DirectoryAssumption DEF AnyConn
  <2>1. CASE Remove2(c)
    BY <2>0, <2>1 DEF Remove2, DropEntry, Goto
  <2>2. CASE Stop2(c)
    BY <2>2 DEF Stop2, SendStop, ForgetHandle, Goto
  <2>3. CASE Join(c)
    BY <2>0, <2>3 DEF Join, Goto, mapVars, taskVars
  <2> QED
    BY <1>5, <2>1, <2>2, <2>3 DEF Finish
<1>6. ASSUME NEW c \in Callers, ShutdownRest(c) PROVE TypeOK'
  <2>1. CASE Shutdown2(c)
    BY <2>1 DEF Shutdown2, Goto, taskVars
  <2>2. CASE Shutdown3(c)
    BY <2>2 DEF Shutdown3, Entries, Goto, taskVars
  <2>3. CASE DrainNext(c)
    BY <2>3 DEF DrainNext, SendStop, mapVars
  <2>4. CASE DrainJoin(c) \/ DrainDone(c)
    BY <2>4 DEF DrainJoin, DrainDone, Goto, mapVars, taskVars
  <2> QED
    BY <1>6, <2>1, <2>2, <2>3, <2>4 DEF ShutdownRest
<1>7. ASSUME NEW t \in Tasks, TaskStep(t) PROVE TypeOK'
  BY <1>7 DEF TaskStep, TaskBreak, TaskGone, mapVars, callVars
<1>8. CASE UNCHANGED vars
  BY <1>8 DEF vars, mapVars, taskVars, callVars
<1>10. ASSUME NEW c \in Callers, Abandon(c) PROVE TypeOK'
  <2>1. signal' \in [Tasks -> {"armed", "sent", "dropped"}]
    BY <1>10 DEF Abandon
  <2>2. /\ pc' \in [Callers -> {"idle", "remove2", "stop2", "joining", "down2", "down3", "draining"}]
        /\ arg' \in [Callers -> Conns] /\ took' \in [Callers -> Tasks \cup {NoTask}]
        /\ drain' \subseteq Tasks
    BY <1>10 DEF Abandon, Goto, AnyConn
  <2> QED
    BY <1>10, <2>1, <2>2 DEF Abandon, mapVars
<1> QED
  BY <1>1, <1>2, <1>3, <1>4, <1>5, <1>6, <1>7, <1>8, <1>9, <1>10 DEF Next, Begin, GoOn

(* Every variable keeps its type in every behaviour of the directory.      *)
THEOREM TypeCorrect == Spec => []TypeOK
<1>1. Init => TypeOK
  BY InitTypeOK
<1>2. TypeOK /\ [Next]_vars => TypeOK'
  BY StepTypeOK
<1> QED
  BY <1>1, <1>2, PTL DEF Spec

-----------------------------------------------------------------------------
(* An entry stays in a caller's hands only where the operation uses it.    *)
LEMMA StepTookInside == TypeOK /\ OneShutdown /\ TookInside /\ [Next]_vars => TookInside'
<1> SUFFICES ASSUME TypeOK, OneShutdown, TookInside, [Next]_vars PROVE TookInside'
  OBVIOUS
<1> USE DEF TypeOK, TookInside
<1>1. ASSUME NEW c \in Callers, NEW k \in Conns, Ensure(c, k) PROVE TookInside'
  BY <1>1 DEF Ensure
<1>2. ASSUME NEW c \in Callers, NEW k \in Conns, Remove1(c, k) PROVE TookInside'
  BY <1>2 DEF Remove1, Goto
<1>3. ASSUME NEW c \in Callers, NEW k \in Conns, Stop1(c, k) PROVE TookInside'
  BY <1>3 DEF Stop1, Goto
<1>4. ASSUME NEW c \in Callers, Shutdown1(c) PROVE TookInside'
  BY <1>4 DEF Shutdown1, Goto
<1>5. ASSUME NEW c \in Callers, Release(c) PROVE TookInside'
  BY <1>5 DEF Release
<1>6. ASSUME NEW c \in Callers, Finish(c) PROVE TookInside'
  <2>1. CASE Remove2(c)
    BY <2>1 DEF Remove2, Goto
  <2>2. CASE Stop2(c)
    BY <2>2 DEF Stop2, Goto
  <2>3. CASE Join(c)
    BY <2>3 DEF Join, Goto
  <2> QED
    BY <1>6, <2>1, <2>2, <2>3 DEF Finish
<1>7. ASSUME NEW c \in Callers, ShutdownRest(c) PROVE TookInside'
  <2>1. CASE Shutdown2(c)
    BY <2>1 DEF Shutdown2, Goto
  <2>5. CASE Shutdown3(c)
    <3>1. \A d \in Callers : d # c => pc[d] # "draining"
      BY <2>5 DEF Shutdown3, OneShutdown, ShuttingDown
    <3> QED
      BY <2>5, <3>1 DEF Shutdown3, Goto
  <2>2. CASE DrainNext(c)
    BY <2>2 DEF DrainNext
  <2>3. CASE DrainJoin(c)
    <3>1. \A d \in Callers : d # c => pc[d] # "draining"
      BY <2>3 DEF DrainJoin, OneShutdown, ShuttingDown
    <3> QED
      BY <2>3, <3>1 DEF DrainJoin
  <2>4. CASE DrainDone(c)
    BY <2>4 DEF DrainDone, Goto
  <2> QED
    BY <1>7, <2>1, <2>2, <2>3, <2>4, <2>5 DEF ShutdownRest
<1>8. ASSUME NEW t \in Tasks, TaskStep(t) PROVE TookInside'
  BY <1>8 DEF TaskStep, TaskBreak, TaskGone, callVars
<1>9. CASE UNCHANGED vars
  BY <1>9 DEF vars, callVars
<1>10. ASSUME NEW c \in Callers, Abandon(c) PROVE TookInside'
  <2>1. pc[c] = "draining" => \A d \in Callers : d # c => pc[d] # "draining"
    BY DEF OneShutdown, ShuttingDown
  <2> QED
    BY <1>10, <2>1 DEF Abandon, Goto
<1> QED
  BY <1>1, <1>2, <1>3, <1>4, <1>5, <1>6, <1>7, <1>8, <1>9, <1>10 DEF Next, Begin, GoOn

(* The shutdown stays one caller's.                                        *)
LEMMA StepOneShutdown == TypeOK /\ OneShutdown /\ [Next]_vars => OneShutdown'
<1> SUFFICES ASSUME TypeOK, OneShutdown, [Next]_vars PROVE OneShutdown'
  OBVIOUS
<1> USE DEF TypeOK, OneShutdown, ShuttingDown
<1>1. ASSUME NEW c \in Callers, NEW k \in Conns, Ensure(c, k) PROVE OneShutdown'
  BY <1>1 DEF Ensure
<1>2. ASSUME NEW c \in Callers, NEW k \in Conns, Remove1(c, k) \/ Stop1(c, k) PROVE OneShutdown'
  BY <1>2 DEF Remove1, Stop1, Goto
<1>3. ASSUME NEW c \in Callers, Shutdown1(c) PROVE OneShutdown'
  BY <1>3 DEF Shutdown1, Goto
<1>4. ASSUME NEW c \in Callers, Release(c) PROVE OneShutdown'
  BY <1>4 DEF Release
<1>5. ASSUME NEW c \in Callers, Finish(c) PROVE OneShutdown'
  BY <1>5 DEF Finish, Remove2, Stop2, Join, Goto
<1>6. ASSUME NEW c \in Callers, ShutdownRest(c) PROVE OneShutdown'
  <2>1. CASE Shutdown2(c)
    BY <2>1 DEF Shutdown2, Goto
  <2>2. CASE Shutdown3(c)
    BY <2>2 DEF Shutdown3, Goto
  <2>3. CASE DrainNext(c) \/ DrainJoin(c)
    BY <2>3 DEF DrainNext, DrainJoin
  <2>4. CASE DrainDone(c)
    BY <2>4 DEF DrainDone, Goto
  <2> QED
    BY <1>6, <2>1, <2>2, <2>3, <2>4 DEF ShutdownRest
<1>7. ASSUME NEW t \in Tasks, TaskStep(t) PROVE OneShutdown'
  BY <1>7 DEF TaskStep, TaskBreak, TaskGone, callVars
<1>8. CASE UNCHANGED vars
  BY <1>8 DEF vars, callVars
<1>9. ASSUME NEW c \in Callers, Abandon(c) PROVE OneShutdown'
  BY <1>9 DEF Abandon, Goto
<1> QED
  BY <1>1, <1>2, <1>3, <1>4, <1>5, <1>6, <1>7, <1>8, <1>9 DEF Next, Begin, GoOn

-----------------------------------------------------------------------------
(* No step puts a running task out of reach: whatever drops the last       *)
(* reference to it has told it to stop.                                    *)
LEMMA StepReach == IInv /\ [Next]_vars => NoTaskOutOfReach'
<1> SUFFICES ASSUME IInv, [Next]_vars,
                    NEW t \in Tasks, (run[t] = "running" /\ ~ToldToStop(t))'
             PROVE  Reach(t)'
  BY DEF NoTaskOutOfReach, Reach
<1> USE DEF TypeOK, ToldToStop, Reach
<1> TypeOK /\ TookInside /\ OneShutdown
  BY DEF IInv
<1>0. run[t] = "running" /\ ~ToldToStop(t) => Reach(t)
  BY DEF IInv, NoTaskOutOfReach
<1>1. ASSUME NEW c \in Callers, NEW k \in Conns, Ensure(c, k) PROVE Reach(t)'
  <2>1. CASE handles[k] # NoTask
    BY <1>0, <1>1, <2>1 DEF Ensure, mapVars, taskVars
  <2>2. CASE handles[k] = NoTask /\ t = Fresh
    BY <1>1, <2>2 DEF Ensure
  <2>3. CASE handles[k] = NoTask /\ t # Fresh
    <3>1. run[t] = "running" /\ seen'[t] = seen[t] /\ down' = down
      BY <1>1, <2>3 DEF Ensure
    <3>4. signal'[t] = "armed" /\ DropEntry(tasks[k])
      BY <1>1, <2>3 DEF Ensure
    <3>2. signal[t] = "armed" /\ t # tasks[k]
      BY <3>4 DEF DropEntry
    <3>3. Reach(t) /\ t # tasks[k]
      BY <1>0, <1>1, <2>3, <3>1, <3>2 DEF Ensure
    <3> QED
      BY <1>1, <2>3, <3>3 DEF Ensure
  <2> QED
    BY <2>1, <2>2, <2>3
<1>2. ASSUME NEW c \in Callers, NEW k \in Conns, Remove1(c, k) PROVE Reach(t)'
  BY <1>0, <1>2 DEF Remove1, taskVars
<1>3. ASSUME NEW c \in Callers, NEW k \in Conns, Stop1(c, k) PROVE Reach(t)'
  <2>1. took[c] = NoTask
    BY <1>3 DEF Stop1, TookInside
  <2>2. Reach(t)
    BY <1>0, <1>3 DEF Stop1, taskVars
  <2>3. CASE tasks[k] = t
    BY <1>3, <2>3 DEF Stop1
  <2>4. CASE tasks[k] # t
    BY <1>3, <2>1, <2>2, <2>4 DEF Stop1
  <2> QED
    BY <2>3, <2>4
<1>4. ASSUME NEW c \in Callers, Shutdown1(c) PROVE Reach(t)'
  BY <1>0, <1>4 DEF Shutdown1, mapVars, taskVars
<1>5. ASSUME NEW c \in Callers, Release(c) PROVE Reach(t)'
  BY <1>0, <1>5 DEF Release, mapVars, taskVars
<1>6. ASSUME NEW c \in Callers, Remove2(c) PROVE Reach(t)'
  <2>1. signal[t] = "armed" /\ t # tasks[arg[c]]
    BY <1>6 DEF Remove2, DropEntry
  <2>2. Reach(t)
    BY <1>0, <1>6, <2>1 DEF Remove2
  <2> QED
    BY <1>6, <2>1, <2>2 DEF Remove2
<1>7. ASSUME NEW c \in Callers, Stop2(c) PROVE Reach(t)'
  <2>1. signal[t] = "armed"
    BY <1>7 DEF Stop2, SendStop
  <2> QED
    BY <1>0, <1>7, <2>1 DEF Stop2
<1>8. ASSUME NEW c \in Callers, Join(c) PROVE Reach(t)'
  <2>1. took[c] # t /\ Reach(t)
    BY <1>0, <1>8 DEF Join, Joined, mapVars, taskVars
  <2> QED
    BY <1>8, <2>1 DEF Join, mapVars
<1>9. ASSUME NEW c \in Callers, ShutdownRest(c) PROVE Reach(t)'
  <2>1. CASE Shutdown2(c) \/ DrainDone(c)
    BY <1>0, <2>1 DEF Shutdown2, DrainDone, mapVars, taskVars
  <2>2. CASE Shutdown3(c)
    <3>1. drain = {}
      BY <2>2 DEF Shutdown3, OneShutdown, ShuttingDown
    <3>2. Reach(t)
      BY <1>0, <2>2 DEF Shutdown3, taskVars
    <3> QED
      BY <2>2, <3>1, <3>2 DEF Shutdown3, Entries
  <2>3. CASE DrainNext(c)
    <3>1. signal[t] = "armed" /\ took[c] = NoTask
      BY <2>3 DEF DrainNext, SendStop
    <3>2. Reach(t)
      BY <1>0, <2>3, <3>1 DEF DrainNext, mapVars
    <3> QED
      BY <2>3, <3>1, <3>2 DEF DrainNext, mapVars
  <2>4. CASE DrainJoin(c)
    <3>1. took[c] # t /\ Reach(t)
      BY <1>0, <2>4 DEF DrainJoin, Joined, mapVars, taskVars
    <3> QED
      BY <2>4, <3>1 DEF DrainJoin, mapVars
  <2> QED
    BY <1>9, <2>1, <2>2, <2>3, <2>4 DEF ShutdownRest
<1>10. ASSUME NEW u \in Tasks, TaskStep(u) PROVE Reach(t)'
  BY <1>0, <1>10 DEF TaskStep, TaskBreak, TaskGone, mapVars, callVars
<1>11. CASE UNCHANGED vars
  BY <1>0, <1>11 DEF vars, mapVars, taskVars, callVars
<1>12. ASSUME NEW c \in Callers, Abandon(c) PROVE Reach(t)'
  <2>1. signal[t] = "armed" /\ t \notin LetGo(c)
    BY <1>12 DEF Abandon
  <2>2. Reach(t)
    BY <1>0, <1>12, <2>1 DEF Abandon
  <2>3. t # took[c] /\ (pc[c] = "draining" => t \notin drain)
    BY <2>1 DEF LetGo
  <2> QED
    BY <1>12, <2>2, <2>3 DEF Abandon, mapVars
<1> QED
  BY <1>1, <1>2, <1>3, <1>4, <1>5, <1>6, <1>7, <1>8, <1>9, <1>10, <1>11, <1>12
     DEF Next, Begin, GoOn, Finish

(* Nothing runs, nothing is held and nobody is inside an operation.        *)
LEMMA InitIInv == Init => IInv
<1> SUFFICES ASSUME Init PROVE IInv
  OBVIOUS
<1>1. TypeOK
  BY InitTypeOK
<1>2. TookInside /\ OneShutdown
  BY DEF Init, TookInside, OneShutdown, ShuttingDown
<1>3. NoTaskOutOfReach
  BY DEF Init, NoTaskOutOfReach
<1> QED
  BY <1>1, <1>2, <1>3 DEF IInv

(* In every behaviour of the directory every running task has been told to *)
(* stop or can still be stopped: ensure, remove, stop_and_join and         *)
(* shutdown lose none between their two locks.                             *)
THEOREM TasksStayInReach == Spec => []NoTaskOutOfReach
<1>1. Init => IInv
  BY InitIInv
<1>2. IInv /\ [Next]_vars => IInv'
  BY StepTypeOK, StepTookInside, StepOneShutdown, StepReach DEF IInv
<1>3. IInv => NoTaskOutOfReach
  BY DEF IInv
<1> QED
  BY <1>1, <1>2, <1>3, PTL DEF Spec
-----------------------------------------------------------------------------
(* While the callers take turns.                                           *)

(* One caller at most is inside an operation, and it is no remove.         *)
Alone ==
    /\ \A c, d \in Callers : pc[c] # "idle" /\ pc[d] # "idle" => c = d
    /\ \A c \in Callers : pc[c] # "remove2"

(* The numbers of tasks still to be spawned are used nowhere.              *)
Numbered ==
    /\ \A t \in Tasks : t > nTask => run[t] = "none" /\ signal[t] = "armed"
    /\ \A k \in Conns : tasks[k] <= nTask
    /\ \A c \in Callers : took[c] <= nTask
    /\ \A t \in drain : t <= nTask

(* An entry is filed under the connection of its task, and the one in the  *)
(* hands of stop_and_join is the only one of its connection.               *)
Filed ==
    /\ \A k \in Conns : tasks[k] # NoTask => connOf[tasks[k]] = k
    /\ \A c \in Callers : pc[c] \in {"stop2", "joining"} =>
         tasks[arg[c]] = NoTask /\ (took[c] # NoTask => connOf[took[c]] = arg[c])

(* A shutdown that has taken the entries has left none, one of each        *)
(* connection.                                                             *)
Emptied ==
    /\ \A c \in Callers : pc[c] = "draining" => \A k \in Conns : tasks[k] = NoTask
    /\ \A t, u \in drain : connOf[t] = connOf[u] => t = u

(* The two maps agree but for the operation that is between them.          *)
Agree ==
    \A k \in Conns :
      \/ handles[k] = tasks[k]
      \/ handles[k] = NoTask /\ \E c \in Callers : pc[c] = "down3"
      \/ tasks[k] = NoTask /\ \E c \in Callers : pc[c] = "stop2" /\ arg[c] = k
HandlesGone ==
    \A c \in Callers : pc[c] \in {"down3", "draining"} => \A k \in Conns : handles[k] = NoTask

(* Whoever is alive is filed, drained or in the hands of stop_and_join,    *)
(* unless its join was dropped; and such a task has been told to stop.     *)
InHand(t) == \E c \in Callers : pc[c] \in {"stop2", "joining"} /\ took[c] = t
AliveIsKnown ==
    \A t \in Tasks \ unjoined : Live(t) => tasks[connOf[t]] = t \/ t \in drain \/ InHand(t)

UnjoinedTold == \A t \in unjoined : signal[t] # "armed"

(* Nobody has signalled a task that is filed.                              *)
Untold == \A k \in Conns : tasks[k] # NoTask => signal[tasks[k]] = "armed"

InTurns == Alone /\ Numbered /\ Filed /\ Emptied /\ Agree /\ HandlesGone /\ AliveIsKnown /\ Untold
Orderly == turns => InTurns
LEMMA InitOrderly == Init => Orderly
<1> SUFFICES ASSUME Init PROVE InTurns
  BY DEF Orderly
<1>1. TypeOK
  BY InitTypeOK
<1>2. Alone /\ Emptied /\ HandlesGone /\ Untold /\ Agree
  BY DEF Init, Alone, Emptied, HandlesGone, Untold, Agree
<1>3. Numbered /\ Filed /\ AliveIsKnown
  BY DEF Init, Numbered, Filed, AliveIsKnown, Live
<1> QED
  BY <1>2, <1>3 DEF InTurns

(* A new operation begins while nobody is inside one.                      *)
LEMMA EnsureOrderly ==
    ASSUME IInv, InTurns, Quiet, NEW c \in Callers, NEW k \in Conns, Ensure(c, k), UNCHANGED unjoined
    PROVE  InTurns'
<1> USE DEF TypeOK
<1>0. TypeOK /\ OneShutdown
  BY DEF IInv
<1>9. drain = {} /\ UNCHANGED <<down, drain, pc, arg, took>>
  BY <1>0 DEF OneShutdown, Quiet, Ensure
<1>1. CASE handles[k] # NoTask
  <2>1. UNCHANGED <<mapVars, taskVars, down, drain, pc, arg, took>>
    BY <1>1 DEF Ensure
  <2> QED
    BY <2>1 DEF InTurns, Alone, Numbered, Filed, Emptied, Agree, HandlesGone, AliveIsKnown, Untold,
                InHand, Live, mapVars, taskVars
<1>2. CASE handles[k] = NoTask
  <2>0. tasks[k] = NoTask /\ Fresh \in Tasks /\ run[Fresh] = "none" /\ signal[Fresh] = "armed"
    <3>1. handles[k] = tasks[k]
      BY DEF InTurns, Agree, Quiet
    <3>2. nTask \in 0..MaxTask /\ nTask < MaxTask
      BY <1>0, <1>2 DEF Ensure
    <3>3. Fresh \in Tasks /\ Fresh > nTask
      BY <3>2, DirectoryAssumption DEF Fresh
    <3>4. run[Fresh] = "none" /\ signal[Fresh] = "armed"
      BY <3>3 DEF InTurns, Numbered
    <3> QED
      BY <1>2, <3>1, <3>3, <3>4
  <2>1. /\ nTask' = Fresh
        /\ connOf' = [connOf EXCEPT ![Fresh] = k]
        /\ run' = [run EXCEPT ![Fresh] = "running"]
        /\ handles' = [handles EXCEPT ![k] = Fresh]
        /\ tasks' = [tasks EXCEPT ![k] = Fresh]
        /\ signal' = signal
    BY <1>2, <2>0 DEF Ensure, DropEntry
  <2>2. \A j \in Conns : tasks[j] # Fresh /\ tasks[j] <= nTask
    <3>1. nTask \in 0..MaxTask
      BY <1>0
    <3> QED
      BY <3>1, DirectoryAssumption DEF InTurns, Numbered, Fresh
  <2>3. Alone' /\ Emptied' /\ HandlesGone'
    BY <1>9 DEF InTurns, Alone, Emptied, HandlesGone, Quiet
  <2>4. Numbered'
    <3>1. /\ nTask \in 0..MaxTask /\ nTask' = nTask + 1
          /\ \A d \in Callers : took[d] \in 0..MaxTask
      BY <1>0, <2>1, DirectoryAssumption DEF Fresh
    <3>2. \A t \in Tasks : t > nTask' => run'[t] = "none" /\ signal'[t] = "armed"
      BY <1>0, <2>1, <3>1, DirectoryAssumption DEF InTurns, Numbered, Fresh
    <3>3. \A j \in Conns : tasks'[j] <= nTask'
      <4>1. \A j \in Conns : tasks[j] \in 0..MaxTask /\ tasks'[j] \in {tasks[j], Fresh}
        BY <1>0, <2>1, DirectoryAssumption
      <4> QED
        BY <2>2, <3>1, <4>1, DirectoryAssumption DEF Fresh
    <3>4. (\A d \in Callers : took'[d] <= nTask') /\ \A t \in drain' : t <= nTask'
      BY <1>0, <1>9, <3>1, DirectoryAssumption DEF InTurns, Numbered
    <3> QED
      BY <3>2, <3>3, <3>4 DEF Numbered
  <2>5. Filed'
    BY <1>0, <1>9, <2>0, <2>1, <2>2 DEF InTurns, Filed, Quiet
  <2>6. Agree'
    BY <1>0, <1>9, <2>1 DEF InTurns, Agree, Quiet
  <2>7. Untold'
    BY <1>0, <2>0, <2>1 DEF InTurns, Untold
  <2>8. AliveIsKnown'
    <3> SUFFICES ASSUME NEW t \in Tasks \ unjoined, Live(t)' PROVE tasks'[connOf'[t]] = t
      BY DEF AliveIsKnown
    <3>1. CASE t = Fresh
      BY <1>0, <2>1, <3>1
    <3>2. CASE t # Fresh
      <4>1. Live(t) /\ connOf'[t] = connOf[t] /\ connOf[t] \in Conns
        BY <1>0, <2>1, <3>2 DEF Live
      <4>2. tasks[connOf[t]] = t
        BY <1>9, <4>1 DEF InTurns, AliveIsKnown, InHand, Quiet
      <4> QED
        BY <1>0, <2>0, <2>1, <4>1, <4>2
    <3> QED
      BY <3>1, <3>2
  <2> QED
    BY <2>3, <2>4, <2>5, <2>6, <2>7, <2>8 DEF InTurns
<1> QED
  BY <1>1, <1>2
LEMMA BeginOrderly ==
    ASSUME IInv, InTurns, Quiet, NEW c \in Callers,
           Shutdown1(c) \/ \E k \in Conns : Stop1(c, k), UNCHANGED unjoined
    PROVE  InTurns'
<1> USE DEF TypeOK
<1>0. TypeOK /\ OneShutdown /\ drain = {} /\ \A d \in Callers : took[d] = NoTask
  BY DEF IInv, OneShutdown, TookInside, Quiet
<1>1. CASE Shutdown1(c)
  <2>1. /\ UNCHANGED <<mapVars, taskVars, drain, arg, took>>
        /\ pc' = [pc EXCEPT ![c] = "down2"]
    BY <1>1 DEF Shutdown1, Goto
  <2>2. Alone' /\ Filed' /\ Emptied' /\ HandlesGone' /\ Agree'
    BY <1>0, <2>1 DEF InTurns, Alone, Filed, Emptied, HandlesGone, Agree, Quiet, mapVars, taskVars
  <2>3. Numbered' /\ Untold'
    BY <2>1 DEF InTurns, Numbered, Untold, mapVars, taskVars
  <2>4. AliveIsKnown'
    BY <2>1 DEF InTurns, AliveIsKnown, Live, InHand, Quiet, mapVars, taskVars
  <2> QED
    BY <2>2, <2>3, <2>4 DEF InTurns
<1>2. ASSUME NEW k \in Conns, Stop1(c, k) PROVE InTurns'
  <2>1. /\ UNCHANGED <<handles, taskVars, drain>>
        /\ pc' = [pc EXCEPT ![c] = "stop2"] /\ arg' = [arg EXCEPT ![c] = k]
        /\ took' = [took EXCEPT ![c] = tasks[k]] /\ tasks' = [tasks EXCEPT ![k] = NoTask]
    BY <1>2 DEF Stop1, Goto
  <2>2. Alone' /\ Emptied' /\ HandlesGone'
    BY <1>0, <2>1 DEF InTurns, Alone, Emptied, HandlesGone, Quiet, taskVars
  <2>3. Numbered'
    <3>1. nTask \in 0..MaxTask
      BY <1>0
    <3> QED
      BY <1>0, <2>1, <3>1, DirectoryAssumption DEF InTurns, Numbered, taskVars
  <2>4. Filed'
    BY <1>0, <2>1 DEF InTurns, Filed, Quiet, taskVars
  <2>5. Agree'
    <3> SUFFICES ASSUME NEW j \in Conns
                 PROVE  \/ handles'[j] = tasks'[j]
                        \/ tasks'[j] = NoTask /\ \E d \in Callers : pc'[d] = "stop2" /\ arg'[d] = j
      BY DEF Agree
    <3>1. handles[j] = tasks[j]
      BY DEF InTurns, Agree, Quiet
    <3> QED
      BY <1>0, <2>1, <3>1
  <2>6. Untold'
    BY <1>0, <2>1 DEF InTurns, Untold, taskVars
  <2>7. AliveIsKnown'
    <3> SUFFICES ASSUME NEW t \in Tasks \ unjoined, Live(t)' PROVE tasks'[connOf'[t]] = t \/ InHand(t)'
      BY DEF AliveIsKnown
    <3>1. Live(t) /\ connOf' = connOf /\ connOf[t] \in Conns
      BY <1>0, <2>1 DEF Live, taskVars
    <3>2. tasks[connOf[t]] = t
      BY <1>0, <3>1 DEF InTurns, AliveIsKnown, InHand, Quiet
    <3> QED
      BY <1>0, <2>1, <3>1, <3>2 DEF InHand
  <2> QED
    BY <2>2, <2>3, <2>4, <2>5, <2>6, <2>7 DEF InTurns
<1> QED
  BY <1>1, <1>2

(* Inside stop_and_join.                                                   *)
LEMMA StopOrderly ==
    ASSUME IInv, InTurns, NEW c \in Callers, Stop2(c) \/ Join(c), UNCHANGED unjoined
    PROVE  InTurns'
<1> USE DEF TypeOK
<1>0. /\ TypeOK /\ pc[c] \in {"stop2", "joining"}
      /\ drain = {} /\ \A d \in Callers : d # c => pc[d] = "idle"
  BY DEF IInv, OneShutdown, Stop2, Join, InTurns, Alone
<1>3. UNCHANGED <<tasks, nTask, connOf, run, drain>>
  BY DEF Stop2, Join, mapVars, taskVars
<1>1. CASE Stop2(c)
  <2>1. /\ handles' = [handles EXCEPT ![arg[c]] = NoTask] /\ took' = took /\ arg' = arg
        /\ pc' = [pc EXCEPT ![c] = "joining"]
        /\ signal' = IF took[c] = NoTask THEN signal ELSE [signal EXCEPT ![took[c]] = "sent"]
        /\ pc[c] = "stop2" /\ arg[c] \in Conns /\ tasks[arg[c]] = NoTask
    BY <1>0, <1>1 DEF Stop2, ForgetHandle, SendStop, Goto, InTurns, Filed
  <2>2. Alone' /\ Emptied' /\ HandlesGone' /\ Filed'
    BY <1>0, <1>3, <2>1 DEF InTurns, Alone, Emptied, HandlesGone, Filed
  <2>3. Numbered'
    <3>1. took[c] \in 0..MaxTask /\ nTask \in 0..MaxTask
      BY <1>0, DirectoryAssumption
    <3> QED
      BY <1>0, <1>3, <2>1, <3>1, DirectoryAssumption DEF InTurns, Numbered
  <2>4. Agree'
    <3> SUFFICES ASSUME NEW j \in Conns PROVE handles'[j] = tasks'[j]
      BY DEF Agree
    <3>1. CASE j = arg[c]
      BY <1>0, <1>3, <2>1, <3>1
    <3>2. CASE j # arg[c]
      <4>1. handles[j] = tasks[j]
        BY <1>0, <2>1, <3>2 DEF InTurns, Agree
      <4> QED
        BY <1>0, <1>3, <2>1, <3>2, <4>1
    <3> QED
      BY <3>1, <3>2
  <2>5. Untold'
    <3>1. \A j \in Conns : tasks[j] # NoTask => tasks[j] # took[c]
      BY <1>0, <2>1 DEF InTurns, Filed
    <3> QED
      BY <1>0, <1>3, <2>1, <3>1 DEF InTurns, Untold
  <2>6. AliveIsKnown'
    <3> SUFFICES ASSUME NEW t \in Tasks \ unjoined, Live(t)' PROVE tasks'[connOf'[t]] = t \/ InHand(t)'
      BY DEF AliveIsKnown
    <3>1. tasks[connOf[t]] = t \/ InHand(t)
      BY <1>0, <1>3 DEF InTurns, AliveIsKnown, Live
    <3> QED
      BY <1>0, <1>3, <2>1, <3>1 DEF InHand
  <2> QED
    BY <2>2, <2>3, <2>4, <2>5, <2>6 DEF InTurns
<1>2. CASE Join(c)
  <2>1. /\ handles' = handles /\ took' = [took EXCEPT ![c] = NoTask]
        /\ (\A d \in Callers : d # c => arg'[d] = arg[d])
        /\ pc' = [pc EXCEPT ![c] = "idle"] /\ signal' = signal
        /\ pc[c] = "joining" /\ (took[c] # NoTask => run[took[c]] = "gone")
    BY <1>0, <1>2 DEF Join, Joined, Goto, mapVars, taskVars
  <2>2. Alone' /\ Emptied' /\ HandlesGone' /\ Filed' /\ Untold'
    BY <1>0, <1>3, <2>1 DEF InTurns, Alone, Emptied, HandlesGone, Filed, Untold
  <2>3. Numbered'
    <3>1. nTask \in 0..MaxTask
      BY <1>0
    <3> QED
      BY <1>0, <1>3, <2>1, <3>1, DirectoryAssumption DEF InTurns, Numbered
  <2>4. Agree'
    BY <1>0, <1>3, <2>1 DEF InTurns, Agree
  <2>6. AliveIsKnown'
    <3> SUFFICES ASSUME NEW t \in Tasks \ unjoined, Live(t)' PROVE tasks'[connOf'[t]] = t \/ InHand(t)'
      BY DEF AliveIsKnown
    <3>1. Live(t) /\ (tasks[connOf[t]] = t \/ InHand(t))
      BY <1>0, <1>3 DEF InTurns, AliveIsKnown, Live
    <3> QED
      BY <1>0, <1>3, <2>1, <3>1 DEF InHand, Live
  <2> QED
    BY <2>2, <2>3, <2>4, <2>6 DEF InTurns
<1> QED
  BY <1>1, <1>2
(* Inside shutdown.                                                        *)
LEMMA ShutdownOrderly ==
    ASSUME IInv, InTurns, NEW c \in Callers, ShutdownRest(c), UNCHANGED unjoined
    PROVE  InTurns'
<1> USE DEF TypeOK
<1>0. /\ TypeOK /\ ShuttingDown(c) /\ \A d \in Callers : d # c => pc[d] = "idle"
      /\ pc[c] # "draining" => drain = {}
      /\ nTask \in 0..MaxTask
  BY DEF IInv, OneShutdown, ShutdownRest, Shutdown2, Shutdown3, DrainNext, DrainJoin, DrainDone,
         ShuttingDown, InTurns, Alone
<1>4. UNCHANGED <<nTask, connOf, run, arg>>
  BY DEF ShutdownRest, Shutdown2, Shutdown3, DrainNext, DrainJoin, DrainDone, mapVars, taskVars
<1>7. \A t \in Tasks \ unjoined : Live(t)' => Live(t) /\ (tasks[connOf[t]] = t \/ t \in drain)
  BY <1>0, <1>4 DEF Live, InTurns, AliveIsKnown, InHand, ShuttingDown
<1>1. CASE Shutdown2(c)
  <2>1. /\ UNCHANGED <<tasks, signal, drain, took>> /\ pc' = [pc EXCEPT ![c] = "down3"]
        /\ handles' = [k \in Conns |-> NoTask] /\ pc[c] = "down2"
    BY <1>1 DEF Shutdown2, Goto, taskVars
  <2>2. Alone' /\ Filed' /\ Emptied' /\ HandlesGone' /\ Agree'
    BY <1>0, <1>4, <2>1 DEF InTurns, Alone, Filed, Emptied, HandlesGone, Agree
  <2>3. Numbered' /\ Untold'
    BY <1>4, <2>1 DEF InTurns, Numbered, Untold
  <2>4. AliveIsKnown'
    BY <1>4, <1>7, <2>1 DEF AliveIsKnown
  <2> QED
    BY <2>2, <2>3, <2>4 DEF InTurns
<1>2. CASE Shutdown3(c)
  <2>1. /\ UNCHANGED <<handles, signal, took>> /\ pc' = [pc EXCEPT ![c] = "draining"]
        /\ drain' = Entries /\ tasks' = [k \in Conns |-> NoTask] /\ pc[c] = "down3"
    BY <1>2 DEF Shutdown3, Goto, taskVars
  <2>2. Alone' /\ Filed' /\ HandlesGone' /\ Agree' /\ Untold'
    BY <1>0, <1>4, <2>1 DEF InTurns, Alone, Filed, HandlesGone, Agree, Untold
  <2>3. Emptied'
    BY <1>0, <1>4, <2>1 DEF InTurns, Filed, Emptied, Entries
  <2>4. Numbered'
    BY <1>0, <1>4, <2>1 DEF InTurns, Numbered, Entries
  <2>5. AliveIsKnown'
    BY <1>0, <1>4, <1>7, <2>1 DEF AliveIsKnown, Entries
  <2> QED
    BY <2>2, <2>3, <2>4, <2>5 DEF InTurns
<1>3. CASE DrainNext(c)
  <2>0. PICK t \in drain : SendStop(t) /\ took' = [took EXCEPT ![c] = t]
    BY <1>3 DEF DrainNext
  <2>1. /\ UNCHANGED <<handles, tasks, drain, pc>> /\ pc[c] = "draining"
        /\ signal' = [signal EXCEPT ![t] = "sent"] /\ t \in Tasks
    BY <1>0, <1>3, <2>0 DEF DrainNext, SendStop, mapVars
  <2>2. Alone' /\ Emptied' /\ HandlesGone' /\ Agree' /\ Untold'
    BY <1>0, <1>4, <2>0, <2>1 DEF InTurns, Alone, Emptied, HandlesGone, Agree, Untold
  <2>3. Filed'
    BY <1>0, <1>4, <2>0, <2>1 DEF InTurns, Filed
  <2>4. Numbered'
    <3>1. t <= nTask
      BY DEF InTurns, Numbered
    <3> QED
      BY <1>0, <1>4, <2>0, <2>1, <3>1, DirectoryAssumption DEF InTurns, Numbered
  <2>5. AliveIsKnown'
    BY <1>4, <1>7, <2>1 DEF AliveIsKnown
  <2> QED
    BY <2>2, <2>3, <2>4, <2>5 DEF InTurns
<1>5. CASE DrainJoin(c)
  <2>1. /\ UNCHANGED <<handles, tasks, signal, pc>> /\ pc[c] = "draining"
        /\ drain' = drain \ {took[c]} /\ took' = [took EXCEPT ![c] = NoTask]
        /\ took[c] # NoTask => run[took[c]] = "gone"
    BY <1>5 DEF DrainJoin, Joined, mapVars, taskVars
  <2>2. Alone' /\ Emptied' /\ HandlesGone' /\ Agree' /\ Untold'
    BY <1>0, <1>4, <2>1 DEF InTurns, Alone, Emptied, HandlesGone, Agree, Untold
  <2>3. Filed'
    BY <1>0, <1>4, <2>1 DEF InTurns, Filed
  <2>4. Numbered'
    BY <1>0, <1>4, <2>1, DirectoryAssumption DEF InTurns, Numbered
  <2>5. AliveIsKnown'
    <3>1. \A t \in Tasks : Live(t) => t # took[c]
      BY <2>1 DEF Live
    <3> QED
      BY <1>4, <1>7, <2>1, <3>1 DEF AliveIsKnown
  <2> QED
    BY <2>2, <2>3, <2>4, <2>5 DEF InTurns
<1>6. CASE DrainDone(c)
  <2>1. UNCHANGED <<handles, tasks, signal, drain, took>> /\ pc' = [pc EXCEPT ![c] = "idle"]
        /\ pc[c] = "draining"
    BY <1>6 DEF DrainDone, Goto, mapVars, taskVars
  <2>2. Alone' /\ Filed' /\ Emptied' /\ HandlesGone' /\ Agree'
    BY <1>0, <1>4, <2>1 DEF InTurns, Alone, Filed, Emptied, HandlesGone, Agree
  <2>3. Numbered' /\ Untold'
    BY <1>4, <2>1 DEF InTurns, Numbered, Untold
  <2>4. AliveIsKnown'
    BY <1>4, <1>7, <2>1 DEF AliveIsKnown
  <2> QED
    BY <2>2, <2>3, <2>4 DEF InTurns
<1> QED
  BY <1>1, <1>2, <1>3, <1>5, <1>6 DEF ShutdownRest

(* Steps that leave the maps and the callers' operations alone.            *)
LEMMA OtherOrderly ==
    ASSUME IInv, InTurns,
           \/ \E c \in Callers : Release(c) /\ UNCHANGED histVars
           \/ \E t \in Tasks : TaskStep(t)
           \/ UNCHANGED vars
    PROVE  InTurns'
<1> USE DEF TypeOK
<1>1. TypeOK /\ UNCHANGED <<handles, tasks, nTask, connOf, signal, drain, pc, arg, took>>
  BY DEF IInv, Release, TaskStep, TaskBreak, TaskGone, vars, mapVars, taskVars, callVars
<1>2. \A t \in Tasks : (Live(t)' => Live(t)) /\ (run[t] = "none" => run'[t] = "none")
  BY <1>1 DEF Live, Release, TaskStep, TaskBreak, TaskGone, vars, taskVars
<1>5. \A t \in Tasks : Live(t)' /\ t \notin unjoined' => t \notin unjoined
  BY DEF Live, TaskStep, vars, histVars
<1>3. Alone' /\ Filed' /\ Emptied' /\ HandlesGone' /\ Agree' /\ Untold'
  BY <1>1 DEF InTurns, Alone, Filed, Emptied, HandlesGone, Agree, Untold
<1>4. Numbered' /\ AliveIsKnown'
  BY <1>1, <1>2, <1>5 DEF InTurns, Numbered, AliveIsKnown, InHand
<1> QED
  BY <1>3, <1>4 DEF InTurns

(* The caller is dropped at a join: nobody is left inside an operation,    *)
(* and the tasks it was to join are filed nowhere.                         *)
LEMMA AbandonOrderly ==
    ASSUME IInv, InTurns, NEW c \in Callers, Abandon(c)
    PROVE  InTurns'
<1> USE DEF TypeOK
<1>0. /\ TypeOK /\ pc[c] \in {"joining", "draining"} /\ took[c] # NoTask
      /\ \A d \in Callers : d # c => pc[d] = "idle"
      /\ pc[c] # "draining" => drain = {}
  BY DEF IInv, OneShutdown, Abandon, InTurns, Alone
<1>1. /\ UNCHANGED <<handles, tasks, nTask, connOf, run>> /\ pc' = [pc EXCEPT ![c] = "idle"]
      /\ took' = [took EXCEPT ![c] = NoTask] /\ drain' = {}
      /\ \A d \in Callers : d # c => arg'[d] = arg[d]
  BY <1>0 DEF Abandon, Goto, mapVars
<1>2. \A t \in Tasks : t \notin LetGo(c) => signal'[t] = signal[t]
  BY <1>0 DEF Abandon
<1>3. /\ \A t \in LetGo(c) : t \in Tasks /\ t <= nTask
      /\ \A k \in Conns : tasks[k] # NoTask => tasks[k] \notin LetGo(c)
  BY <1>0 DEF InTurns, Numbered, Filed, Emptied, LetGo
<1>4. Alone' /\ Filed' /\ Emptied' /\ HandlesGone' /\ Agree'
  BY <1>0, <1>1 DEF InTurns, Alone, Filed, Emptied, HandlesGone, Agree
<1>5. Numbered'
  <2>1. nTask \in 0..MaxTask
    BY <1>0
  <2>2. \A t \in Tasks : t > nTask => t \notin LetGo(c)
    BY <1>3, <2>1, DirectoryAssumption
  <2> QED
    BY <1>0, <1>1, <1>2, <2>1, <2>2, DirectoryAssumption DEF InTurns, Numbered
<1>6. Untold'
  BY <1>0, <1>1, <1>2, <1>3 DEF InTurns, Untold
<1>7. AliveIsKnown'
  <2> SUFFICES ASSUME NEW t \in Tasks, t \notin unjoined', Live(t)' PROVE tasks[connOf[t]] = t
    BY <1>1 DEF AliveIsKnown
  <2>1. Live(t) /\ run[t] # "gone"
    BY <1>1 DEF Live
  <2>2. t \notin unjoined /\ t \notin LetGo(c)
    BY <2>1 DEF Abandon
  <2>3. t \notin drain /\ ~InHand(t)
    BY <1>0, <2>2 DEF LetGo, InHand
  <2> QED
    BY <2>1, <2>2, <2>3 DEF InTurns, AliveIsKnown
<1> QED
  BY <1>4, <1>5, <1>6, <1>7 DEF InTurns

LEMMA StepOrderly == IInv /\ Orderly /\ [Next]_vars => Orderly'
<1> SUFFICES ASSUME IInv, Orderly, [Next]_vars, turns' PROVE InTurns'
  BY DEF Orderly
<1>1. ASSUME NEW c \in Callers, Begin(c) PROVE InTurns'
  <2>1. turns /\ Quiet /\ pc'[c] # "remove2"
    BY <1>1 DEF Begin
  <2>2. InTurns /\ pc \in [Callers -> {"idle", "remove2", "stop2", "joining", "down2", "down3", "draining"}]
    BY <2>1 DEF Orderly, IInv, TypeOK
  <2>3. \A k \in Conns : ~Remove1(c, k)
    BY <2>1, <2>2 DEF Remove1, Goto
  <2> QED
    BY <1>1, <2>1, <2>2, <2>3, EnsureOrderly, BeginOrderly DEF Begin
<1>2. ASSUME NEW c \in Callers, GoOn(c) PROVE InTurns'
  <2>1. InTurns
    BY <1>2 DEF GoOn, Orderly, histVars
  <2>2. ~Remove2(c)
    BY <2>1 DEF InTurns, Alone, Remove2
  <2> QED
    BY <1>2, <2>1, <2>2, StopOrderly, ShutdownOrderly DEF GoOn, Finish, histVars
<1>3. ASSUME NEW c \in Callers, Release(c), UNCHANGED histVars PROVE InTurns'
  BY <1>3, OtherOrderly DEF Orderly, histVars
<1>4. ASSUME NEW t \in Tasks, TaskStep(t) PROVE InTurns'
  BY <1>4, OtherOrderly DEF Orderly, TaskStep
<1>5. CASE UNCHANGED vars
  BY <1>5, OtherOrderly DEF Orderly, vars, histVars
<1>6. ASSUME NEW c \in Callers, Abandon(c), UNCHANGED turns PROVE InTurns'
  BY <1>6, AbandonOrderly DEF Orderly
<1> QED
  BY <1>1, <1>2, <1>3, <1>4, <1>5, <1>6 DEF Next

(* A task is told to stop when its join is dropped, and stays told.        *)
LEMMA StepUnjoinedTold == TypeOK /\ UnjoinedTold /\ [Next]_vars => UnjoinedTold'
<1> SUFFICES ASSUME TypeOK, UnjoinedTold, [Next]_vars, NEW t \in unjoined'
             PROVE  signal'[t] # "armed"
  BY DEF UnjoinedTold
<1> USE DEF TypeOK, UnjoinedTold
<1>1. ASSUME NEW c \in Callers, Begin(c) PROVE signal'[t] # "armed"
  BY <1>1 DEF Begin, Ensure, Remove1, Stop1, Shutdown1, DropEntry, taskVars
<1>2. ASSUME NEW c \in Callers, GoOn(c) PROVE signal'[t] # "armed"
  BY <1>2 DEF GoOn, Finish, ShutdownRest, Remove2, Stop2, Join, Shutdown2, Shutdown3, DrainNext,
              DrainJoin, DrainDone, DropEntry, SendStop, taskVars, histVars
<1>3. ASSUME NEW c \in Callers, Release(c), UNCHANGED histVars PROVE signal'[t] # "armed"
  BY <1>3 DEF Release, taskVars, histVars
<1>4. ASSUME NEW c \in Callers, Abandon(c) PROVE signal'[t] # "armed"
  <2>1. t \in Tasks /\ (t \in unjoined \/ t \in LetGo(c))
    BY <1>4 DEF Abandon, LetGo
  <2> QED
    BY <1>4, <2>1 DEF Abandon
<1>5. ASSUME NEW u \in Tasks, TaskStep(u) PROVE signal'[t] # "armed"
  BY <1>5 DEF TaskStep, TaskBreak, TaskGone
<1>6. CASE UNCHANGED vars
  BY <1>6 DEF vars, taskVars, histVars
<1> QED
  BY <1>1, <1>2, <1>3, <1>4, <1>5, <1>6 DEF Next

LEMMA OrderlyIsOne == IInv /\ Orderly /\ UnjoinedTold => OneLiveTask
<1> SUFFICES ASSUME IInv, UnjoinedTold, turns, InTurns PROVE OneLiveTask
  BY DEF Orderly, OneLiveTask, OneTaskPerPort, HandleIsLive, UnjoinedTold
<1> USE DEF TypeOK
<1>0. TypeOK /\ TookInside /\ OneShutdown
  BY DEF IInv
<1>1. ASSUME NEW t \in Tasks \ unjoined, NEW u \in Tasks \ unjoined, Live(t), Live(u),
             connOf[t] = connOf[u]
      PROVE  t = u
  <2>0. connOf[t] \in Conns
    BY <1>0
  <2>1. CASE tasks[connOf[t]] = t
    <3>1. u \notin drain
      BY <1>0, <2>0, <2>1 DEF InTurns, Emptied, OneShutdown
    <3>2. ~InHand(u)
      BY <1>0, <1>1, <2>0, <2>1 DEF InTurns, Filed, InHand
    <3> QED
      BY <1>1, <2>1, <3>1, <3>2 DEF InTurns, AliveIsKnown
  <2>2. CASE t \in drain
    <3>1. tasks[connOf[u]] # u
      BY <1>0, <1>1, <2>0, <2>2 DEF InTurns, Emptied, OneShutdown
    <3>2. ~InHand(u)
      BY <1>0, <2>2 DEF InTurns, Alone, OneShutdown, InHand
    <3>3. u \in drain
      BY <1>1, <3>1, <3>2 DEF InTurns, AliveIsKnown
    <3> QED
      BY <1>1, <2>2, <3>3 DEF InTurns, Emptied
  <2>3. CASE InHand(t)
    <3>1. tasks[connOf[u]] # u
      BY <1>0, <1>1, <2>0, <2>3 DEF InTurns, Filed, InHand
    <3>2. u \notin drain
      BY <1>0, <2>3 DEF InTurns, Alone, OneShutdown, InHand
    <3>3. InHand(u)
      BY <1>1, <3>1, <3>2 DEF InTurns, AliveIsKnown
    <3> QED
      BY <2>3, <3>3 DEF InTurns, Alone, InHand
  <2> QED
    BY <1>1, <2>1, <2>2, <2>3 DEF InTurns, AliveIsKnown
<1>2. ASSUME Quiet, ~down, NEW k \in Conns
      PROVE  handles[k] = tasks[k] /\ (handles[k] # NoTask => ~ToldToStop(handles[k]))
  <2>1. handles[k] = tasks[k]
    BY <1>2 DEF InTurns, Agree, Quiet
  <2> QED
    BY <1>2, <2>1 DEF InTurns, Untold, ToldToStop
<1> QED
  BY <1>1, <1>2 DEF OneLiveTask, OneTaskPerPort, HandleIsLive, UnjoinedTold

(* As long as the callers take turns and keep off remove, as the hub does, *)
(* ensure, stop_and_join and shutdown give a port a second live task only  *)
(* where the caller joining the first was dropped, and then the first has  *)
(* been told to stop; between operations the handle on offer is that of    *)
(* the one task the directory can stop, which nobody has told to stop.     *)
THEOREM OneTaskInTurns == Spec => []OneLiveTask
<1>1. Init => IInv /\ Orderly /\ UnjoinedTold
  BY InitIInv, InitOrderly DEF Init, UnjoinedTold
<1>2. IInv /\ Orderly /\ UnjoinedTold /\ [Next]_vars => (IInv /\ Orderly /\ UnjoinedTold)'
  BY StepTypeOK, StepTookInside, StepOneShutdown, StepReach, StepOrderly, StepUnjoinedTold DEF IInv
<1>3. IInv /\ Orderly /\ UnjoinedTold => OneLiveTask
  BY OrderlyIsOne
<1> QED
  BY <1>1, <1>2, <1>3, PTL DEF Spec
=============================================================================
