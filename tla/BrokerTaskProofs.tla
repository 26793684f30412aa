--------------------------- MODULE BrokerTaskProofs ---------------------------
(***************************************************************************)
(* Theorems about BrokerTask for every set of callers and kinds of job,    *)
(* every channel capacity, and any number of dials and attempts; and, from *)
(* PcSteps on, about RangeDiagnostics, whose handlers are its callers.     *)
(*                                                                         *)
(* The safety properties of the task are not inductive.  IInv adds where   *)
(* the device's connections are in each state of the task (Device), that   *)
(* an epoch which still carries the present status version was captured on *)
(* the present dial (EpochsOld), and what the saved read rules and the job *)
(* in service say of the installed report (Reports).                       *)
(***************************************************************************)
EXTENDS RangeDiagnostics, SequencesExt, SequenceTheorems, TLAPS

(* An element joins at the end; the first one is taken.                    *)
LEMMA JoinAndTake ==
  ASSUME NEW S, NEW q \in Seq(S)
  PROVE  /\ \A x \in S : Append(q, x) \in Seq(S)
         /\ q # <<>> => q[1] \in S /\ SubSeq(q, 2, Len(q)) \in Seq(S)
<1>1. \A x \in S : Append(q, x) \in Seq(S)
  OBVIOUS
<1>2. q # <<>> => q[1] \in S /\ SubSeq(q, 2, Len(q)) \in Seq(S)
  OBVIOUS
<1> QED
  BY <1>1, <1>2

(* One element is removed, the others keep their order.                    *)
LEMMA RemoveOne ==
  ASSUME NEW S, NEW q \in Seq(S), NEW k \in 1..Len(q)
  PROVE  /\ RemoveAt(q, k) \in Seq(S) /\ Len(RemoveAt(q, k)) = Len(q) - 1
         /\ \A j \in 1..Len(q) - 1 : RemoveAt(q, k)[j] = IF j < k THEN q[j] ELSE q[j + 1]
<1> DEFINE L == SubSeq(q, 1, k - 1)
           R == SubSeq(q, k + 1, Len(q))
<1>1. /\ L \in Seq(S) /\ Len(L) = k - 1
      /\ \A j \in 1..k - 1 : L[j] = q[j]
  OBVIOUS
<1>2. /\ R \in Seq(S) /\ Len(R) = Len(q) - k
      /\ \A j \in 1..Len(q) - k : R[j] = q[j + k]
  OBVIOUS
<1>3. RemoveAt(q, k) = L \o R
  BY DEF RemoveAt
<1> HIDE DEF L, R
<1>4. /\ L \o R \in Seq(S) /\ Len(L \o R) = Len(L) + Len(R)
      /\ \A j \in 1..Len(L) + Len(R) : (L \o R)[j] = IF j <= Len(L) THEN L[j] ELSE R[j - Len(L)]
  BY <1>1, <1>2, ConcatProperties
<1>5. ASSUME NEW j \in 1..Len(q) - 1 PROVE (L \o R)[j] = IF j < k THEN q[j] ELSE q[j + 1]
  <2>1. Len(L) + Len(R) = Len(q) - 1 /\ (j < k <=> j <= Len(L))
    BY <1>1, <1>2
  <2>2. CASE j < k
    BY <1>1, <1>4, <2>1, <2>2
  <2>3. CASE ~(j < k)
    <3>1. j - Len(L) \in 1..Len(q) - k /\ (j - Len(L)) + k = j + 1
      BY <1>1, <2>3
    <3>2. (L \o R)[j] = R[j - Len(L)]
      BY <1>4, <2>1, <2>3
    <3> QED
      BY <1>2, <2>3, <3>1, <3>2
  <2> QED
    BY <2>2, <2>3
<1> QED
  BY <1>1, <1>2, <1>3, <1>4, <1>5

(* Where the task's connections are; a job in service has a session.       *)
Device ==
    /\ attempt <= dialNo
    /\ conn \in {"Backoff", "Gone"} => dials = {} /\ socks = {}
    /\ conn = "Connecting" => dials = {dialNo} /\ socks = {}
    /\ conn = "Connected" => dials = {} /\ socks = {dialNo}
    /\ conn = "Leaving" => dials \subseteq {dialNo} /\ socks \subseteq {dialNo} /\ (dials = {} \/ socks = {})
    /\ busy.stage # "none" => conn = "Connected"

(* Every status sent since the capture of e made it stale.                 *)
NotNewer(e) == e.ver <= ver /\ (e.ver = ver => e.dial = dialNo)

EpochsOld ==
    /\ \A c \in Callers : NotNewer(ep[c])
    /\ \A i \in 1..Len(queue) :
         NotNewer(queue[i].epoch) /\ (queue[i].kind \in DiagKinds => queue[i].epoch.n # 0)

OfThisSession(e) == e.n # 0 => conn \in {"Connected", "Leaving"} /\ e.dial = dialNo /\ dialNo \in socks

Reports ==
    /\ OfThisSession(outside)
    /\ before # <<>> => OfThisSession(before[1])
    /\ PendingIsInstalled
    /\ busy.stage = "accepted" => pending = outside.n

IInv == TypeOK /\ Device /\ EpochsOld /\ Reports

JobKinds == AwaitKinds \cup DiagKinds
BusyType == [kind : JobKinds \cup {"none"}, by : Callers \cup {Nobody}, epoch : Epoch, stage : Stages]

-----------------------------------------------------------------------------
(* The channel keeps its type when a caller gives up.                      *)
LEMMA AbandonQueue ==
  ASSUME NEW i \in 1..Len(queue), queue \in Seq(Job)
  PROVE  [queue EXCEPT ![i].by = Nobody] \in Seq(Job)
<1>1. queue[i] \in Job
  OBVIOUS
<1>2. [queue[i] EXCEPT !.by = Nobody] \in Job
  BY <1>1 DEF Job
<1> QED
  BY <1>2

-----------------------------------------------------------------------------
(* The types hold initially.                                               *)
LEMMA InitTypeOK == Init => TypeOK
<1> SUFFICES ASSUME Init PROVE TypeOK
  OBVIOUS
<1> USE BrokerAssumption DEF Init
<1>1. NoEpoch \in Epoch
  BY DEF NoEpoch, Epoch
<1>2. busy \in BusyType
  BY <1>1 DEF NoJob, BusyType, Stages
<1>3. status \in Status
  BY DEF Status, Reconnecting
<1>4. queue \in Seq(Job) /\ before \in Seq(Epoch) /\ Len(before) <= 1
  OBVIOUS
<1>5. ep \in [Callers -> Epoch] /\ outside \in Epoch
  BY <1>1
<1>6. req \in [Callers -> Replies \cup {"idle", "waiting"}]
  OBVIOUS
<1>7. attempt \in 0..MaxDial /\ dialNo \in 0..MaxDial /\ epochs \in 0..MaxEpoch /\ pending \in 0..MaxEpoch
  OBVIOUS
<1>8. dials \subseteq 1..MaxDial /\ socks \subseteq 1..MaxDial
  OBVIOUS
<1> QED
  BY <1>1, <1>2, <1>3, <1>4, <1>5, <1>6, <1>7, <1>8 DEF TypeOK, BusyType, JobKinds

(* A step of a caller leaves the types alone.                              *)
LEMMA CallerTypeOK ==
  ASSUME TypeOK, NEW c \in Callers, Caller(c)
  PROVE  TypeOK'
<1> USE BrokerAssumption DEF TypeOK
<1>1. CASE CaptureEpoch(c)
  <2>1. [n |-> epochs + 1, ver |-> ver, dial |-> dialNo] \in Epoch
    BY <1>1 DEF CaptureEpoch, Epoch
  <2>2. epochs' \in 0..MaxEpoch
    BY <1>1 DEF CaptureEpoch
  <2>3. ep' \in [Callers -> Epoch]
    BY <1>1, <2>1 DEF CaptureEpoch
  <2> QED
    BY <1>1, <2>2, <2>3 DEF CaptureEpoch, connVars, diagVars, envVars
<1>2. ASSUME NEW k \in Kinds, Submit(c, k) PROVE TypeOK'
  <2>1. [kind |-> k, by |-> c, epoch |-> ep[c]] \in Job
    BY DEF Job
  <2>4. Append(queue, [kind |-> k, by |-> c, epoch |-> ep[c]]) \in Seq(Job)
    BY <2>1, JoinAndTake
  <2>2. queue' \in Seq(Job)
    BY <1>2, <2>4 DEF Submit
  <2>3. req' \in [Callers -> Replies \cup {"idle", "waiting"}]
    BY <1>2 DEF Submit, Replies
  <2> QED
    BY <1>2, <2>2, <2>3 DEF Submit, connVars, diagVars, envVars
<1>3. CASE Abandon(c)
  <2>4. \A i \in 1..Len(queue) : RemoveAt(queue, i) \in Seq(Job)
    BY RemoveOne
  <2>5. \A i \in 1..Len(queue) : [queue EXCEPT ![i].by = Nobody] \in Seq(Job)
    BY AbandonQueue
  <2>1. queue' \in Seq(Job)
    BY <1>3, <2>4, <2>5 DEF Abandon
  <2>2. busy' \in BusyType
    BY <1>3 DEF Abandon, BusyType, JobKinds
  <2>3. req' \in [Callers -> Replies \cup {"idle", "waiting"}]
    BY <1>3 DEF Abandon
  <2> QED
    BY <1>3, <2>1, <2>2, <2>3 DEF Abandon, BusyType, JobKinds, connVars, diagVars, envVars
<1>4. CASE Collect(c)
  <2>1. req' \in [Callers -> Replies \cup {"idle", "waiting"}]
    BY <1>4 DEF Collect
  <2> QED
    BY <1>4, <2>1 DEF Collect, connVars, diagVars, envVars
<1> QED
  BY <1>1, <1>2, <1>3, <1>4 DEF Caller

(* Nor does the connection side of the task.                               *)
LEMMA ConnTypeOK ==
  ASSUME TypeOK, Device, ConnEvent \/ Break \/ Leave \/ DropSession
  PROVE  TypeOK'
<1> USE BrokerAssumption DEF TypeOK, Publish, Reconnecting
<1>0. NoEpoch \in Epoch /\ NoJob \in BusyType
  BY DEF NoEpoch, Epoch, NoJob, BusyType, Stages
<1>1. CASE Due
  <2>1. attempt' \in 0..MaxDial /\ dialNo' \in 0..MaxDial
    BY <1>1 DEF Due, Device
  <2>2. status' \in Status /\ ver' \in Nat
    BY <1>1, <2>1 DEF Due, Status
  <2>3. dials' \subseteq 1..MaxDial
    BY <1>1, <2>1 DEF Due
  <2> QED
    BY <1>1, <2>1, <2>2, <2>3 DEF Due, diagVars, envVars
<1>2. CASE DialOk
  <2>1. dialNo \in 1..MaxDial
    BY <1>2 DEF DialOk, Device
  <2>2. status' \in Status /\ ver' \in Nat
    BY <1>2 DEF DialOk, Status
  <2>3. pending' \in 0..MaxEpoch /\ outside' \in Epoch /\ before' \in Seq(Epoch) /\ Len(before') <= 1
    BY <1>0, <1>2 DEF DialOk, EndSession
  <2>4. dials' \subseteq 1..MaxDial /\ socks' \subseteq 1..MaxDial
    BY <1>2, <2>1 DEF DialOk
  <2> QED
    BY <1>2, <2>2, <2>3, <2>4 DEF DialOk, envVars
<1>3. CASE DialFailed
  <2>1. status' \in Status /\ ver' \in Nat
    BY <1>3 DEF DialFailed, Status
  <2> QED
    BY <1>3, <2>1 DEF DialFailed, diagVars, envVars
<1>4. CASE Break
  BY <1>4 DEF Break, diagVars, envVars
<1>5. CASE Leave
  <2>1. status' \in Status /\ ver' \in Nat
    BY <1>5 DEF Leave, Status
  <2>2. pending' \in 0..MaxEpoch /\ outside' \in Epoch /\ before' \in Seq(Epoch) /\ Len(before') <= 1
    BY <1>0, <1>5 DEF Leave, EndSession
  <2>3. dials' \subseteq 1..MaxDial /\ socks' \subseteq 1..MaxDial
    BY <1>5 DEF Leave, CloseDevice
  <2>4. req' \in [Callers -> Replies \cup {"idle", "waiting"}]
    BY <1>5 DEF Leave, Replies
  <2>5. queue' \in Seq(Job)
    BY <1>5 DEF Leave
  <2> QED
    BY <1>5, <2>1, <2>2, <2>3, <2>4, <2>5 DEF Leave, envVars
<1>6. CASE DropSession
  <2>1. status' \in Status /\ ver' \in Nat /\ attempt' \in 0..MaxDial
    BY <1>6 DEF DropSession, AfterFatal, Status
  <2>2. pending' \in 0..MaxEpoch /\ outside' \in Epoch /\ before' \in Seq(Epoch) /\ Len(before') <= 1
    BY <1>0, <1>6 DEF DropSession, EndSession
  <2>3. socks' \subseteq 1..MaxDial /\ busy' \in BusyType
    BY <1>0, <1>6 DEF DropSession
  <2> QED
    BY <1>6, <2>1, <2>2, <2>3 DEF DropSession, envVars, BusyType, JobKinds
<1> QED
  BY <1>1, <1>2, <1>3, <1>4, <1>5, <1>6 DEF ConnEvent

(* Nor does the job side.                                                  *)
LEMMA JobTypeOK ==
  ASSUME TypeOK, TakeJob \/ CallOk \/ CallFatal \/ ReplyAccept
  PROVE  TypeOK'
<1> USE BrokerAssumption DEF TypeOK
<1>0. NoJob \in BusyType
  BY DEF NoEpoch, Epoch, NoJob, BusyType, Stages
<1>1. queue # <<>> => Head1 \in Job /\ Rest \in Seq(Job)
  BY JoinAndTake DEF Head1, Rest
<1>2. ASSUME NEW c, NEW v \in Replies, Answer(c, v)
      PROVE  req' \in [Callers -> Replies \cup {"idle", "waiting"}]
  BY <1>2 DEF Answer
<1>3. ASSUME NEW e \in Epoch, NEW stage \in Stages, NEW k \in JobKinds, NEW b \in Callers \cup {Nobody}
      PROVE  [kind |-> k, by |-> b, epoch |-> e, stage |-> stage] \in BusyType
  BY DEF BusyType
<1>4. CASE TakeCall
  <2>1. Head1 \in Job /\ Rest \in Seq(Job)
    BY <1>1, <1>4 DEF TakeCall
  <2>2. busy' \in BusyType
    BY <1>3, <1>4, <2>1 DEF TakeCall, Job, Stages, JobKinds, BusyType
  <2>3. req' \in [Callers -> Replies \cup {"idle", "waiting"}]
    BY <1>2, <1>4 DEF TakeCall, Replies
  <2> QED
    BY <1>4, <2>1, <2>2, <2>3 DEF TakeCall, BusyType, JobKinds, connVars, diagVars, envVars
<1>5. CASE SkipRefresh
  BY <1>1, <1>5 DEF SkipRefresh, connVars, diagVars, envVars
<1>6. CASE TakeAccept
  <2>1. Head1 \in Job /\ Rest \in Seq(Job)
    BY <1>1, <1>6 DEF TakeAccept, NoneTentative
  <2>2. busy' \in BusyType
    BY <1>3, <1>6, <2>1 DEF TakeAccept, NoneTentative, Job, Stages, JobKinds, BusyType
  <2>3. req' \in [Callers -> Replies \cup {"idle", "waiting"}]
    BY <1>2, <1>6 DEF TakeAccept, NoneTentative, Replies
  <2>4. Head1.epoch \in Epoch /\ Head1.epoch.n \in 0..MaxEpoch
    BY <2>1 DEF Job, Epoch
  <2>5. pending' \in 0..MaxEpoch /\ outside' \in Epoch
    BY <1>6, <2>4 DEF TakeAccept, NoneTentative, diagVars
  <2>7. <<outside>> \in Seq(Epoch) /\ Len(<<outside>>) <= 1 /\ before \in Seq(Epoch) /\ Len(before) <= 1
    OBVIOUS
  <2>8. before' = <<outside>> \/ before' = before
    BY <1>6 DEF TakeAccept, NoneTentative, diagVars
  <2>6. before' \in Seq(Epoch) /\ Len(before') <= 1
    BY <2>7, <2>8, Zenon
  <2> QED
    BY <1>6, <2>1, <2>2, <2>3, <2>5, <2>6 DEF TakeAccept, NoneTentative, BusyType, JobKinds, connVars, envVars
<1>7. ASSUME RestoreOutside PROVE outside' \in Epoch /\ before' \in Seq(Epoch) /\ Len(before') <= 1
  BY <1>7 DEF RestoreOutside
<1>8. CASE TakeDiscard
  <2>1. req' \in [Callers -> Replies \cup {"idle", "waiting"}]
    BY <1>2, <1>8 DEF TakeDiscard, Replies
  <2>2. outside' \in Epoch /\ before' \in Seq(Epoch) /\ Len(before') <= 1 /\ pending' \in 0..MaxEpoch
    BY <1>7, <1>8 DEF TakeDiscard, diagVars
  <2> QED
    BY <1>1, <1>8, <2>1, <2>2 DEF TakeDiscard, connVars, envVars
<1>9. CASE TakeFinalize
  <2>1. req' \in [Callers -> Replies \cup {"idle", "waiting"}]
    BY <1>2, <1>9 DEF TakeFinalize, Replies
  <2>2. pending' \in 0..MaxEpoch
    BY <1>9 DEF TakeFinalize
  <2> QED
    BY <1>1, <1>9, <2>1, <2>2 DEF TakeFinalize, connVars, envVars
<1>10. CASE CallOk
  <2>1. req' \in [Callers -> Replies \cup {"idle", "waiting"}]
    BY <1>2, <1>10 DEF CallOk, Replies
  <2> QED
    BY <1>0, <1>10, <2>1 DEF CallOk, BusyType, JobKinds, connVars, diagVars, envVars
<1>11. CASE CallFatal
  <2>1. req' \in [Callers -> Replies \cup {"idle", "waiting"}]
    BY <1>2, <1>11 DEF CallFatal, Replies
  <2>2. busy' \in BusyType
    BY <1>11 DEF CallFatal, BusyType, JobKinds, Stages
  <2> QED
    BY <1>11, <2>1, <2>2 DEF CallFatal, BusyType, JobKinds, connVars, diagVars, envVars
<1>12. CASE ReplyAccept
  <2>1. req' \in [Callers -> Replies \cup {"idle", "waiting"}]
    BY <1>2, <1>12 DEF ReplyAccept, Replies
  <2>2. outside' \in Epoch /\ before' \in Seq(Epoch) /\ Len(before') <= 1 /\ pending' \in 0..MaxEpoch
    BY <1>7, <1>12 DEF ReplyAccept, diagVars
  <2> QED
    BY <1>0, <1>12, <2>1, <2>2 DEF ReplyAccept, BusyType, JobKinds, connVars, envVars
<1> QED
  BY <1>4, <1>5, <1>6, <1>8, <1>9, <1>10, <1>11, <1>12 DEF TakeJob

(* Every variable keeps its type in every step.                            *)
LEMMA StepTypeOK == TypeOK /\ Device /\ [Next]_vars => TypeOK'
<1> SUFFICES ASSUME TypeOK, Device, [Next]_vars PROVE TypeOK'
  OBVIOUS
<1>1. CASE Stop \/ DropHandles \/ UNCHANGED vars
  BY <1>1 DEF Stop, DropHandles, vars, connVars, diagVars, envVars, TypeOK
<1> QED
  BY <1>1, CallerTypeOK, ConnTypeOK, JobTypeOK DEF Next, Task, EndJob

-----------------------------------------------------------------------------
(* The connections stay where Device says they are.                        *)
LEMMA StepDevice == TypeOK /\ Device /\ [Next]_vars => Device'
<1> SUFFICES ASSUME TypeOK, Device, [Next]_vars PROVE Device'
  OBVIOUS
<1> USE DEF Device, Idle, InLoop, NoJob
<1>0. /\ attempt \in Nat /\ dialNo \in Nat
      /\ busy \in [kind : JobKinds \cup {"none"}, by : Callers \cup {Nobody}, epoch : Epoch, stage : Stages]
  BY BrokerAssumption DEF TypeOK, JobKinds
<1>1. CASE Due
  BY <1>0, <1>1 DEF Due
<1>2. CASE DialOk
  BY <1>0, <1>2 DEF DialOk
<1>3. CASE DialFailed
  BY <1>0, <1>3 DEF DialFailed
<1>4. CASE Break
  BY <1>4 DEF Break
<1>5. CASE Leave
  BY <1>5 DEF Leave, CloseDevice
<1>6. CASE DropSession
  BY <1>0, <1>6 DEF DropSession
<1>7. CASE TakeCall
  BY <1>7 DEF TakeCall, connVars
<1>8. CASE SkipRefresh \/ TakeDiscard \/ TakeFinalize
  BY <1>8 DEF SkipRefresh, TakeDiscard, TakeFinalize, connVars
<1>9. CASE TakeAccept
  BY <1>9 DEF TakeAccept, NoneTentative, connVars
<1>10. CASE CallOk \/ ReplyAccept
  BY <1>10 DEF CallOk, ReplyAccept, connVars
<1>11. CASE CallFatal
  BY <1>0, <1>11 DEF CallFatal, connVars
<1>12. ASSUME NEW c \in Callers, Caller(c) PROVE Device'
  <2>1. busy'.stage = busy.stage /\ UNCHANGED connVars
    BY <1>0, <1>12 DEF Caller, CaptureEpoch, Submit, Abandon, Collect
  <2> QED
    BY <2>1 DEF connVars
<1>13. CASE Stop \/ DropHandles \/ UNCHANGED vars
  BY <1>13 DEF Stop, DropHandles, vars, connVars
<1> QED
  BY <1>1, <1>2, <1>3, <1>4, <1>5, <1>6, <1>7, <1>8, <1>9, <1>10, <1>11, <1>12, <1>13
     DEF Next, Task, ConnEvent, TakeJob, EndJob

(* Taking or losing a job leaves jobs that were there before.              *)
QueueFrom == \A j \in 1..Len(queue') : \E i \in 1..Len(queue) :
               queue'[j].kind = queue[i].kind /\ queue'[j].epoch = queue[i].epoch

(* A caller that gives up leaves only jobs that were there before.         *)
LEMMA AbandonLeaves ==
  ASSUME queue \in Seq(Job), NEW c \in Callers, Abandon(c)
  PROVE  QueueFrom
<1> USE DEF QueueFrom
<1>1. CASE UNCHANGED queue
  BY <1>1
<1>2. ASSUME NEW i \in 1..Len(queue), queue' = [queue EXCEPT ![i].by = Nobody] PROVE QueueFrom
  <2>1. queue[i] \in Job /\ Len(queue') = Len(queue)
    BY <1>2
  <2>2. [queue[i] EXCEPT !.by = Nobody].kind = queue[i].kind /\ [queue[i] EXCEPT !.by = Nobody].epoch = queue[i].epoch
    BY <2>1 DEF Job
  <2> QED
    BY <1>2, <2>1, <2>2
<1>3. ASSUME NEW i \in 1..Len(queue), queue' = RemoveAt(queue, i)
      PROVE  QueueFrom
  <2>1. /\ Len(queue') = Len(queue) - 1
        /\ \A j \in 1..Len(queue') : queue'[j] = IF j < i THEN queue[j] ELSE queue[j + 1]
    BY <1>3, RemoveOne
  <2> QED
    BY <2>1
<1> QED
  BY <1>1, <1>2, <1>3 DEF Abandon

(* The task takes the first job and leaves the others.                     *)
LEMMA TakeLeaves ==
  ASSUME queue \in Seq(Job), TakeJob
  PROVE  QueueFrom
<1>1. queue # <<>> /\ queue' = SubSeq(queue, 2, Len(queue))
  BY DEF TakeJob, TakeCall, SkipRefresh, TakeAccept, TakeDiscard, TakeFinalize, Rest
<1>2. Len(queue') = Len(queue) - 1 /\ \A j \in 1..Len(queue') : queue'[j] = queue[j + 1]
  <2>1. queue' = Tail(queue)
    BY <1>1
  <2> QED
    BY <1>1, <2>1, HeadTailProperties
<1> QED
  BY <1>2 DEF QueueFrom

(* An epoch that carries the present version was captured on this dial.    *)
LEMMA StepEpochsOld == TypeOK /\ EpochsOld /\ [Next]_vars => EpochsOld'
<1> SUFFICES ASSUME TypeOK, EpochsOld, [Next]_vars PROVE EpochsOld'
  OBVIOUS
<1> USE DEF EpochsOld, NotNewer
<1>0. /\ ver \in Nat /\ dialNo \in Nat /\ queue \in Seq(Job) /\ ep \in [Callers -> Epoch]
      /\ \A c \in Callers : ep[c].ver \in Nat
      /\ \A i \in 1..Len(queue) : queue[i].epoch.ver \in Nat
  <2>1. ver \in Nat /\ dialNo \in Nat /\ queue \in Seq(Job) /\ ep \in [Callers -> Epoch]
    BY BrokerAssumption DEF TypeOK
  <2>2. \A e \in Epoch : e.ver \in Nat
    BY DEF Epoch
  <2>3. \A i \in 1..Len(queue) : queue[i] \in Job
    BY <2>1
  <2>4. \A j \in Job : j.epoch \in Epoch
    BY DEF Job
  <2> QED
    BY <2>1, <2>2, <2>3, <2>4
<1>1. ASSUME UNCHANGED ep, QueueFrom, UNCHANGED <<ver, dialNo>> \/ ver' = ver + 1 PROVE EpochsOld'
  <2>1. ASSUME NEW e, NotNewer(e), e.ver \in Nat PROVE NotNewer(e)'
    BY <1>0, <1>1, <2>1
  <2>2. ASSUME NEW c \in Callers PROVE NotNewer(ep[c])'
    BY <1>0, <1>1, <2>1
  <2>3. ASSUME NEW j \in 1..Len(queue')
        PROVE  NotNewer(queue[j].epoch)' /\ (queue'[j].kind \in DiagKinds => queue'[j].epoch.n # 0)
    <3>1. PICK i \in 1..Len(queue) : queue'[j].kind = queue[i].kind /\ queue'[j].epoch = queue[i].epoch
      BY <1>1 DEF QueueFrom
    <3>2. NotNewer(queue[i].epoch) /\ queue[i].epoch.ver \in Nat /\ (queue[i].kind \in DiagKinds => queue[i].epoch.n # 0)
      BY <1>0
    <3> QED
      BY <1>0, <1>1, <3>1, <3>2
  <2> QED
    BY <2>2, <2>3
<1>2. CASE UNCHANGED queue /\ UNCHANGED ep /\ (UNCHANGED <<ver, dialNo>> \/ ver' = ver + 1)
  <2>1. QueueFrom
    BY <1>2 DEF QueueFrom
  <2> QED
    BY <1>1, <1>2, <2>1
<1>3. CASE ConnEvent \/ Break \/ EndJob \/ Stop \/ DropHandles \/ UNCHANGED vars
  BY <1>2, <1>3 DEF ConnEvent, Due, DialOk, DialFailed, Break, EndJob, CallOk, CallFatal, DropSession,
                    ReplyAccept, Stop, DropHandles, Publish, vars, connVars
<1>4. CASE Leave
  BY <1>0, <1>4 DEF Leave, Publish
<1>5. CASE TakeJob
  BY <1>0, <1>1, <1>5, TakeLeaves
     DEF TakeJob, TakeCall, SkipRefresh, TakeAccept, TakeDiscard, TakeFinalize, connVars
<1>6. ASSUME NEW c \in Callers, Caller(c) PROVE EpochsOld'
  <2>1. CASE CaptureEpoch(c)
    BY <1>0, <2>1 DEF CaptureEpoch, connVars
  <2>2. ASSUME NEW k \in Kinds, Submit(c, k) PROVE EpochsOld'
    <3>1. CASE UNCHANGED queue
      BY <1>2, <2>2, <3>1 DEF Submit, connVars
    <3>2. CASE queue' = Append(queue, [kind |-> k, by |-> c, epoch |-> ep[c]])
      <4>1. /\ Len(queue') = Len(queue) + 1
            /\ queue'[Len(queue')] = [kind |-> k, by |-> c, epoch |-> ep[c]]
            /\ \A i \in 1..Len(queue) : queue'[i] = queue[i]
        BY <1>0, <3>2
      <4>2. k \in DiagKinds => ep[c].n # 0
        BY <2>2 DEF Submit
      <4>3. UNCHANGED <<ver, dialNo, ep>>
        BY <2>2 DEF Submit, connVars
      <4>4. NotNewer(ep[c])
        BY <1>0
      <4>5. ASSUME NEW i \in 1..Len(queue')
            PROVE  NotNewer(queue[i].epoch)' /\ (queue'[i].kind \in DiagKinds => queue'[i].epoch.n # 0)
        <5>1. CASE i = Len(queue')
          BY <4>1, <4>2, <4>3, <4>4, <5>1
        <5>2. CASE i # Len(queue')
          BY <1>0, <4>1, <4>3, <5>2
        <5> QED
          BY <5>1, <5>2
      <4> QED
        BY <1>0, <4>3, <4>5
    <3> QED
      BY <2>2, <3>1, <3>2 DEF Submit
  <2>3. CASE Abandon(c)
    BY <1>0, <1>1, <2>3, AbandonLeaves DEF Abandon, connVars
  <2>4. CASE Collect(c)
    BY <1>2, <2>4 DEF Collect, connVars
  <2> QED
    BY <1>6, <2>1, <2>2, <2>3, <2>4 DEF Caller
<1> QED
  BY <1>3, <1>4, <1>5, <1>6 DEF Next, Task

(* What the installed report, the saved rules and the job in service say   *)
(* of each other stays true.                                               *)
LEMMA StepReports == IInv /\ [Next]_vars => Reports'
<1> SUFFICES ASSUME IInv, [Next]_vars PROVE Reports'
  OBVIOUS
<1> TypeOK /\ Device /\ EpochsOld /\ Reports
  BY DEF IInv
<1> USE DEF Reports, OfThisSession, PendingIsInstalled, Idle, InLoop, NoJob
<1>0. /\ busy \in [kind : JobKinds \cup {"none"}, by : Callers \cup {Nobody}, epoch : Epoch, stage : Stages]
      /\ dialNo \in Nat /\ queue \in Seq(Job) /\ before \in Seq(Epoch) /\ Len(before) <= 1
  BY BrokerAssumption DEF TypeOK, JobKinds
<1>1. ASSUME EndSession, busy'.stage # "accepted" PROVE Reports'
  BY <1>1 DEF EndSession, NoEpoch
<1>2. ASSUME UNCHANGED diagVars, UNCHANGED <<conn, dialNo, socks>>, busy'.stage = "accepted" => busy.stage = "accepted"
      PROVE  Reports'
  BY <1>2 DEF diagVars
<1>3. ASSUME RestoreOutside, pending' = 0, UNCHANGED <<conn, dialNo, socks>>, busy'.stage # "accepted" PROVE Reports'
  BY <1>3 DEF RestoreOutside
<1>4. CASE Due \/ DialFailed
  BY <1>4 DEF Due, DialFailed, Device, diagVars
<1>5. CASE DialOk
  BY <1>1, <1>5 DEF DialOk
<1>6. CASE Break
  BY <1>6 DEF Break, diagVars
<1>7. CASE Leave
  BY <1>1, <1>7 DEF Leave, Device
<1>8. CASE DropSession
  BY <1>1, <1>8 DEF DropSession
<1>9. CASE TakeCall \/ SkipRefresh \/ TakeFinalize
  <2>1. CASE TakeCall \/ SkipRefresh
    BY <1>2, <2>1 DEF TakeCall, SkipRefresh, connVars
  <2>2. CASE TakeFinalize
    BY <2>2 DEF TakeFinalize, connVars
  <2> QED
    BY <1>9, <2>1, <2>2
<1>10. CASE TakeAccept
  <2>1. CASE UNCHANGED diagVars /\ UNCHANGED busy
    BY <1>2, <1>10, <2>1 DEF TakeAccept, NoneTentative, connVars
  <2>2. CASE /\ StatusUnchanged(Head1.epoch) /\ conn = "Connected"
             /\ before' = <<outside>> /\ outside' = Head1.epoch /\ pending' = Head1.epoch.n
             /\ UNCHANGED <<conn, dialNo, socks>>
    <3>1. queue # <<>> /\ 1 \in 1..Len(queue)
      BY <1>0, <1>10 DEF TakeAccept, NoneTentative
    <3>2. Head1.epoch.dial = dialNo /\ dialNo \in socks
      BY <2>2, <3>1 DEF EpochsOld, NotNewer, StatusUnchanged, Head1, Device
    <3> QED
      BY <2>2, <3>2
  <2> QED
    BY <1>10, <2>1, <2>2 DEF TakeAccept, NoneTentative, connVars, diagVars
<1>11. CASE TakeDiscard
  BY <1>2, <1>3, <1>11 DEF TakeDiscard, connVars
<1>12. CASE CallOk
  BY <1>2, <1>12 DEF CallOk, connVars
<1>16. CASE CallFatal
  <2>1. busy'.stage = "fatal" /\ UNCHANGED diagVars /\ UNCHANGED <<conn, dialNo, socks>>
    BY <1>0, <1>16 DEF CallFatal, connVars
  <2> QED
    BY <1>2, <2>1
<1>13. CASE ReplyAccept
  BY <1>2, <1>3, <1>13 DEF ReplyAccept, connVars
<1>14. ASSUME NEW c \in Callers, Caller(c) PROVE Reports'
  <2>1. busy'.stage = busy.stage /\ UNCHANGED connVars /\ UNCHANGED diagVars
    BY <1>0, <1>14 DEF Caller, CaptureEpoch, Submit, Abandon, Collect
  <2> QED
    BY <1>2, <2>1 DEF connVars
<1>15. CASE Stop \/ DropHandles \/ UNCHANGED vars
  BY <1>2, <1>15 DEF Stop, DropHandles, vars, connVars
<1> QED
  BY <1>4, <1>5, <1>6, <1>7, <1>8, <1>9, <1>10, <1>11, <1>12, <1>13, <1>14, <1>15, <1>16
     DEF Next, Task, ConnEvent, TakeJob, EndJob

-----------------------------------------------------------------------------
(* A task starts without a connection, a job, an epoch or a report.        *)
LEMMA InitIInv == Init => IInv
<1> SUFFICES ASSUME Init PROVE IInv
  OBVIOUS
<1>1. Device /\ EpochsOld
  BY DEF Init, Device, EpochsOld, NotNewer, NoJob, NoEpoch
<1>2. Reports
  BY DEF Init, Reports, OfThisSession, PendingIsInstalled, NoEpoch, NoJob
<1> QED
  BY <1>1, <1>2, InitTypeOK DEF IInv

(* IInv holds in every behaviour of the task.                              *)
LEMMA Inductive == Spec => []IInv
<1>1. Init => IInv
  BY InitIInv
<1>2. IInv /\ [Next]_vars => IInv'
  BY StepTypeOK, StepDevice, StepEpochsOld, StepReports DEF IInv
<1> QED
  BY <1>1, <1>2, PTL DEF Spec

(* Every variable keeps its type; a published attempt number is 1-based.   *)
THEOREM TypeCorrect == Spec => []TypeOK
<1>1. IInv => TypeOK
  BY DEF IInv
<1> QED
  BY <1>1, Inductive, PTL

(* The device has at most one connection of the task, open or being opened *)
(* (a socket that a connector's sub-task still dials counts), and none     *)
(* once the task is gone, through every reconnect, fatal error and stop.   *)
THEOREM OneConnection == Spec => []SingleDeviceConnection
<1>1. TypeOK /\ Device => SingleDeviceConnection
  <2> SUFFICES ASSUME TypeOK, Device PROVE SingleDeviceConnection
    OBVIOUS
  <2>1. dials \cup socks \subseteq {dialNo}
    BY DEF TypeOK, Device
  <2>2. conn = "Gone" => dials \cup socks = {}
    BY DEF Device
  <2> QED
    BY <2>1, <2>2 DEF SingleDeviceConnection
<1>2. IInv => SingleDeviceConnection
  BY <1>1 DEF IInv
<1> QED
  BY <1>2, Inductive, PTL

(* A report suppresses reads only on the physical session it was captured  *)
(* on, however late its acceptance is served.                              *)
THEOREM SuppressionDiesWithSession == Spec => []SuppressionOfThisSession
<1>1. IInv => SuppressionOfThisSession
  BY DEF IInv, Reports, OfThisSession, SuppressionOfThisSession
<1> QED
  BY <1>1, Inductive, PTL

(* A tentative acceptance is always that of the installed report.          *)
THEOREM TentativeIsInstalled == Spec => []PendingIsInstalled
<1>1. IInv => PendingIsInstalled
  BY DEF IInv, Reports
<1> QED
  BY <1>1, Inductive, PTL

(* The two together.                                                       *)
THEOREM SuppressionStands == Spec => []SuppressionHolds
  BY SuppressionDiesWithSession, TentativeIsInstalled, PTL DEF SuppressionHolds

(* While a session lasts only an accept, or the discard of the tentative   *)
(* accept, changes what it suppresses.                                     *)
THEOREM FinalizedReportStays == Spec => SuppressionOwned
<1> DEFINE A == outside # outside' /\ dialNo \in socks \cap socks'
                  => \/ pending = 0 /\ pending' = outside'.n
                     \/ pending = outside.n /\ pending' = 0
<1>1. ASSUME IInv, [Next]_vars, outside # outside', dialNo \in socks, dialNo \in socks'
      PROVE  \/ pending = 0 /\ pending' = outside'.n
             \/ pending = outside.n /\ pending' = 0
  <2> USE DEF IInv, diagVars
  <2>1. CASE DialOk \/ DropSession \/ Leave
    BY <1>1, <2>1 DEF DialOk, DropSession, Leave, CloseDevice, Device
  <2>2. CASE TakeAccept
    BY <1>1, <2>2 DEF TakeAccept, NoneTentative
  <2>3. CASE TakeDiscard
    <3>1. 1 \in 1..Len(queue) /\ Head1.kind \in DiagKinds /\ Owns(Head1.epoch) /\ pending' = 0
      BY <1>1, <2>3 DEF TakeDiscard, DiagKinds, TypeOK
    <3>2. pending # 0
      BY <1>1, <3>1 DEF EpochsOld, Owns, Head1
    <3> QED
      BY <1>1, <3>1, <3>2 DEF Reports, PendingIsInstalled
  <2>4. CASE ReplyAccept
    BY <1>1, <2>4 DEF ReplyAccept, Reports
  <2>5. CASE UNCHANGED outside
    BY <1>1, <2>5
  <2> QED
    BY <1>1, <2>1, <2>2, <2>3, <2>4, <2>5
       DEF Next, Task, ConnEvent, TakeJob, EndJob, Due, DialFailed, TakeCall, SkipRefresh, TakeFinalize,
           CallOk, CallFatal, Break, Stop, DropHandles, Caller, CaptureEpoch, Submit, Abandon, Collect, vars
<1>2. IInv /\ [Next]_vars => [A]_vars
  BY <1>1
<1> QED
  BY <1>2, Inductive, PTL DEF Spec, SuppressionOwned

-----------------------------------------------------------------------------
(***************************************************************************)
(* RangeDiagnostics: any number of handlers on one broker task, clients    *)
(* that disconnect anywhere, catalog commits, reconnects and any delay of  *)
(* a job in the channel.                                                   *)
(*                                                                         *)
(* A handler's steps are steps of BrokerTask's callers, so what is proved  *)
(* of the task holds of the composition (DiagSpec implements Spec).  Its   *)
(* own properties rest on whose a job is (OwnJobs, DiagJobs), on an epoch  *)
(* being told by its number (Known), on who will end a tentative accept    *)
(* (Tentative), and on a report being published only after its last accept *)
(* and never discarded (Published, Installed).                             *)
(***************************************************************************)

PcSteps == {"idle"} \cup Awaits \cup Steps

DiagTypeOK ==
    /\ pc \in [Callers -> PcSteps] /\ rev \in [Callers -> 0..MaxRevision] /\ revision \in 0..MaxRevision
    /\ report \in [epoch : Epoch, rev : 0..MaxRevision] /\ cut \subseteq 0..MaxEpoch

(* A handler has a request out in the steps that await one, and an epoch.  *)
Waiting ==
    \A c \in Callers : /\ req[c] = "idle" <=> pc[c] \notin Awaits
                       /\ pc[c] # "idle" => ep[c].n # 0

(* A handler has one job at most, the one it waits for.                    *)
WaitsFor(kind) ==
    CASE kind = "Refresh" -> "refreshing" [] kind = "Call" -> "diagnosing"
      [] kind = "Accept" -> "accepting" [] kind = "Finalize" -> "finalizing" [] OTHER -> "discarding"
Queued(i, c) ==
    /\ req[c] = "waiting" /\ queue[i].epoch = ep[c] /\ pc[c] = WaitsFor(queue[i].kind)
    /\ busy.by # c
Served(c) ==
    /\ req[c] = "waiting" /\ busy.epoch = ep[c]
    /\ \/ busy.stage = "calling" /\ pc[c] \in {"refreshing", "diagnosing"}
       \/ busy.stage = "accepted" /\ pc[c] = "accepting"
OwnJobs ==
    /\ \A c \in Callers : \A i \in 1..Len(queue) : queue[i].by = c => Queued(i, c)
    /\ \A i, j \in 1..Len(queue) : queue[i].by = queue[j].by /\ queue[i].by \in Callers => i = j
    /\ \A c \in Callers : busy.by = c => Served(c)

(* The epochs in use are known by their number, a handler's to it alone.   *)
AllEpochs ==
    {NoEpoch, busy.epoch, outside, report.epoch} \cup {ep[c] : c \in Callers}
      \cup {queue[i].epoch : i \in 1..Len(queue)} \cup {before[i] : i \in 1..Len(before)}
Old(e) == e.n <= epochs /\ e.ver <= ver
Known ==
    /\ \A e \in AllEpochs : Old(e)
    /\ \A e, f \in AllEpochs : e.n = f.n => e = f
    /\ \A c, d \in Callers : ep[c].n = ep[d].n /\ ep[c].n # 0 => c = d

(* A job about an epoch is of the handler that has it, or of one that has  *)
(* given up.                                                               *)
ForNobodyElse(by, n) == \A c \in Callers : ep[c].n = n => by = c \/ (by = Nobody /\ pc[c] = "idle")
DiagJobs ==
    /\ \A i \in 1..Len(queue) : queue[i].kind \in DiagKinds => ForNobodyElse(queue[i].by, queue[i].epoch.n)
    /\ busy.stage = "accepted" =>
         /\ ForNobodyElse(busy.by, busy.epoch.n) /\ outside = busy.epoch /\ busy.epoch.n # 0

(* The handler of the tentative accept is on its way to end it.            *)
Awaited(c) ==
    \/ pc[c] = "accepting" /\ (req[c] = "ok" \/ (busy.by = c /\ busy.stage = "accepted"))
    \/ pc[c] \in {"publishing", "toFinalize", "toDiscard", "idle"}
    \/ pc[c] \in {"finalizing", "discarding"} /\ req[c] = "waiting"
Tentative ==
    pending # 0 => outside.ver = ver /\ \A c \in Callers : ep[c].n = pending => Awaited(c)

(* A published report is not accepted or discarded any more; as long as    *)
(* its session stands it is the installed one, from the accept's reply on. *)
Unpublished(n) == report.epoch.n # n
Published ==
    /\ report # NoReport => report.epoch.n # 0
    /\ \A c \in Callers : pc[c] \notin {"idle", "toFinalize", "finalizing"} => Unpublished(ep[c].n)
    /\ \A i \in 1..Len(queue) : queue[i].kind \in {"Accept", "Discard"} => Unpublished(queue[i].epoch.n)
    /\ busy.stage = "accepted" => Unpublished(busy.epoch.n)
Accepted(c) == pc[c] = "publishing" \/ (pc[c] = "accepting" /\ req[c] = "ok")
Installed ==
    /\ report.epoch.n # 0 /\ IsCurrent(report.epoch) => outside = report.epoch
    /\ \A c \in Callers : Accepted(c) /\ IsCurrent(ep[c]) => outside = ep[c]

DiagInv ==
    /\ IInv /\ DiagTypeOK /\ Waiting /\ OwnJobs /\ Known /\ DiagJobs /\ Tentative /\ Published /\ Installed
    /\ TentativeHasOwner

-----------------------------------------------------------------------------
(* The composition is a broker task with callers.                          *)
LEMMA StepIsStep == [DiagNext]_diagAll => [Next]_vars
<1> SUFFICES ASSUME [DiagNext]_diagAll PROVE [Next]_vars
  OBVIOUS
<1>1. CASE (Task \/ Stop) /\ UNCHANGED hubVars
  BY <1>1 DEF Next
<1>2. CASE GetReport \/ CommitCatalog \/ UNCHANGED diagAll
  BY <1>2 DEF GetReport, CommitCatalog, diagAll
<1>3. ASSUME NEW c \in Callers, Handler(c) PROVE [Next]_vars
  <2>1. CASE Begin(c) \/ ReceiveStep(c)
    BY <2>1 DEF Begin, ReceiveStep, Receive, Next, Caller
  <2>2. CASE SendStep(c)
    <3>1. PICK k \in Kinds : Submit(c, k)
      BY <2>2, DiagnosticAssumption DEF SendStep, Send
    <3> QED
      BY <3>1 DEF Next, Caller
  <2>3. CASE TimeOut(c) \/ Disconnect(c)
    BY <2>3 DEF TimeOut, Disconnect, StopWaiting, Next, Caller
  <2>4. CASE PublishReport(c)
    BY <2>4 DEF PublishReport
  <2> QED
    BY <1>3, <2>1, <2>2, <2>3, <2>4 DEF Handler
<1> QED
  BY <1>1, <1>2, <1>3 DEF DiagNext

(* What a handler's step does to its own variables and leaves alone.       *)
LEMMA SendCases ==
    ASSUME NEW c \in Callers, SendStep(c)
    PROVE  \E kind \in Kinds, from \in Steps \ {"publishing"} :
             /\ Submit(c, kind) /\ pc[c] = from /\ pc' = [pc EXCEPT ![c] = WaitsFor(kind)]
             /\ kind = "Refresh" => from = "toRefresh"
             /\ kind = "Call" => from = "toDiagnose"
             /\ kind = "Accept" => from = "toAccept"
             /\ kind = "Finalize" => from = "toFinalize"
             /\ kind = "Discard" => from = "toDiscard"
             /\ UNCHANGED <<rev, revision, report, cut>>
<1> USE DiagnosticAssumption DEF Send, WaitsFor, Steps
<1>1. CASE Send(c, "toRefresh", "Refresh", "refreshing")
  BY <1>1
<1>2. CASE Send(c, "toDiagnose", "Call", "diagnosing")
  BY <1>2
<1>3. CASE Send(c, "toAccept", "Accept", "accepting")
  BY <1>3
<1>4. CASE Send(c, "toFinalize", "Finalize", "finalizing")
  BY <1>4
<1>5. CASE Send(c, "toDiscard", "Discard", "discarding")
  BY <1>5
<1> QED
  BY <1>1, <1>2, <1>3, <1>4, <1>5 DEF SendStep

LEMMA ReceiveCases ==
    ASSUME DiagTypeOK, NEW c \in Callers, ReceiveStep(c)
    PROVE  /\ Collect(c) /\ UNCHANGED <<rev, revision, report, cut>>
           /\ \A d \in Callers : d # c => pc'[d] = pc[d]
           /\ pc[c] \in Awaits
           /\ \/ pc'[c] = "idle"
              \/ pc[c] \in {"refreshing", "diagnosing"} /\ pc'[c] \in {"toDiagnose", "toAccept"}
              \/ pc[c] = "accepting" /\ req[c] = "ok" /\ pc'[c] = "publishing"
           /\ pc[c] = "accepting" /\ req[c] = "ok" => pc'[c] = "publishing"
           /\ pc' \in [Callers -> PcSteps]
<1> USE DEF Receive, Awaits, Ok, DiagTypeOK, PcSteps, Steps
<1>1. CASE Receive(c, "refreshing", Ok(c) /\ IsCurrent(ep[c]), "toDiagnose")
  BY <1>1
<1>2. CASE Receive(c, "diagnosing", Ok(c) /\ IsCurrent(ep[c]), "toAccept")
  BY <1>2
<1>3. CASE Receive(c, "accepting", Ok(c), "publishing")
  BY <1>3
<1>4. CASE Receive(c, "finalizing", FALSE, "idle") \/ Receive(c, "discarding", FALSE, "idle")
  BY <1>4
<1> QED
  BY <1>1, <1>2, <1>3, <1>4 DEF ReceiveStep

(* A handler stops waiting, timed out or cut off.                          *)
GivesUp(c) == TimeOut(c) \/ Disconnect(c)
LEMMA GiveUpCases ==
    ASSUME DiagTypeOK, Waiting, NEW c \in Callers, GivesUp(c)
    PROVE  /\ Abandon(c) \/ Collect(c)
           /\ \A d \in Callers : pc'[d] = IF d = c THEN "idle" ELSE pc[d]
           /\ pc' \in [Callers -> PcSteps]
           /\ pc[c] \in Awaits
           /\ pc[c] \in {"refreshing", "diagnosing"} \/ ep[c].n \in cut'
           /\ cut' = cut \/ cut' = cut \cup {ep[c].n}
           /\ UNCHANGED <<rev, revision, report>>
BY DEF GivesUp, TimeOut, Disconnect, StopWaiting, Awaits, DiagTypeOK, PcSteps

LEMMA HandlerCases ==
    ASSUME NEW c \in Callers, Handler(c)
    PROVE  Begin(c) \/ SendStep(c) \/ ReceiveStep(c) \/ PublishReport(c) \/ GivesUp(c)
BY DEF Handler, GivesUp

(* What waits are jobs.                                                    *)
LEMMA QueueIsTyped ==
    ASSUME TypeOK PROVE queue \in Seq(Job) /\ \A i \in 1..Len(queue) : queue[i] \in Job
<1>1. queue \in Seq(Job)
  BY DEF TypeOK
<1> QED
  BY <1>1

-----------------------------------------------------------------------------
(* What a step does to the jobs.                                           *)
LEMMA TakeShift ==
    ASSUME TypeOK, TakeJob
    PROVE  /\ queue # <<>> /\ 1 \in 1..Len(queue) /\ Head1 = queue[1] /\ busy = NoJob
           /\ \A j \in 1..Len(queue') : j + 1 \in 1..Len(queue) /\ j # j + 1 /\ j + 1 # 1
                                        /\ queue'[j] = queue[j + 1]
           /\ \A i \in 1..Len(queue) : i # 1 => i - 1 \in 1..Len(queue') /\ queue'[i - 1] = queue[i]
           /\ UNCHANGED <<connVars, ep, epochs>>
<1>1. queue \in Seq(Job)
  BY DEF TypeOK
<1>2. queue # <<>> /\ queue' = SubSeq(queue, 2, Len(queue)) /\ busy = NoJob
  BY DEF TakeJob, TakeCall, SkipRefresh, TakeAccept, TakeDiscard, TakeFinalize, Rest, Idle
<1>5. Len(queue) \in Nat \ {0}
  BY <1>1, <1>2
<1>3. Len(queue') = Len(queue) - 1 /\ \A j \in 1..Len(queue') : queue'[j] = queue[j + 1]
  <2>1. queue' = Tail(queue)
    BY <1>1, <1>2
  <2> QED
    BY <1>1, <1>2, <2>1, HeadTailProperties
<1>4. UNCHANGED <<connVars, ep, epochs>>
  BY DEF TakeJob, TakeCall, SkipRefresh, TakeAccept, TakeDiscard, TakeFinalize
<1> QED
  BY <1>2, <1>3, <1>4, <1>5 DEF Head1

Answered(c, d) == req'[d] = req[d] \/ (d = c /\ req'[d] \in Replies)
Takes(stage) == req' = req /\ busy'.by = Head1.by /\ busy'.epoch = Head1.epoch /\ busy'.stage = stage
LEMMA TakeCases ==
    ASSUME TypeOK, TakeJob
    PROVE  \/ Takes("calling") /\ Head1.kind \in AwaitKinds /\ UNCHANGED diagVars
           \/ Takes("accepted") /\ TakeAccept
           \/ busy' = busy /\ \A d \in Callers : Answered(Head1.by, d)
<1> USE DEF Answered, Takes, Answer, Replies
<1>0. req \in [Callers -> Replies \cup {"idle", "waiting"}]
  BY DEF TypeOK
<1>1. CASE TakeCall
  BY <1>0, <1>1 DEF TakeCall
<1>2. CASE SkipRefresh
  BY <1>2 DEF SkipRefresh
<1>3. CASE TakeAccept
  BY <1>0, <1>3 DEF TakeAccept
<1>4. CASE TakeDiscard
  BY <1>0, <1>4 DEF TakeDiscard
<1>5. CASE TakeFinalize
  <2>1. busy' = busy
    BY <1>5 DEF TakeFinalize
  <2>2. \E v \in {"ok", "no"} : Answer(Head1.by, v)
    BY <1>5 DEF TakeFinalize
  <2> QED
    BY <1>0, <2>1, <2>2
<1> QED
  BY <1>1, <1>2, <1>3, <1>4, <1>5 DEF TakeJob

LEMMA EndCases ==
    ASSUME TypeOK, CallOk \/ CallFatal \/ ReplyAccept \/ DropSession
    PROVE  /\ busy'.by = Nobody /\ busy'.stage # "accepted" /\ busy'.epoch \in {busy.epoch, NoEpoch}
           /\ UNCHANGED <<queue, ep, epochs>> /\ \A d \in Callers : Answered(busy.by, d)
<1> USE DEF Answered, Answer, Replies
<1>0. /\ req \in [Callers -> Replies \cup {"idle", "waiting"}]
      /\ busy \in [kind : AwaitKinds \cup DiagKinds \cup {"none"}, by : Callers \cup {Nobody},
                   epoch : Epoch, stage : Stages]
  BY DEF TypeOK
<1>n. NoJob.by = Nobody /\ NoJob.stage = "none" /\ NoJob.epoch = NoEpoch
  BY DEF NoJob
<1>1. CASE CallOk
  BY <1>0, <1>n, <1>1 DEF CallOk
<1>2. CASE CallFatal
  <2>1. busy' = [busy EXCEPT !.stage = "fatal", !.by = Nobody]
    BY <1>2 DEF CallFatal
  <2>2. busy'.by = Nobody /\ busy'.stage = "fatal" /\ busy'.epoch = busy.epoch
    BY <1>0, <2>1
  <2> QED
    BY <1>0, <1>2, <2>2 DEF CallFatal
<1>3. CASE ReplyAccept
  BY <1>0, <1>n, <1>3 DEF ReplyAccept
<1>4. CASE DropSession
  BY <1>0, <1>n, <1>4 DEF DropSession
<1> QED
  BY <1>1, <1>2, <1>3, <1>4

(* A caller that gives up: its job loses its reply channel or its place.   *)
Anonymous(i) == queue'[i].by = Nobody /\ queue'[i].kind = queue[i].kind /\ queue'[i].epoch = queue[i].epoch
GoneFrom(i) ==
    /\ Len(queue') = Len(queue) - 1
    /\ \A j \in 1..Len(queue') : queue'[j] = IF j < i THEN queue[j] ELSE queue[j + 1]
LEMMA AbandonCases ==
    ASSUME TypeOK, NEW c \in Callers, Abandon(c)
    PROVE  /\ \A d \in Callers : req'[d] = IF d = c THEN "idle" ELSE req[d]
           /\ UNCHANGED <<connVars, ep, epochs, diagVars, envVars>>
           /\ \/ /\ busy.by = c /\ busy'.by = Nobody /\ UNCHANGED queue
                 /\ busy'.epoch = busy.epoch /\ busy'.stage = busy.stage /\ busy'.kind = busy.kind
              \/ /\ UNCHANGED busy
                 /\ \E i \in 1..Len(queue) :
                      /\ queue[i].by = c
                      /\ \/ /\ Len(queue') = Len(queue) /\ Anonymous(i)
                            /\ \A j \in 1..Len(queue) : j # i => queue'[j] = queue[j]
                         \/ GoneFrom(i)
<1>0. /\ req \in [Callers -> Replies \cup {"idle", "waiting"}] /\ queue \in Seq(Job)
      /\ busy \in [kind : AwaitKinds \cup DiagKinds \cup {"none"}, by : Callers \cup {Nobody},
                   epoch : Epoch, stage : Stages]
  BY DEF TypeOK
<1>1. \A d \in Callers : req'[d] = IF d = c THEN "idle" ELSE req[d]
  BY <1>0 DEF Abandon
<1>2. CASE busy.by = c /\ busy' = [busy EXCEPT !.by = Nobody] /\ UNCHANGED queue
  <2>1. busy'.by = Nobody /\ busy'.epoch = busy.epoch /\ busy'.stage = busy.stage /\ busy'.kind = busy.kind
    BY <1>0, <1>2
  <2> QED
    BY <1>1, <1>2, <2>1 DEF Abandon
<1>3. ASSUME NEW i \in 1..Len(queue), queue[i].by = c, UNCHANGED busy,
             queue' = [queue EXCEPT ![i].by = Nobody] \/ queue' = RemoveAt(queue, i)
      PROVE  \/ /\ Len(queue') = Len(queue) /\ Anonymous(i)
                /\ \A j \in 1..Len(queue) : j # i => queue'[j] = queue[j]
             \/ GoneFrom(i)
  <2>1. CASE queue' = [queue EXCEPT ![i].by = Nobody]
    <3>1. queue[i] \in Job /\ Len(queue') = Len(queue) /\ queue'[i] = [queue[i] EXCEPT !.by = Nobody]
          /\ \A j \in 1..Len(queue) : j # i => queue'[j] = queue[j]
      BY <1>0, <2>1
    <3>2. Anonymous(i)
      BY <3>1 DEF Job, Anonymous
    <3> QED
      BY <3>1, <3>2
  <2>2. CASE queue' = RemoveAt(queue, i)
    <3>1. queue \in Seq(Job)
      BY <1>0
    <3>2. Len(RemoveAt(queue, i)) = Len(queue) - 1
          /\ \A j \in 1..Len(queue) - 1 : RemoveAt(queue, i)[j] = IF j < i THEN queue[j] ELSE queue[j + 1]
      BY <3>1, RemoveOne
    <3> QED
      BY <2>2, <3>2 DEF GoneFrom
  <2> QED
    BY <1>3, <2>1, <2>2
<1>4. CASE UNCHANGED busy /\ \E i \in 1..Len(queue) :
             queue[i].by = c /\ (queue' = [queue EXCEPT ![i].by = Nobody] \/ queue' = RemoveAt(queue, i))
  <2>1. PICK i \in 1..Len(queue) :
             queue[i].by = c /\ (queue' = [queue EXCEPT ![i].by = Nobody] \/ queue' = RemoveAt(queue, i))
    BY <1>4
  <2>2. \/ /\ Len(queue') = Len(queue) /\ Anonymous(i)
           /\ \A j \in 1..Len(queue) : j # i => queue'[j] = queue[j]
        \/ GoneFrom(i)
    BY <1>3, <1>4, <2>1
  <2>3. UNCHANGED <<connVars, ep, epochs, diagVars, envVars>>
    BY DEF Abandon
  <2> QED
    BY <1>1, <1>4, <2>1, <2>2, <2>3
<1>5. \/ busy.by = c /\ busy' = [busy EXCEPT !.by = Nobody] /\ UNCHANGED queue
      \/ UNCHANGED busy /\ \E i \in 1..Len(queue) :
             queue[i].by = c /\ (queue' = [queue EXCEPT ![i].by = Nobody] \/ queue' = RemoveAt(queue, i))
  BY DEF Abandon
<1> QED
  BY <1>2, <1>4, <1>5

(* A job joins the channel, or the handle refuses it at once.              *)
LEMMA SubmitCases ==
    ASSUME TypeOK, NEW c \in Callers, NEW kind, Submit(c, kind)
    PROVE  /\ UNCHANGED <<connVars, busy, ep, epochs, diagVars, envVars>>
           /\ req[c] = "idle" /\ req'[c] # "idle" /\ (kind \in DiagKinds => ep[c].n # 0)
           /\ \A d \in Callers : d # c => req'[d] = req[d]
           /\ \/ UNCHANGED queue /\ ((req'[c] = "no" /\ kind = "Accept") \/ (req'[c] = "TaskGone" /\ conn = "Gone"))
              \/ /\ req'[c] = "waiting" /\ Len(queue') = Len(queue) + 1
                 /\ \A i \in 1..Len(queue) : queue'[i] = queue[i]
                 /\ queue'[Len(queue')].kind = kind /\ queue'[Len(queue')].by = c
                 /\ queue'[Len(queue')].epoch = ep[c]
<1>0. req \in [Callers -> Replies \cup {"idle", "waiting"}] /\ queue \in Seq(Job)
  BY DEF TypeOK
<1> DEFINE j == [kind |-> kind, by |-> c, epoch |-> ep[c]]
<1>1. queue' = Append(queue, j) =>
        /\ Len(queue') = Len(queue) + 1 /\ queue'[Len(queue')] = j
        /\ \A i \in 1..Len(queue) : queue'[i] = queue[i]
  BY <1>0
<1>2. j.kind = kind /\ j.by = c /\ j.epoch = ep[c]
  OBVIOUS
<1> HIDE DEF j
<1>3. \/ UNCHANGED queue /\ req' = [req EXCEPT ![c] = "no"] /\ kind = "Accept"
      \/ UNCHANGED queue /\ req' = [req EXCEPT ![c] = "TaskGone"] /\ conn = "Gone"
      \/ req' = [req EXCEPT ![c] = "waiting"] /\ queue' = Append(queue, j)
  BY DEF Submit, j
<1>4. UNCHANGED <<connVars, busy, ep, epochs, diagVars, envVars>> /\ req[c] = "idle"
      /\ (kind \in DiagKinds => ep[c].n # 0)
  BY DEF Submit
<1>5. CASE UNCHANGED queue /\ req' = [req EXCEPT ![c] = "no"] /\ kind = "Accept"
  BY <1>0, <1>4, <1>5
<1>6. CASE UNCHANGED queue /\ req' = [req EXCEPT ![c] = "TaskGone"] /\ conn = "Gone"
  BY <1>0, <1>4, <1>6
<1>7. CASE req' = [req EXCEPT ![c] = "waiting"] /\ queue' = Append(queue, j)
  BY <1>0, <1>1, <1>2, <1>4, <1>7
<1> QED
  BY <1>3, <1>5, <1>6, <1>7

LEMMA BeginCases ==
    ASSUME TypeOK, DiagTypeOK, NEW c \in Callers, Begin(c)
    PROVE  /\ pc[c] = "idle" /\ req[c] = "idle" /\ epochs \in Nat /\ epochs' = epochs + 1
           /\ ep'[c].n = epochs + 1 /\ ep'[c].ver = ver /\ status = <<"Connected", 0>>
           /\ \A d \in Callers : d # c => ep'[d] = ep[d]
           /\ \A d \in Callers : pc'[d] = IF d = c THEN "toRefresh" ELSE pc[d]
           /\ pc' \in [Callers -> PcSteps] /\ rev' \in [Callers -> 0..MaxRevision]
           /\ UNCHANGED <<connVars, queue, busy, req, diagVars, revision, report, cut>>
<1>1. epochs \in Nat /\ ep \in [Callers -> Epoch] /\ pc \in [Callers -> PcSteps]
  BY BrokerAssumption DEF TypeOK, DiagTypeOK
<1>2. epochs' = epochs + 1 /\ ep' = [ep EXCEPT ![c] = [n |-> epochs + 1, ver |-> ver, dial |-> dialNo]]
      /\ req[c] = "idle" /\ status = <<"Connected", 0>>
      /\ UNCHANGED <<connVars, queue, busy, req, diagVars>>
  BY DEF Begin, CaptureEpoch
<1>3. pc[c] = "idle" /\ pc' = [pc EXCEPT ![c] = "toRefresh"] /\ rev' = [rev EXCEPT ![c] = revision]
      /\ UNCHANGED <<revision, report, cut>>
  BY DEF Begin
<1>4. ep'[c].n = epochs + 1 /\ ep'[c].ver = ver
  BY <1>1, <1>2
<1>5. \A d \in Callers : d # c => ep'[d] = ep[d]
  BY <1>1, <1>2
<1>6. pc' \in [Callers -> PcSteps] /\ \A d \in Callers : pc'[d] = IF d = c THEN "toRefresh" ELSE pc[d]
  BY <1>1, <1>3 DEF PcSteps, Steps
<1>7. rev' \in [Callers -> 0..MaxRevision]
  BY <1>3 DEF DiagTypeOK
<1> QED
  BY <1>1, <1>2, <1>3, <1>4, <1>5, <1>6, <1>7

(* The steps of the task, by what they do to jobs and replies.             *)
Quiet == Due \/ DialOk \/ DialFailed \/ Break \/ Stop
Ending == CallOk \/ CallFatal \/ ReplyAccept \/ DropSession
LEMMA TaskCases ==
    ASSUME Task \/ Stop
    PROVE  \/ Quiet /\ UNCHANGED <<queue, busy, req, ep, epochs>>
           \/ Leave \/ TakeJob \/ Ending
BY DEF Task, ConnEvent, EndJob, Quiet, Ending, Due, DialOk, DialFailed, Break, Stop

LEMMA LeaveCases ==
    ASSUME TypeOK, Device, Leave
    PROVE  /\ queue' = <<>> /\ busy.stage = "none" /\ UNCHANGED <<busy, ep, epochs>> /\ EndSession
           /\ conn' = "Gone"
           /\ \A d \in Callers : req'[d] = IF req[d] = "waiting" THEN "TaskGone" ELSE req[d]
<1>1. busy.stage \in Stages /\ req \in [Callers -> Replies \cup {"idle", "waiting"}]
  BY DEF TypeOK
<1>2. busy.stage = "none"
  BY DEF Leave, Device
<1> QED
  BY <1>1, <1>2 DEF Leave, Orphaned

-----------------------------------------------------------------------------
(* Types, and who waits for what.                                          *)
LEMMA StepDiagTypeOK ==
    ASSUME TypeOK, DiagTypeOK, Waiting, DiagNext PROVE DiagTypeOK'
<1>1. CASE (Task \/ Stop) /\ UNCHANGED hubVars
  BY <1>1 DEF hubVars, DiagTypeOK
<1>2. CASE GetReport
  <2>1. NoReport \in [epoch : Epoch, rev : 0..MaxRevision]
    BY BrokerAssumption, DiagnosticAssumption DEF NoReport, NoEpoch, Epoch
  <2> QED
    BY <1>2, <2>1 DEF GetReport, DiagTypeOK
<1>3. CASE CommitCatalog
  BY <1>3, DiagnosticAssumption DEF CommitCatalog, DiagTypeOK
<1>4. ASSUME NEW c \in Callers, Handler(c) PROVE DiagTypeOK'
  <2>1. CASE Begin(c)
    BY <2>1, BeginCases DEF DiagTypeOK
  <2>2. CASE SendStep(c)
    <3>1. \E kind \in Kinds : pc' = [pc EXCEPT ![c] = WaitsFor(kind)] /\ UNCHANGED <<rev, revision, report, cut>>
      BY <2>2, SendCases
    <3> QED
      BY <3>1 DEF DiagTypeOK, PcSteps, Awaits, WaitsFor
  <2>3. CASE ReceiveStep(c)
    BY <2>3, ReceiveCases DEF DiagTypeOK
  <2>4. CASE PublishReport(c)
    <3>1. pc' \in [Callers -> PcSteps]
      BY <2>4 DEF PublishReport, DiagTypeOK, PcSteps, Steps, AfterRefusal
    <3>2. ep[c] \in Epoch /\ rev[c] \in 0..MaxRevision
      BY DEF TypeOK, DiagTypeOK
    <3> QED
      BY <2>4, <3>1, <3>2 DEF PublishReport, DiagTypeOK
  <2>5. CASE GivesUp(c)
    <3>1. ep[c].n \in 0..MaxEpoch
      BY DEF TypeOK, Epoch
    <3>2. cut' \subseteq 0..MaxEpoch
      <4>1. cut' = cut \/ cut' = cut \cup {ep[c].n}
        BY <2>5, GiveUpCases
      <4> QED
        BY <3>1, <4>1 DEF DiagTypeOK
    <3>3. pc' \in [Callers -> PcSteps] /\ UNCHANGED <<rev, revision, report>>
      BY <2>5, GiveUpCases
    <3> QED
      BY <3>2, <3>3 DEF DiagTypeOK
  <2> QED
    BY <1>4, <2>1, <2>2, <2>3, <2>4, <2>5, HandlerCases
<1> QED
  BY <1>1, <1>2, <1>3, <1>4 DEF DiagNext

(* Only a caller that waits is answered.                                   *)
LEMMA TaskReplies ==
    ASSUME TypeOK, Device, OwnJobs, Task \/ Stop, NEW d \in Callers
    PROVE  req'[d] = req[d] \/ (req[d] = "waiting" /\ req'[d] \in Replies)
<1>1. CASE Quiet /\ UNCHANGED <<queue, busy, req, ep, epochs>>
  BY <1>1
<1>2. CASE Leave
  BY <1>2, LeaveCases DEF Replies
<1>3. CASE TakeJob
  <2>1. 1 \in 1..Len(queue) /\ Head1 = queue[1]
    BY <1>3, TakeShift
  <2>2. Head1.by = d => req[d] = "waiting"
    BY <2>1 DEF OwnJobs, Queued
  <2> QED
    BY <1>3, <2>2, TakeCases DEF Takes, Answered
<1>4. CASE Ending
  BY <1>4, EndCases DEF OwnJobs, Served, Answered, Ending
<1> QED
  BY <1>1, <1>2, <1>3, <1>4, TaskCases

LEMMA StepWaiting ==
    ASSUME TypeOK, Device, DiagTypeOK, Waiting, OwnJobs, DiagNext PROVE Waiting'
<1> USE DEF Waiting
<1>1. CASE (Task \/ Stop) /\ UNCHANGED hubVars
  <2>1. UNCHANGED <<pc, ep>>
    BY <1>1 DEF hubVars, Task, ConnEvent, TakeJob, EndJob, Due, DialOk, DialFailed, TakeCall, SkipRefresh,
                TakeAccept, TakeDiscard, TakeFinalize, CallOk, CallFatal, DropSession, ReplyAccept, Break,
                Leave, Stop
  <2>2. \A d \in Callers : req'[d] = "idle" <=> req[d] = "idle"
    BY <1>1, TaskReplies DEF Replies
  <2> QED
    BY <2>1, <2>2
<1>2. CASE GetReport \/ CommitCatalog
  BY <1>2 DEF GetReport, CommitCatalog, vars
<1>4. ASSUME NEW c \in Callers, Handler(c) PROVE Waiting'
  <2>1. CASE Begin(c)
    BY <2>1, BeginCases DEF Awaits
  <2>2. CASE SendStep(c)
    <3>1. PICK kind \in Kinds, from \in Steps \ {"publishing"} :
             Submit(c, kind) /\ pc[c] = from /\ pc' = [pc EXCEPT ![c] = WaitsFor(kind)]
      BY <2>2, SendCases
    <3>2. /\ req'[c] # "idle" /\ UNCHANGED ep /\ \A d \in Callers : d # c => req'[d] = req[d]
      BY <3>1, SubmitCases
    <3>3. /\ pc'[c] \in Awaits /\ pc[c] # "idle" /\ \A d \in Callers : d # c => pc'[d] = pc[d]
      BY <3>1 DEF DiagTypeOK, WaitsFor, Awaits, Steps
    <3> QED
      BY <3>2, <3>3
  <2>3. CASE ReceiveStep(c)
    <3>1. /\ UNCHANGED ep /\ req'[c] = "idle" /\ \A d \in Callers : d # c => req'[d] = req[d]
      BY <2>3, ReceiveCases DEF Collect, TypeOK
    <3>2. pc[c] # "idle" /\ pc'[c] \notin Awaits /\ \A d \in Callers : d # c => pc'[d] = pc[d]
      BY <2>3, ReceiveCases DEF Awaits
    <3> QED
      BY <3>1, <3>2
  <2>4. CASE PublishReport(c)
    BY <2>4 DEF PublishReport, DiagTypeOK, AfterRefusal, Awaits, vars
  <2>5. CASE GivesUp(c)
    <3>1. UNCHANGED ep /\ \A d \in Callers : req'[d] = IF d = c THEN "idle" ELSE req[d]
      BY <2>5, GiveUpCases, AbandonCases DEF Collect, TypeOK
    <3>2. pc[c] # "idle" /\ \A d \in Callers : pc'[d] = IF d = c THEN "idle" ELSE pc[d]
      BY <2>5, GiveUpCases DEF Awaits
    <3> QED
      BY <3>1, <3>2 DEF Awaits
  <2> QED
    BY <1>4, <2>1, <2>2, <2>3, <2>4, <2>5, HandlerCases
<1> QED
  BY <1>1, <1>2, <1>4 DEF DiagNext

LEMMA StepOwnJobs ==
    ASSUME TypeOK, Device, DiagTypeOK, Waiting, OwnJobs, DiagNext PROVE OwnJobs'
<1>n. Nobody \notin Callers
  BY BrokerAssumption
<1>0. ASSUME UNCHANGED <<queue, busy, req, ep, pc>> PROVE OwnJobs'
  BY <1>0 DEF OwnJobs, Queued, Served
<1>1. CASE (Task \/ Stop) /\ UNCHANGED hubVars
  <2>0. pc' = pc
    BY <1>1 DEF hubVars
  <2>1. CASE Leave
    <3>1. Len(queue') = 0 /\ busy' = busy /\ busy.stage = "none"
      BY <2>1, LeaveCases
    <3> QED
      BY <3>1 DEF OwnJobs, Served
  <2>2. CASE Ending
    <3>1. /\ busy'.by = Nobody /\ UNCHANGED <<queue, ep>>
          /\ \A d \in Callers : busy.by # d => req'[d] = req[d]
      BY <2>2, EndCases DEF Ending, Answered
    <3> QED
      BY <1>n, <2>0, <3>1 DEF OwnJobs, Queued
  <2>3. CASE TakeJob
    <3>1. /\ 1 \in 1..Len(queue) /\ Head1 = queue[1] /\ busy = NoJob /\ ep' = ep
          /\ \A j \in 1..Len(queue') : j + 1 \in 1..Len(queue) /\ j + 1 # 1 /\ queue'[j] = queue[j + 1]
      BY <2>3, TakeShift
    <3>2. \A d \in Callers : Head1.by # d => req'[d] = req[d]
      BY <2>3, TakeCases DEF Takes, Answered
    <3>3. \A j \in 1..Len(queue') : queue'[j].by \in Callers => Head1.by # queue'[j].by
      BY <3>1 DEF OwnJobs
    <3>4. \/ busy' = busy
          \/ Takes("calling") /\ Head1.kind \in AwaitKinds
          \/ Takes("accepted") /\ Head1.kind = "Accept"
      BY <2>3, TakeCases DEF TakeAccept
    <3>5. busy'.by \in {Nobody, Head1.by}
      BY <3>1, <3>4 DEF Takes, NoJob
    <3>6. ASSUME NEW d \in Callers, NEW j \in 1..Len(queue'), queue'[j].by = d PROVE Queued(j, d)'
      <4>1. Queued(j + 1, d) /\ queue'[j] = queue[j + 1]
        BY <3>1, <3>6 DEF OwnJobs
      <4>2. req'[d] = req[d] /\ busy'.by # d
        BY <1>n, <3>2, <3>3, <3>5, <3>6
      <4> QED
        BY <2>0, <3>1, <4>1, <4>2 DEF Queued
    <3>7. \A i, j \in 1..Len(queue') : queue'[i].by = queue'[j].by /\ queue'[i].by \in Callers => i = j
      <4> SUFFICES ASSUME NEW i \in 1..Len(queue'), NEW j \in 1..Len(queue'),
                          queue'[i].by = queue'[j].by, queue'[i].by \in Callers
                   PROVE  i = j
        OBVIOUS
      <4>1. i + 1 = j + 1
        BY <3>1 DEF OwnJobs
      <4> QED
        BY <4>1
    <3>8. ASSUME NEW d \in Callers, busy'.by = d PROVE Served(d)'
      <4>1. Head1.by = d /\ busy' # busy
        BY <1>n, <3>1, <3>5, <3>8 DEF NoJob
      <4>2. req[d] = "waiting" /\ Head1.epoch = ep[d] /\ pc[d] = WaitsFor(Head1.kind)
        BY <3>1, <4>1 DEF OwnJobs, Queued
      <4>3. req'[d] = "waiting" /\ busy'.epoch = ep[d]
        BY <3>4, <4>1, <4>2 DEF Takes
      <4>4. \/ busy'.stage = "calling" /\ pc[d] \in {"refreshing", "diagnosing"}
            \/ busy'.stage = "accepted" /\ pc[d] = "accepting"
        BY <3>4, <4>1, <4>2 DEF Takes, AwaitKinds, WaitsFor
      <4> QED
        BY <2>0, <3>1, <4>3, <4>4 DEF Served
    <3> QED
      BY <3>6, <3>7, <3>8 DEF OwnJobs
  <2> QED
    BY <1>0, <1>1, <2>0, <2>1, <2>2, <2>3, TaskCases
<1>2. CASE GetReport \/ CommitCatalog
  BY <1>0, <1>2 DEF GetReport, CommitCatalog, vars
<1>4. ASSUME NEW c \in Callers, Handler(c) PROVE OwnJobs'
  (* Everyone else's are as before. *)
  <2>0. ASSUME NEW d \in Callers, req'[d] = req[d], ep'[d] = ep[d], pc'[d] = pc[d], busy' = busy,
               NEW i \in 1..Len(queue), queue[i].by = d, NEW j \in 1..Len(queue'), queue'[j] = queue[i]
        PROVE  Queued(j, d)'
    BY <2>0 DEF OwnJobs, Queued
  <2>1. ASSUME req[c] # "waiting", queue' = queue, busy' = busy,
               \A d \in Callers : d # c => req'[d] = req[d] /\ ep'[d] = ep[d] /\ pc'[d] = pc[d]
        PROVE  OwnJobs'
    BY <2>1 DEF OwnJobs, Queued, Served
  <2>2. CASE Begin(c)
    BY <2>1, <2>2, BeginCases
  <2>3. CASE SendStep(c)
    <3>1. PICK kind \in Kinds, from \in Steps \ {"publishing"} :
             Submit(c, kind) /\ pc' = [pc EXCEPT ![c] = WaitsFor(kind)]
      BY <2>3, SendCases
    <3>2. /\ UNCHANGED <<busy, ep>> /\ req[c] = "idle"
          /\ \A d \in Callers : d # c => req'[d] = req[d] /\ pc'[d] = pc[d]
          /\ pc'[c] = WaitsFor(kind)
      BY <3>1, SubmitCases DEF DiagTypeOK
    <3>3. CASE UNCHANGED queue
      BY <2>1, <3>2, <3>3
    <3>4. CASE /\ req'[c] = "waiting" /\ Len(queue') = Len(queue) + 1
               /\ \A i \in 1..Len(queue) : queue'[i] = queue[i]
               /\ queue'[Len(queue')].kind = kind /\ queue'[Len(queue')].by = c
               /\ queue'[Len(queue')].epoch = ep[c]
      <4>0. Len(queue) \in Nat /\ \A j \in 1..Len(queue') : j \in 1..Len(queue) \/ j = Len(queue')
        BY <3>4 DEF TypeOK
      <4>1. busy.by # c /\ \A i \in 1..Len(queue) : queue[i].by # c
        BY <3>2 DEF OwnJobs, Queued, Served
      <4>2. ASSUME NEW d \in Callers, NEW j \in 1..Len(queue'), queue'[j].by = d PROVE Queued(j, d)'
        <5>1. CASE j \in 1..Len(queue)
          BY <3>2, <3>4, <4>1, <4>2, <5>1 DEF OwnJobs, Queued
        <5>2. CASE j = Len(queue')
          BY <3>2, <3>4, <4>1, <4>2, <5>2 DEF Queued
        <5> QED
          BY <4>0, <5>1, <5>2
      <4>3. \A i, j \in 1..Len(queue') : queue'[i].by = queue'[j].by /\ queue'[i].by \in Callers => i = j
        BY <3>4, <4>0, <4>1 DEF OwnJobs
      <4>4. ASSUME NEW d \in Callers, busy'.by = d PROVE Served(d)'
        BY <3>2, <4>1, <4>4 DEF OwnJobs, Served
      <4> QED
        BY <4>2, <4>3, <4>4 DEF OwnJobs
    <3> QED
      BY <3>1, <3>3, <3>4, SubmitCases
  <2>4. CASE ReceiveStep(c)
    <3>1. /\ UNCHANGED <<ep, queue, busy>> /\ req[c] # "waiting" /\ \A d \in Callers : d # c => req'[d] = req[d]
          /\ \A d \in Callers : d # c => pc'[d] = pc[d]
      BY <2>4, ReceiveCases DEF Collect, TypeOK
    <3> QED
      BY <2>1, <3>1
  <2>5. CASE PublishReport(c)
    <3>1. UNCHANGED <<queue, busy, req, ep>> /\ \A d \in Callers : d # c => pc'[d] = pc[d]
      BY <2>5 DEF PublishReport, vars, DiagTypeOK
    <3>2. req[c] # "waiting"
      BY <2>5 DEF PublishReport, Waiting, Awaits
    <3> QED
      BY <2>1, <3>1, <3>2
  <2>6. CASE GivesUp(c) /\ Collect(c)
    <3>1. /\ UNCHANGED <<ep, queue, busy>> /\ req[c] # "waiting" /\ \A d \in Callers : d # c => req'[d] = req[d]
          /\ \A d \in Callers : d # c => pc'[d] = pc[d]
      BY <2>6, GiveUpCases DEF Collect, TypeOK
    <3> QED
      BY <2>1, <3>1
  <2>7. CASE GivesUp(c) /\ Abandon(c)
    <3>1. /\ UNCHANGED ep /\ \A d \in Callers : d # c => req'[d] = req[d] /\ pc'[d] = pc[d]
      BY <2>7, GiveUpCases, AbandonCases
    <3>2. CASE busy.by = c /\ busy'.by = Nobody /\ UNCHANGED queue
      BY <1>n, <3>1, <3>2 DEF OwnJobs, Queued
    <3>3. ASSUME UNCHANGED busy, NEW i \in 1..Len(queue), queue[i].by = c
          PROVE  /\ busy.by # c /\ \A j \in 1..Len(queue) : j # i => queue[j].by # c
                 /\ \A d \in Callers : busy'.by = d => Served(d)'
      <4>1. busy.by # c /\ \A j \in 1..Len(queue) : j # i => queue[j].by # c
        BY <3>3 DEF OwnJobs, Queued
      <4> QED
        BY <3>1, <3>3, <4>1 DEF OwnJobs, Served
    <3>4. ASSUME UNCHANGED busy, NEW i \in 1..Len(queue), queue[i].by = c,
                 Len(queue') = Len(queue), Anonymous(i),
                 \A j \in 1..Len(queue) : j # i => queue'[j] = queue[j]
          PROVE  OwnJobs'
      <4>1. \A j \in 1..Len(queue') : queue'[j].by \in Callers =>
              j # i /\ queue'[j] = queue[j] /\ queue[j].by # c
        BY <1>n, <3>3, <3>4 DEF Anonymous
      <4>2. ASSUME NEW d \in Callers, NEW j \in 1..Len(queue'), queue'[j].by = d PROVE Queued(j, d)'
        BY <2>0, <3>1, <3>4, <4>1, <4>2
      <4>3. \A l, j \in 1..Len(queue') : queue'[l].by = queue'[j].by /\ queue'[l].by \in Callers => l = j
        BY <3>4, <4>1 DEF OwnJobs
      <4> QED
        BY <3>3, <3>4, <4>2, <4>3 DEF OwnJobs
    <3>5. ASSUME UNCHANGED busy, NEW i \in 1..Len(queue), queue[i].by = c, GoneFrom(i)
          PROVE  OwnJobs'
      <4>0. Len(queue) \in Nat
        BY DEF TypeOK
      <4>1. \A j \in 1..Len(queue') :
              /\ j < i => j \in 1..Len(queue) /\ queue'[j] = queue[j] /\ queue[j].by # c
              /\ ~(j < i) => j + 1 \in 1..Len(queue) /\ queue'[j] = queue[j + 1] /\ queue[j + 1].by # c
        BY <3>3, <3>5, <4>0 DEF GoneFrom
      <4>2. ASSUME NEW d \in Callers, NEW j \in 1..Len(queue'), queue'[j].by = d PROVE Queued(j, d)'
        <5>1. d # c /\ \E l \in 1..Len(queue) : queue[l].by = d /\ queue'[j] = queue[l]
          BY <4>1, <4>2
        <5> QED
          BY <2>0, <3>1, <3>5, <4>2, <5>1
      <4>3. ASSUME NEW l \in 1..Len(queue'), NEW j \in 1..Len(queue'),
                   queue'[l].by = queue'[j].by, queue'[l].by \in Callers
            PROVE  l = j
        <5> DEFINE was(k) == IF k < i THEN k ELSE k + 1
        <5>1. was(l) \in 1..Len(queue) /\ queue'[l] = queue[was(l)]
          BY <4>1
        <5>2. was(j) \in 1..Len(queue) /\ queue'[j] = queue[was(j)]
          BY <4>1
        <5>3. was(l) = was(j)
          BY <4>3, <5>1, <5>2 DEF OwnJobs
        <5> QED
          BY <4>0, <5>3
      <4> QED
        BY <3>3, <3>5, <4>2, <4>3 DEF OwnJobs
    <3> QED
      BY <2>7, <3>2, <3>4, <3>5, AbandonCases
  <2> QED
    BY <1>4, <2>2, <2>3, <2>4, <2>5, <2>6, <2>7, HandlerCases, GiveUpCases
<1> QED
  BY <1>1, <1>2, <1>4 DEF DiagNext

-----------------------------------------------------------------------------
(* What a step does to the suppression, by who does it.                    *)
Installs ==
    /\ TakeAccept /\ pending = 0 /\ Head1.by # Nobody
    /\ epochs = Head1.epoch.n /\ ver = Head1.epoch.ver
    /\ outside' = Head1.epoch /\ before' = <<outside>> /\ pending' = Head1.epoch.n
    /\ busy'.stage = "accepted" /\ busy'.by = Head1.by /\ busy'.epoch = Head1.epoch /\ req' = req
Undoes ==
    /\ RestoreOutside /\ pending' = 0
    /\ (TakeDiscard /\ Owns(Head1.epoch)) \/ (ReplyAccept /\ busy.stage = "accepted" /\ busy.by = Nobody)
Finalizes == TakeFinalize /\ pending' = 0 /\ UNCHANGED <<outside, before>>

LEMMA TaskReports ==
    ASSUME Task \/ Stop
    PROVE  \/ UNCHANGED diagVars \/ (EndSession /\ ver' = ver + 1)
           \/ Installs \/ Undoes \/ Finalizes
<1>1. CASE Due \/ DialFailed \/ TakeCall \/ SkipRefresh \/ CallOk \/ CallFatal \/ Break \/ Stop
  BY <1>1 DEF Due, DialFailed, TakeCall, SkipRefresh, CallOk, CallFatal, Break, Stop
<1>2. CASE DialOk \/ DropSession \/ Leave
  BY <1>2 DEF DialOk, DropSession, Leave, Publish
<1>3. CASE TakeAccept
  BY <1>3 DEF TakeAccept, Installs, StatusUnchanged, NoneTentative
<1>4. CASE TakeDiscard
  BY <1>4 DEF TakeDiscard, Undoes
<1>5. CASE TakeFinalize
  BY <1>5 DEF TakeFinalize, Finalizes, diagVars
<1>6. CASE ReplyAccept
  BY <1>6 DEF ReplyAccept, Undoes
<1> QED
  BY <1>1, <1>2, <1>3, <1>4, <1>5, <1>6 DEF Task, ConnEvent, TakeJob, EndJob

(* The status watch and the epoch counter only move forward.               *)
LEMMA TaskVersion ==
    ASSUME TypeOK, Task \/ Stop
    PROVE  /\ ver \in Nat /\ (ver' = ver + 1 \/ UNCHANGED <<ver, status>>)
           /\ conn = "Gone" => conn' = "Gone"
           /\ UNCHANGED <<ep, epochs>>
<1>0. ver \in Nat
  BY DEF TypeOK
<1>1. CASE Quiet
  BY <1>0, <1>1 DEF Quiet, Due, DialOk, DialFailed, Break, Stop, Publish, Idle, InLoop, connVars
<1>2. CASE Leave \/ DropSession
  BY <1>0, <1>2 DEF Leave, DropSession, Publish, InLoop
<1>3. CASE TakeJob
  BY <1>0, <1>3, TakeShift DEF connVars
<1>4. CASE CallOk \/ CallFatal \/ ReplyAccept
  BY <1>0, <1>4 DEF CallOk, CallFatal, ReplyAccept, connVars
<1> QED
  BY <1>1, <1>2, <1>3, <1>4, TaskCases DEF Ending

LEMMA HubLeaves ==
    ASSUME TypeOK, DiagTypeOK, GetReport \/ CommitCatalog \/ \E c \in Callers : Handler(c)
    PROVE  /\ UNCHANGED <<connVars, diagVars>>
           /\ UNCHANGED <<ep, epochs>> \/ \E c \in Callers : Begin(c)
<1>1. CASE GetReport \/ CommitCatalog
  BY <1>1 DEF GetReport, CommitCatalog, vars, connVars, diagVars
<1>2. ASSUME NEW c \in Callers, Handler(c)
      PROVE  /\ UNCHANGED <<connVars, diagVars>>
             /\ UNCHANGED <<ep, epochs>> \/ \E d \in Callers : Begin(d)
  <2>1. CASE Begin(c)
    BY <2>1, BeginCases
  <2>2. CASE SendStep(c)
    BY <2>2, SendCases, SubmitCases
  <2>3. CASE ReceiveStep(c)
    BY <2>3, ReceiveCases DEF Collect
  <2>4. CASE PublishReport(c)
    BY <2>4 DEF PublishReport, vars, connVars, diagVars
  <2>5. CASE GivesUp(c)
    BY <2>5 DEF GivesUp, TimeOut, Disconnect, StopWaiting, Abandon, Collect
  <2> QED
    BY <1>2, <2>1, <2>2, <2>3, <2>4, <2>5, HandlerCases
<1> QED
  BY <1>1, <1>2

LEMMA Forward ==
    ASSUME TypeOK, DiagTypeOK, DiagNext
    PROVE  /\ ver \in Nat /\ ver' \in Nat /\ ver <= ver' /\ (ver' = ver => status' = status)
           /\ epochs \in Nat /\ epochs' \in Nat /\ epochs <= epochs'
           /\ conn = "Gone" => conn' = "Gone"
<1>0. ver \in Nat /\ epochs \in Nat
  BY DEF TypeOK
<1>1. CASE (Task \/ Stop) /\ UNCHANGED hubVars
  BY <1>0, <1>1, TaskVersion
<1>2. CASE GetReport \/ CommitCatalog \/ \E c \in Callers : Handler(c)
  BY <1>0, <1>2, HubLeaves, BeginCases DEF connVars
<1> QED
  BY <1>1, <1>2 DEF DiagNext

(* An epoch that is current after a step was so before it, and nothing was *)
(* published or captured in the step.                                      *)
LEMMA CurrentWas ==
    ASSUME TypeOK, DiagTypeOK, DiagNext, NEW e \in Epoch, Old(e),
           epochs' = e.n, ver' = e.ver, conn' # "Gone", status' = <<"Connected", 0>>
    PROVE  IsCurrent(e) /\ ver' = ver
<1>1. e.n \in Nat /\ e.ver \in Nat /\ e.n <= epochs /\ e.ver <= ver
  BY DEF Old, Epoch
<1> QED
  BY <1>1, Forward DEF IsCurrent

-----------------------------------------------------------------------------
(* Where a job comes from, and where it goes.                              *)
Same(j, i) == queue'[j].kind = queue[i].kind /\ queue'[j].epoch = queue[i].epoch
SentFrom(c, kind) ==
    /\ kind \in Kinds
    /\ kind = "Refresh" => pc[c] = "toRefresh"
    /\ kind = "Call" => pc[c] = "toDiagnose"
    /\ kind = "Accept" => pc[c] = "toAccept"
    /\ kind = "Finalize" => pc[c] = "toFinalize"
    /\ kind = "Discard" => pc[c] = "toDiscard"

LEMMA JobOrigin ==
    ASSUME TypeOK, Device, DiagTypeOK, Waiting, DiagNext, NEW j \in 1..Len(queue')
    PROVE  \/ \E i \in 1..Len(queue) :
                /\ Same(j, i)
                /\ queue'[j].by = queue[i].by
                   \/ (queue'[j].by = Nobody /\ \E c \in Callers : GivesUp(c) /\ queue[i].by = c)
           \/ \E c \in Callers : /\ SendStep(c) /\ SentFrom(c, queue'[j].kind)
                                 /\ queue'[j].by = c /\ queue'[j].epoch = ep[c]
<1>q. Len(queue) \in Nat
  BY DEF TypeOK
<1>0. queue' = queue => \E i \in 1..Len(queue) : Same(j, i) /\ queue'[j].by = queue[i].by
  BY DEF Same
<1>1. CASE (Task \/ Stop) /\ UNCHANGED hubVars
  <2>1. CASE TakeJob
    BY <2>1, TakeShift DEF Same
  <2>2. CASE Ending
    BY <1>0, <2>2, EndCases DEF Ending
  <2>3. CASE Leave
    <3>1. Len(queue') = 0
      BY <2>3, LeaveCases
    <3> QED
      BY <3>1
  <2> QED
    BY <1>0, <1>1, <2>1, <2>2, <2>3, TaskCases
<1>2. CASE GetReport \/ CommitCatalog
  BY <1>0, <1>2 DEF GetReport, CommitCatalog, vars
<1>3. ASSUME NEW c \in Callers, Handler(c)
      PROVE  \/ \E i \in 1..Len(queue) :
                  /\ Same(j, i)
                  /\ queue'[j].by = queue[i].by
                     \/ (queue'[j].by = Nobody /\ \E d \in Callers : GivesUp(d) /\ queue[i].by = d)
             \/ \E d \in Callers : /\ SendStep(d) /\ SentFrom(d, queue'[j].kind)
                                   /\ queue'[j].by = d /\ queue'[j].epoch = ep[d]
  <2>1. CASE Begin(c)
    BY <1>0, <2>1, BeginCases
  <2>2. CASE SendStep(c)
    <3>1. PICK kind \in Kinds, from \in Steps \ {"publishing"} :
             /\ Submit(c, kind) /\ pc[c] = from
             /\ kind = "Refresh" => from = "toRefresh"
             /\ kind = "Call" => from = "toDiagnose"
             /\ kind = "Accept" => from = "toAccept"
             /\ kind = "Finalize" => from = "toFinalize"
             /\ kind = "Discard" => from = "toDiscard"
      BY <2>2, SendCases
    <3>2. SentFrom(c, kind)
      BY <3>1 DEF SentFrom
    <3>3. CASE UNCHANGED queue
      BY <1>0, <3>3
    <3>4. CASE /\ Len(queue') = Len(queue) + 1
               /\ \A i \in 1..Len(queue) : queue'[i] = queue[i]
               /\ queue'[Len(queue')].kind = kind /\ queue'[Len(queue')].by = c
               /\ queue'[Len(queue')].epoch = ep[c]
      <4>1. j \in 1..Len(queue) \/ j = Len(queue')
        BY <1>q, <3>4
      <4>2. CASE j \in 1..Len(queue)
        BY <3>4, <4>2 DEF Same
      <4>3. CASE j = Len(queue')
        BY <2>2, <3>2, <3>4, <4>3
      <4> QED
        BY <4>1, <4>2, <4>3
    <3> QED
      BY <3>1, <3>3, <3>4, SubmitCases
  <2>3. CASE ReceiveStep(c)
    BY <1>0, <2>3, ReceiveCases DEF Collect
  <2>4. CASE PublishReport(c)
    BY <1>0, <2>4 DEF PublishReport, vars
  <2>5. CASE GivesUp(c) /\ UNCHANGED queue
    BY <1>0, <2>5
  <2>6. ASSUME GivesUp(c), NEW i \in 1..Len(queue), queue[i].by = c,
               Len(queue') = Len(queue), Anonymous(i),
               \A l \in 1..Len(queue) : l # i => queue'[l] = queue[l]
        PROVE  \E l \in 1..Len(queue) :
                  /\ Same(j, l)
                  /\ queue'[j].by = queue[l].by
                     \/ (queue'[j].by = Nobody /\ \E d \in Callers : GivesUp(d) /\ queue[l].by = d)
    <3>1. CASE j = i
      BY <2>6, <3>1 DEF Same, Anonymous
    <3>2. CASE j # i
      BY <2>6, <3>2 DEF Same
    <3> QED
      BY <3>1, <3>2
  <2>7. ASSUME NEW i \in 1..Len(queue), GoneFrom(i)
        PROVE  \E l \in 1..Len(queue) : Same(j, l) /\ queue'[j].by = queue[l].by
    <3>1. CASE j < i
      <4>1. j \in 1..Len(queue) /\ queue'[j] = queue[j]
        BY <1>q, <2>7, <3>1 DEF GoneFrom
      <4> QED
        BY <4>1 DEF Same
    <3>2. CASE ~(j < i)
      <4>1. j + 1 \in 1..Len(queue) /\ queue'[j] = queue[j + 1]
        BY <1>q, <2>7, <3>2 DEF GoneFrom
      <4> QED
        BY <4>1 DEF Same
    <3> QED
      BY <3>1, <3>2
  <2>8. CASE GivesUp(c)
    <3>1. Collect(c) => UNCHANGED queue
      BY DEF Collect
    <3> QED
      BY <2>5, <2>6, <2>7, <2>8, <3>1, GiveUpCases, AbandonCases
  <2> QED
    BY <1>3, <2>1, <2>2, <2>3, <2>4, <2>8, HandlerCases
<1> QED
  BY <1>1, <1>2, <1>3 DEF DiagNext

LEMMA JobFate ==
    ASSUME TypeOK, Device, DiagTypeOK, Waiting, DiagNext, NEW i \in 1..Len(queue)
    PROVE  \/ \E j \in 1..Len(queue') : Same(j, i)
           \/ Leave \/ (TakeJob /\ queue[i] = Head1)
           \/ \E c \in Callers : GivesUp(c) /\ queue[i].by = c
<1>q. Len(queue) \in Nat
  BY DEF TypeOK
<1>0. queue' = queue => \E j \in 1..Len(queue') : Same(j, i)
  BY DEF Same
<1>1. CASE (Task \/ Stop) /\ UNCHANGED hubVars
  <2>1. CASE TakeJob
    BY <2>1, TakeShift DEF Same
  <2>2. CASE Ending
    BY <1>0, <2>2, EndCases DEF Ending
  <2> QED
    BY <1>0, <1>1, <2>1, <2>2, TaskCases
<1>2. CASE GetReport \/ CommitCatalog
  BY <1>0, <1>2 DEF GetReport, CommitCatalog, vars
<1>3. ASSUME NEW c \in Callers, Handler(c)
      PROVE  \/ \E j \in 1..Len(queue') : Same(j, i)
             \/ GivesUp(c) /\ queue[i].by = c
  <2>1. CASE Begin(c)
    BY <1>0, <2>1, BeginCases
  <2>2. CASE SendStep(c)
    <3>1. PICK kind \in Kinds : Submit(c, kind)
      BY <2>2, SendCases
    <3>3. CASE UNCHANGED queue
      BY <1>0, <3>3
    <3>4. CASE Len(queue') = Len(queue) + 1 /\ \A l \in 1..Len(queue) : queue'[l] = queue[l]
      <4>1. i \in 1..Len(queue') /\ queue'[i] = queue[i]
        BY <1>q, <3>4
      <4> QED
        BY <4>1 DEF Same
    <3> QED
      BY <3>1, <3>3, <3>4, SubmitCases
  <2>3. CASE ReceiveStep(c)
    BY <1>0, <2>3, ReceiveCases DEF Collect
  <2>4. CASE PublishReport(c)
    BY <1>0, <2>4 DEF PublishReport, vars
  <2>6. ASSUME NEW k \in 1..Len(queue), Len(queue') = Len(queue), Anonymous(k),
               \A l \in 1..Len(queue) : l # k => queue'[l] = queue[l]
        PROVE  \E j \in 1..Len(queue') : Same(j, i)
    BY <2>6 DEF Same, Anonymous
  <2>7. ASSUME NEW k \in 1..Len(queue), GoneFrom(k), k # i
        PROVE  \E j \in 1..Len(queue') : Same(j, i)
    <3>1. CASE i < k
      <4>1. i \in 1..Len(queue') /\ queue'[i] = queue[i]
        BY <1>q, <2>7, <3>1 DEF GoneFrom
      <4> QED
        BY <4>1 DEF Same
    <3>2. CASE k < i
      <4>1. i - 1 \in 1..Len(queue') /\ ~(i - 1 < k) /\ (i - 1) + 1 = i
        BY <1>q, <2>7, <3>2 DEF GoneFrom
      <4>2. queue'[i - 1] = queue[i]
        BY <2>7, <4>1 DEF GoneFrom
      <4> QED
        BY <4>1, <4>2 DEF Same
    <3> QED
      BY <2>7, <3>1, <3>2
  <2>8. CASE GivesUp(c)
    <3>1. Collect(c) => UNCHANGED queue
      BY DEF Collect
    <3> QED
      BY <1>0, <2>6, <2>7, <2>8, <3>1, GiveUpCases, AbandonCases
  <2> QED
    BY <1>3, <2>1, <2>2, <2>3, <2>4, <2>8, HandlerCases
<1> QED
  BY <1>1, <1>2, <1>3 DEF DiagNext

(* An acceptance in service: as it was, or just taken.                     *)
LEMMA ServiceOrigin ==
    ASSUME TypeOK, Device, DiagTypeOK, Waiting, DiagNext, busy'.stage = "accepted"
    PROVE  \/ /\ busy.stage = "accepted" /\ busy'.epoch = busy.epoch /\ UNCHANGED diagVars
              /\ \/ busy'.by = busy.by
                 \/ busy'.by = Nobody /\ \E c \in Callers : GivesUp(c) /\ busy.by = c
           \/ Installs /\ UNCHANGED hubVars
<1>1. CASE (Task \/ Stop) /\ UNCHANGED hubVars
  <2>1. CASE TakeJob
    <3>1. busy.stage # "accepted"
      BY <2>1, TakeShift DEF NoJob
    <3>2. \A s : Takes(s) => busy'.stage = s
      BY DEF Takes
    <3>3. TakeAccept /\ busy' # busy => Installs
      BY DEF TakeAccept, Installs, StatusUnchanged, NoneTentative
    <3> QED
      BY <1>1, <2>1, <3>1, <3>2, <3>3, TakeCases
  <2>2. CASE Ending
    BY <2>2, EndCases DEF Ending
  <2>3. CASE Leave
    BY <2>3, LeaveCases
  <2>4. CASE Quiet /\ UNCHANGED busy
    <3>1. busy # NoJob
      BY <2>4 DEF NoJob
    <3> QED
      BY <2>4, <3>1 DEF Quiet, Due, DialOk, DialFailed, Break, Stop, Idle
  <2> QED
    BY <1>1, <2>1, <2>2, <2>3, <2>4, TaskCases
<1>2. CASE GetReport \/ CommitCatalog
  BY <1>2 DEF GetReport, CommitCatalog, vars
<1>3. ASSUME NEW c \in Callers, Handler(c)
      PROVE  /\ busy.stage = "accepted" /\ busy'.epoch = busy.epoch
             /\ \/ busy'.by = busy.by
                \/ busy'.by = Nobody /\ GivesUp(c) /\ busy.by = c
  <2>1. CASE Begin(c)
    BY <2>1, BeginCases
  <2>2. CASE SendStep(c)
    BY <2>2, SendCases, SubmitCases
  <2>3. CASE ReceiveStep(c)
    BY <2>3, ReceiveCases DEF Collect
  <2>4. CASE PublishReport(c)
    BY <2>4 DEF PublishReport, vars
  <2>5. CASE GivesUp(c) /\ Abandon(c)
    BY <2>5, AbandonCases
  <2>6. CASE GivesUp(c) /\ Collect(c)
    BY <2>6 DEF Collect
  <2> QED
    BY <1>3, <2>1, <2>2, <2>3, <2>4, <2>5, <2>6, HandlerCases, GiveUpCases
<1> QED
  BY <1>1, <1>2, <1>3, HubLeaves DEF DiagNext

-----------------------------------------------------------------------------
(* The epochs in use.                                                      *)
LEMMA EpochMoves ==
    ASSUME TypeOK, Device, DiagTypeOK, Waiting, OwnJobs, DiagNext
    PROVE  /\ busy'.epoch \in AllEpochs /\ outside' \in AllEpochs /\ report'.epoch \in AllEpochs
           /\ \A j \in 1..Len(queue') : queue'[j].epoch \in AllEpochs
           /\ \A j \in 1..Len(before') : before'[j] \in AllEpochs
<1> USE DEF AllEpochs
<1>h. queue # <<>> => 1 \in 1..Len(queue)
  BY DEF TypeOK
<1>b. Len(before) \in Nat /\ Len(before) <= 1 /\ (before # <<>> => 1 \in 1..Len(before))
  BY DEF TypeOK
<1>1. \A j \in 1..Len(queue') : queue'[j].epoch \in AllEpochs
  <2> SUFFICES ASSUME NEW j \in 1..Len(queue') PROVE queue'[j].epoch \in AllEpochs
    OBVIOUS
  <2>1. \/ \E i \in 1..Len(queue) : queue'[j].epoch = queue[i].epoch
        \/ \E c \in Callers : queue'[j].epoch = ep[c]
    BY JobOrigin DEF Same
  <2> QED
    BY <2>1
<1>2. outside' \in AllEpochs /\ \A j \in 1..Len(before') : before'[j] \in AllEpochs
  <2>1. CASE UNCHANGED diagVars
    BY <2>1 DEF diagVars
  <2>2. CASE EndSession
    BY <2>2 DEF EndSession
  <2>3. CASE Installs
    BY <1>h, <2>3 DEF Installs, TakeAccept, Head1
  <2>4. CASE Undoes
    BY <1>b, <2>4 DEF Undoes, RestoreOutside
  <2>5. CASE Finalizes
    BY <2>5 DEF Finalizes
  <2> QED
    BY <2>1, <2>2, <2>3, <2>4, <2>5, TaskReports, HubLeaves DEF DiagNext
<1>3. busy'.epoch \in AllEpochs
  <2>0. busy' = busy => busy'.epoch \in AllEpochs
    OBVIOUS
  <2>1. CASE TakeJob
    <3>1. Takes("calling") \/ Takes("accepted") => busy'.epoch = Head1.epoch
      BY DEF Takes
    <3> QED
      BY <1>h, <2>0, <2>1, <3>1, TakeCases, TakeShift
  <2>2. CASE Ending
    BY <2>2, EndCases DEF Ending
  <2>3. CASE Leave
    BY <2>0, <2>3, LeaveCases
  <2>4. CASE GetReport \/ CommitCatalog
    BY <2>0, <2>4 DEF GetReport, CommitCatalog, vars
  <2>5. ASSUME NEW c \in Callers, Handler(c) PROVE busy'.epoch = busy.epoch
    <3>1. CASE Begin(c)
      BY <3>1, BeginCases
    <3>2. CASE SendStep(c)
      BY <3>2, SendCases, SubmitCases
    <3>3. CASE ReceiveStep(c)
      BY <3>3, ReceiveCases DEF Collect
    <3>4. CASE PublishReport(c)
      BY <3>4 DEF PublishReport, vars
    <3>5. CASE Abandon(c)
      BY <3>5, AbandonCases
    <3>6. CASE Collect(c)
      BY <3>6 DEF Collect
    <3> QED
      BY <2>5, <3>1, <3>2, <3>3, <3>4, <3>5, <3>6, HandlerCases, GiveUpCases
  <2> QED
    BY <2>0, <2>1, <2>2, <2>3, <2>4, <2>5, TaskCases DEF DiagNext
<1>4. report'.epoch \in AllEpochs
  <2>1. CASE UNCHANGED report
    BY <2>1
  <2>2. CASE GetReport
    BY <2>2 DEF GetReport, NoReport
  <2>3. ASSUME NEW c \in Callers, PublishReport(c) PROVE report'.epoch \in AllEpochs
    BY <2>3 DEF PublishReport
  <2>4. ASSUME NEW c \in Callers, Handler(c) PROVE PublishReport(c) \/ UNCHANGED report
    BY <2>4, HandlerCases, SendCases, ReceiveCases, BeginCases, GiveUpCases
  <2> QED
    BY <2>1, <2>2, <2>3, <2>4 DEF DiagNext, hubVars, CommitCatalog
<1> QED
  BY <1>1, <1>2, <1>3, <1>4

LEMMA StepKnown ==
    ASSUME TypeOK, Device, DiagTypeOK, Waiting, OwnJobs, Known, DiagNext PROVE Known'
<1>0. /\ ver \in Nat /\ ver' \in Nat /\ ver <= ver' /\ epochs \in Nat /\ epochs' \in Nat /\ epochs <= epochs'
  BY Forward
<1>t. \A e \in AllEpochs : e.n <= epochs /\ e.ver <= ver
  BY DEF Known, Old
<1>n. \A e \in AllEpochs : e \in Epoch
  <2>1. NoEpoch \in Epoch /\ busy.epoch \in Epoch /\ outside \in Epoch
    BY BrokerAssumption DEF TypeOK, NoEpoch, Epoch
  <2>2. report.epoch \in Epoch /\ \A c \in Callers : ep[c] \in Epoch
    BY DEF TypeOK, DiagTypeOK
  <2>3. \A i \in 1..Len(queue) : queue[i].epoch \in Epoch
    <3>1. \A i \in 1..Len(queue) : queue[i] \in Job
      BY DEF TypeOK
    <3> QED
      BY <3>1 DEF Job
  <2>4. \A i \in 1..Len(before) : before[i] \in Epoch
    BY DEF TypeOK
  <2> QED
    BY <2>1, <2>2, <2>3, <2>4 DEF AllEpochs
<1>m. \A e \in AllEpochs : e.n \in Nat /\ e.ver \in Nat
  BY <1>n DEF Epoch
<1>1. CASE UNCHANGED <<ep, epochs>>
  <2>1. AllEpochs' \subseteq AllEpochs
    <3>1. \A c \in Callers : ep'[c] \in AllEpochs
      BY <1>1 DEF AllEpochs
    <3>2. NoEpoch \in AllEpochs
      BY DEF AllEpochs
    <3>3. /\ busy'.epoch \in AllEpochs /\ outside' \in AllEpochs /\ report'.epoch \in AllEpochs
          /\ \A j \in 1..Len(queue') : queue'[j].epoch \in AllEpochs
          /\ \A j \in 1..Len(before') : before'[j] \in AllEpochs
      BY EpochMoves
    <3>4. ASSUME NEW e \in AllEpochs' PROVE e \in AllEpochs
      <4>1. \/ e \in {NoEpoch, busy'.epoch, outside', report'.epoch}
            \/ \E c \in Callers : e = ep'[c]
            \/ \E i \in 1..Len(queue') : e = queue'[i].epoch
            \/ \E i \in 1..Len(before') : e = before'[i]
        BY <3>4 DEF AllEpochs
      <4> QED
        BY <3>1, <3>2, <3>3, <4>1
    <3> QED
      BY <3>4
  <2>2. \A e \in AllEpochs' : Old(e)'
    BY <1>0, <1>t, <1>m, <2>1 DEF Old
  <2>3. \A e, f \in AllEpochs' : e.n = f.n => e = f
    BY <2>1 DEF Known
  <2>4. \A c, d \in Callers : ep'[c].n = ep'[d].n /\ ep'[c].n # 0 => c = d
    BY <1>1 DEF Known
  <2> QED
    BY <2>2, <2>3, <2>4 DEF Known
<1>2. ASSUME NEW c \in Callers, Begin(c) PROVE Known'
  <2>1. /\ ep'[c].n = epochs + 1 /\ ep'[c].ver = ver /\ epochs' = epochs + 1 /\ ver' = ver
        /\ UNCHANGED <<busy, outside, before, queue, report>> /\ \A d \in Callers : d # c => ep'[d] = ep[d]
    BY <1>2, BeginCases DEF connVars, diagVars
  <2>2. ASSUME NEW e \in AllEpochs' PROVE e \in AllEpochs \/ e = ep'[c]
    <3>1. \/ e \in {NoEpoch, busy'.epoch, outside', report'.epoch}
          \/ \E d \in Callers : e = ep'[d]
          \/ \E i \in 1..Len(queue') : e = queue'[i].epoch
          \/ \E i \in 1..Len(before') : e = before'[i]
      BY <2>2 DEF AllEpochs
    <3> QED
      BY <2>1, <3>1 DEF AllEpochs
  <2>3. \A e \in AllEpochs' : Old(e)'
    BY <1>0, <1>t, <1>m, <2>1, <2>2 DEF Old
  <2>4. ASSUME NEW e \in AllEpochs', NEW f \in AllEpochs', e.n = f.n PROVE e = f
    <3>1. CASE e \in AllEpochs /\ f \in AllEpochs
      BY <2>4, <3>1 DEF Known
    <3>2. \A g \in AllEpochs : g.n # ep'[c].n
      BY <1>0, <1>t, <1>m, <2>1
    <3> QED
      BY <2>2, <2>4, <3>1, <3>2
  <2>5. ASSUME NEW a \in Callers, NEW b \in Callers, ep'[a].n = ep'[b].n, ep'[a].n # 0 PROVE a = b
    <3>1. \A d \in Callers : ep[d] \in AllEpochs
      BY DEF AllEpochs
    <3>2. \A d \in Callers : ep[d].n # ep'[c].n
      BY <1>0, <1>t, <1>m, <2>1, <3>1
    <3> QED
      BY <2>1, <2>5, <3>2 DEF Known
  <2> QED
    BY <2>3, <2>4, <2>5 DEF Known
<1> QED
  BY <1>1, <1>2, TaskVersion, HubLeaves DEF DiagNext

-----------------------------------------------------------------------------
(* A handler's own step is its alone: another handler's epoch and place    *)
(* change in none but its own steps.                                       *)
LEMMA OthersStay ==
    ASSUME TypeOK, DiagTypeOK, Waiting, DiagNext, NEW d \in Callers, ~Handler(d)
    PROVE  pc'[d] = pc[d] /\ ep'[d] = ep[d]
<1>1. CASE (Task \/ Stop) /\ UNCHANGED hubVars
  BY <1>1, TaskVersion DEF hubVars
<1>2. CASE GetReport \/ CommitCatalog
  BY <1>2 DEF GetReport, CommitCatalog, vars
<1>3. ASSUME NEW c \in Callers, Handler(c), c # d PROVE pc'[d] = pc[d] /\ ep'[d] = ep[d]
  <2>1. CASE Begin(c)
    BY <1>3, <2>1, BeginCases
  <2>2. CASE SendStep(c)
    <3>1. PICK kind \in Kinds : Submit(c, kind) /\ pc' = [pc EXCEPT ![c] = WaitsFor(kind)]
      BY <2>2, SendCases
    <3> QED
      BY <1>3, <3>1, SubmitCases DEF DiagTypeOK
  <2>3. CASE ReceiveStep(c)
    BY <1>3, <2>3, ReceiveCases DEF Collect
  <2>4. CASE PublishReport(c)
    BY <1>3, <2>4 DEF PublishReport, vars, DiagTypeOK
  <2>5. CASE GivesUp(c)
    BY <1>3, <2>5, GiveUpCases, AbandonCases DEF Collect
  <2> QED
    BY <1>3, <2>1, <2>2, <2>3, <2>4, <2>5, HandlerCases
<1> QED
  BY <1>1, <1>2, <1>3 DEF DiagNext

(* What a handler's own step does to it.                                   *)
LEMMA OwnStep ==
    ASSUME TypeOK, DiagTypeOK, Waiting, NEW c \in Callers, Handler(c)
    PROVE  /\ Begin(c) \/ ep' = ep
           /\ pc[c] = "idle" => Begin(c)
           /\ Begin(c) => pc[c] = "idle" /\ pc'[c] = "toRefresh"
           /\ PublishReport(c) \/ UNCHANGED report
<1>1. CASE Begin(c)
  BY <1>1, BeginCases
<1>2. CASE SendStep(c)
  <2>1. PICK kind \in Kinds : Submit(c, kind) /\ pc[c] \in Steps /\ UNCHANGED report
    BY <1>2, SendCases
  <2>2. pc[c] # "idle"
    BY <2>1 DEF Steps
  <2> QED
    BY <2>1, <2>2, SubmitCases DEF Begin
<1>3. CASE ReceiveStep(c)
  BY <1>3, ReceiveCases DEF Collect, Awaits, Begin
<1>4. CASE PublishReport(c)
  BY <1>4 DEF PublishReport, vars, Begin
<1>5. CASE GivesUp(c)
  BY <1>5, GiveUpCases, AbandonCases DEF Collect, Awaits, Begin
<1> QED
  BY <1>1, <1>2, <1>3, <1>4, <1>5, HandlerCases

ForNobodyElseNext(by, n) == \A c \in Callers : ep'[c].n = n => by = c \/ (by = Nobody /\ pc'[c] = "idle")
LEMMA ForNobodyElseStays ==
    ASSUME TypeOK, DiagTypeOK, Waiting, Known, DiagNext, NEW by \in Callers \cup {Nobody}, NEW e \in AllEpochs,
           e.n # 0, ForNobodyElse(by, e.n)
    PROVE  ForNobodyElseNext(by, e.n)
<1>1. SUFFICES ASSUME NEW c \in Callers, ep'[c].n = e.n
               PROVE  by = c \/ (by = Nobody /\ pc'[c] = "idle")
  BY DEF ForNobodyElseNext
<1>2. ~Begin(c)
  <2> SUFFICES ASSUME Begin(c) PROVE FALSE
    OBVIOUS
  <2>1. ep'[c].n = epochs + 1 /\ epochs \in Nat
    BY BeginCases
  <2>2. e.n <= epochs
    BY DEF Known, Old
  <2> QED
    BY <1>1, <2>1, <2>2
<1>3. ep'[c] = ep[c]
  BY <1>2, OthersStay, OwnStep
<1>4. pc[c] = "idle" => pc'[c] = "idle"
  BY <1>2, OthersStay, OwnStep
<1> QED
  BY <1>1, <1>3, <1>4 DEF ForNobodyElse

LEMMA StepDiagJobs ==
    ASSUME IInv, IInv', DiagTypeOK, Waiting, OwnJobs, Known, DiagJobs, DiagNext PROVE DiagJobs'
<1> USE DEF IInv
<1>1. ASSUME NEW j \in 1..Len(queue'), queue'[j].kind \in DiagKinds
      PROVE  ForNobodyElseNext(queue'[j].by, queue'[j].epoch.n)
  <2>1. ASSUME NEW i \in 1..Len(queue), Same(j, i),
               queue'[j].by = queue[i].by
                 \/ (queue'[j].by = Nobody /\ \E c \in Callers : GivesUp(c) /\ queue[i].by = c)
        PROVE  ForNobodyElseNext(queue'[j].by, queue'[j].epoch.n)
    <3>1. /\ queue[i].kind \in DiagKinds /\ queue[i].epoch \in AllEpochs /\ queue[i].epoch.n # 0
          /\ queue[i].by \in Callers \cup {Nobody} /\ queue'[j].epoch = queue[i].epoch
      <4>1. queue[i] \in Job
        BY QueueIsTyped
      <4> QED
        BY <1>1, <2>1, <4>1 DEF Same, AllEpochs, EpochsOld, Job
    <3>2. ForNobodyElseNext(queue[i].by, queue[i].epoch.n)
      BY <3>1, ForNobodyElseStays DEF DiagJobs
    <3>3. CASE queue'[j].by = queue[i].by
      BY <3>1, <3>2, <3>3 DEF ForNobodyElseNext
    <3>4. ASSUME queue'[j].by = Nobody, NEW c \in Callers, GivesUp(c), queue[i].by = c
          PROVE  ForNobodyElseNext(queue'[j].by, queue'[j].epoch.n)
      <4>1. pc'[c] = "idle" /\ c # Nobody
        BY <3>4, GiveUpCases, BrokerAssumption
      <4> QED
        BY <3>1, <3>2, <3>4, <4>1 DEF ForNobodyElseNext
    <3> QED
      BY <2>1, <3>3, <3>4
  <2>2. ASSUME NEW c \in Callers, SendStep(c), queue'[j].by = c, queue'[j].epoch = ep[c]
        PROVE  ForNobodyElseNext(queue'[j].by, queue'[j].epoch.n)
    <3>1. ep' = ep
      BY <2>2, SendCases, SubmitCases
    <3>2. ep[c].n # 0
      BY <1>1, <2>2, <3>1 DEF EpochsOld
    <3> QED
      BY <2>2, <3>1, <3>2 DEF ForNobodyElseNext, Known
  <2> QED
    BY <1>1, <2>1, <2>2, JobOrigin
<1>2. ASSUME busy'.stage = "accepted"
      PROVE  ForNobodyElseNext(busy'.by, busy'.epoch.n) /\ outside' = busy'.epoch /\ busy'.epoch.n # 0
  <2>1. ASSUME busy.stage = "accepted", busy'.epoch = busy.epoch, UNCHANGED diagVars,
               \/ busy'.by = busy.by
               \/ busy'.by = Nobody /\ \E c \in Callers : GivesUp(c) /\ busy.by = c
        PROVE  ForNobodyElseNext(busy'.by, busy'.epoch.n) /\ outside' = busy'.epoch /\ busy'.epoch.n # 0
    <3>1. /\ ForNobodyElse(busy.by, busy.epoch.n) /\ outside = busy.epoch /\ busy.epoch.n # 0
          /\ busy.epoch \in AllEpochs /\ busy.by \in Callers \cup {Nobody} /\ outside' = outside
      BY <2>1 DEF DiagJobs, AllEpochs, TypeOK, diagVars
    <3>2. ForNobodyElseNext(busy.by, busy.epoch.n)
      BY <3>1, ForNobodyElseStays
    <3>3. CASE busy'.by = busy.by
      BY <2>1, <3>1, <3>2, <3>3 DEF ForNobodyElseNext
    <3>4. ASSUME busy'.by = Nobody, NEW c \in Callers, GivesUp(c), busy.by = c
          PROVE  ForNobodyElseNext(busy'.by, busy'.epoch.n)
      <4>1. pc'[c] = "idle" /\ c # Nobody
        BY <3>4, GiveUpCases, BrokerAssumption
      <4> QED
        BY <2>1, <3>2, <3>4, <4>1 DEF ForNobodyElseNext
    <3> QED
      BY <2>1, <3>1, <3>3, <3>4
  <2>2. ASSUME Installs, UNCHANGED hubVars
        PROVE  ForNobodyElseNext(busy'.by, busy'.epoch.n) /\ outside' = busy'.epoch /\ busy'.epoch.n # 0
    <3>0. TakeJob /\ Head1.kind \in DiagKinds
      BY <2>2 DEF Installs, TakeJob, TakeAccept, DiagKinds
    <3>1. 1 \in 1..Len(queue) /\ Head1 = queue[1] /\ ep' = ep
      BY <3>0, TakeShift
    <3>2. ForNobodyElse(Head1.by, Head1.epoch.n) /\ Head1.epoch.n # 0
      BY <3>0, <3>1 DEF DiagJobs, EpochsOld
    <3>3. busy'.by = Head1.by /\ busy'.epoch = Head1.epoch /\ outside' = Head1.epoch /\ pc' = pc
      BY <2>2 DEF Installs, hubVars
    <3> QED
      BY <3>1, <3>2, <3>3 DEF ForNobodyElse, ForNobodyElseNext
  <2> QED
    BY <1>2, <2>1, <2>2, ServiceOrigin
<1> QED
  BY <1>1, <1>2 DEF DiagJobs, ForNobodyElse, ForNobodyElseNext

LEMMA OthersReply ==
    ASSUME TypeOK, DiagTypeOK, Waiting, NEW d \in Callers, ~Handler(d),
           GetReport \/ CommitCatalog \/ \E c \in Callers : Handler(c)
    PROVE  /\ req'[d] = req[d]
           /\ busy'.stage = busy.stage /\ busy'.epoch = busy.epoch
           /\ busy.by = d => busy'.by = d
<1>1. CASE GetReport \/ CommitCatalog
  BY <1>1 DEF GetReport, CommitCatalog, vars
<1>2. ASSUME NEW c \in Callers, Handler(c), c # d
      PROVE  /\ req'[d] = req[d]
             /\ busy'.stage = busy.stage /\ busy'.epoch = busy.epoch
             /\ busy.by = d => busy'.by = d
  <2>1. CASE Begin(c)
    BY <2>1, BeginCases
  <2>2. CASE SendStep(c)
    BY <1>2, <2>2, SendCases, SubmitCases
  <2>3. CASE Collect(c)
    BY <1>2, <2>3 DEF Collect, TypeOK
  <2>4. CASE PublishReport(c)
    BY <2>4 DEF PublishReport, vars
  <2>5. CASE Abandon(c)
    BY <1>2, <2>5, AbandonCases
  <2> QED
    BY <1>2, <2>1, <2>2, <2>3, <2>4, <2>5, HandlerCases, GiveUpCases, ReceiveCases
<1> QED
  BY <1>1, <1>2

-----------------------------------------------------------------------------
(* A tentative accept that stands through a step of the task.              *)
LEMMA Standing ==
    ASSUME IInv, Task \/ Stop, pending' # 0, ~Installs
    PROVE  UNCHANGED diagVars /\ ver' = ver /\ pending # 0 /\ outside.n = pending
<1>1. UNCHANGED diagVars /\ ~EndSession
  BY TaskReports DEF EndSession, Undoes, Finalizes
<1>2. pending # 0 /\ outside.n = pending
  BY <1>1 DEF diagVars, IInv, Reports, PendingIsInstalled
<1>3. conn \in {"Connected", "Leaving"}
  BY <1>2 DEF IInv, Reports, OfThisSession
<1>4. ~Due /\ ~DialOk /\ ~DialFailed /\ ~DropSession /\ ~Leave
  BY <1>1, <1>3 DEF Due, DialOk, DialFailed, DropSession, Leave
<1>5. ver' = ver
  BY <1>4 DEF Task, ConnEvent, TakeJob, EndJob, TakeCall, SkipRefresh, TakeAccept, TakeDiscard, TakeFinalize,
              CallOk, CallFatal, ReplyAccept, Break, Stop, connVars
<1> QED
  BY <1>1, <1>2, <1>5

(* The finalize or discard of the tentative accept is obeyed.              *)
LEMMA Obeyed ==
    ASSUME IInv, Known, pending # 0, outside.ver = ver, TakeJob,
           Head1.kind \in {"Finalize", "Discard"}, Head1.epoch.n = pending
    PROVE  pending' = 0
<1>1. 1 \in 1..Len(queue) /\ Head1 = queue[1]
  BY TakeShift DEF IInv
<1>2. outside.n = pending /\ conn \in {"Connected", "Leaving"}
  BY DEF IInv, Reports, PendingIsInstalled, OfThisSession
<1>3. Head1.epoch = outside
  BY <1>1, <1>2 DEF Known, AllEpochs
<1>4. Owns(Head1.epoch)
  BY <1>2, <1>3 DEF Owns, StatusUnchanged
<1>5. TakeFinalize \/ TakeDiscard
  BY DEF TakeJob, TakeCall, SkipRefresh, TakeAccept, AwaitKinds
<1>6. CASE TakeFinalize
  BY <1>4, <1>6 DEF TakeFinalize
<1>7. CASE TakeDiscard
  BY <1>2, <1>4, <1>7 DEF TakeDiscard, Idle, InLoop
<1> QED
  BY <1>5, <1>6, <1>7

LEMMA StepTentative ==
    ASSUME IInv, IInv', DiagTypeOK, Waiting, OwnJobs, Known, DiagJobs, Tentative, DiagNext PROVE Tentative'
<1> USE DEF IInv
<1>n. Nobody \notin Callers
  BY BrokerAssumption
<1> SUFFICES ASSUME pending' # 0
             PROVE  outside'.ver = ver' /\ \A c \in Callers : ep'[c].n = pending' => Awaited(c)'
  BY DEF Tentative
<1>1. CASE (Task \/ Stop) /\ UNCHANGED hubVars /\ ~Installs
  <2>1. UNCHANGED diagVars /\ ver' = ver /\ pending # 0 /\ outside.n = pending
    BY <1>1, Standing
  <2>2. pc' = pc /\ ep' = ep
    BY <1>1, TaskVersion DEF hubVars
  <2>3. outside.ver = ver /\ pending' = pending /\ outside' = outside
    BY <2>1 DEF Tentative, diagVars
  <2>4. ASSUME NEW c \in Callers, ep[c].n = pending PROVE Awaited(c)'
    <3>1. Awaited(c)
      BY <2>1, <2>4 DEF Tentative
    <3>2. CASE pc[c] = "accepting" /\ req[c] = "ok"
      <4>1. req'[c] = "ok"
        BY <1>1, <3>2, TaskReplies
      <4> QED
        BY <2>2, <3>2, <4>1 DEF Awaited
    <3>3. CASE pc[c] = "accepting" /\ busy.by = c /\ busy.stage = "accepted"
      <4>1. CASE Quiet /\ UNCHANGED busy
        BY <2>2, <3>3, <4>1 DEF Awaited
      <4>2. ~TakeJob /\ ~Leave
        BY <3>3, LeaveCases, TakeShift DEF NoJob
      <4>3. CASE Ending
        <5>1. ReplyAccept
          BY <3>3, <4>3 DEF Ending, CallOk, CallFatal, DropSession
        <5>2. req'[c] = "ok"
          BY <1>n, <3>3, <5>1 DEF ReplyAccept, Answer, TypeOK
        <5> QED
          BY <2>2, <3>3, <5>2 DEF Awaited
      <4> QED
        BY <1>1, <4>1, <4>2, <4>3, TaskCases
    <3>4. CASE pc[c] \in {"publishing", "toFinalize", "toDiscard", "idle"}
      BY <2>2, <3>4 DEF Awaited
    <3>5. CASE pc[c] \in {"finalizing", "discarding"} /\ req[c] = "waiting"
      <4>1. SUFFICES ASSUME req'[c] # "waiting" PROVE FALSE
        BY <2>2, <3>5 DEF Awaited
      <4>2. CASE Leave
        BY <4>2 DEF Leave, EndSession
      <4>3. CASE TakeJob
        <5>1. 1 \in 1..Len(queue) /\ Head1 = queue[1] /\ Head1 \in Job
          BY <4>3, TakeShift, QueueIsTyped
        <5>2. Head1.by = c
          BY <3>5, <4>1, <4>3, TakeCases DEF Takes, Answered
        <5>3. pc[c] = WaitsFor(Head1.kind) /\ Head1.epoch = ep[c]
          BY <5>1, <5>2 DEF OwnJobs, Queued
        <5>4. Head1.kind \in {"Finalize", "Discard"}
          BY <3>5, <5>1, <5>3 DEF WaitsFor, Job, AwaitKinds, DiagKinds
        <5> QED
          BY <2>1, <2>3, <2>4, <4>3, <5>3, <5>4, Obeyed
      <4>4. CASE Ending
        <5>1. busy.by = c
          BY <3>5, <4>1, <4>4, EndCases DEF Ending, Answered
        <5> QED
          BY <3>5, <5>1 DEF OwnJobs, Served
      <4> QED
        BY <1>1, <3>5, <4>1, <4>2, <4>3, <4>4, TaskCases
    <3> QED
      BY <3>1, <3>2, <3>3, <3>4, <3>5 DEF Awaited
  <2> QED
    BY <2>1, <2>2, <2>3, <2>4
<1>2. CASE Installs /\ UNCHANGED hubVars
  <2>0. TakeJob /\ Head1.kind = "Accept" /\ ver' = ver
    BY <1>2 DEF Installs, TakeJob, TakeAccept, connVars
  <2>1. 1 \in 1..Len(queue) /\ Head1 = queue[1] /\ ep' = ep /\ pc' = pc
    BY <1>2, <2>0, TakeShift DEF hubVars
  <2>2. ASSUME NEW c \in Callers, ep[c].n = Head1.epoch.n PROVE Awaited(c)'
    <3>1. Head1.by = c
      BY <1>2, <2>0, <2>1, <2>2 DEF DiagJobs, ForNobodyElse, Installs, DiagKinds
    <3>2. pc[c] = "accepting"
      BY <2>0, <2>1, <3>1 DEF OwnJobs, Queued, WaitsFor
    <3> QED
      BY <1>2, <2>1, <3>1, <3>2 DEF Installs, Awaited
  <2> QED
    BY <1>2, <2>0, <2>1, <2>2 DEF Installs
<1>3. CASE GetReport \/ CommitCatalog \/ \E d \in Callers : Handler(d)
  <2>1. UNCHANGED <<connVars, diagVars>>
    BY <1>3, HubLeaves
  <2>2. outside' = outside /\ pending' = pending /\ ver' = ver /\ pending # 0 /\ outside.ver = ver
    BY <2>1 DEF Tentative, connVars, diagVars
  <2>3. outside.n = pending /\ outside \in AllEpochs /\ conn \in {"Connected", "Leaving"}
    BY <2>2 DEF Reports, PendingIsInstalled, OfThisSession, AllEpochs
  <2>4. ASSUME NEW c \in Callers, ep'[c].n = pending PROVE Awaited(c)'
    <3>1. ~Begin(c)
      <4> SUFFICES ASSUME Begin(c) PROVE FALSE
        OBVIOUS
      <4>1. ep'[c].n = epochs + 1 /\ epochs \in Nat
        BY BeginCases
      <4>2. outside.n <= epochs
        BY <2>3 DEF Known, Old
      <4> QED
        BY <2>3, <2>4, <4>1, <4>2
    <3>2. ep'[c] = ep[c]
      BY <3>1, OthersStay, OwnStep
    <3>3. Awaited(c)
      BY <2>2, <2>4, <3>2 DEF Tentative
    <3>4. CASE Handler(c)
      <4>1. CASE SendStep(c)
        <5>1. PICK kind \in Kinds, from \in Steps \ {"publishing"} :
                /\ Submit(c, kind) /\ pc[c] = from /\ pc' = [pc EXCEPT ![c] = WaitsFor(kind)]
                /\ kind = "Refresh" => from = "toRefresh"
                /\ kind = "Call" => from = "toDiagnose"
                /\ kind = "Accept" => from = "toAccept"
          BY <4>1, SendCases
        <5>2. pc[c] \in {"toFinalize", "toDiscard"}
          BY <3>3, <5>1 DEF Awaited, Steps
        <5>3. kind \in {"Finalize", "Discard"} /\ pc'[c] = WaitsFor(kind)
          BY <5>1, <5>2, DiagnosticAssumption DEF DiagTypeOK
        <5>4. req'[c] = "waiting"
          BY <2>3, <5>1, <5>3, SubmitCases
        <5> QED
          BY <5>3, <5>4 DEF Awaited, WaitsFor
      <4>2. CASE ReceiveStep(c)
        <5>1. req[c] # "waiting" /\ pc[c] \in Awaits
          BY <4>2, ReceiveCases DEF Collect
        <5>2. pc[c] = "accepting" /\ req[c] = "ok"
          BY <3>3, <5>1 DEF Awaited, Awaits, OwnJobs, Served
        <5>3. pc'[c] = "publishing"
          BY <4>2, <5>2, ReceiveCases
        <5> QED
          BY <5>3 DEF Awaited
      <4>3. CASE PublishReport(c)
        BY <4>3 DEF PublishReport, AfterRefusal, DiagTypeOK, Awaited
      <4>4. CASE GivesUp(c)
        BY <4>4, GiveUpCases DEF Awaited
      <4> QED
        BY <3>1, <3>4, <4>1, <4>2, <4>3, <4>4, HandlerCases
    <3>5. CASE ~Handler(c)
      <4>1. pc'[c] = pc[c]
        BY <3>5, OthersStay
      <4>2. req'[c] = req[c]
        BY <1>3, <3>5, OthersReply
      <4>3. CASE busy.by = c /\ busy.stage = "accepted"
        <5>1. busy'.by = c /\ busy'.stage = "accepted"
          BY <1>3, <3>5, <4>3, OthersReply
        <5> QED
          BY <3>3, <4>1, <4>2, <5>1 DEF Awaited
      <4>4. CASE ~(busy.by = c /\ busy.stage = "accepted")
        BY <3>3, <4>1, <4>2, <4>4 DEF Awaited
      <4> QED
        BY <4>3, <4>4
    <3> QED
      BY <3>4, <3>5
  <2> QED
    BY <2>2, <2>4
<1> QED
  BY <1>1, <1>2, <1>3 DEF DiagNext, Installs

-----------------------------------------------------------------------------
(* What is published is what is installed.                                 *)
LEMMA PublishCases ==
    ASSUME DiagTypeOK, Waiting, NEW c \in Callers, PublishReport(c)
    PROVE  /\ pc[c] = "publishing" /\ req[c] = "idle" /\ ep[c].n # 0 /\ UNCHANGED vars
           /\ pc'[c] \in {"toFinalize", "toDiscard"} /\ \A d \in Callers : d # c => pc'[d] = pc[d]
           /\ \/ report' = report
              \/ report'.epoch = ep[c] /\ pc'[c] = "toFinalize" /\ IsCurrent(ep[c])
<1>1. pc[c] = "publishing" /\ req[c] = "idle" /\ ep[c].n # 0 /\ UNCHANGED vars
  BY DEF PublishReport, Waiting, Awaits
<1> QED
  BY <1>1 DEF PublishReport, AfterRefusal, DiagTypeOK, Publishable

LEMMA ReportMoves ==
    ASSUME TypeOK, DiagTypeOK, Waiting, DiagNext
    PROVE  \/ report' = report
           \/ report' = NoReport /\ UNCHANGED <<vars, pc>>
           \/ \E c \in Callers : PublishReport(c) /\ report'.epoch = ep[c] /\ pc'[c] = "toFinalize" /\ IsCurrent(ep[c])
<1>1. CASE (Task \/ Stop) /\ UNCHANGED hubVars
  BY <1>1 DEF hubVars
<1>2. CASE GetReport \/ CommitCatalog
  BY <1>2 DEF GetReport, CommitCatalog
<1>3. ASSUME NEW c \in Callers, Handler(c)
      PROVE  \/ report' = report
             \/ PublishReport(c) /\ report'.epoch = ep[c] /\ pc'[c] = "toFinalize" /\ IsCurrent(ep[c])
  BY <1>3, OwnStep, PublishCases
<1> QED
  BY <1>1, <1>2, <1>3 DEF DiagNext

LEMMA StepPublished ==
    ASSUME IInv, IInv', DiagTypeOK, Waiting, OwnJobs, Known, DiagJobs, DiagJobs', Published, DiagNext
    PROVE  Published'
<1> USE DEF IInv
<1>z. NoReport.epoch.n = 0
  BY DEF NoReport, NoEpoch
<1>w. Waiting'
  BY StepWaiting
<1>1. report' # NoReport => report'.epoch.n # 0
  BY ReportMoves, PublishCases DEF Published
<1>2. ASSUME NEW d \in Callers, pc'[d] \notin {"idle", "toFinalize", "finalizing"}
      PROVE  report'.epoch.n # ep'[d].n
  <2>1. ep'[d].n # 0
    BY <1>2, <1>w DEF Waiting
  <2>2. CASE report' = NoReport
    BY <1>z, <2>1, <2>2
  <2>3. ASSUME NEW c \in Callers, PublishReport(c), report'.epoch = ep[c], pc'[c] = "toFinalize"
        PROVE  report'.epoch.n # ep'[d].n
    <3>1. d # c /\ ep' = ep
      BY <1>2, <2>3, PublishCases DEF vars
    <3> QED
      BY <2>1, <2>3, <3>1 DEF Known
  <2>4. CASE report' = report
    <3>1. CASE Begin(d)
      <4>1. ep'[d].n = epochs + 1 /\ epochs \in Nat
        BY <3>1, BeginCases
      <4>2. report.epoch.n <= epochs /\ report.epoch.n \in Nat
        BY DEF Known, Old, AllEpochs, DiagTypeOK, Epoch
      <4> QED
        BY <2>4, <4>1, <4>2
    <3>2. CASE ~Begin(d)
      <4>1. ep'[d] = ep[d]
        BY <3>2, OthersStay, OwnStep
      <4>2. pc[d] \notin {"idle", "toFinalize", "finalizing"}
        <5>1. CASE ~Handler(d)
          BY <1>2, <5>1, OthersStay
        <5>2. CASE SendStep(d)
          <6>1. PICK kind \in Kinds, from \in Steps \ {"publishing"} :
                  /\ pc[d] = from /\ pc' = [pc EXCEPT ![d] = WaitsFor(kind)]
                  /\ kind = "Refresh" => from = "toRefresh"
                  /\ kind = "Call" => from = "toDiagnose"
                  /\ kind = "Accept" => from = "toAccept"
                  /\ kind = "Discard" => from = "toDiscard"
            BY <5>2, SendCases
          <6>2. pc'[d] = WaitsFor(kind)
            BY <6>1 DEF DiagTypeOK
          <6>3. kind # "Finalize"
            BY <1>2, <6>2 DEF WaitsFor
          <6> QED
            BY <6>1, <6>3, DiagnosticAssumption
        <5>3. CASE ReceiveStep(d)
          BY <1>2, <5>3, ReceiveCases
        <5>4. CASE PublishReport(d)
          BY <5>4, PublishCases
        <5>5. CASE GivesUp(d)
          BY <1>2, <5>5, GiveUpCases
        <5> QED
          BY <3>2, <5>1, <5>2, <5>3, <5>4, <5>5, HandlerCases
      <4> QED
        BY <2>4, <4>1, <4>2 DEF Published, Unpublished
    <3> QED
      BY <3>1, <3>2
  <2> QED
    BY <2>2, <2>3, <2>4, ReportMoves
<1>3. ASSUME NEW j \in 1..Len(queue'), queue'[j].kind \in {"Accept", "Discard"}
      PROVE  report'.epoch.n # queue'[j].epoch.n
  <2>0. queue'[j].kind \in DiagKinds /\ queue'[j].epoch.n # 0
    BY <1>3 DEF DiagKinds, EpochsOld
  <2>1. CASE report' = NoReport
    BY <1>z, <2>0, <2>1
  <2>2. ASSUME NEW c \in Callers, PublishReport(c), report'.epoch = ep[c],
               report'.epoch.n = queue'[j].epoch.n
        PROVE  FALSE
    <3>1. queue' = queue /\ pc[c] = "publishing" /\ req[c] = "idle"
      BY <2>2, PublishCases DEF vars
    <3>2. queue[j].by = c
      BY <2>0, <2>2, <3>1 DEF DiagJobs, ForNobodyElse
    <3> QED
      BY <3>1, <3>2 DEF OwnJobs, Queued
  <2>3. CASE report' = report
    <3>1. CASE \E i \in 1..Len(queue) : Same(j, i)
      BY <1>3, <2>3, <3>1 DEF Published, Unpublished, Same
    <3>2. ASSUME NEW c \in Callers, SentFrom(c, queue'[j].kind), queue'[j].epoch = ep[c]
          PROVE  report'.epoch.n # queue'[j].epoch.n
      BY <1>3, <2>3, <3>2 DEF Published, Unpublished, SentFrom
    <3> QED
      BY <3>1, <3>2, JobOrigin
  <2> QED
    BY <2>1, <2>2, <2>3, ReportMoves
<1>4. ASSUME busy'.stage = "accepted" PROVE report'.epoch.n # busy'.epoch.n
  <2>0. busy'.epoch.n # 0
    BY <1>4 DEF DiagJobs
  <2>1. CASE report' = NoReport
    BY <1>z, <2>0, <2>1
  <2>2. ASSUME NEW c \in Callers, PublishReport(c), report'.epoch = ep[c],
               report'.epoch.n = busy'.epoch.n
        PROVE  FALSE
    <3>1. busy' = busy /\ pc[c] = "publishing" /\ req[c] = "idle"
      BY <2>2, PublishCases DEF vars
    <3>2. busy.by = c
      BY <1>4, <2>2, <3>1 DEF DiagJobs, ForNobodyElse
    <3> QED
      BY <3>1, <3>2 DEF OwnJobs, Served
  <2>3. CASE report' = report
    <3>1. CASE busy.stage = "accepted" /\ busy'.epoch = busy.epoch
      BY <2>3, <3>1 DEF Published, Unpublished
    <3>2. CASE Installs
      <4>1. TakeJob /\ Head1.kind = "Accept" /\ busy'.epoch = Head1.epoch
        BY <3>2 DEF Installs, TakeJob, TakeAccept
      <4>2. 1 \in 1..Len(queue) /\ Head1 = queue[1]
        BY <4>1, TakeShift
      <4> QED
        BY <2>3, <4>1, <4>2 DEF Published, Unpublished
    <3> QED
      BY <1>4, <3>1, <3>2, ServiceOrigin
  <2> QED
    BY <2>1, <2>2, <2>3, ReportMoves
<1> QED
  BY <1>1, <1>2, <1>3, <1>4 DEF Published, Unpublished

(* What a step of the task does to a report that is current and installed, *)
(* and that no acceptance or discard of a job is about.                    *)
NoJobAbout(e) ==
    /\ \A i \in 1..Len(queue) : queue[i].kind \in {"Accept", "Discard"} => queue[i].epoch.n # e.n
    /\ busy.stage = "accepted" => busy.epoch.n # e.n
LEMMA StaysInstalled ==
    ASSUME IInv, DiagJobs, Task \/ Stop, NEW e \in Epoch, e.n # 0, IsCurrent(e), ver' = ver,
           outside = e, NoJobAbout(e)
    PROVE  outside' = e
<1> USE DEF IInv
<1>1. ~(EndSession /\ ver' = ver + 1)
  BY DEF TypeOK
<1>2. ~Installs
  <2> SUFFICES ASSUME Installs PROVE FALSE
    OBVIOUS
  <2>1. TakeJob /\ Head1.kind = "Accept" /\ Head1.epoch.n = epochs
    BY DEF Installs, TakeJob, TakeAccept
  <2>2. 1 \in 1..Len(queue) /\ Head1 = queue[1]
    BY <2>1, TakeShift
  <2> QED
    BY <2>1, <2>2 DEF NoJobAbout, IsCurrent
<1>3. ~Undoes
  <2> SUFFICES ASSUME Undoes PROVE FALSE
    OBVIOUS
  <2>1. CASE TakeDiscard /\ Owns(Head1.epoch)
    <3>1. TakeJob /\ Head1.kind = "Discard" /\ Head1.epoch.n = pending
      BY <2>1 DEF TakeJob, TakeDiscard, Owns
    <3>2. 1 \in 1..Len(queue) /\ Head1 = queue[1]
      BY <3>1, TakeShift
    <3>3. Head1.epoch.n # 0
      BY <3>1, <3>2 DEF EpochsOld, DiagKinds
    <3>4. Head1.epoch.n = e.n
      BY <3>1, <3>3 DEF Reports, PendingIsInstalled
    <3> QED
      BY <3>1, <3>2, <3>4 DEF NoJobAbout
  <2>2. CASE ReplyAccept /\ busy.stage = "accepted"
    BY <2>2 DEF DiagJobs, NoJobAbout
  <2> QED
    BY <2>1, <2>2 DEF Undoes
<1> QED
  BY <1>1, <1>2, <1>3, TaskReports DEF diagVars, Finalizes

LEMMA StepInstalled ==
    ASSUME IInv, IInv', DiagTypeOK, Waiting, OwnJobs, Known, DiagJobs, Published, Installed, DiagNext
    PROVE  Installed'
<1> USE DEF IInv
<1>n. Nobody \notin Callers
  BY BrokerAssumption
<1>o. /\ report.epoch \in Epoch /\ Old(report.epoch)
      /\ \A c \in Callers : ep[c] \in Epoch /\ Old(ep[c])
  BY DEF TypeOK, DiagTypeOK, Known, AllEpochs
<1>1. ASSUME report'.epoch.n # 0, IsCurrent(report.epoch)' PROVE outside' = report'.epoch
  <2>1. CASE report' = NoReport
    BY <1>1, <2>1 DEF NoReport, NoEpoch
  <2>2. ASSUME NEW c \in Callers, PublishReport(c), report'.epoch = ep[c], IsCurrent(ep[c])
        PROVE  outside' = report'.epoch
    <3>1. pc[c] = "publishing" /\ outside' = outside
      BY <2>2, PublishCases DEF vars, diagVars
    <3> QED
      BY <2>2, <3>1 DEF Installed, Accepted
  <2>3. CASE report' = report
    <3>1. IsCurrent(report.epoch) /\ ver' = ver
      BY <1>1, <1>o, <2>3, CurrentWas DEF IsCurrent
    <3>2. outside = report.epoch
      BY <1>1, <2>3, <3>1 DEF Installed
    <3>3. NoJobAbout(report.epoch)
      BY DEF Published, Unpublished, NoJobAbout
    <3>4. Task \/ Stop => outside' = outside
      BY <1>1, <1>o, <2>3, <3>1, <3>2, <3>3, StaysInstalled
    <3>5. ~(Task \/ Stop) => outside' = outside
      BY HubLeaves DEF DiagNext, diagVars
    <3> QED
      BY <2>3, <3>2, <3>4, <3>5
  <2> QED
    BY <2>1, <2>2, <2>3, ReportMoves
<1>2. ASSUME NEW c \in Callers, Accepted(c)', IsCurrent(ep[c])' PROVE outside' = ep'[c]
  <2>0. pc'[c] \in {"publishing", "accepting"} /\ (pc'[c] = "accepting" => req'[c] = "ok")
    BY <1>2 DEF Accepted
  <2>1. ~Begin(c)
    BY <2>0, BeginCases
  <2>2. ep'[c] = ep[c]
    BY <2>1, OthersStay, OwnStep
  <2>3. IsCurrent(ep[c]) /\ ver' = ver
    BY <1>2, <1>o, <2>2, CurrentWas DEF IsCurrent
  <2>4. ep[c].n # 0
    BY <2>0, <2>2, StepWaiting DEF Waiting
  <2>5. Accepted(c) => req[c] # "waiting" /\ pc[c] # "idle" /\ outside = ep[c]
    BY <2>3 DEF Accepted, Waiting, Awaits, Installed
  <2>6. CASE (Task \/ Stop) /\ UNCHANGED hubVars
    <3>0. pc' = pc
      BY <2>6 DEF hubVars
    <3>1. CASE Accepted(c)
      <4>1. \A i \in 1..Len(queue) : queue[i].kind \in DiagKinds => queue[i].epoch.n # ep[c].n
        BY <1>n, <2>5, <3>1 DEF DiagJobs, ForNobodyElse, OwnJobs, Queued
      <4>2. busy.stage = "accepted" => busy.epoch.n # ep[c].n
        BY <1>n, <2>5, <3>1 DEF DiagJobs, ForNobodyElse, OwnJobs, Served
      <4>3. NoJobAbout(ep[c])
        BY <4>1, <4>2 DEF NoJobAbout, DiagKinds
      <4> QED
        BY <1>o, <2>2, <2>3, <2>4, <2>5, <2>6, <3>1, <4>3, StaysInstalled
    <3>2. CASE ~Accepted(c)
      <4>1. pc[c] = "accepting" /\ req'[c] = "ok" /\ req[c] # "ok"
        BY <2>0, <3>0, <3>2 DEF Accepted
      <4>2. req[c] = "waiting"
        BY <2>6, <4>1, TaskReplies
      <4>3. CASE TakeJob
        <5>1. 1 \in 1..Len(queue) /\ Head1 = queue[1] /\ Head1 \in Job
          BY <4>3, TakeShift, QueueIsTyped
        <5>2. Head1.by = c
          BY <4>1, <4>3, TakeCases DEF Takes, Answered
        <5>3. pc[c] = WaitsFor(Head1.kind)
          BY <5>1, <5>2 DEF OwnJobs, Queued
        <5>4. Head1.kind = "Accept"
          BY <4>1, <5>1, <5>3 DEF WaitsFor, Job, AwaitKinds, DiagKinds
        <5>5. TakeAccept
          BY <4>3, <5>4 DEF TakeJob, TakeCall, SkipRefresh, TakeDiscard, TakeFinalize, AwaitKinds
        <5> QED
          BY <4>1, <5>2, <5>5 DEF TakeAccept, Answer, TypeOK
      <4>4. CASE Ending
        <5>1. busy.by = c
          BY <4>1, <4>4, EndCases DEF Ending, Answered
        <5>2. busy.epoch = ep[c] /\ busy.stage = "accepted"
          BY <4>1, <5>1 DEF OwnJobs, Served
        <5>3. ReplyAccept
          BY <4>4, <5>2 DEF Ending, CallOk, CallFatal, DropSession
        <5>4. outside' = outside
          BY <1>n, <5>1, <5>3 DEF ReplyAccept, diagVars
        <5> QED
          BY <2>2, <5>2, <5>4 DEF DiagJobs
      <4>5. CASE Leave
        BY <4>1, <4>5, LeaveCases
      <4> QED
        BY <2>6, <4>1, <4>3, <4>4, <4>5, TaskCases
    <3> QED
      BY <3>1, <3>2
  <2>7. CASE GetReport \/ CommitCatalog \/ \E d \in Callers : Handler(d)
    <3>1. outside' = outside
      BY <2>7, HubLeaves DEF diagVars
    <3>2. Accepted(c)
      <4>1. CASE ~Handler(c)
        BY <2>0, <2>7, <4>1, OthersStay, OthersReply DEF Accepted
      <4>2. CASE SendStep(c)
        <5>1. PICK kind \in Kinds : Submit(c, kind) /\ pc' = [pc EXCEPT ![c] = WaitsFor(kind)]
          BY <4>2, SendCases
        <5>2. req'[c] # "ok" /\ pc'[c] # "publishing"
          BY <5>1, SubmitCases DEF DiagTypeOK, WaitsFor
        <5> QED
          BY <2>0, <5>2
      <4>3. CASE ReceiveStep(c)
        BY <2>0, <4>3, ReceiveCases DEF Accepted
      <4>4. CASE PublishReport(c)
        BY <2>0, <4>4, PublishCases
      <4>5. CASE GivesUp(c)
        BY <2>0, <4>5, GiveUpCases
      <4> QED
        BY <2>1, <4>1, <4>2, <4>3, <4>4, <4>5, HandlerCases
    <3> QED
      BY <2>2, <2>5, <3>1, <3>2
  <2> QED
    BY <2>6, <2>7 DEF DiagNext
<1> QED
  BY <1>1, <1>2 DEF Installed

-----------------------------------------------------------------------------
(* Who will end a tentative accept passes it on, or has been cut off.      *)
LEMMA StepOwner ==
    ASSUME IInv, IInv', DiagTypeOK, Waiting, OwnJobs, Known, DiagJobs, Tentative, TentativeHasOwner, DiagNext
    PROVE  TentativeHasOwner'
<1> USE DEF IInv
<1> SUFFICES ASSUME pending' # 0, pending' \notin cut'
             PROVE  \/ \E c \in Callers : Responsible(c)'
                    \/ \E j \in 1..Len(queue') :
                          queue'[j].kind \in {"Finalize", "Discard"} /\ queue'[j].epoch.n = pending'
                    \/ busy'.stage = "accepted"
  BY DEF TentativeHasOwner
<1>1. SUFFICES ASSUME ~Installs
               PROVE  \/ \E c \in Callers : Responsible(c)'
                      \/ \E j \in 1..Len(queue') :
                            queue'[j].kind \in {"Finalize", "Discard"} /\ queue'[j].epoch.n = pending'
                      \/ busy'.stage = "accepted"
  BY DEF Installs
<1>2. pending' = pending /\ pending # 0 /\ outside.ver = ver /\ outside.n = pending
  <2>1. CASE Task \/ Stop
    BY <1>1, <2>1, Standing DEF diagVars, Tentative
  <2>2. CASE ~(Task \/ Stop)
    BY <2>2, HubLeaves DEF DiagNext, diagVars, Tentative, Reports, PendingIsInstalled
  <2> QED
    BY <2>1, <2>2
<1>3. \A c \in Callers : GivesUp(c) => ep[c].n # pending \/ pc[c] \in {"refreshing", "diagnosing"}
  BY <1>2, GiveUpCases
<1>4. pending \notin cut
  <2>1. cut \subseteq cut'
    <3>1. CASE (Task \/ Stop) /\ UNCHANGED hubVars
      BY <3>1 DEF hubVars
    <3>2. CASE GetReport \/ CommitCatalog
      BY <3>2 DEF GetReport, CommitCatalog
    <3>3. ASSUME NEW c \in Callers, Handler(c) PROVE cut \subseteq cut'
      BY <3>3, HandlerCases, SendCases, ReceiveCases, BeginCases, GiveUpCases DEF PublishReport
    <3> QED
      BY <3>1, <3>2, <3>3 DEF DiagNext
  <2> QED
    BY <1>2, <2>1
<1>5. ASSUME NEW c \in Callers, Responsible(c) PROVE Responsible(c)'
  <2>1. ep[c].n = pending /\ Awaited(c) /\ pc[c] # "idle"
    BY <1>2, <1>5 DEF Responsible, Tentative
  <2>2. CASE ~Handler(c)
    BY <1>2, <1>5, <2>2, OthersStay DEF Responsible
  <2>3. CASE Handler(c)
    <3>1. ep'[c].n = pending'
      BY <1>2, <2>1, <2>3, OwnStep
    <3>2. CASE SendStep(c)
      <4>1. PICK kind \in Kinds, from \in Steps \ {"publishing"} :
              /\ pc[c] = from /\ pc' = [pc EXCEPT ![c] = WaitsFor(kind)]
              /\ kind = "Refresh" => from = "toRefresh"
              /\ kind = "Call" => from = "toDiagnose"
        BY <3>2, SendCases
      <4>2. kind \notin {"Refresh", "Call"} /\ pc'[c] = WaitsFor(kind)
        BY <1>5, <4>1 DEF Responsible, DiagTypeOK
      <4> QED
        BY <3>1, <4>2, DiagnosticAssumption DEF Responsible, WaitsFor
    <3>3. CASE ReceiveStep(c)
      <4>1. req[c] # "waiting"
        BY <3>3, ReceiveCases DEF Collect
      <4>2. pc[c] \in Awaits
        BY <3>3, ReceiveCases
      <4>3. pc[c] = "accepting" /\ req[c] = "ok"
        BY <2>1, <4>1, <4>2 DEF Awaited, Awaits, OwnJobs, Served
      <4> QED
        BY <3>1, <3>3, <4>3, ReceiveCases DEF Responsible
    <3>4. CASE PublishReport(c)
      BY <3>1, <3>4, PublishCases DEF Responsible
    <3>5. ~GivesUp(c)
      BY <1>3, <1>5, <2>1 DEF Responsible
    <3>6. ~Begin(c)
      BY <2>1, <2>3, OwnStep
    <3> QED
      BY <2>3, <3>2, <3>3, <3>4, <3>5, <3>6, HandlerCases
  <2> QED
    BY <2>2, <2>3
<1>6. ASSUME NEW i \in 1..Len(queue), queue[i].kind \in {"Finalize", "Discard"}, queue[i].epoch.n = pending
      PROVE  \E j \in 1..Len(queue') : queue'[j].kind \in {"Finalize", "Discard"} /\ queue'[j].epoch.n = pending'
  <2>1. ~Leave
    BY <1>2 DEF Leave, EndSession
  <2>2. ~(TakeJob /\ queue[i] = Head1)
    BY <1>2, <1>6, Obeyed
  <2>3. ASSUME NEW c \in Callers, GivesUp(c), queue[i].by = c PROVE FALSE
    <3>1. queue[i].epoch = ep[c] /\ pc[c] = WaitsFor(queue[i].kind)
      BY <2>3 DEF OwnJobs, Queued
    <3> QED
      BY <1>3, <1>6, <2>3, <3>1 DEF WaitsFor
  <2> QED
    BY <1>2, <1>6, <2>1, <2>2, <2>3, JobFate DEF Same
<1>7. ASSUME busy.stage = "accepted" PROVE busy'.stage = "accepted" \/ \E c \in Callers : Responsible(c)'
  <2>1. CASE (Task \/ Stop) /\ UNCHANGED hubVars
    <3>1. ~TakeJob /\ ~Leave
      BY <1>7, TakeShift, LeaveCases DEF NoJob
    <3>2. CASE Ending
      <4>1. ReplyAccept
        BY <1>7, <3>2 DEF Ending, CallOk, CallFatal, DropSession
      <4>2. busy.by # Nobody
        BY <1>2, <1>7, <4>1 DEF ReplyAccept
      <4>3. busy.by \in Callers
        BY <4>2 DEF TypeOK
      <4>4. busy.epoch = ep[busy.by] /\ pc[busy.by] = "accepting"
        BY <1>7, <4>3 DEF OwnJobs, Served
      <4>5. ep[busy.by].n = pending
        BY <1>2, <1>7, <4>4 DEF DiagJobs
      <4>6. pc' = pc /\ ep' = ep
        BY <2>1, TaskVersion DEF hubVars
      <4>7. Responsible(busy.by)
        BY <4>4, <4>5 DEF Responsible
      <4> QED
        BY <1>5, <4>3, <4>7
    <3> QED
      BY <1>7, <2>1, <3>1, <3>2, TaskCases
  <2>2. CASE GetReport \/ CommitCatalog
    BY <1>7, <2>2 DEF GetReport, CommitCatalog, vars
  <2>3. ASSUME NEW c \in Callers, Handler(c) PROVE busy'.stage = "accepted"
    <3>1. CASE Begin(c)
      BY <1>7, <3>1, BeginCases
    <3>2. CASE SendStep(c)
      BY <1>7, <3>2, SendCases, SubmitCases
    <3>3. CASE Collect(c)
      BY <1>7, <3>3 DEF Collect
    <3>4. CASE PublishReport(c)
      BY <1>7, <3>4, PublishCases DEF vars
    <3>5. CASE Abandon(c)
      BY <1>7, <3>5, AbandonCases
    <3> QED
      BY <2>3, <3>1, <3>2, <3>3, <3>4, <3>5, HandlerCases, GiveUpCases, ReceiveCases
  <2> QED
    BY <2>1, <2>2, <2>3 DEF DiagNext
<1> QED
  BY <1>2, <1>4, <1>5, <1>6, <1>7 DEF TentativeHasOwner

-----------------------------------------------------------------------------
(* Every handler starts idle, with no job, no epoch and no report.         *)
LEMMA InitDiagInv == DiagInit => DiagInv
<1> SUFFICES ASSUME DiagInit PROVE DiagInv
  OBVIOUS
<1> USE DEF DiagInit, Init
<1>1. IInv
  BY InitIInv
<1>2. DiagTypeOK
  <2>1. NoEpoch \in Epoch
    BY BrokerAssumption DEF NoEpoch, Epoch
  <2>2. report \in [epoch : Epoch, rev : 0..MaxRevision]
    BY <2>1, DiagnosticAssumption DEF NoReport
  <2> QED
    BY <2>2, DiagnosticAssumption DEF DiagTypeOK, PcSteps
<1>3. Waiting
  BY DEF Waiting, Awaits
<1>4. OwnJobs /\ DiagJobs
  BY BrokerAssumption DEF OwnJobs, DiagJobs, NoJob
<1>5. \A e \in AllEpochs : e = NoEpoch
  BY DEF AllEpochs, NoJob, NoReport
<1>6. Known
  BY <1>5 DEF Known, Old, NoEpoch
<1>7. Tentative /\ TentativeHasOwner
  BY DEF Tentative, TentativeHasOwner
<1>8. Published /\ Installed
  BY DEF Published, Installed, Accepted, NoReport, NoEpoch, NoJob
<1> QED
  BY <1>1, <1>2, <1>3, <1>4, <1>6, <1>7, <1>8 DEF DiagInv

LEMMA StutterDiagInv == DiagInv /\ UNCHANGED diagAll => DiagInv'
<1> SUFFICES ASSUME DiagInv, UNCHANGED diagAll PROVE DiagInv'
  OBVIOUS
<1> USE DEF diagAll, hubVars, vars, connVars, diagVars, envVars
<1>1. IInv'
  <2>1. TypeOK'
    BY DEF DiagInv, IInv, TypeOK
  <2>2. Device' /\ EpochsOld' /\ Reports'
    BY DEF DiagInv, IInv, Device, EpochsOld, NotNewer, Reports, OfThisSession, PendingIsInstalled
  <2> QED
    BY <2>1, <2>2 DEF IInv
<1>2. DiagTypeOK' /\ Waiting' /\ OwnJobs'
  BY DEF DiagInv, DiagTypeOK, Waiting, OwnJobs, Queued, Served
<1>3. Known' /\ DiagJobs'
  BY DEF DiagInv, Known, AllEpochs, Old, DiagJobs, ForNobodyElse
<1>4. Tentative' /\ TentativeHasOwner'
  BY DEF DiagInv, Tentative, Awaited, TentativeHasOwner, Responsible
<1>5. Published' /\ Installed'
  BY DEF DiagInv, Published, Unpublished, Installed, Accepted, IsCurrent
<1> QED
  BY <1>1, <1>2, <1>3, <1>4, <1>5 DEF DiagInv

LEMMA StepDiagInv == DiagInv /\ [DiagNext]_diagAll => DiagInv'
<1> SUFFICES ASSUME DiagInv, DiagNext PROVE DiagInv'
  BY StutterDiagInv
<1> USE DEF DiagInv
<1>1. IInv'
  <2>1. [Next]_vars
    BY StepIsStep
  <2> QED
    BY <2>1, StepTypeOK, StepDevice, StepEpochsOld, StepReports DEF IInv
<1>2. DiagTypeOK' /\ Waiting' /\ OwnJobs'
  BY StepDiagTypeOK, StepWaiting, StepOwnJobs DEF IInv
<1>3. Known' /\ DiagJobs'
  BY <1>1, StepKnown, StepDiagJobs DEF IInv
<1>4. Tentative' /\ TentativeHasOwner'
  BY <1>1, StepTentative, StepOwner
<1>5. Published' /\ Installed'
  BY <1>1, <1>3, StepPublished, StepInstalled
<1> QED
  BY <1>1, <1>2, <1>3, <1>4, <1>5

LEMMA DiagInductive == DiagSpec => []DiagInv
  BY InitDiagInv, StepDiagInv, PTL DEF DiagSpec

(* The handlers drive the task only through its operations: every          *)
(* behaviour of the composition is one of the broker task and its callers, *)
(* so what is proved of Spec holds with the handlers around it.            *)
THEOREM HandlersUseTask == DiagSpec => Spec
<1>1. DiagInit => Init
  BY DEF DiagInit
<1> QED
  BY <1>1, StepIsStep, PTL DEF DiagSpec, Spec

(* A report the operator is shown is the one the live session suppresses   *)
(* reads by, whatever other handlers accepted or discarded since.          *)
THEOREM ReportShownIsInstalled == DiagSpec => []ShownIsInstalled
<1>1. DiagInv => ShownIsInstalled
  BY DEF DiagInv, Published, Installed, ShownIsInstalled, Shown
<1> QED
  BY <1>1, DiagInductive, PTL

(* A tentative accept has someone who will finalize or discard it, unless  *)
(* its client disconnected.                                                *)
THEOREM AcceptHasOwner == DiagSpec => []TentativeHasOwner
<1>1. DiagInv => TentativeHasOwner
  BY DEF DiagInv
<1> QED
  BY <1>1, DiagInductive, PTL

(* With the handlers, read suppression still dies with its session, and a  *)
(* tentative accept can be taken back.                                     *)
THEOREM SuppressionStandsWithHandlers == DiagSpec => []SuppressionHolds
  BY HandlersUseTask, SuppressionStands, PTL
=============================================================================
