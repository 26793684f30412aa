--------------------------- MODULE ControllerProofs ---------------------------
(***************************************************************************)
(* Theorems about CollectionController for any number of requests, modes   *)
(* and registry versions, with or without failures, dropped handlers, the  *)
(* tray's quit and the process shutdown.                                   *)
(*                                                                         *)
(* LockHeld is not inductive: that the next in line gets the lock when the *)
(* holder leaves depends on who is in the line.  LockInv says that it is   *)
(* made of the queued requests, each once.  QuitInv says why a request     *)
(* that is starting the collection proves that no consent to an idle quit  *)
(* was given: the collection is then in Starting, under the lock.  RunInv  *)
(* says of the holder of the lock how much of a run there is at each of    *)
(* its steps, and ShowInv how versions travel from the registry to the     *)
(* catalog and the collector, and who will carry what is not there yet.    *)
(***************************************************************************)
EXTENDS CollectionController, SequencesExt, SequenceTheorems, TLAPS

(* One element is removed, the others keep their order.                    *)
LEMMA RemoveOne ==
  ASSUME NEW S, NEW q \in Seq(S), NEW k \in 1..Len(q)
  PROVE  /\ RemoveAt(q, k) \in Seq(S) /\ Len(RemoveAt(q, k)) = Len(q) - 1
         /\ \A j \in 1..Len(q) - 1 : RemoveAt(q, k)[j] = IF j < k THEN q[j] ELSE q[j + 1]
<1> DEFINE L == SubSeq(q, 1, k - 1)
           R == SubSeq(q, k + 1, Len(q))
<1>1. /\ L \in Seq(S) /\ Len(L) = k - 1
      /\ \A j \in 1..k - 1 : L[j] = q[j]
  OBVIOUS
<1>2. /\ R \in Seq(S) /\ Len(R) = Len(q) - k
      /\ \A j \in 1..Len(q) - k : R[j] = q[j + k]
  OBVIOUS
<1>3. RemoveAt(q, k) = L \o R
  BY DEF RemoveAt
<1> HIDE DEF L, R
<1>4. /\ L \o R \in Seq(S) /\ Len(L \o R) = Len(L) + Len(R)
      /\ \A j \in 1..Len(L) + Len(R) : (L \o R)[j] = IF j <= Len(L) THEN L[j] ELSE R[j - Len(L)]
  BY <1>1, <1>2, ConcatProperties
<1>5. ASSUME NEW j \in 1..Len(q) - 1 PROVE (L \o R)[j] = IF j < k THEN q[j] ELSE q[j + 1]
  <2>1. Len(L) + Len(R) = Len(q) - 1 /\ (j < k <=> j <= Len(L))
    BY <1>1, <1>2
  <2>2. CASE j < k
    BY <1>1, <1>4, <2>1, <2>2
  <2>3. CASE ~(j < k)
    <3>1. j - Len(L) \in 1..Len(q) - k /\ (j - Len(L)) + k = j + 1
      BY <1>1, <2>3
    <3>2. (L \o R)[j] = R[j - Len(L)]
      BY <1>4, <2>1, <2>3
    <3> QED
      BY <1>2, <2>3, <3>1, <3>2
  <2> QED
    BY <2>2, <2>3
<1> QED
  BY <1>1, <1>2, <1>3, <1>4, <1>5

Outside == Labels \ (NeedsLock \cup {"queued"})

LockType ==
    /\ owner \in Procs \cup {Free} /\ waiters \in Seq(Procs)
    /\ pc \in [Procs -> Labels]
    /\ op \in [Procs -> [kind : Ops \cup {"none"}, mode : Modes]]

(* The line is made of the queued requests, each once.                     *)
LockInv ==
    /\ LockHeld
    /\ \A p \in Procs : pc[p] = "queued" => owner = p \/ \E i \in 1..Len(waiters) : waiters[i] = p
    /\ \A i \in 1..Len(waiters) : pc[waiters[i]] = "queued" /\ waiters[i] # owner
    /\ \A i, j \in 1..Len(waiters) : waiters[i] = waiters[j] => i = j
    /\ owner \in Procs => pc[owner] \notin Outside
    /\ owner = Free => waiters = <<>>

StartLabels == {"load", "sync", "commit", "applyOk", "applyErr"}

QuitInv ==
    /\ quit \in {"quitIdle", "quitBusy"} => hold
    /\ QuitConsent
    /\ \A p \in Procs : pc[p] \in {"snapshot", "catalog"} => op[p].kind = "live"
    /\ \A p \in Procs : pc[p] \in StartLabels /\ op[p].kind # "live" => state = "Starting"

IInv == LockType /\ LockInv /\ QuitInv

-----------------------------------------------------------------------------
(* The six ways in which a step can touch the lock.                        *)

(* It moves a request that keeps what it has of the lock.                  *)
Moves(p, l) == pc' = [pc EXCEPT ![p] = l] /\ UNCHANGED lockVars

LEMMA MoveOutside ==
  ASSUME LockType, LockInv, NEW p \in Procs, NEW l \in Outside, pc[p] \in Outside, Moves(p, l)
  PROVE  LockInv'
<1>1. owner # p /\ Free \notin Procs
  BY ControllerAssumption DEF LockInv
<1>2. \A i \in 1..Len(waiters) : waiters[i] # p
  BY DEF LockInv, Outside
<1> QED
  BY <1>1, <1>2 DEF LockType, LockInv, LockHeld, Moves, lockVars, Outside

LEMMA MoveInside ==
  ASSUME LockType, LockInv, NEW p \in Procs, NEW l \in NeedsLock, owner = p, Moves(p, l)
  PROVE  LockInv'
<1>1. \A i \in 1..Len(waiters) : waiters[i] # p
  BY DEF LockInv
<1>2. l \notin Outside /\ l # "queued"
  BY DEF NeedsLock, Outside
<1> QED
  BY <1>1, <1>2 DEF LockType, LockInv, LockHeld, Moves, lockVars

(* It takes a free lock, joins the line, or leaves it.                     *)
LEMMA TakeLock ==
  ASSUME LockType, LockInv, NEW p \in Procs, NEW l \in Labels \ Outside,
         pc[p] \in Outside, Take(p), pc' = [pc EXCEPT ![p] = l]
  PROVE  LockInv'
<1>1. \A q \in Procs : pc[q] \in Outside
  BY ControllerAssumption DEF LockType, LockInv, LockHeld, Take, Outside
<1>2. \A q \in Procs : q # p => pc'[q] \in Outside
  BY <1>1 DEF LockType
<1>3. owner' = p /\ waiters' = <<>> /\ pc'[p] = l /\ p # Free
  BY ControllerAssumption DEF Take, LockType
<1> QED
  BY <1>2, <1>3 DEF LockInv, LockHeld, Outside

LEMMA JoinLine ==
  ASSUME LockType, LockInv, NEW p \in Procs, pc[p] \in Outside, owner # Free,
         Queue(p), pc' = [pc EXCEPT ![p] = "queued"]
  PROVE  LockInv'
<1>1. /\ Len(waiters') = Len(waiters) + 1 /\ waiters'[Len(waiters) + 1] = p
      /\ \A i \in 1..Len(waiters) : waiters'[i] = waiters[i]
      /\ Len(waiters) \in Nat
  BY DEF LockType, Queue
<1>2. owner # p /\ \A i \in 1..Len(waiters) : waiters[i] # p
  BY DEF LockInv, Outside
<1>3. owner' = owner /\ "queued" \notin NeedsLock /\ "queued" \notin Outside
  BY DEF Queue, NeedsLock, Outside
<1>4. LockHeld'
  BY <1>3 DEF LockType, LockInv, LockHeld
<1>5. \A q \in Procs : pc'[q] = "queued" => owner' = q \/ \E i \in 1..Len(waiters') : waiters'[i] = q
  BY <1>1, <1>3 DEF LockType, LockInv
<1>6. \A i \in 1..Len(waiters') : pc'[waiters'[i]] = "queued" /\ waiters'[i] # owner'
  BY <1>1, <1>2, <1>3 DEF LockType, LockInv
<1>7. \A i, j \in 1..Len(waiters') : waiters'[i] = waiters'[j] => i = j
  BY <1>1, <1>2 DEF LockInv
<1>8. owner' \in Procs => pc'[owner'] \notin Outside
  BY <1>2, <1>3 DEF LockType, LockInv
<1> QED
  BY <1>3, <1>4, <1>5, <1>6, <1>7, <1>8 DEF LockInv

(* The holder leaves and the first in line is next.                        *)
LEMMA HandOver ==
  ASSUME LockType, LockInv, NEW p \in Procs, NEW l \in Outside, owner = p,
         Unlock, pc' = [pc EXCEPT ![p] = l]
  PROVE  LockInv'
<1>0. Free \notin Procs /\ (\A i \in 1..Len(waiters) : waiters[i] # p) /\ l # "queued" /\ l \notin NeedsLock
  BY ControllerAssumption DEF LockInv, Outside
<1>1. \A q \in Procs : q # p => pc[q] \notin NeedsLock /\ pc'[q] = pc[q]
  BY DEF LockType, LockInv, LockHeld
<1>2. pc'[p] = l
  BY DEF LockType
<1>3. CASE waiters = <<>>
  <2>1. owner' = Free /\ waiters' = <<>>
    BY <1>3 DEF Unlock
  <2>2. \A q \in Procs : pc'[q] \notin NeedsLock /\ pc'[q] # "queued"
    BY <1>0, <1>1, <1>2, <1>3 DEF LockInv
  <2> QED
    BY <1>0, <2>1, <2>2 DEF LockInv, LockHeld
<1>4. CASE waiters # <<>>
  <2>1. /\ owner' = waiters[1] /\ Len(waiters') = Len(waiters) - 1 /\ waiters' \in Seq(Procs)
        /\ \A i \in 1..Len(waiters') : waiters'[i] = waiters[i + 1]
    <3>1. waiters \in Seq(Procs) /\ owner' = Head(waiters) /\ waiters' = Tail(waiters)
      BY <1>4 DEF Unlock, LockType
    <3>2. /\ Len(Tail(waiters)) = Len(waiters) - 1 /\ Tail(waiters) \in Seq(Procs)
          /\ \A i \in 1..Len(Tail(waiters)) : Tail(waiters)[i] = waiters[i + 1]
      BY <1>4, <3>1, HeadTailProperties
    <3>3. Head(waiters) = waiters[1]
      BY <1>4, <3>1
    <3> QED
      BY <3>1, <3>2, <3>3
  <2>2. 1 \in 1..Len(waiters) /\ \A i \in 1..Len(waiters') : i + 1 \in 1..Len(waiters) /\ i + 1 # 1
    BY <1>4, <2>1 DEF LockType
  <2>3. waiters[1] \in Procs /\ waiters[1] # p /\ pc'[waiters[1]] = "queued"
    BY <1>0, <1>1, <2>2 DEF LockType, LockInv
  <2>4. LockHeld'
    BY <1>0, <1>1, <1>2 DEF LockHeld
  <2>5. ASSUME NEW q \in Procs, pc'[q] = "queued" PROVE owner' = q \/ \E i \in 1..Len(waiters') : waiters'[i] = q
    <3>1. q # p /\ pc[q] = "queued"
      BY <1>0, <1>1, <1>2, <2>5
    <3>2. PICK i \in 1..Len(waiters) : waiters[i] = q
      BY <3>1 DEF LockInv
    <3>3. CASE i = 1
      BY <2>1, <3>2, <3>3
    <3>4. CASE i # 1
      <4>1. i - 1 \in 1..Len(waiters') /\ (i - 1) + 1 = i
        BY <2>1, <3>4 DEF LockType
      <4> QED
        BY <2>1, <3>2, <4>1
    <3> QED
      BY <3>3, <3>4
  <2>6. \A i \in 1..Len(waiters') : pc'[waiters'[i]] = "queued" /\ waiters'[i] # owner'
    <3> SUFFICES ASSUME NEW i \in 1..Len(waiters')
                 PROVE  pc'[waiters'[i]] = "queued" /\ waiters'[i] # owner'
      OBVIOUS
    <3>1. i + 1 \in 1..Len(waiters) /\ i + 1 # 1 /\ waiters'[i] = waiters[i + 1]
      BY <2>1, <2>2
    <3>2. waiters[i + 1] \in Procs /\ waiters[i + 1] # p /\ waiters[i + 1] # waiters[1] /\ pc[waiters[i + 1]] = "queued"
      BY <1>0, <2>2, <3>1 DEF LockType, LockInv
    <3> QED
      BY <1>1, <2>1, <3>1, <3>2
  <2>7. \A i, j \in 1..Len(waiters') : waiters'[i] = waiters'[j] => i = j
    BY <2>1, <2>2 DEF LockInv
  <2> QED
    BY <1>0, <2>1, <2>3, <2>4, <2>5, <2>6, <2>7 DEF LockInv, Outside
<1> QED
  BY <1>3, <1>4

(* A dropped request leaves the line.                                      *)
LEMMA LeaveLine ==
  ASSUME LockType, LockInv, NEW p \in Procs, NEW l \in Outside, owner # p, UNCHANGED owner,
         NEW k \in 1..Len(waiters), waiters[k] = p, waiters' = RemoveAt(waiters, k),
         pc' = [pc EXCEPT ![p] = l]
  PROVE  LockInv'
<1>1. /\ waiters' \in Seq(Procs) /\ Len(waiters') = Len(waiters) - 1 /\ Len(waiters) \in Nat
      /\ \A j \in 1..Len(waiters') : waiters'[j] = IF j < k THEN waiters[j] ELSE waiters[j + 1]
  <2>1. waiters \in Seq(Procs) /\ Len(waiters) \in Nat
    BY DEF LockType
  <2>2. /\ RemoveAt(waiters, k) \in Seq(Procs) /\ Len(RemoveAt(waiters, k)) = Len(waiters) - 1
        /\ \A j \in 1..Len(waiters) - 1 : RemoveAt(waiters, k)[j] = IF j < k THEN waiters[j] ELSE waiters[j + 1]
    BY <2>1, RemoveOne
  <2> QED
    BY <2>1, <2>2
<1>2. l # "queued" /\ l \notin NeedsLock
  BY DEF Outside
<1>3. pc'[p] = l /\ \A q \in Procs : q # p => pc'[q] = pc[q]
  BY DEF LockType
<1>4. \A j \in 1..Len(waiters') : waiters'[j] # p
  BY <1>1 DEF LockInv
<1>5. \A q \in Procs : q # p /\ (\E i \in 1..Len(waiters) : waiters[i] = q)
                         => \E j \in 1..Len(waiters') : waiters'[j] = q
  <2> SUFFICES ASSUME NEW q \in Procs, q # p, NEW i \in 1..Len(waiters), waiters[i] = q
               PROVE  \E j \in 1..Len(waiters') : waiters'[j] = q
    OBVIOUS
  <2>1. CASE i < k
    BY <1>1, <2>1
  <2>2. CASE i > k
    <3>1. i - 1 \in 1..Len(waiters') /\ ~(i - 1 < k) /\ (i - 1) + 1 = i
      BY <1>1, <2>2
    <3> QED
      BY <1>1, <3>1
  <2> QED
    BY <2>1, <2>2
<1>6. LockHeld'
  BY <1>2, <1>3 DEF LockInv, LockHeld
<1>9. \A j \in 1..Len(waiters') : \E i \in 1..Len(waiters) : waiters'[j] = waiters[i]
  BY <1>1
<1>10. \A i \in 1..Len(waiters) : waiters[i] \in Procs /\ pc[waiters[i]] = "queued" /\ waiters[i] # owner
  BY DEF LockInv, LockType
<1>7. \A i \in 1..Len(waiters') : pc'[waiters'[i]] = "queued" /\ waiters'[i] # owner'
  BY <1>3, <1>4, <1>9, <1>10
<1>8. \A i, j \in 1..Len(waiters') : waiters'[i] = waiters'[j] => i = j
  BY <1>1 DEF LockInv
<1> QED
  BY <1>1, <1>2, <1>3, <1>5, <1>6, <1>7, <1>8 DEF LockInv

-----------------------------------------------------------------------------
(* Every step touches the lock in one of these ways.                       *)
LEMMA StepLockInv == LockType /\ LockInv /\ [Next]_vars => LockInv'
<1> SUFFICES ASSUME LockType, LockInv, [Next]_vars PROVE LockInv'
  OBVIOUS
<1> USE DEF Goto, At, Moves
<1>0. \A l \in Labels : l \in Outside \/ l = "queued" \/ l \in NeedsLock
  BY DEF Outside
<1>1. ASSUME UNCHANGED <<lockVars, pc>> PROVE LockInv'
  BY <1>1 DEF LockInv, LockHeld, lockVars
<1>2. ASSUME NEW p \in Procs, NEW l \in NeedsLock, pc[p] \in NeedsLock, Moves(p, l) PROVE LockInv'
  <2>1. owner = p
    BY <1>2 DEF LockInv, LockHeld
  <2> QED
    BY <1>2, <2>1, MoveInside
<1>3. ASSUME NEW p \in Procs, Request(p) PROVE LockInv'
  <2>1. pc[p] \in Outside /\ "raise" \in Outside /\ "try" \in Outside
    BY <1>3 DEF Request, Outside, Labels, NeedsLock
  <2>2. Moves(p, "raise") \/ Moves(p, "try")
    BY <1>3 DEF Request
  <2> QED
    BY <2>1, <2>2, MoveOutside
<1>4. ASSUME NEW p \in Procs, TryLock(p) PROVE LockInv'
  <2>1. pc[p] \in Outside /\ "flag" \in Outside /\ "dispatch" \in Labels \ Outside
    BY <1>4 DEF TryLock, AfterRefusal, Outside, Labels, NeedsLock
  <2>2. (Take(p) /\ pc' = [pc EXCEPT ![p] = "dispatch"]) \/ Moves(p, "flag")
    BY <1>4 DEF TryLock, AfterRefusal
  <2> QED
    BY <2>1, <2>2, MoveOutside, TakeLock
<1>5. ASSUME NEW p \in Procs, CheckFlag(p) \/ ReturnNoOp(p) \/ RaiseFlag(p) \/ LowerFlag(p) PROVE LockInv'
  <2>1. pc[p] \in Outside /\ \A l \in {"waiting", "dropped", "idle"} : l \in Outside
    BY <1>5 DEF CheckFlag, MeetsAnother, ReturnNoOp, RaiseFlag, LowerFlag, Outside, Labels, NeedsLock
  <2>2. \E l \in {"waiting", "dropped", "idle"} : Moves(p, l)
    BY <1>5 DEF CheckFlag, MeetsAnother, ReturnNoOp, RaiseFlag, LowerFlag
  <2> QED
    BY <2>1, <2>2, MoveOutside
<1>6. ASSUME NEW p \in Procs, Wait(p) PROVE LockInv'
  <2>1. pc[p] \in Outside /\ "queued" \in Labels \ Outside
    BY <1>6 DEF Wait, Outside, Labels, NeedsLock
  <2>2. CASE Take(p)
    BY <1>6, <2>1, <2>2, TakeLock DEF Wait
  <2>3. CASE ~(owner = Free /\ waiters = <<>>) /\ Queue(p)
    <3>1. owner # Free
      BY <2>3 DEF LockInv
    <3> QED
      BY <1>6, <2>1, <2>3, <3>1, JoinLine DEF Wait
  <2> QED
    BY <1>6, <2>2, <2>3 DEF Wait
<1>7. ASSUME NEW p \in Procs, Granted(p) PROVE LockInv'
  <2>1. owner = p /\ \E l \in {"snapshot", "dispatch"} : Moves(p, l)
    BY <1>7 DEF Granted
  <2>2. "snapshot" \in NeedsLock /\ "dispatch" \in NeedsLock
    BY DEF NeedsLock, Labels
  <2> QED
    BY <2>1, <2>2, MoveInside
<1>8. ASSUME NEW p \in Procs, Release(p) PROVE LockInv'
  <2>1. pc[p] \in NeedsLock /\ "lower" \in Outside /\ "idle" \in Outside
    BY <1>8 DEF Release, Outside, NeedsLock, Labels
  <2>2. owner = p
    BY <2>1 DEF LockInv, LockHeld
  <2>3. Unlock /\ (pc' = [pc EXCEPT ![p] = "lower"] \/ pc' = [pc EXCEPT ![p] = "idle"])
    BY <1>8 DEF Release
  <2> QED
    BY <2>1, <2>2, <2>3, HandOver
<1>9. ASSUME NEW p \in Procs, Dispatch(p) \/ Stopping(p) \/ Starting(p) \/ Applying(p) \/ Snapshot(p) \/ CommitCatalog(p)
      PROVE  LockInv'
  <2> DEFINE Inner == {"dispatch", "release", "applied", "dbsrcOff", "collectorOff", "sessionsOff", "stopped", "mark",
                       "sources", "load", "sync", "commit", "applyOk", "applyErr", "snapshot", "catalog"}
  <2>1. Inner \subseteq NeedsLock
    BY DEF NeedsLock, Labels
  <2>2. CASE Dispatch(p)
    <3>1. pc[p] \in Inner /\ \E l \in Inner : Moves(p, l)
      BY <2>2 DEF Dispatch
    <3> QED
      BY <1>2, <2>1, <3>1
  <2>3. CASE Stopping(p)
    <3>1. pc[p] \in Inner /\ \E l \in Inner : Moves(p, l)
      BY <2>3 DEF Stopping, DbSourceOff, CollectorOff, SessionsOff, Stopped
    <3> QED
      BY <1>2, <2>1, <3>1
  <2>4. CASE Starting(p)
    <3>1. pc[p] \in Inner /\ \E l \in Inner : Moves(p, l)
      BY <2>4 DEF Starting, MarkStarting, SourcesOn
    <3> QED
      BY <1>2, <2>1, <3>1
  <2>5. CASE Applying(p)
    <3>1. pc[p] \in Inner /\ \E l \in Inner : Moves(p, l)
      BY <2>5 DEF Applying, LoadRegistry, SyncSessions, CommitRun, RunFails, Settle, FinishStart
    <3> QED
      BY <1>2, <2>1, <3>1
  <2>6. CASE Snapshot(p) \/ CommitCatalog(p)
    <3>1. pc[p] \in Inner /\ \E l \in Inner : Moves(p, l)
      BY <2>6 DEF Snapshot, CommitCatalog
    <3> QED
      BY <1>2, <2>1, <3>1
  <2> QED
    BY <1>9, <2>2, <2>3, <2>4, <2>5, <2>6
<1>10. ASSUME NEW p \in Procs, Drop(p) PROVE LockInv'
  <2>1. "lower" \in Outside /\ "idle" \in Outside
    BY DEF Outside, NeedsLock, Labels
  <2>2. PICK l \in Outside : pc' = [pc EXCEPT ![p] = l]
    BY <1>10, <2>1 DEF Drop
  <2>3. CASE owner = p /\ Unlock
    BY <2>2, <2>3, HandOver
  <2>4. ASSUME owner # p, UNCHANGED owner, NEW k \in DOMAIN waiters, waiters[k] = p, waiters' = RemoveAt(waiters, k)
        PROVE  LockInv'
    <3>1. k \in 1..Len(waiters)
      BY <2>4 DEF LockType
    <3> QED
      BY <2>2, <2>4, <3>1, LeaveLine
  <2> QED
    BY <1>10, <2>3, <2>4 DEF Drop, LetGo
<1>11. CASE Quit \/ Shutdown \/ UNCHANGED vars
  BY <1>1, <1>11 DEF Quit, AskQuit, AnswerYes, AnswerNo, Shutdown, BeginShutdown, ShutdownDbSource,
                     ShutdownCollector, ShutdownSessions, vars, lockVars, procVars
<1> QED
  BY <1>3, <1>4, <1>5, <1>6, <1>7, <1>8, <1>9, <1>10, <1>11 DEF Next, Step, Locking, LiveApply

(* The holder, the line, the labels and the requests keep their types.     *)
LEMMA StepLockType == LockType /\ [Next]_vars => LockType'
<1> SUFFICES ASSUME LockType, [Next]_vars PROVE LockType'
  OBVIOUS
<1> USE DEF LockType, Goto, At
<1>0. Free \notin Procs /\ waiters \in Seq(Procs) /\ owner \in Procs \cup {Free}
  BY ControllerAssumption
<1>1. ASSUME NEW p \in Procs, NEW l \in Labels, Moves(p, l), UNCHANGED op PROVE LockType'
  BY <1>1 DEF Moves, lockVars
<1>2. ASSUME NEW p \in Procs, Take(p) \/ Queue(p) \/ Unlock PROVE owner' \in Procs \cup {Free} /\ waiters' \in Seq(Procs)
  <2>1. CASE Take(p)
    BY <2>1 DEF Take
  <2>2. CASE Queue(p)
    BY <2>2 DEF Queue
  <2>3. CASE Unlock
    <3>1. waiters # <<>> => Head(waiters) \in Procs /\ Tail(waiters) \in Seq(Procs)
      BY <1>0
    <3> QED
      BY <2>3, <3>1 DEF Unlock
  <2> QED
    BY <1>2, <2>1, <2>2, <2>3
<1>3. ASSUME NEW p \in Procs, Request(p) PROVE LockType'
  <2>1. PICK k \in Ops, m \in Modes : op' = [op EXCEPT ![p] = [kind |-> k, mode |-> m]]
    BY <1>3 DEF Request
  <2>2. op' \in [Procs -> [kind : Ops \cup {"none"}, mode : Modes]]
    BY <2>1
  <2>3. pc' \in [Procs -> Labels] /\ UNCHANGED lockVars
    BY <1>3 DEF Request, Labels
  <2> QED
    BY <2>2, <2>3 DEF lockVars
<1>4. ASSUME NEW p \in Procs, TryLock(p) \/ Wait(p) \/ Release(p) PROVE LockType'
  <2>1. pc' \in [Procs -> Labels] /\ UNCHANGED op
    BY <1>4 DEF TryLock, AfterRefusal, Wait, Release, Labels
  <2>2. Take(p) \/ Queue(p) \/ Unlock \/ UNCHANGED lockVars
    BY <1>4 DEF TryLock, AfterRefusal, Wait, Release
  <2> QED
    BY <1>2, <2>1, <2>2 DEF lockVars
<1>5. ASSUME NEW p \in Procs, CheckFlag(p) \/ Granted(p) \/ ReturnNoOp(p) \/ Dispatch(p) PROVE LockType'
  <2>1. pc' \in [Procs -> Labels]
    BY <1>5 DEF CheckFlag, MeetsAnother, Granted, ReturnNoOp, Dispatch, Labels
  <2>2. UNCHANGED op /\ UNCHANGED lockVars
    BY <1>5 DEF CheckFlag, MeetsAnother, Granted, ReturnNoOp, Dispatch
  <2> QED
    BY <2>1, <2>2 DEF lockVars
<1>6. ASSUME NEW p \in Procs, Stopping(p) \/ Starting(p) \/ Applying(p) \/ LiveApply(p) PROVE LockType'
  <2> USE DEF Labels
  <2>1. CASE Stopping(p)
    BY <2>1 DEF Stopping, DbSourceOff, CollectorOff, SessionsOff, Stopped, lockVars
  <2>2. CASE Starting(p)
    BY <2>2 DEF Starting, MarkStarting, SourcesOn, lockVars
  <2>3. CASE Applying(p)
    <3>1. pc' \in [Procs -> Labels]
      BY <2>3 DEF Applying, LoadRegistry, SyncSessions, CommitRun, RunFails, Settle, FinishStart
    <3>2. UNCHANGED op /\ UNCHANGED lockVars
      BY <2>3 DEF Applying, LoadRegistry, SyncSessions, CommitRun, RunFails, Settle
    <3> QED
      BY <3>1, <3>2 DEF lockVars
  <2>4. CASE LiveApply(p)
    BY <2>4 DEF LiveApply, RaiseFlag, Snapshot, CommitCatalog, LowerFlag, lockVars
  <2> QED
    BY <1>6, <2>1, <2>2, <2>3, <2>4
<1>7. ASSUME NEW p \in Procs, Drop(p) PROVE LockType'
  <2>1. pc' \in [Procs -> Labels] /\ UNCHANGED op
    BY <1>7 DEF Drop, Labels
  <2>2. CASE Unlock
    BY <1>2, <2>1, <2>2
  <2>3. ASSUME UNCHANGED owner, NEW k \in DOMAIN waiters, waiters' = RemoveAt(waiters, k) PROVE LockType'
    <3>1. k \in 1..Len(waiters)
      BY <1>0
    <3>2. RemoveAt(waiters, k) \in Seq(Procs)
      BY <1>0, <3>1, RemoveOne
    <3> QED
      BY <2>1, <2>3, <3>2
  <2> QED
    BY <1>7, <2>2, <2>3 DEF Drop, LetGo
<1>8. CASE Quit \/ Shutdown \/ UNCHANGED vars
  <2>1. UNCHANGED <<lockVars, pc, op>>
    BY <1>8 DEF Quit, AskQuit, AnswerYes, AnswerNo, Shutdown, BeginShutdown, ShutdownDbSource,
                ShutdownCollector, ShutdownSessions, vars, procVars
  <2> QED
    BY <2>1 DEF lockVars
<1> QED
  BY <1>3, <1>4, <1>5, <1>6, <1>7, <1>8 DEF Next, Step, Locking

-----------------------------------------------------------------------------
(* A consent to quit while idle is kept: the marks it sets and the state   *)
(* Starting are written under one lock.                                    *)
LEMMA StepQuitInv == IInv /\ [Next]_vars => QuitInv'
<1> SUFFICES ASSUME IInv, [Next]_vars PROVE QuitInv'
  OBVIOUS
<1> LockType /\ LockInv /\ QuitInv
  BY DEF IInv
<1> USE DEF Goto, At, QuitInv, QuitConsent
<1>0. /\ pc \in [Procs -> Labels]
      /\ op \in [Procs -> [kind : Ops \cup {"none"}, mode : Modes]]
      /\ \A p, q \in Procs : pc[p] \in StartLabels /\ pc[q] \in NeedsLock => p = q
      /\ StartLabels \subseteq NeedsLock
  <2>1. StartLabels \subseteq NeedsLock
    BY DEF StartLabels, NeedsLock, Labels
  <2> QED
    BY <2>1 DEF LockType, LockInv, LockHeld
<1>1. ASSUME NEW p \in Procs, NEW l, pc' = [pc EXCEPT ![p] = l], UNCHANGED <<op, state, quit, hold>>,
             l \in {"snapshot", "catalog"} => op[p].kind = "live",
             l \in StartLabels => op[p].kind = "live" \/ pc[p] \in StartLabels
      PROVE  QuitInv'
  BY <1>0, <1>1
<1>2. ASSUME NEW p \in Procs, Request(p) PROVE QuitInv'
  <2>1. UNCHANGED <<state, quit, hold>> /\ \A q \in Procs : q # p => op'[q] = op[q] /\ pc'[q] = pc[q]
    BY <1>0, <1>2 DEF Request, ctrlVars, markVars, restVars
  <2>2. pc'[p] \in {"raise", "try"}
    BY <1>0, <1>2 DEF Request
  <2> QED
    BY <2>1, <2>2 DEF StartLabels
<1>3. ASSUME NEW p \in Procs, Locking(p) PROVE QuitInv'
  <2>1. \E l \in {"dispatch", "flag", "waiting", "dropped", "queued", "snapshot", "lower", "idle"} :
          pc' = [pc EXCEPT ![p] = l] /\ (l = "snapshot" => op[p].kind = "live")
    BY <1>3 DEF Locking, TryLock, AfterRefusal, CheckFlag, MeetsAnother, Wait, Granted, Release, ReturnNoOp
  <2>2. UNCHANGED <<op, state, quit, hold>>
    BY <1>3 DEF Locking, TryLock, AfterRefusal, CheckFlag, MeetsAnother, Wait, Granted, Release, ReturnNoOp, ctrlVars, markVars, restVars
  <2> QED
    BY <1>1, <2>1, <2>2 DEF StartLabels
<1>4. ASSUME NEW p \in Procs, NEW l, pc[p] \in NeedsLock, pc' = [pc EXCEPT ![p] = l],
             l \notin {"snapshot", "catalog"} \cup StartLabels,
             UNCHANGED <<op, quit, hold>>, state' \notin {"Starting", "Running"} \/ state' = state \/ quit # "quitIdle"
      PROVE  QuitInv'
  <2>1. \A q \in Procs : pc'[q] \in StartLabels => q # p /\ pc[q] \in StartLabels
    BY <1>0, <1>4
  <2>2. \A q \in Procs : pc'[q] \notin StartLabels
    BY <1>0, <1>4, <2>1
  <2>3. \A q \in Procs : pc'[q] \in {"snapshot", "catalog"} => op'[q].kind = "live"
    BY <1>0, <1>4
  <2> QED
    BY <1>4, <2>2, <2>3
<1>5. ASSUME NEW p \in Procs, Dispatch(p) PROVE QuitInv'
  <2>1. pc[p] \in NeedsLock
    BY <1>5 DEF Dispatch, NeedsLock, Labels
  <2>2. \E l \in {"mark", "dbsrcOff", "release"} : pc' = [pc EXCEPT ![p] = l]
    BY <1>5 DEF Dispatch
  <2>3. UNCHANGED <<op, quit, hold>> /\ (state' = "Stopping" \/ state' = state)
    BY <1>5 DEF Dispatch, ctrlVars, markVars, restVars
  <2> QED
    BY <1>4, <2>1, <2>2, <2>3 DEF StartLabels
<1>6. ASSUME NEW p \in Procs, Stopping(p) PROVE QuitInv'
  <2>1. pc[p] \in NeedsLock
    BY <1>6 DEF Stopping, DbSourceOff, CollectorOff, SessionsOff, Stopped, NeedsLock, Labels
  <2>2. \E l \in {"collectorOff", "sessionsOff", "stopped", "release", "mark"} : pc' = [pc EXCEPT ![p] = l]
    BY <1>6 DEF Stopping, DbSourceOff, CollectorOff, SessionsOff, Stopped
  <2>3. UNCHANGED <<op, quit, hold>> /\ (state' = "Stopped" \/ state' = state)
    BY <1>6 DEF Stopping, DbSourceOff, CollectorOff, SessionsOff, Stopped, ctrlVars, markVars, restVars
  <2> QED
    BY <1>4, <2>1, <2>2, <2>3 DEF StartLabels
<1>7. ASSUME NEW p \in Procs, MarkStarting(p) PROVE QuitInv'
  <2>1. pc[p] \in NeedsLock /\ UNCHANGED <<op, quit, hold>>
    BY <1>7 DEF MarkStarting, NeedsLock, Labels, markVars, restVars
  <2>2. CASE RefusedNow
    BY <1>4, <1>7, <2>1, <2>2 DEF MarkStarting, StartLabels
  <2>3. CASE ~RefusedNow
    <3>1. state' = "Starting" /\ pc' = [pc EXCEPT ![p] = "load"] /\ ~hold
      BY <1>7, <2>3 DEF MarkStarting, RefusedNow, RefusesStarts
    <3>2. quit' \notin {"quitIdle", "quitBusy"}
      BY <2>1, <3>1
    <3>3. \A q \in Procs : pc'[q] \in {"snapshot", "catalog"} => op'[q].kind = "live"
      BY <1>0, <2>1, <3>1
    <3> QED
      BY <2>1, <3>1, <3>2, <3>3
  <2> QED
    BY <2>2, <2>3
<1>8. ASSUME NEW p \in Procs, SourcesOn(p) PROVE QuitInv'
  BY <1>1, <1>8 DEF SourcesOn, StartLabels, ctrlVars, markVars, restVars
<1>9. ASSUME NEW p \in Procs, LoadRegistry(p) \/ SyncSessions(p) \/ CommitRun(p) \/ RunFails(p) PROVE QuitInv'
  <2>1. pc[p] \in StartLabels
    BY <1>9 DEF LoadRegistry, SyncSessions, CommitRun, RunFails, StartLabels
  <2>2. \E l \in {"sync", "commit", "applyOk", "applyErr"} : pc' = [pc EXCEPT ![p] = l]
    BY <1>9 DEF LoadRegistry, SyncSessions, CommitRun, RunFails
  <2>3. UNCHANGED <<op, state, quit, hold>>
    BY <1>9 DEF LoadRegistry, SyncSessions, CommitRun, RunFails, ctrlVars, markVars, restVars
  <2> QED
    BY <1>1, <2>1, <2>2, <2>3
<1>10. ASSUME NEW p \in Procs, Settle(p) PROVE QuitInv'
  <2>1. pc[p] \in NeedsLock /\ UNCHANGED <<op, quit, hold>> /\ pc[p] \in StartLabels
    BY <1>10 DEF Settle, NeedsLock, Labels, StartLabels, markVars, restVars
  <2>2. \E l \in {"applied", "sources", "release"} : pc' = [pc EXCEPT ![p] = l]
    BY <1>10 DEF Settle, FinishStart
  <2>3. state' = state \/ state' = "Faulted" \/ (op[p].kind # "live" /\ state' = "Running")
    BY <1>10 DEF Settle, FinishStart, ctrlVars
  <2>4. op[p].kind # "live" => quit # "quitIdle"
    BY <2>1
  <2> QED
    BY <1>4, <2>1, <2>2, <2>3, <2>4 DEF StartLabels
<1>11. ASSUME NEW p \in Procs, LiveApply(p) PROVE QuitInv'
  <2>1. UNCHANGED <<op, state, quit, hold>>
    BY <1>11 DEF LiveApply, RaiseFlag, Snapshot, CommitCatalog, LowerFlag, ctrlVars, markVars, restVars
  <2>2. CASE RaiseFlag(p) \/ LowerFlag(p)
    BY <1>1, <2>1, <2>2 DEF RaiseFlag, LowerFlag, StartLabels
  <2>3. CASE Snapshot(p)
    BY <1>1, <2>1, <2>3 DEF Snapshot, StartLabels
  <2>4. CASE CommitCatalog(p)
    BY <1>1, <2>1, <2>4 DEF CommitCatalog, StartLabels
  <2> QED
    BY <1>11, <2>2, <2>3, <2>4 DEF LiveApply
<1>12. ASSUME NEW p \in Procs, Drop(p) PROVE QuitInv'
  <2>1. UNCHANGED <<op, state, quit, hold>> /\ \E l \in {"lower", "idle"} : pc' = [pc EXCEPT ![p] = l]
    BY <1>12 DEF Drop, ctrlVars, markVars, restVars
  <2> QED
    BY <1>1, <2>1 DEF StartLabels
<1>13. CASE Quit
  <2>1. UNCHANGED <<state, pc, op>>
    BY <1>13 DEF Quit, AskQuit, AnswerYes, AnswerNo, ctrlVars, procVars
  <2>2. (quit' \in {"quitIdle", "quitBusy"} => hold') /\ (quit' = "quitIdle" => state' \notin {"Starting", "Running"})
    BY <1>13 DEF Quit, AskQuit, AnswerYes, AnswerNo, ctrlVars, markVars, Busy
  <2> QED
    BY <2>1, <2>2
<1>14. CASE Shutdown \/ UNCHANGED vars
  <2>1. UNCHANGED <<state, pc, op, quit, hold>>
    BY <1>14 DEF Shutdown, BeginShutdown, ShutdownDbSource, ShutdownCollector, ShutdownSessions,
                 vars, ctrlVars, procVars, markVars, restVars
  <2> QED
    BY <2>1
<1> QED
  BY <1>2, <1>3, <1>5, <1>6, <1>7, <1>8, <1>9, <1>10, <1>11, <1>12, <1>13, <1>14
     DEF Next, Step, Starting, Applying

(* Nobody is under way and the hub is not quitting.                        *)
LEMMA InitIInv == Init => IInv
<1> SUFFICES ASSUME Init PROVE IInv
  OBVIOUS
<1>1. NoOp \in [kind : Ops \cup {"none"}, mode : Modes]
  BY ControllerAssumption DEF NoOp
<1>2. LockType
  BY <1>1 DEF Init, LockType, Labels
<1>3. LockInv
  BY ControllerAssumption DEF Init, LockInv, LockHeld, NeedsLock
<1>4. QuitInv
  BY DEF Init, QuitInv, QuitConsent, StartLabels
<1> QED
  BY <1>2, <1>3, <1>4 DEF IInv

(* IInv holds in every behaviour of the controller.                        *)
LEMMA Inductive == Spec => []IInv
<1>1. Init => IInv
  BY InitIInv
<1>2. IInv /\ [Next]_vars => IInv'
  BY StepLockType, StepLockInv, StepQuitInv DEF IInv
<1> QED
  BY <1>1, <1>2, PTL DEF Spec

(* Whatever changes the collection is done by the one request that holds   *)
(* the transition lock, however requests queue, return or are dropped.     *)
THEOREM LockIsHeld == Spec => []LockHeld
<1>1. IInv => LockHeld
  BY DEF IInv, LockInv
<1> QED
  BY <1>1, Inductive, PTL

(* No collection begins after the user agreed to quit an idle hub.         *)
THEOREM ConsentIsKept == Spec => []QuitConsent
<1>1. IInv => QuitConsent
  BY DEF IInv, QuitInv
<1> QED
  BY <1>1, Inductive, PTL

-----------------------------------------------------------------------------
(* Which versions are known where: what a run commits, what the catalog    *)
(* falls back to, and that a running collection runs something.            *)
Takedown == {"dbsrcOff", "collectorOff", "sessionsOff", "stopped"}

(* Where a live apply never is.                                            *)
LifecycleOnly == {"try", "flag", "dropped", "dispatch", "mark", "sources"} \cup Takedown

Knows(p) ==
    /\ pc[p] \in LifecycleOnly => op[p].kind # "live"
    /\ pc[p] = "applied" => op[p].kind = "live"
    /\ pc[p] \in {"sync", "commit", "catalog"} => snap[p] # 0
    /\ pc[p] = "applyOk" => applied # 0
    /\ pc[p] \in Takedown => state = "Stopping"
    /\ pc[p] \in StartLabels /\ op[p].kind = "live" => state = "Running"

Known == (state = "Running" => applied # 0) /\ \A p \in Procs : Knows(p)

-----------------------------------------------------------------------------
(* The types of what is not the lock's, the flags apart.                  *)
FlagTypes ==
    /\ hold \in BOOLEAN /\ shutting \in BOOLEAN /\ live \in BOOLEAN
    /\ sess \in BOOLEAN /\ dbsrc \in BOOLEAN /\ ingest \in BOOLEAN /\ failed \in BOOLEAN

RestTypes ==
    /\ state \in {"Stopped", "Starting", "Running", "Stopping", "Faulted"} /\ mode \in Modes
    /\ snap \in [Procs -> 0..MaxDb] /\ refusedBy \in [Procs -> Ops \cup {"none"}]
    /\ db \in 1..MaxDb /\ cat \in 1..MaxDb /\ applied \in 0..MaxDb
    /\ on \in Modes \cup {"off"}
    /\ quit \in {"none", "askIdle", "askBusy", "quitIdle", "quitBusy"}
    /\ down \in {"up", "marked", "dbsrc", "collector", "down"}

(* TypeOK is these and the types of the lock.                              *)
LEMMA TypesInParts == (TypeOK <=> LockType /\ FlagTypes /\ RestTypes) /\ (TypeOK' <=> LockType' /\ FlagTypes' /\ RestTypes')
  BY DEF TypeOK, LockType, FlagTypes, RestTypes

(* Flags are set to truth values.                                          *)
LEMMA StepFlagTypes == FlagTypes /\ [Next]_vars => FlagTypes'
<1> SUFFICES ASSUME FlagTypes, [Next]_vars PROVE FlagTypes'
  OBVIOUS
<1> USE DEF FlagTypes
<1>1. ASSUME NEW p \in Procs, Request(p) \/ Locking(p) \/ Dispatch(p) PROVE FlagTypes'
  BY <1>1 DEF Request, Locking, TryLock, CheckFlag, Wait, Granted, Release, ReturnNoOp, Dispatch,
              markVars, hubVars, srcVars, restVars
<1>2. ASSUME NEW p \in Procs, Stopping(p) PROVE FlagTypes'
  BY <1>2 DEF Stopping, DbSourceOff, CollectorOff, SessionsOff, Stopped, markVars, hubVars, srcVars, restVars
<1>3. ASSUME NEW p \in Procs, Starting(p) PROVE FlagTypes'
  BY <1>3 DEF Starting, MarkStarting, SourcesOn, markVars, hubVars, srcVars, restVars
<1>4. ASSUME NEW p \in Procs, Applying(p) PROVE FlagTypes'
  BY <1>4 DEF Applying, LoadRegistry, SyncSessions, CommitRun, RunFails, SessionsBefore, Settle,
              markVars, hubVars, srcVars, restVars
<1>5. ASSUME NEW p \in Procs, LiveApply(p) \/ Drop(p) PROVE FlagTypes'
  BY <1>5 DEF LiveApply, RaiseFlag, Snapshot, CommitCatalog, LowerFlag, Drop, markVars, hubVars, srcVars, restVars
<1>6. CASE Quit \/ Shutdown \/ UNCHANGED vars
  BY <1>6 DEF Quit, AskQuit, AnswerYes, AnswerNo, Shutdown, BeginShutdown, ShutdownDbSource,
              ShutdownCollector, ShutdownSessions, vars, markVars, hubVars, srcVars, restVars
<1> QED
  BY <1>1, <1>2, <1>3, <1>4, <1>5, <1>6 DEF Next, Step

(* The other variables keep their types: in particular, a catalog that     *)
(* falls back falls back to a version that was applied.                    *)
LEMMA StepRestTypes == TypeOK /\ Known /\ [Next]_vars => RestTypes'
<1> SUFFICES ASSUME TypeOK, Known, [Next]_vars PROVE RestTypes'
  OBVIOUS
<1> USE DEF RestTypes
<1> RestTypes
  BY TypesInParts
<1>13. op \in [Procs -> [kind : Ops \cup {"none"}, mode : Modes]]
  BY DEF TypeOK
<1>0. /\ MaxDb \in Nat \ {0} /\ 1..MaxDb \subseteq 0..MaxDb /\ 0 \in 0..MaxDb
      /\ \A v \in 0..MaxDb : v # 0 => v \in 1..MaxDb
  BY ControllerAssumption
<1>1. ASSUME NEW p \in Procs, Request(p) PROVE RestTypes'
  <2>1. db' \in 1..MaxDb
    <3>1. PICK k \in Ops : IF k = "live" THEN db' \in db..MaxDb ELSE db' = db
      BY <1>1 DEF Request
    <3> QED
      BY <3>1
  <2>2. snap' \in [Procs -> 0..MaxDb]
    BY <1>0, <1>1, <2>1 DEF Request
  <2> QED
    BY <1>1, <2>1, <2>2 DEF Request, ctrlVars, markVars, hubVars, srcVars, restVars
<1>2. ASSUME NEW p \in Procs, Locking(p) PROVE RestTypes'
  <2>1. refusedBy' \in [Procs -> Ops \cup {"none"}]
    <3>1. HolderKind \in Ops \cup {"none"}
      BY DEF HolderKind, TypeOK
    <3> QED
      BY <1>2, <3>1 DEF Locking, TryLock, CheckFlag, Wait, Granted, Release, ReturnNoOp
  <2>2. UNCHANGED <<ctrlVars, markVars, live, snap, db, hubVars, srcVars, restVars>>
    BY <1>2 DEF Locking, TryLock, CheckFlag, Wait, Granted, Release, ReturnNoOp
  <2> QED
    BY <2>1, <2>2 DEF ctrlVars, markVars, hubVars, srcVars, restVars
<1>3. ASSUME NEW p \in Procs, Dispatch(p) PROVE RestTypes'
  BY <1>13, <1>3 DEF Dispatch, ctrlVars, markVars, hubVars, srcVars, restVars
<1>4. ASSUME NEW p \in Procs, Stopping(p) PROVE RestTypes'
  BY <1>0, <1>4 DEF Stopping, DbSourceOff, CollectorOff, SessionsOff, Stopped, ctrlVars, markVars, hubVars, srcVars, restVars
<1>5. ASSUME NEW p \in Procs, Starting(p) PROVE RestTypes'
  BY <1>13, <1>5 DEF Starting, MarkStarting, SourcesOn, ctrlVars, markVars, hubVars, srcVars, restVars
<1>6. ASSUME NEW p \in Procs, LoadRegistry(p) \/ SyncSessions(p) \/ CommitRun(p) \/ RunFails(p) PROVE RestTypes'
  <2>1. CASE LoadRegistry(p)
    BY <1>0, <2>1 DEF LoadRegistry, ctrlVars, markVars, hubVars, srcVars, restVars
  <2>2. CASE SyncSessions(p)
    BY <2>2 DEF SyncSessions, ctrlVars, markVars, srcVars, restVars
  <2>3. CASE CommitRun(p)
    BY <2>3 DEF CommitRun, ctrlVars, markVars, srcVars, restVars
  <2>4. CASE RunFails(p)
    BY <2>4 DEF RunFails, SessionsBefore, ctrlVars, markVars, srcVars
  <2> QED
    BY <1>6, <2>1, <2>2, <2>3, <2>4
<1>7. ASSUME NEW p \in Procs, Settle(p) PROVE RestTypes'
  <2>1. cat' \in 1..MaxDb
    <3>1. op[p].kind = "live" => applied # 0
      BY <1>7 DEF Settle, Known, Knows, StartLabels
    <3> QED
      BY <1>0, <1>7, <3>1 DEF Settle, CatalogBefore
  <2>2. state' \in {state, "Running", "Faulted"} /\ mode' = mode
    BY <1>7 DEF Settle, FinishStart, ctrlVars
  <2> QED
    BY <1>7, <2>1, <2>2 DEF Settle, markVars, srcVars, restVars
<1>8. ASSUME NEW p \in Procs, LiveApply(p) PROVE RestTypes'
  <2>1. CASE RaiseFlag(p) \/ LowerFlag(p)
    BY <2>1 DEF RaiseFlag, LowerFlag, ctrlVars, markVars, hubVars, srcVars, restVars
  <2>2. CASE Snapshot(p)
    BY <1>0, <2>2 DEF Snapshot, RegistryNow, ctrlVars, markVars, hubVars, srcVars
  <2>3. CASE CommitCatalog(p)
    BY <1>0, <2>3 DEF CommitCatalog, Known, Knows, Goto, ctrlVars, markVars, srcVars
  <2> QED
    BY <1>8, <2>1, <2>2, <2>3 DEF LiveApply
<1>9. ASSUME NEW p \in Procs, Drop(p) PROVE RestTypes'
  BY <1>9 DEF Drop, ctrlVars, markVars, hubVars, srcVars, restVars
<1>10. CASE Quit
  BY <1>10 DEF Quit, AskQuit, AnswerYes, AnswerNo, ctrlVars, markVars, procVars, hubVars, srcVars
<1>11. CASE Shutdown
  BY <1>11 DEF Shutdown, BeginShutdown, ShutdownDbSource, ShutdownCollector, ShutdownSessions,
               ctrlVars, markVars, procVars, hubVars, srcVars
<1>12. CASE UNCHANGED vars
  BY <1>12 DEF vars, ctrlVars, markVars, procVars, hubVars, srcVars, restVars
<1> QED
  BY <1>1, <1>2, <1>3, <1>4, <1>5, <1>6, <1>7, <1>8, <1>9, <1>10, <1>11, <1>12 DEF Next, Step, Applying

(* A version that is committed is one, and only a run that collects is     *)
(* applied to while it goes on.                                            *)
LEMMA StepKnown == TypeOK /\ Known /\ LockHeld /\ [Next]_vars => Known'
<1> SUFFICES ASSUME TypeOK, Known, LockHeld, [Next]_vars PROVE Known'
  OBVIOUS
<1> USE DEF Goto, At
<1>0. /\ pc \in [Procs -> Labels] /\ snap \in [Procs -> 0..MaxDb] /\ db # 0 /\ 0 \notin 1..MaxDb
      /\ \A p, q \in Procs : pc[p] \in NeedsLock /\ pc[q] \in NeedsLock => p = q
      /\ StartLabels \cup Takedown \cup {"sync", "commit", "catalog", "applyOk"} \subseteq NeedsLock
  <2>1. StartLabels \cup Takedown \cup {"sync", "commit", "catalog", "applyOk"} \subseteq NeedsLock
    BY DEF StartLabels, Takedown, NeedsLock, Labels
  <2>2. db # 0 /\ 0 \notin 1..MaxDb
    BY DEF TypeOK
  <2> QED
    BY <2>1, <2>2 DEF TypeOK, LockHeld
<1> DEFINE Tells(l) == l \in {"sync", "commit", "catalog", "applyOk"} \cup Takedown \cup StartLabels
<1>1. ASSUME NEW p \in Procs, NEW l, ~Tells(l), pc' = [pc EXCEPT ![p] = l],
             \A q \in Procs : q # p => op'[q] = op[q] /\ snap'[q] = snap[q], UNCHANGED <<state, applied>>,
             l \in LifecycleOnly => op'[p].kind # "live", l # "applied"
      PROVE  Known'
  BY <1>0, <1>1 DEF Known, Knows
<1>2. ASSUME NEW p \in Procs, NEW l, pc[p] \in NeedsLock, pc' = [pc EXCEPT ![p] = l], UNCHANGED op,
             l \in LifecycleOnly => op[p].kind # "live", l = "applied" => op[p].kind = "live",
             state' = "Running" => applied' # 0,
             l \in {"sync", "commit", "catalog"} => snap'[p] # 0,
             l = "applyOk" => applied' # 0,
             l \in Takedown => state' = "Stopping",
             l \in StartLabels /\ op[p].kind = "live" => state' = "Running"
      PROVE  Known'
  BY <1>0, <1>2 DEF Known, Knows
<1>3. ASSUME NEW p \in Procs, Request(p) PROVE Known'
  <2>1. \/ pc' = [pc EXCEPT ![p] = "raise"]
        \/ pc' = [pc EXCEPT ![p] = "try"] /\ op'[p].kind # "live"
    <3>1. PICK k \in Ops, m \in Modes :
            /\ op' = [op EXCEPT ![p] = [kind |-> k, mode |-> m]]
            /\ pc' = [pc EXCEPT ![p] = IF k = "live" THEN "raise" ELSE "try"]
      BY <1>3 DEF Request
    <3>2. op'[p].kind = k
      BY <3>1 DEF TypeOK
    <3> QED
      BY <3>1, <3>2
  <2>2. \A q \in Procs : q # p => op'[q] = op[q] /\ snap'[q] = snap[q]
    BY <1>3 DEF Request, TypeOK
  <2> QED
    BY <1>1, <1>3, <2>1, <2>2 DEF Request, ctrlVars, hubVars, StartLabels, Takedown, LifecycleOnly
<1>4. ASSUME NEW p \in Procs, Locking(p) PROVE Known'
  <2>1. \/ \E l \in {"dispatch", "flag", "dropped"} : pc' = [pc EXCEPT ![p] = l] /\ op[p].kind # "live"
        \/ \E l \in {"waiting", "queued", "lower", "idle", "snapshot"} : pc' = [pc EXCEPT ![p] = l]
    BY <1>4 DEF Locking, TryLock, AfterRefusal, CheckFlag, MeetsAnother, Wait, Granted, Release, ReturnNoOp,
                Known, Knows, LifecycleOnly
  <2>2. UNCHANGED <<op, snap, state, applied>>
    BY <1>4 DEF Locking, TryLock, CheckFlag, Wait, Granted, Release, ReturnNoOp, ctrlVars, hubVars
  <2> QED
    BY <1>1, <2>1, <2>2 DEF StartLabels, Takedown, LifecycleOnly
<1>5. ASSUME NEW p \in Procs, Dispatch(p) PROVE Known'
  <2>1. pc[p] \in NeedsLock /\ UNCHANGED <<op, applied>>
    BY <1>5 DEF Dispatch, NeedsLock, Labels, hubVars
  <2>4. op[p].kind # "live"
    BY <1>5 DEF Dispatch, Known, Knows, LifecycleOnly
  <2>2. \/ state' = "Stopping" /\ pc' = [pc EXCEPT ![p] = "dbsrcOff"]
        \/ state' = state /\ \E l \in {"mark", "release"} : pc' = [pc EXCEPT ![p] = l]
    BY <1>5 DEF Dispatch, ctrlVars
  <2>3. state = "Running" => applied # 0
    BY DEF Known
  <2> QED
    BY <1>2, <2>1, <2>2, <2>3, <2>4 DEF StartLabels, Takedown, LifecycleOnly
<1>6. ASSUME NEW p \in Procs, Stopping(p) PROVE Known'
  <2>1. pc[p] \in NeedsLock /\ state = "Stopping" /\ UNCHANGED op
    BY <1>6 DEF Stopping, DbSourceOff, CollectorOff, SessionsOff, Stopped, NeedsLock, Labels, Known, Knows, Takedown
  <2>3. op[p].kind # "live"
    BY <1>6 DEF Stopping, DbSourceOff, CollectorOff, SessionsOff, Stopped, Known, Knows, Takedown, LifecycleOnly
  <2>2. \/ state' = state /\ \E l \in {"collectorOff", "sessionsOff", "stopped"} : pc' = [pc EXCEPT ![p] = l]
        \/ state' = "Stopped" /\ \E l \in {"mark", "release"} : pc' = [pc EXCEPT ![p] = l]
    BY <1>6 DEF Stopping, DbSourceOff, CollectorOff, SessionsOff, Stopped, ctrlVars
  <2> QED
    BY <1>2, <2>1, <2>2, <2>3 DEF StartLabels, Takedown, LifecycleOnly
<1>7. ASSUME NEW p \in Procs, MarkStarting(p) PROVE Known'
  <2>1. pc[p] \in NeedsLock /\ UNCHANGED <<op, applied>>
    BY <1>7 DEF MarkStarting, NeedsLock, Labels, hubVars
  <2>4. op[p].kind # "live"
    BY <1>7 DEF MarkStarting, Known, Knows, LifecycleOnly
  <2>2. \/ state' = state /\ pc' = [pc EXCEPT ![p] = "release"]
        \/ state' = "Starting" /\ pc' = [pc EXCEPT ![p] = "load"]
    BY <1>7 DEF MarkStarting
  <2>3. state = "Running" => applied # 0
    BY DEF Known
  <2> QED
    BY <1>2, <2>1, <2>2, <2>3, <2>4 DEF StartLabels, Takedown, LifecycleOnly
<1>14. ASSUME NEW p \in Procs, SourcesOn(p) PROVE Known'
  BY <1>1, <1>14 DEF SourcesOn, ctrlVars, hubVars, StartLabels, Takedown, LifecycleOnly
<1>8. ASSUME NEW p \in Procs, LoadRegistry(p) \/ SyncSessions(p) \/ CommitRun(p) \/ RunFails(p) PROVE Known'
  <2>1. pc[p] \in NeedsLock /\ UNCHANGED <<op, state>> /\ pc[p] \in StartLabels
    BY <1>8 DEF LoadRegistry, SyncSessions, CommitRun, RunFails, NeedsLock, Labels, StartLabels, ctrlVars
  <2>2. Known /\ Knows(p)
    BY DEF Known
  <2>3. CASE LoadRegistry(p)
    <3>1. pc' = [pc EXCEPT ![p] = "sync"] /\ snap'[p] # 0 /\ applied' = applied
      BY <1>0, <2>3 DEF LoadRegistry, hubVars
    <3> QED
      BY <1>2, <2>1, <2>2, <3>1 DEF Known, Knows, StartLabels, Takedown, LifecycleOnly
  <2>4. CASE SyncSessions(p)
    <3>1. pc' = [pc EXCEPT ![p] = "commit"] /\ snap'[p] # 0 /\ applied' = applied
      BY <2>2, <2>4 DEF SyncSessions, Knows
    <3> QED
      BY <1>2, <2>1, <2>2, <3>1 DEF Known, Knows, StartLabels, Takedown, LifecycleOnly
  <2>5. CASE CommitRun(p)
    <3>1. pc' = [pc EXCEPT ![p] = "applyOk"] /\ applied' # 0
      BY <2>2, <2>5 DEF CommitRun, Knows
    <3> QED
      BY <1>2, <2>1, <2>2, <3>1 DEF Known, Knows, StartLabels, Takedown, LifecycleOnly
  <2>6. CASE RunFails(p)
    <3>1. pc' = [pc EXCEPT ![p] = "applyErr"] /\ applied' = applied
      BY <2>6 DEF RunFails
    <3> QED
      BY <1>2, <2>1, <2>2, <3>1 DEF Known, Knows, StartLabels, Takedown, LifecycleOnly
  <2> QED
    BY <1>8, <2>3, <2>4, <2>5, <2>6
<1>9. ASSUME NEW p \in Procs, Settle(p) PROVE Known'
  <2>1. pc[p] \in NeedsLock /\ UNCHANGED <<op, applied>>
    BY <1>9 DEF Settle, NeedsLock, Labels
  <2>2. \/ pc' = [pc EXCEPT ![p] = "sources"] /\ op[p].kind # "live"
        \/ pc' = [pc EXCEPT ![p] = "applied"] /\ op[p].kind = "live"
        \/ pc' = [pc EXCEPT ![p] = "release"]
    BY <1>9 DEF Settle, FinishStart
  <2>3. state' = "Running" => applied # 0
    BY <1>9 DEF Settle, FinishStart, ctrlVars, Known, Knows
  <2> QED
    BY <1>2, <2>1, <2>2, <2>3 DEF StartLabels, Takedown, LifecycleOnly
<1>10. ASSUME NEW p \in Procs, RaiseFlag(p) \/ LowerFlag(p) PROVE Known'
  BY <1>1, <1>10 DEF RaiseFlag, LowerFlag, ctrlVars, hubVars, StartLabels, Takedown, LifecycleOnly
<1>11. ASSUME NEW p \in Procs, Snapshot(p) \/ CommitCatalog(p) PROVE Known'
  <2>1. pc[p] \in NeedsLock /\ UNCHANGED <<op, state, applied>>
    BY <1>11 DEF Snapshot, CommitCatalog, NeedsLock, Labels, ctrlVars, hubVars
  <2>2. \/ pc' = [pc EXCEPT ![p] = "catalog"] /\ snap'[p] # 0
        \/ pc' = [pc EXCEPT ![p] = "release"]
        \/ pc' = [pc EXCEPT ![p] = "load"] /\ state = "Running"
    BY <1>0, <1>11 DEF Snapshot, RegistryNow, CommitCatalog
  <2>3. state = "Running" => applied # 0
    BY DEF Known
  <2> QED
    BY <1>2, <2>1, <2>2, <2>3 DEF StartLabels, Takedown, LifecycleOnly
<1>12. ASSUME NEW p \in Procs, Drop(p) PROVE Known'
  <2>1. \E l \in {"lower", "idle"} : pc' = [pc EXCEPT ![p] = l]
    BY <1>12 DEF Drop
  <2> QED
    BY <1>1, <1>12, <2>1 DEF Drop, ctrlVars, hubVars, StartLabels, Takedown, LifecycleOnly
<1>13. CASE Quit \/ Shutdown \/ UNCHANGED vars
  <2>1. UNCHANGED <<state, applied, pc, op, snap>>
    BY <1>13 DEF Quit, AskQuit, AnswerYes, AnswerNo, Shutdown, BeginShutdown, ShutdownDbSource,
                 ShutdownCollector, ShutdownSessions, vars, ctrlVars, procVars, hubVars
  <2> QED
    BY <2>1 DEF Known, Knows
<1> QED
  BY <1>3, <1>4, <1>5, <1>6, <1>7, <1>14, <1>8, <1>9, <1>10, <1>11, <1>12, <1>13
     DEF Next, Step, Starting, Applying, LiveApply

(* Both hold in every behaviour.                                           *)
LEMMA TypesInductive == Spec => [](TypeOK /\ Known)
<1>1. Init => TypeOK /\ Known
  <2>1. NoOp \in [kind : Ops \cup {"none"}, mode : Modes]
    BY ControllerAssumption DEF NoOp
  <2>2. Init => TypeOK
    <3>1. Init => LockType
      BY <2>1 DEF Init, LockType, Labels
    <3>2. Init => FlagTypes
      BY DEF Init, FlagTypes
    <3>3. Init => RestTypes
      BY ControllerAssumption DEF Init, RestTypes
    <3> QED
      BY <3>1, <3>2, <3>3, TypesInParts
  <2>3. Init => Known
    BY DEF Init, Known, Knows, LifecycleOnly, Takedown, StartLabels
  <2> QED
    BY <2>2, <2>3
<1>2. IInv /\ IInv' /\ TypeOK /\ Known /\ [Next]_vars => (TypeOK /\ Known)'
  <2> SUFFICES ASSUME IInv, IInv', TypeOK, Known, [Next]_vars PROVE TypeOK' /\ Known'
    OBVIOUS
  <2>1. LockType' /\ LockHeld
    BY DEF IInv, LockInv
  <2>2. Known'
    BY <2>1, StepKnown
  <2>3. FlagTypes' /\ RestTypes'
    BY TypesInParts, StepFlagTypes, StepRestTypes
  <2> QED
    BY <2>1, <2>2, <2>3, TypesInParts
<1> QED
  BY <1>1, <1>2, Inductive, PTL DEF Spec

(* The types of the controller, whatever fails and whatever is dropped:    *)
(* the catalog and a running collection always have a version.             *)
THEOREM TypeCorrect == Spec => []TypeOK
  BY TypesInductive, PTL

-----------------------------------------------------------------------------
(* What the holder of the lock has done of a run, and undone.              *)
AllOff == on = "off" /\ ~sess /\ ~dbsrc /\ ~ingest /\ applied = 0
AllOn == on = mode /\ sess /\ dbsrc /\ ingest /\ applied # 0
Whole == (state = "Running" /\ AllOn) \/ (state \in {"Stopped", "Faulted"} /\ AllOff)

Untouched == {"queued", "dispatch", "snapshot", "catalog", "release", "applied"}

HalfDown(l) ==
    \/ l = "dbsrcOff" /\ (AllOn \/ AllOff)
    \/ l = "collectorOff" /\ ~dbsrc /\ (on # "off" => sess /\ on = mode)
    \/ l = "sessionsOff" /\ ~dbsrc /\ on = "off"
    \/ l = "stopped" /\ ~dbsrc /\ on = "off" /\ ~sess /\ applied = 0

HalfUp(l) ==
    \/ l \in {"load", "sync", "applyErr"} /\ AllOff
    \/ l = "commit" /\ on = "off" /\ sess /\ ~dbsrc /\ ~ingest /\ applied = 0
    \/ l = "applyOk" /\ on = mode /\ sess /\ ~dbsrc /\ ~ingest /\ applied # 0

HolderAt(p) ==
    /\ pc[p] \in Untouched => Whole
    /\ pc[p] \in Takedown => HalfDown(pc[p])
    /\ pc[p] = "mark" => state \in {"Stopped", "Faulted"} /\ AllOff
    /\ pc[p] \in StartLabels /\ op[p].kind # "live" => HalfUp(pc[p])
    /\ pc[p] \in StartLabels /\ op[p].kind = "live" => AllOn
    /\ pc[p] = "sources" => state = "Running" /\ on = mode /\ sess /\ ~dbsrc /\ ~ingest /\ applied # 0

RunInv ==
    /\ down = "up"
    /\ owner = Free => Whole
    /\ \A p \in Procs : owner = p => HolderAt(p)

-----------------------------------------------------------------------------
(* Nothing of the run changes, and who has the lock afterwards is where    *)
(* it was, or begins with a run that is whole.                             *)
RunStays == UNCHANGED <<state, mode, on, sess, dbsrc, ingest, applied, down>>

Carries(p) == \/ owner = p /\ pc'[p] = pc[p] /\ op'[p] = op[p]
              \/ Whole /\ pc'[p] \in Untouched

(* No handler is dropped, and the process is not shutting down.            *)
Undisturbed == Droppable = {} /\ "down" \notin Exits

(* A step outside the lock leaves the run alone; one inside it takes the   *)
(* run from one stage to the next.                                         *)
LEMMA StepRunInv ==
    Undisturbed /\ TypeOK /\ Known /\ IInv /\ RunInv /\ [Next]_vars => RunInv'
<1> SUFFICES ASSUME Undisturbed, TypeOK, Known, IInv, RunInv, [Next]_vars PROVE RunInv'
  OBVIOUS
<1> LockInv /\ QuitInv
  BY DEF IInv
<1> USE DEF Goto, At
<1> DEFINE Inner == NeedsLock
<1>0. /\ pc \in [Procs -> Labels] /\ Free \notin Procs /\ "off" \notin Modes /\ mode \in Modes
      /\ \A p \in Procs : pc[p] \in Inner => owner = p
      /\ owner \in Procs => pc[owner] \notin Outside
      /\ StartLabels \cup Takedown \cup (Untouched \ {"queued"}) \cup {"mark", "sources"} \subseteq Inner
      /\ down = "up"
  <2>1. StartLabels \cup Takedown \cup (Untouched \ {"queued"}) \cup {"mark", "sources"} \subseteq Inner
    BY DEF StartLabels, Takedown, Untouched, NeedsLock, Labels
  <2> QED
    BY <2>1, ControllerAssumption DEF TypeOK, LockInv, LockHeld, RunInv
<1>1. ASSUME RunStays, owner' = Free => Whole, \A p \in Procs : owner' = p => Carries(p) PROVE RunInv'
  <2>1. Whole' <=> Whole
    BY <1>1 DEF RunStays, Whole, AllOn, AllOff
  <2>2. ASSUME NEW p \in Procs, owner' = p PROVE HolderAt(p)'
    <3>1. CASE owner = p /\ pc'[p] = pc[p] /\ op'[p] = op[p]
      <4>1. HolderAt(p)
        BY <3>1 DEF RunInv
      <4> QED
        BY <1>1, <3>1, <4>1 DEF RunStays, HolderAt, HalfDown, HalfUp, Whole, AllOn, AllOff
    <3>2. CASE Whole /\ pc'[p] \in Untouched
      BY <2>1, <3>2 DEF HolderAt, Untouched, Takedown, StartLabels
    <3> QED
      BY <1>1, <2>2, <3>1, <3>2 DEF Carries
  <2> QED
    BY <1>0, <1>1, <2>1, <2>2 DEF RunInv, RunStays
<1>2. ASSUME NEW p \in Procs, pc[p] \in Inner, UNCHANGED <<lockVars, down>>, HolderAt(p)' PROVE RunInv'
  BY <1>0, <1>2 DEF RunInv, lockVars
<1>3. ASSUME NEW p \in Procs, Request(p) PROVE RunInv'
  <2>1. pc[p] = "idle" /\ owner # p
    BY <1>0, <1>3 DEF Request, Outside, NeedsLock, Labels
  <2>2. /\ RunStays /\ owner' = owner
        /\ \A q \in Procs : q # p => pc'[q] = pc[q] /\ op'[q] = op[q]
    BY <1>3 DEF Request, TypeOK, RunStays, ctrlVars, hubVars, srcVars, restVars, lockVars
  <2>3. owner = Free => Whole
    BY DEF RunInv
  <2>4. \A q \in Procs : owner' = q => Carries(q)
    BY <2>1, <2>2 DEF Carries
  <2> QED
    BY <1>1, <2>2, <2>3, <2>4
<1>4. ASSUME NEW p \in Procs, TryLock(p) \/ CheckFlag(p) \/ Wait(p) \/ ReturnNoOp(p) \/ RaiseFlag(p) \/ LowerFlag(p)
      PROVE  RunInv'
  <2>1. pc[p] \in {"try", "flag", "waiting", "dropped", "raise", "lower"} /\ owner # p
    <3>1. pc[p] \in {"try", "flag", "waiting", "dropped", "raise", "lower"}
      BY <1>4 DEF TryLock, CheckFlag, Wait, ReturnNoOp, RaiseFlag, LowerFlag
    <3> QED
      BY <1>0, <3>1 DEF Outside, NeedsLock, Labels
  <2>2. /\ RunStays /\ UNCHANGED op
        /\ \A q \in Procs : q # p => pc'[q] = pc[q]
    BY <1>4 DEF TryLock, CheckFlag, Wait, ReturnNoOp, RaiseFlag, LowerFlag, TypeOK, RunStays,
                ctrlVars, hubVars, srcVars, restVars
  <2>3. owner' = owner \/ (owner = Free /\ owner' = p /\ pc'[p] \in Untouched)
    BY <1>0, <1>4 DEF TryLock, CheckFlag, Wait, ReturnNoOp, RaiseFlag, LowerFlag, Take, Queue, lockVars, Untouched
  <2>4. owner = Free => Whole
    BY DEF RunInv
  <2>5. owner' = Free => Whole
    BY <1>0, <2>3, <2>4
  <2>6. ASSUME NEW q \in Procs, owner' = q PROVE Carries(q)
    <3>1. CASE owner' = owner
      BY <2>1, <2>2, <2>6, <3>1 DEF Carries
    <3>2. CASE owner = Free /\ owner' = p /\ pc'[p] \in Untouched
      BY <2>4, <2>6, <3>2 DEF Carries
    <3> QED
      BY <2>3, <3>1, <3>2
  <2> QED
    BY <1>1, <2>2, <2>5, <2>6
<1>5. ASSUME NEW p \in Procs, Granted(p) PROVE RunInv'
  <2>1. owner = p /\ pc[p] = "queued" /\ Whole
    BY <1>5 DEF Granted, RunInv, HolderAt, Untouched
  <2>2. RunStays /\ owner' = owner /\ pc'[p] \in Untouched
    BY <1>0, <1>5 DEF Granted, Untouched, RunStays, ctrlVars, hubVars, srcVars, restVars, lockVars
  <2>3. owner' = Free => Whole
    BY <1>0, <2>1, <2>2
  <2>4. \A q \in Procs : owner' = q => Carries(q)
    BY <2>1, <2>2 DEF Carries
  <2> QED
    BY <1>1, <2>2, <2>3, <2>4
<1>6. ASSUME NEW p \in Procs, Release(p) PROVE RunInv'
  <2>1. owner = p /\ Whole
    <3>1. owner = p /\ pc[p] \in Untouched
      BY <1>0, <1>6 DEF Release, Untouched, NeedsLock, Labels
    <3> QED
      BY <3>1 DEF RunInv, HolderAt
  <2>2. /\ RunStays
        /\ \A q \in Procs : q # p => pc'[q] = pc[q]
    BY <1>6 DEF Release, TypeOK, RunStays, ctrlVars, hubVars, srcVars, restVars
  <2>3. \A q \in Procs : owner' = q => q # p /\ pc[q] = "queued"
    <3>1. CASE waiters = <<>>
      BY <1>0, <1>6, <3>1 DEF Release, Unlock
    <3>2. CASE waiters # <<>>
      <4>1. owner' = waiters[1] /\ 1 \in 1..Len(waiters)
        <5>1. waiters \in Seq(Procs)
          BY DEF TypeOK
        <5> QED
          BY <1>6, <3>2, <5>1 DEF Release, Unlock
      <4> QED
        BY <2>1, <4>1 DEF LockInv
    <3> QED
      BY <3>1, <3>2
  <2>4. \A q \in Procs : owner' = q => Carries(q)
    BY <2>1, <2>2, <2>3 DEF Carries, Untouched
  <2> QED
    BY <1>1, <2>1, <2>2, <2>4
<1>7. ASSUME NEW p \in Procs, Dispatch(p) PROVE RunInv'
  <2>1. pc[p] \in Inner /\ UNCHANGED <<lockVars, down, on, sess, dbsrc, ingest, applied, op>> /\ pc[p] \in Untouched
    BY <1>7 DEF Dispatch, NeedsLock, Labels, Untouched, hubVars, srcVars, restVars
  <2>2. Whole
    BY <1>0, <2>1 DEF RunInv, HolderAt
  <2>3. \/ pc'[p] = "mark" /\ UNCHANGED <<state, mode>> /\ StartsFresh(p)
        \/ pc'[p] = "dbsrcOff" /\ state' = "Stopping" /\ UNCHANGED mode
        \/ pc'[p] = "release" /\ UNCHANGED <<state, mode>>
        \/ pc'[p] = "release" /\ UNCHANGED state /\ state = "Stopped"
    BY <1>0, <1>7 DEF Dispatch, ctrlVars
  <2>4. CASE pc'[p] = "mark" /\ UNCHANGED <<state, mode>> /\ StartsFresh(p)
    <3>1. state' \in {"Stopped", "Faulted"} /\ AllOff'
      BY <2>1, <2>2, <2>4 DEF Whole, AllOff, StartsFresh
    <3>2. HolderAt(p)'
      BY <2>4, <3>1 DEF HolderAt, Untouched, Takedown, StartLabels
    <3> QED
      BY <1>2, <2>1, <3>2
  <2>5. CASE pc'[p] = "dbsrcOff" /\ state' = "Stopping" /\ UNCHANGED mode
    <3>1. AllOn' \/ AllOff'
      BY <2>1, <2>2, <2>5 DEF Whole, AllOff, AllOn
    <3>2. HolderAt(p)'
      BY <2>5, <3>1 DEF HolderAt, HalfDown, Untouched, Takedown, StartLabels
    <3> QED
      BY <1>2, <2>1, <3>2
  <2>6. CASE pc'[p] = "release" /\ (UNCHANGED <<state, mode>> \/ (UNCHANGED state /\ state = "Stopped"))
    <3>1. Whole'
      BY <2>1, <2>2, <2>6 DEF Whole, AllOff, AllOn
    <3>2. HolderAt(p)'
      BY <2>6, <3>1 DEF HolderAt, Untouched, Takedown, StartLabels
    <3> QED
      BY <1>2, <2>1, <3>2
  <2> QED
    BY <2>3, <2>4, <2>5, <2>6
<1>8. ASSUME NEW p \in Procs, Stopping(p) PROVE RunInv'
  <2>1. pc[p] \in Inner /\ UNCHANGED <<lockVars, down, mode, op>> /\ pc[p] \in Takedown
    BY <1>8 DEF Stopping, DbSourceOff, CollectorOff, SessionsOff, Stopped, NeedsLock, Labels, Takedown, restVars, ctrlVars
  <2>2. HalfDown(pc[p]) /\ state = "Stopping"
    BY <1>0, <2>1 DEF RunInv, HolderAt, Known, Knows
  <2>3. CASE DbSourceOff(p)
    <3>1. pc'[p] = "collectorOff" /\ ~dbsrc' /\ UNCHANGED <<state, on, sess, applied>>
      BY <1>0, <2>3 DEF DbSourceOff, ctrlVars, hubVars
    <3>2. pc[p] = "dbsrcOff" /\ (on # "off" => sess /\ on = mode)
      BY <2>2, <2>3 DEF DbSourceOff, HalfDown, AllOn, AllOff
    <3>3. HolderAt(p)'
      BY <2>1, <3>1, <3>2 DEF HolderAt, HalfDown, Untouched, Takedown, StartLabels
    <3> QED
      BY <1>2, <2>1, <3>3
  <2>4. CASE CollectorOff(p)
    <3>1. pc'[p] = "sessionsOff" /\ on' = "off" /\ UNCHANGED dbsrc
      BY <1>0, <2>4 DEF CollectorOff, srcVars
    <3>2. ~dbsrc
      BY <2>2, <2>4 DEF CollectorOff, HalfDown
    <3>3. HolderAt(p)'
      BY <3>1, <3>2 DEF HolderAt, HalfDown, Untouched, Takedown, StartLabels
    <3> QED
      BY <1>2, <2>1, <3>3
  <2>5. CASE SessionsOff(p)
    <3>1. pc'[p] = "stopped" /\ applied' = 0 /\ ~sess' /\ UNCHANGED <<dbsrc, on>>
      BY <1>0, <2>5 DEF SessionsOff, srcVars
    <3>2. ~dbsrc /\ on = "off"
      BY <2>2, <2>5 DEF SessionsOff, HalfDown
    <3>3. HolderAt(p)'
      BY <3>1, <3>2 DEF HolderAt, HalfDown, Untouched, Takedown, StartLabels
    <3> QED
      BY <1>2, <2>1, <3>3
  <2>6. CASE Stopped(p)
    <3>1. pc'[p] \in {"release", "mark"} /\ state' = "Stopped" /\ ~ingest' /\ UNCHANGED <<dbsrc, on, sess, applied>>
      BY <1>0, <2>6 DEF Stopped, hubVars
    <3>2. AllOff'
      <4>1. ~dbsrc /\ on = "off" /\ ~sess /\ applied = 0
        BY <2>2, <2>6 DEF Stopped, HalfDown
      <4> QED
        BY <3>1, <4>1 DEF AllOff
    <3>3. HolderAt(p)'
      BY <3>1, <3>2 DEF HolderAt, Whole, Untouched, Takedown, StartLabels
    <3> QED
      BY <1>2, <2>1, <3>3
  <2> QED
    BY <1>8, <2>3, <2>4, <2>5, <2>6 DEF Stopping
<1>9. ASSUME NEW p \in Procs, MarkStarting(p) PROVE RunInv'
  <2>1. pc[p] \in Inner /\ pc[p] = "mark" /\ UNCHANGED <<lockVars, down, op, on, sess, applied, dbsrc>>
    BY <1>9 DEF MarkStarting, NeedsLock, Labels, restVars, hubVars
  <2>2. state \in {"Stopped", "Faulted"} /\ AllOff /\ op[p].kind # "live"
    BY <1>0, <2>1 DEF RunInv, HolderAt, Known, Knows, LifecycleOnly
  <2>3. CASE RefusedNow
    <3>1. pc'[p] = "release" /\ UNCHANGED <<state, ingest>>
      BY <1>0, <1>9, <2>3 DEF MarkStarting
    <3>2. Whole'
      BY <2>1, <2>2, <3>1 DEF Whole, AllOff
    <3>3. HolderAt(p)'
      BY <3>1, <3>2 DEF HolderAt, Untouched, Takedown, StartLabels
    <3> QED
      BY <1>2, <2>1, <3>3
  <2>4. CASE ~RefusedNow
    <3>1. pc'[p] = "load" /\ ~ingest'
      BY <1>0, <1>9, <2>4 DEF MarkStarting
    <3>2. AllOff'
      BY <2>1, <2>2, <3>1 DEF AllOff
    <3>3. HolderAt(p)'
      BY <2>1, <2>2, <3>1, <3>2 DEF HolderAt, HalfUp, Untouched, Takedown, StartLabels
    <3> QED
      BY <1>2, <2>1, <3>3
  <2> QED
    BY <2>3, <2>4
<1>10. ASSUME NEW p \in Procs, SourcesOn(p) PROVE RunInv'
  <2>1. pc[p] \in Inner /\ pc[p] = "sources" /\ UNCHANGED <<lockVars, down, on, sess, applied, state, mode>>
    BY <1>10 DEF SourcesOn, NeedsLock, Labels, restVars, hubVars, ctrlVars
  <2>2. state = "Running" /\ on = mode /\ sess /\ applied # 0
    BY <1>0, <2>1 DEF RunInv, HolderAt
  <2>3. pc'[p] = "release" /\ dbsrc' /\ ingest'
    BY <1>0, <1>10 DEF SourcesOn
  <2>4. Whole'
    BY <2>1, <2>2, <2>3 DEF Whole, AllOn
  <2>5. HolderAt(p)'
    BY <2>3, <2>4 DEF HolderAt, Untouched, Takedown, StartLabels
  <2> QED
    BY <1>2, <2>1, <2>5
<1>11. ASSUME NEW p \in Procs, LoadRegistry(p) \/ SyncSessions(p) \/ CommitRun(p) \/ RunFails(p) PROVE RunInv'
  <2>1. /\ pc[p] \in Inner /\ pc[p] \in StartLabels
        /\ UNCHANGED <<lockVars, down, op, state, mode, dbsrc, ingest>>
    BY <1>11 DEF LoadRegistry, SyncSessions, CommitRun, RunFails, NeedsLock, Labels, StartLabels,
                 restVars, srcVars, ctrlVars
  <2>2. HolderAt(p)
    BY <1>0, <2>1 DEF RunInv
  <2>3. CASE op[p].kind = "live"
    <3>1. AllOn
      BY <2>1, <2>2, <2>3 DEF HolderAt
    <3>2. pc'[p] \in StartLabels
      BY <1>0, <1>11 DEF LoadRegistry, SyncSessions, CommitRun, RunFails, StartLabels
    <3>3. AllOn'
      <4>1. CASE LoadRegistry(p)
        BY <2>1, <3>1, <4>1 DEF LoadRegistry, AllOn, hubVars
      <4>2. CASE SyncSessions(p)
        BY <2>1, <3>1, <4>2 DEF SyncSessions, AllOn
      <4>3. CASE CommitRun(p)
        <5>1. snap[p] # 0
          BY <4>3 DEF CommitRun, Known, Knows
        <5> QED
          BY <2>1, <3>1, <4>3, <5>1 DEF CommitRun, AllOn
      <4>4. CASE RunFails(p)
        BY <2>1, <3>1, <4>4 DEF RunFails, SessionsBefore, AllOn
      <4> QED
        BY <1>11, <4>1, <4>2, <4>3, <4>4
    <3>4. HolderAt(p)'
      BY <2>1, <2>3, <3>2, <3>3 DEF HolderAt, Untouched, Takedown, StartLabels
    <3> QED
      BY <1>2, <2>1, <3>4
  <2>4. CASE op[p].kind # "live"
    <3>1. HalfUp(pc[p])
      BY <2>1, <2>2, <2>4 DEF HolderAt
    <3>2. ASSUME NEW l \in StartLabels, pc'[p] = l, HalfUp(l)' PROVE RunInv'
      <4>1. HolderAt(p)'
        BY <2>1, <2>4, <3>2 DEF HolderAt, Untouched, Takedown, StartLabels
      <4> QED
        BY <1>2, <2>1, <4>1
    <3>3. CASE LoadRegistry(p)
      <4>1. pc'[p] = "sync" /\ UNCHANGED <<on, sess, applied>> /\ AllOff
        BY <1>0, <3>1, <3>3 DEF LoadRegistry, HalfUp, hubVars
      <4>2. HalfUp("sync")'
        BY <2>1, <4>1 DEF HalfUp, AllOff
      <4> QED
        BY <3>2, <4>1, <4>2 DEF StartLabels
    <3>4. CASE SyncSessions(p)
      <4>1. pc'[p] = "commit" /\ UNCHANGED <<on, applied>> /\ sess' /\ AllOff
        BY <1>0, <3>1, <3>4 DEF SyncSessions, HalfUp
      <4>2. HalfUp("commit")'
        BY <2>1, <4>1 DEF HalfUp, AllOff
      <4> QED
        BY <3>2, <4>1, <4>2 DEF StartLabels
    <3>5. CASE CommitRun(p)
      <4>1. pc'[p] = "applyOk" /\ on' = mode /\ applied' # 0 /\ sess' = sess /\ sess /\ ~dbsrc /\ ~ingest
        BY <1>0, <3>1, <3>5 DEF CommitRun, HalfUp, Known, Knows
      <4>2. HalfUp("applyOk")'
        BY <2>1, <4>1 DEF HalfUp
      <4> QED
        BY <3>2, <4>1, <4>2 DEF StartLabels
    <3>6. CASE RunFails(p)
      <4>1. /\ pc'[p] = "applyErr" /\ UNCHANGED <<on, applied>> /\ on = "off" /\ applied = 0 /\ ~dbsrc /\ ~ingest
            /\ ~sess'
        <5>1. pc'[p] = "applyErr" /\ UNCHANGED <<on, applied>>
          BY <1>0, <3>6 DEF RunFails
        <5>2. on = "off" /\ applied = 0 /\ ~dbsrc /\ ~ingest /\ (~sess \/ pc[p] = "commit")
          BY <3>1, <3>6 DEF RunFails, HalfUp, AllOff
        <5>3. ~sess'
          BY <3>6, <5>2 DEF RunFails, SessionsBefore
        <5> QED
          BY <5>1, <5>2, <5>3
      <4>2. HalfUp("applyErr")'
        BY <2>1, <4>1 DEF HalfUp, AllOff
      <4> QED
        BY <3>2, <4>1, <4>2 DEF StartLabels
    <3> QED
      BY <1>11, <3>3, <3>4, <3>5, <3>6
  <2> QED
    BY <2>3, <2>4
<1>12. ASSUME NEW p \in Procs, Settle(p) PROVE RunInv'
  <2>1. /\ pc[p] \in Inner /\ pc[p] \in StartLabels
        /\ UNCHANGED <<lockVars, down, op, mode, on, sess, applied, dbsrc, ingest>>
    BY <1>12 DEF Settle, FinishStart, NeedsLock, Labels, StartLabels, restVars, srcVars, ctrlVars
  <2>2. HolderAt(p)
    BY <1>0, <2>1 DEF RunInv
  <2>3. CASE op[p].kind = "live"
    <3>1. pc'[p] = "applied" /\ state' = state /\ state = "Running" /\ AllOn
      BY <1>0, <1>12, <2>1, <2>2, <2>3 DEF Settle, HolderAt, ctrlVars, Known, Knows
    <3>2. Whole'
      BY <2>1, <3>1 DEF Whole, AllOn
    <3>3. HolderAt(p)'
      BY <3>1, <3>2 DEF HolderAt, Untouched, Takedown, StartLabels
    <3> QED
      BY <1>2, <2>1, <3>3
  <2>4. CASE op[p].kind # "live" /\ pc[p] = "applyOk"
    <3>1. pc'[p] = "sources" /\ state' = "Running"
      BY <1>0, <1>12, <2>4 DEF Settle, FinishStart
    <3>2. on = mode /\ sess /\ ~dbsrc /\ ~ingest /\ applied # 0
      BY <2>1, <2>2, <2>4 DEF HolderAt, HalfUp
    <3>3. HolderAt(p)'
      BY <2>1, <3>1, <3>2 DEF HolderAt, Untouched, Takedown, StartLabels
    <3> QED
      BY <1>2, <2>1, <3>3
  <2>5. CASE op[p].kind # "live" /\ pc[p] = "applyErr"
    <3>1. pc'[p] = "release" /\ state' = "Faulted"
      BY <1>0, <1>12, <2>5 DEF Settle, FinishStart
    <3>2. AllOff
      BY <2>1, <2>2, <2>5 DEF HolderAt, HalfUp
    <3>3. Whole'
      BY <2>1, <3>1, <3>2 DEF Whole, AllOff
    <3>4. HolderAt(p)'
      BY <3>1, <3>3 DEF HolderAt, Untouched, Takedown, StartLabels
    <3> QED
      BY <1>2, <2>1, <3>4
  <2> QED
    BY <1>12, <2>3, <2>4, <2>5 DEF Settle
<1>13. ASSUME NEW p \in Procs, Snapshot(p) \/ CommitCatalog(p) PROVE RunInv'
  <2>1. /\ pc[p] \in Inner /\ pc[p] \in Untouched
        /\ UNCHANGED <<lockVars, down, op, state, mode, on, sess, applied, dbsrc, ingest>>
    BY <1>13 DEF Snapshot, CommitCatalog, NeedsLock, Labels, Untouched, srcVars, ctrlVars, hubVars
  <2>2. Whole
    BY <1>0, <2>1 DEF RunInv, HolderAt
  <2>3. Whole' /\ (state = "Running" => AllOn')
    BY <2>1, <2>2 DEF Whole, AllOn, AllOff
  <2>4. \/ pc'[p] \in {"catalog", "release"}
        \/ pc'[p] = "load" /\ state = "Running" /\ op[p].kind = "live"
    BY <1>0, <1>13 DEF Snapshot, CommitCatalog, QuitInv
  <2>5. HolderAt(p)'
    BY <2>1, <2>3, <2>4 DEF HolderAt, Untouched, Takedown, StartLabels
  <2> QED
    BY <1>2, <2>1, <2>5
<1>14. ASSUME NEW p \in Procs, Drop(p) PROVE RunInv'
  BY <1>14 DEF Drop, Undisturbed
<1>15. CASE Quit \/ UNCHANGED vars
  <2>1. RunStays /\ UNCHANGED <<owner, pc, op>>
    BY <1>15 DEF RunStays, Quit, AskQuit, AnswerYes, AnswerNo, vars, ctrlVars, procVars, hubVars, srcVars, restVars, lockVars
  <2>2. owner = Free => Whole
    BY DEF RunInv
  <2>3. \A p \in Procs : owner' = p => Carries(p)
    BY <2>1 DEF Carries
  <2> QED
    BY <1>1, <2>1, <2>2, <2>3
<1>16. CASE Shutdown
  BY <1>0, <1>16 DEF Shutdown, BeginShutdown, ShutdownDbSource, ShutdownCollector, ShutdownSessions, Undisturbed
<1> QED
  BY <1>3, <1>4, <1>5, <1>6, <1>7, <1>8, <1>9, <1>10, <1>11, <1>12, <1>13, <1>14, <1>15, <1>16
     DEF Next, Step, Locking, Starting, Applying, LiveApply

(* A run is whole whenever the lock is free, and at every moment a         *)
(* collector that runs has its sessions and its mode, however starts and   *)
(* live applies fail (start_locked, stop_locked, apply_run), as long as no *)
(* handler is dropped and the process is not shutting down.                *)
THEOREM RunIsWhole ==
    ASSUME Droppable = {}, "down" \notin Exits PROVE Spec => []RunHoldsTogether
<1> Undisturbed
  BY DEF Undisturbed
<1>1. Init => RunInv
  BY ControllerAssumption DEF Init, RunInv, Whole, AllOff
<1>2. TypeOK /\ Known /\ IInv /\ RunInv /\ [Next]_vars => RunInv'
  BY StepRunInv
<1>3. TypeOK /\ Known /\ IInv /\ RunInv => RunHoldsTogether
  <2> SUFFICES ASSUME TypeOK, Known, IInv, RunInv PROVE RunHoldsTogether
    OBVIOUS
  <2>1. mode \in Modes /\ "off" \notin Modes /\ owner \in Procs \cup {Free}
    BY ControllerAssumption DEF TypeOK
  <2>2. Whole => WhileItRuns /\ (state = "Running" \/ state \in {"Stopped", "Faulted"})
    BY DEF Whole, AllOn, AllOff, WhileItRuns
  <2>3. Whole => /\ (on # "off") = (state = "Running") /\ (applied # 0) = (state = "Running")
                 /\ (sess <=> state = "Running") /\ (dbsrc <=> state = "Running") /\ (ingest <=> state = "Running")
    BY <2>1 DEF Whole, AllOn, AllOff
  <2>4. sess \in BOOLEAN /\ dbsrc \in BOOLEAN /\ ingest \in BOOLEAN
    BY DEF TypeOK
  <2>5. owner = Free => Whole
    BY DEF RunInv
  <2>6. AtRest
    BY <2>2, <2>3, <2>4, <2>5 DEF AtRest
  <2>7. ASSUME NEW p \in Procs, owner = p PROVE WhileItRuns
    <3>1. HolderAt(p) /\ Knows(p)
      BY <2>7 DEF RunInv, Known
    <3>2. pc[p] \in Untouched \cup Takedown \cup StartLabels \cup {"mark", "sources"}
      BY <2>7 DEF IInv, LockInv, TypeOK, Outside, NeedsLock, Labels, Untouched, Takedown, StartLabels
    <3>3. CASE pc[p] \in Untouched
      BY <2>2, <3>1, <3>3 DEF HolderAt
    <3>4. CASE pc[p] \in Takedown
      BY <3>1, <3>4 DEF HolderAt, HalfDown, Knows, AllOn, AllOff, WhileItRuns
    <3>5. CASE pc[p] \in StartLabels
      BY <3>1, <3>5 DEF HolderAt, HalfUp, Knows, StartLabels, AllOn, AllOff, WhileItRuns
    <3>6. CASE pc[p] \in {"mark", "sources"}
      BY <3>1, <3>6 DEF HolderAt, AllOff, WhileItRuns
    <3> QED
      BY <3>2, <3>3, <3>4, <3>5, <3>6
  <2> QED
    BY <2>1, <2>2, <2>5, <2>6, <2>7 DEF RunHoldsTogether
<1> QED
  BY <1>1, <1>2, <1>3, TypesInductive, Inductive, PTL DEF Spec

-----------------------------------------------------------------------------
(* A live apply that will read the registry when it has the lock, or has   *)
(* read its newest version.                                                *)
Coming(p) == op[p].kind = "live" /\ pc[p] \in {"raise", "waiting", "queued"}
ComingBut(p) == \E q \in Procs \ {p} : Coming(q)
LivePending == \E q \in Procs : op[q].kind = "live" /\
       (pc[q] \in {"raise", "waiting", "queued", "snapshot"} \/ (pc[q] = "catalog" /\ snap[q] = db))

(* What a live apply shows readers and collects are the same version,      *)
(* unless another one is still to come.                                    *)
Shown(p) ==
    /\ pc[p] = "catalog" => snap[p] = db \/ ComingBut(p)
    /\ op[p].kind = "live" =>
         /\ pc[p] = "load" => cat = db \/ ComingBut(p)
         /\ pc[p] \in {"sync", "commit"} => cat = snap[p] \/ ComingBut(p)
         /\ pc[p] \in {"applyOk", "applied"} => cat = applied \/ ComingBut(p)

(* As long as nothing failed both are the newest, or will be.              *)
Newest ==
    ~failed =>
      /\ cat = db \/ LivePending
      /\ \A p \in Procs :
           /\ pc[p] # "applyErr"
           /\ pc[p] \in {"sync", "commit"} => snap[p] = db \/ LivePending
           /\ pc[p] = "applyOk" => applied = db \/ LivePending
      /\ state = "Running" => \/ applied = db \/ LivePending
                              \/ \E p \in Procs : op[p].kind = "live" /\ pc[p] \in {"load", "sync", "commit"}

ShowInv == (\A p \in Procs : Shown(p)) /\ Newest

-----------------------------------------------------------------------------
(* Where Shown says something.                                             *)
Steps == {"load", "sync", "commit", "applyOk", "applyErr", "applied", "catalog"}

(* A step of p moves p and touches nobody else's request.                   *)
Changes(p, l) ==
    /\ pc' = [pc EXCEPT ![p] = l]
    /\ \A q \in Procs : q # p => op'[q] = op[q] /\ snap'[q] = snap[q]

(* A request outside the lock disturbs nobody who holds it, and what it    *)
(* changes in the registry it will show later.                             *)
LEMMA OutsideShown ==
    ASSUME TypeOK, LockHeld, ShowInv, NEW r \in Procs, NEW l, pc[r] \notin NeedsLock, Changes(r, l),
           UNCHANGED <<cat, applied, state, failed>>, l \notin Steps,
           Coming(r) => op'[r].kind = "live" /\ (l \in {"raise", "waiting", "queued"} \/ (owner = r /\ l = "snapshot")),
           db' = db \/ (op'[r].kind = "live" /\ l = "raise")
    PROVE  ShowInv'
<1>0. /\ pc \in [Procs -> Labels] /\ Steps \subseteq NeedsLock
      /\ \A p \in Procs : pc[p] \in NeedsLock => owner = p
      /\ pc'[r] = l
      /\ \A q \in Procs : q # r => pc'[q] = pc[q] /\ op'[q] = op[q] /\ snap'[q] = snap[q]
  BY DEF TypeOK, LockHeld, Changes, Steps, NeedsLock, Labels
<1>1. ASSUME NEW p \in Procs, p # r, pc[p] \in NeedsLock, ComingBut(p) \/ db' # db PROVE ComingBut(p)'
  <2>1. CASE db' # db
    <3>1. Coming(r)'
      BY <1>0, <2>1 DEF Coming
    <3> QED
      BY <1>1, <3>1 DEF ComingBut
  <2>2. CASE ComingBut(p)
    <3>1. PICK q \in Procs \ {p} : Coming(q)
      BY <2>2 DEF ComingBut
    <3>2. owner # r
      BY <1>0, <1>1
    <3>3. Coming(q)'
      BY <1>0, <3>1, <3>2 DEF Coming
    <3> QED
      BY <3>1, <3>3 DEF ComingBut
  <2> QED
    BY <1>1, <2>1, <2>2
<1>2. ASSUME NEW p \in Procs PROVE Shown(p)'
  <2>1. CASE pc'[p] \notin Steps
    BY <2>1 DEF Shown, Steps
  <2>2. CASE pc'[p] \in Steps
    <3>1. p # r /\ pc[p] \in NeedsLock /\ pc'[p] = pc[p] /\ op'[p] = op[p] /\ snap'[p] = snap[p]
      BY <1>0, <2>2
    <3>2. Shown(p) /\ (ComingBut(p) \/ db' # db => ComingBut(p)')
      BY <1>1, <3>1 DEF ShowInv
    <3> QED
      BY <3>1, <3>2 DEF Shown
  <2> QED
    BY <2>1, <2>2
<1>3. LivePending \/ db' # db => LivePending'
  <2>1. CASE db' # db
    BY <1>0, <2>1 DEF LivePending
  <2>2. CASE LivePending /\ db' = db
    <3>1. PICK q \in Procs : op[q].kind = "live" /\
            (pc[q] \in {"raise", "waiting", "queued", "snapshot"} \/ (pc[q] = "catalog" /\ snap[q] = db))
      BY <2>2 DEF LivePending
    <3>2. CASE q = r
      <4>1. Coming(r)
        BY <3>1, <3>2 DEF Coming, NeedsLock, Labels
      <4> QED
        BY <1>0, <3>2, <4>1 DEF LivePending
    <3>3. CASE q # r
      <4>1. pc'[q] = pc[q] /\ op'[q] = op[q] /\ snap'[q] = snap[q]
        BY <1>0, <3>3
      <4> QED
        BY <2>2, <3>1, <4>1 DEF LivePending
    <3> QED
      BY <3>2, <3>3
  <2> QED
    BY <2>1, <2>2
<1>4. Newest'
  <2> SUFFICES ASSUME ~failed' PROVE Newest'
    BY DEF Newest
  <2>0. ~failed
    BY DEF Newest
  <2>1. cat' = db' \/ LivePending'
    BY <1>3, <2>0 DEF ShowInv, Newest
  <2>2. ASSUME NEW p \in Procs
        PROVE  /\ pc'[p] # "applyErr"
               /\ pc'[p] \in {"sync", "commit"} => snap'[p] = db' \/ LivePending'
               /\ pc'[p] = "applyOk" => applied' = db' \/ LivePending'
    <3>1. CASE pc'[p] \notin Steps
      BY <3>1 DEF Steps
    <3>2. CASE pc'[p] \in Steps
      <4>1. pc'[p] = pc[p] /\ snap'[p] = snap[p]
        BY <1>0, <3>2
      <4> QED
        BY <1>3, <2>0, <4>1 DEF ShowInv, Newest
    <3> QED
      BY <3>1, <3>2
  <2>3. state' = "Running" => \/ applied' = db' \/ LivePending'
                              \/ \E p \in Procs : op'[p].kind = "live" /\ pc'[p] \in {"load", "sync", "commit"}
    <3>1. state = "Running" => \/ applied = db \/ LivePending
                               \/ \E p \in Procs : op[p].kind = "live" /\ pc[p] \in {"load", "sync", "commit"}
      BY <2>0 DEF ShowInv, Newest
    <3>2. ASSUME NEW p \in Procs, op[p].kind = "live", pc[p] \in {"load", "sync", "commit"}
          PROVE  op'[p].kind = "live" /\ pc'[p] \in {"load", "sync", "commit"}
      <4>1. p # r
        BY <1>0, <3>2 DEF Steps
      <4> QED
        BY <1>0, <3>2, <4>1
    <3> QED
      BY <1>3, <3>1, <3>2
  <2> QED
    BY <2>1, <2>2, <2>3 DEF Newest
<1> QED
  BY <1>2, <1>4 DEF ShowInv

(* The others have none of the lock's labels while one acts under it.      *)
LEMMA OthersOutside ==
    ASSUME TypeOK, LockHeld, NEW r \in Procs, NEW l, pc[r] \in NeedsLock, Changes(r, l), UNCHANGED <<op, db>>
    PROVE  /\ pc'[r] = l
           /\ \A q \in Procs : q # r => /\ pc'[q] = pc[q] /\ snap'[q] = snap[q]
                                        /\ pc[q] \notin Steps \cup {"snapshot"}
           /\ ComingBut(r)' <=> ComingBut(r)
           /\ (ComingBut(r) => LivePending')
           /\ (pc[r] \notin {"snapshot", "catalog"} => (LivePending => LivePending'))
<1>0. /\ pc'[r] = l
      /\ \A q \in Procs : q # r => /\ pc'[q] = pc[q] /\ snap'[q] = snap[q] /\ op'[q] = op[q]
                                   /\ pc[q] \notin Steps \cup {"snapshot"}
  BY DEF TypeOK, LockHeld, Changes, Steps, NeedsLock, Labels
<1>1. ComingBut(r)' <=> ComingBut(r)
  BY <1>0 DEF ComingBut, Coming
<1>2. ComingBut(r) => LivePending'
  BY <1>0 DEF ComingBut, Coming, LivePending
<1>3. pc[r] \notin {"snapshot", "catalog"} => (LivePending => LivePending')
  <2> SUFFICES ASSUME pc[r] \notin {"snapshot", "catalog"}, LivePending PROVE LivePending'
    OBVIOUS
  <2>1. PICK q \in Procs : op[q].kind = "live" /\
            (pc[q] \in {"raise", "waiting", "queued", "snapshot"} \/ (pc[q] = "catalog" /\ snap[q] = db))
    BY DEF LivePending
  <2>2. q # r
    BY <2>1 DEF NeedsLock, Labels
  <2>3. pc'[q] = pc[q] /\ op'[q] = op[q] /\ snap'[q] = snap[q]
    BY <1>0, <2>2
  <2> QED
    BY <2>1, <2>3 DEF LivePending
<1> QED
  BY <1>0, <1>1, <1>2, <1>3

(* What the holder of the lock does, it does for itself.                   *)
LEMMA InsideShown ==
    ASSUME TypeOK, LockHeld, ShowInv, NEW r \in Procs, NEW l, pc[r] \in NeedsLock, Changes(r, l), UNCHANGED <<op, db>>,
           Shown(r)',
           ~failed' => /\ ~failed /\ l # "applyErr"
                       /\ cat' = db \/ LivePending'
                       /\ l \in {"sync", "commit"} => snap'[r] = db \/ LivePending'
                       /\ l = "applyOk" => applied' = db \/ LivePending'
                       /\ state' = "Running" => \/ applied' = db \/ LivePending'
                                                \/ op[r].kind = "live" /\ l \in {"load", "sync", "commit"}
    PROVE  ShowInv'
<1>0. pc'[r] = l /\ \A q \in Procs : q # r => pc'[q] \notin Steps
  BY OthersOutside
<1>1. ASSUME NEW p \in Procs PROVE Shown(p)'
  <2>1. CASE p = r
    BY <2>1
  <2>2. CASE p # r
    BY <1>0, <2>2 DEF Shown, Steps
  <2> QED
    BY <2>1, <2>2
<1>2. Newest'
  <2> SUFFICES ASSUME ~failed' PROVE Newest'
    BY DEF Newest
  <2>1. ASSUME NEW p \in Procs
        PROVE  /\ pc'[p] # "applyErr"
               /\ pc'[p] \in {"sync", "commit"} => snap'[p] = db' \/ LivePending'
               /\ pc'[p] = "applyOk" => applied' = db' \/ LivePending'
    <3>1. CASE p = r
      BY <1>0, <3>1
    <3>2. CASE p # r
      BY <1>0, <3>2 DEF Steps
    <3> QED
      BY <3>1, <3>2
  <2>2. cat' = db' \/ LivePending'
    OBVIOUS
  <2>3. state' = "Running" => \/ applied' = db' \/ LivePending'
                              \/ \E p \in Procs : op'[p].kind = "live" /\ pc'[p] \in {"load", "sync", "commit"}
    BY <1>0
  <2> QED
    BY <2>1, <2>2, <2>3 DEF Newest
<1> QED
  BY <1>1, <1>2 DEF ShowInv

-----------------------------------------------------------------------------
(* Each step shows what it changes or leaves it to one still to come.      *)
LEMMA StepShowInv ==
    Droppable = {} /\ TypeOK /\ Known /\ IInv /\ ShowInv /\ [Next]_vars => ShowInv'
<1> SUFFICES ASSUME Droppable = {}, TypeOK, Known, IInv, ShowInv, [Next]_vars PROVE ShowInv'
  OBVIOUS
<1> LockInv /\ QuitInv /\ LockHeld
  BY DEF IInv, LockInv
<1> USE DEF Goto, At
<1>0. pc \in [Procs -> Labels]
  BY DEF TypeOK
<1>1. ASSUME NEW r \in Procs, Request(r) PROVE ShowInv'
  <2>1. PICK k \in Ops, m \in Modes :
          /\ op' = [op EXCEPT ![r] = [kind |-> k, mode |-> m]]
          /\ pc' = [pc EXCEPT ![r] = IF k = "live" THEN "raise" ELSE "try"]
          /\ k # "live" => db' = db
    BY <1>1 DEF Request
  <2>2. op'[r].kind = k
    BY <2>1 DEF TypeOK
  <2> DEFINE l == IF k = "live" THEN "raise" ELSE "try"
  <2>3. Changes(r, l)
    BY <1>1, <2>1 DEF Request, Changes, TypeOK
  <2>4. pc[r] = "idle" /\ UNCHANGED <<cat, applied, state, failed>>
    BY <1>1 DEF Request, ctrlVars, hubVars, restVars
  <2>5. pc[r] \notin NeedsLock /\ ~Coming(r) /\ l \notin Steps
    BY <2>4 DEF NeedsLock, Coming, Steps
  <2>6. db' = db \/ (op'[r].kind = "live" /\ l = "raise")
    BY <2>1, <2>2
  <2> HIDE DEF l
  <2> QED
    BY <2>3, <2>4, <2>5, <2>6, OutsideShown
<1>2. ASSUME NEW r \in Procs, NEW l, pc[r] \notin NeedsLock, pc' = [pc EXCEPT ![r] = l], l \notin Steps,
             UNCHANGED <<op, snap, db, cat, applied, state, failed>>,
             Coming(r) => l \in {"raise", "waiting", "queued"} \/ (owner = r /\ l = "snapshot")
      PROVE  ShowInv'
  <2>1. Changes(r, l)
    BY <1>2 DEF Changes
  <2>2. Coming(r) => op'[r].kind = "live" /\ (l \in {"raise", "waiting", "queued"} \/ (owner = r /\ l = "snapshot"))
    BY <1>2 DEF Coming
  <2> QED
    BY <1>2, <2>1, <2>2, OutsideShown
<1>3. ASSUME NEW r \in Procs, TryLock(r) \/ CheckFlag(r) \/ ReturnNoOp(r) \/ LowerFlag(r) PROVE ShowInv'
  <2>1. pc[r] \in {"try", "flag", "dropped", "lower"}
    BY <1>3 DEF TryLock, CheckFlag, ReturnNoOp, LowerFlag
  <2>2. pc[r] \notin NeedsLock /\ ~Coming(r)
    BY <2>1 DEF NeedsLock, Coming
  <2>3. \E l \in {"dispatch", "flag", "waiting", "dropped", "idle"} : pc' = [pc EXCEPT ![r] = l]
    BY <1>3 DEF TryLock, AfterRefusal, CheckFlag, MeetsAnother, ReturnNoOp, LowerFlag
  <2>4. UNCHANGED <<op, snap, db, cat, applied, state, failed>>
    BY <1>3 DEF TryLock, CheckFlag, ReturnNoOp, LowerFlag, ctrlVars, hubVars, restVars
  <2> QED
    BY <1>2, <2>2, <2>3, <2>4 DEF Steps
<1>4. ASSUME NEW r \in Procs, Wait(r) \/ RaiseFlag(r) PROVE ShowInv'
  <2>1. pc[r] \in {"waiting", "raise"}
    BY <1>4 DEF Wait, RaiseFlag
  <2>2. pc[r] \notin NeedsLock
    BY <2>1 DEF NeedsLock
  <2>3. \E l \in {"waiting", "queued"} : pc' = [pc EXCEPT ![r] = l]
    BY <1>4 DEF Wait, RaiseFlag
  <2>4. UNCHANGED <<op, snap, db, cat, applied, state, failed>>
    BY <1>4 DEF Wait, RaiseFlag, ctrlVars, hubVars, restVars
  <2> QED
    BY <1>2, <2>2, <2>3, <2>4 DEF Steps
<1>5. ASSUME NEW r \in Procs, Granted(r) PROVE ShowInv'
  <2>1. pc[r] = "queued" /\ owner = r
    BY <1>5 DEF Granted
  <2>2. pc[r] \notin NeedsLock
    BY <2>1 DEF NeedsLock
  <2>3. \/ pc' = [pc EXCEPT ![r] = "snapshot"]
        \/ pc' = [pc EXCEPT ![r] = "dispatch"] /\ ~Coming(r)
    BY <1>5 DEF Granted, Coming
  <2>4. UNCHANGED <<op, snap, db, cat, applied, state, failed>>
    BY <1>5 DEF Granted, ctrlVars, hubVars, restVars
  <2> QED
    BY <1>2, <2>1, <2>2, <2>3, <2>4 DEF Steps
<1>6. ASSUME NEW r \in Procs, NEW l, pc[r] \in NeedsLock, pc[r] \notin Steps \cup {"snapshot"},
             pc' = [pc EXCEPT ![r] = l], l \notin Steps \/ (l = "load" /\ op[r].kind # "live"),
             UNCHANGED <<op, snap, db, cat, failed>>, state' = "Running" => state = "Running" /\ applied' = applied
      PROVE  ShowInv'
  <2>1. Changes(r, l)
    BY <1>6 DEF Changes
  <2>2. /\ pc'[r] = l /\ (LivePending => LivePending')
        /\ \A q \in Procs : pc[q] \notin {"load", "sync", "commit"}
    BY <1>6, <2>1, OthersOutside DEF Steps
  <2>3. Shown(r)'
    BY <1>6, <2>2 DEF Shown, Steps
  <2>4. ~failed => (cat = db \/ LivePending) /\ (state = "Running" => applied = db \/ LivePending)
    BY <2>2 DEF ShowInv, Newest
  <2> QED
    BY <1>6, <2>1, <2>2, <2>3, <2>4, InsideShown DEF Steps
<1>7. ASSUME NEW r \in Procs, Dispatch(r) \/ Stopping(r) \/ Starting(r) PROVE ShowInv'
  <2>1. pc[r] \in {"dispatch", "mark", "sources"} \cup Takedown /\ op[r].kind # "live"
    <3>1. pc[r] \in {"dispatch", "mark", "sources"} \cup Takedown
      BY <1>7 DEF Dispatch, Stopping, DbSourceOff, CollectorOff, SessionsOff, Stopped, Starting, MarkStarting, SourcesOn, Takedown
    <3> QED
      BY <3>1 DEF Known, Knows, LifecycleOnly
  <2>2. pc[r] \in NeedsLock /\ pc[r] \notin Steps \cup {"snapshot"}
    BY <2>1 DEF NeedsLock, Labels, Steps, Takedown
  <2>3. /\ \E l \in {"mark", "dbsrcOff", "release", "collectorOff", "sessionsOff", "stopped", "load"} : pc' = [pc EXCEPT ![r] = l]
        /\ UNCHANGED <<op, snap, db, cat, failed>>
        /\ state' = "Running" => state = "Running" /\ applied' = applied
    <3>1. CASE Dispatch(r)
      BY <3>1 DEF Dispatch, ctrlVars, hubVars, restVars
    <3>2. CASE Stopping(r)
      <4>1. state = "Stopping"
        BY <3>2 DEF Stopping, DbSourceOff, CollectorOff, SessionsOff, Stopped, Known, Knows, Takedown
      <4> QED
        BY <3>2, <4>1 DEF Stopping, DbSourceOff, CollectorOff, SessionsOff, Stopped, ctrlVars, hubVars, restVars
    <3>3. CASE Starting(r)
      BY <3>3 DEF Starting, MarkStarting, SourcesOn, ctrlVars, hubVars, restVars
    <3> QED
      BY <1>7, <3>1, <3>2, <3>3
  <2> QED
    BY <1>6, <2>1, <2>2, <2>3 DEF Steps
<1>8. ASSUME NEW r \in Procs, Release(r) PROVE ShowInv'
  <2>1. pc[r] \in NeedsLock /\ pc[r] \in {"release", "applied"}
    BY <1>8 DEF Release, NeedsLock, Labels
  <2>2. PICK l \in {"lower", "idle"} : pc' = [pc EXCEPT ![r] = l]
    BY <1>8 DEF Release
  <2>3. UNCHANGED <<op, snap, db, cat, applied, state, failed>>
    BY <1>8 DEF Release, ctrlVars, hubVars, restVars
  <2>4. Changes(r, l)
    BY <2>2, <2>3 DEF Changes
  <2>5. pc'[r] = l /\ (LivePending => LivePending') /\ \A q \in Procs : pc[q] \notin {"load", "sync", "commit"}
    BY <2>1, <2>3, <2>4, OthersOutside DEF Steps
  <2>6. Shown(r)'
    BY <2>5 DEF Shown
  <2>7. ~failed => (cat = db \/ LivePending) /\ (state = "Running" => applied = db \/ LivePending)
    BY <2>5 DEF ShowInv, Newest
  <2> QED
    BY <2>1, <2>3, <2>4, <2>5, <2>6, <2>7, InsideShown
<1>9. ASSUME NEW r \in Procs, Applying(r) PROVE ShowInv'
  <2>1. pc[r] \in NeedsLock /\ pc[r] \in StartLabels /\ UNCHANGED <<op, db>>
    BY <1>9 DEF Applying, LoadRegistry, SyncSessions, CommitRun, RunFails, Settle, NeedsLock, Labels, StartLabels
  <2>2. Shown(r)
    BY DEF ShowInv
  <2>3. ~failed => /\ cat = db \/ LivePending
                   /\ pc[r] # "applyErr"
                   /\ pc[r] \in {"sync", "commit"} => snap[r] = db \/ LivePending
                   /\ pc[r] = "applyOk" => applied = db \/ LivePending
    BY DEF ShowInv, Newest
  <2>4. ASSUME NEW l, Changes(r, l)
        PROVE  /\ pc'[r] = l /\ (ComingBut(r)' <=> ComingBut(r)) /\ (LivePending => LivePending')
               /\ ~failed => (state = "Running" => \/ applied = db \/ LivePending
                                                   \/ op[r].kind = "live" /\ pc[r] \in {"load", "sync", "commit"})
    <3>1. /\ pc'[r] = l /\ (ComingBut(r)' <=> ComingBut(r)) /\ (LivePending => LivePending')
          /\ \A q \in Procs : q # r => pc[q] \notin {"load", "sync", "commit"}
      BY <2>1, <2>4, OthersOutside DEF Steps, StartLabels
    <3>2. ~failed => (state = "Running" => \/ applied = db \/ LivePending
                                           \/ \E q \in Procs : op[q].kind = "live" /\ pc[q] \in {"load", "sync", "commit"})
      BY DEF ShowInv, Newest
    <3> QED
      BY <3>1, <3>2
  <2>5. CASE LoadRegistry(r)
    <3>1. /\ pc[r] = "load" /\ Changes(r, "sync") /\ snap'[r] = db
          /\ UNCHANGED <<cat, applied, state, failed>>
      BY <2>5 DEF LoadRegistry, Changes, TypeOK, ctrlVars, hubVars, restVars
    <3>2. Shown(r)'
      BY <2>1, <2>2, <2>4, <3>1 DEF Shown
    <3> QED
      BY <2>1, <2>3, <2>4, <3>1, <3>2, InsideShown
  <2>6. CASE SyncSessions(r)
    <3>1. /\ pc[r] = "sync" /\ Changes(r, "commit")
          /\ UNCHANGED <<snap, cat, applied, state, failed>>
      BY <2>6 DEF SyncSessions, Changes, ctrlVars, restVars
    <3>2. Shown(r)'
      BY <2>1, <2>2, <2>4, <3>1 DEF Shown
    <3> QED
      BY <2>1, <2>3, <2>4, <3>1, <3>2, InsideShown
  <2>7. CASE CommitRun(r)
    <3>1. /\ pc[r] = "commit" /\ Changes(r, "applyOk") /\ applied' = snap[r]
          /\ UNCHANGED <<snap, cat, state, failed>>
      BY <2>7 DEF CommitRun, Changes, ctrlVars, restVars
    <3>2. Shown(r)'
      BY <2>1, <2>2, <2>4, <3>1 DEF Shown
    <3> QED
      BY <2>1, <2>3, <2>4, <3>1, <3>2, InsideShown
  <2>8. CASE RunFails(r)
    <3>1. Changes(r, "applyErr") /\ failed'
      BY <2>8 DEF RunFails, Changes
    <3>2. Shown(r)'
      BY <2>4, <3>1 DEF Shown
    <3> QED
      BY <2>1, <3>1, <3>2, InsideShown
  <2>9. CASE Settle(r)
    <3>1. pc[r] \in {"applyOk", "applyErr"} /\ UNCHANGED <<snap, applied, failed>>
      BY <2>9 DEF Settle, restVars
    <3>2. CASE op[r].kind = "live"
      <4>1. Changes(r, "applied") /\ cat' = (IF pc[r] = "applyErr" THEN applied ELSE cat) /\ state' = state
        BY <2>9, <3>2 DEF Settle, CatalogBefore, Changes, ctrlVars
      <4>2. Shown(r)'
        BY <2>1, <2>2, <2>4, <3>1, <3>2, <4>1 DEF Shown
      <4> QED
        BY <2>1, <2>3, <2>4, <3>1, <4>1, <4>2, InsideShown
    <3>3. CASE op[r].kind # "live"
      <4>1. PICK l \in {"sources", "release"} : Changes(r, l) /\ cat' = cat
        BY <2>9, <3>3 DEF Settle, FinishStart, Changes
      <4>2. Shown(r)'
        BY <2>1, <2>4, <3>3, <4>1 DEF Shown
      <4> QED
        BY <2>1, <2>3, <2>4, <3>1, <4>1, <4>2, InsideShown
    <3> QED
      BY <3>2, <3>3
  <2> QED
    BY <1>9, <2>5, <2>6, <2>7, <2>8, <2>9 DEF Applying
<1>10. ASSUME NEW r \in Procs, Snapshot(r) PROVE ShowInv'
  <2>1. pc[r] \in NeedsLock /\ pc[r] = "snapshot" /\ op[r].kind = "live" /\ UNCHANGED <<op, db>>
    BY <1>10 DEF Snapshot, NeedsLock, Labels, QuitInv
  <2>2. CASE failed'
    <3>1. PICK l \in {"catalog", "release"} : Changes(r, l) /\ (l = "catalog" => snap'[r] = db)
      BY <1>10, <2>2 DEF Snapshot, RegistryNow, Changes, TypeOK
    <3>2. pc'[r] = l
      BY <2>1, <3>1, OthersOutside
    <3>3. Shown(r)'
      BY <2>1, <3>1, <3>2 DEF Shown
    <3> QED
      BY <2>1, <2>2, <3>1, <3>3, InsideShown
  <2>3. CASE ~failed'
    <3>1. Changes(r, "catalog") /\ snap'[r] = db /\ UNCHANGED <<cat, applied, state, failed>>
      BY <1>10, <2>3 DEF Snapshot, RegistryNow, Changes, TypeOK, ctrlVars, hubVars
    <3>2. pc'[r] = "catalog" /\ \A q \in Procs : q # r => pc[q] \notin {"load", "sync", "commit"}
      BY <2>1, <3>1, OthersOutside DEF Steps
    <3>3. Shown(r)'
      BY <2>1, <3>1, <3>2 DEF Shown
    <3>4. LivePending'
      BY <2>1, <3>1, <3>2 DEF LivePending
    <3> QED
      BY <2>1, <2>3, <3>1, <3>3, <3>4, InsideShown
  <2> QED
    BY <2>2, <2>3
<1>11. ASSUME NEW r \in Procs, CommitCatalog(r) PROVE ShowInv'
  <2>1. pc[r] \in NeedsLock /\ pc[r] = "catalog" /\ op[r].kind = "live" /\ UNCHANGED <<op, db, snap, state, applied>>
    BY <1>11 DEF CommitCatalog, NeedsLock, Labels, QuitInv, ctrlVars
  <2>2. Shown(r)
    BY DEF ShowInv
  <2>3. CASE pc' = [pc EXCEPT ![r] = "release"] /\ failed'
    <3>1. Changes(r, "release")
      BY <2>1, <2>3 DEF Changes
    <3>2. Shown(r)'
      BY <2>1, <3>1, OthersOutside DEF Shown
    <3> QED
      BY <2>1, <2>3, <3>1, <3>2, InsideShown
  <2>4. CASE cat' = snap[r] /\ pc' = [pc EXCEPT ![r] = IF state = "Running" THEN "load" ELSE "release"] /\ failed' = failed
    <3> DEFINE l == IF state = "Running" THEN "load" ELSE "release"
    <3>1. Changes(r, l)
      BY <2>1, <2>4 DEF Changes
    <3>2. pc'[r] = l /\ (ComingBut(r)' <=> ComingBut(r)) /\ (ComingBut(r) => LivePending')
      BY <2>1, <3>1, OthersOutside
    <3>3. cat' = db \/ ComingBut(r)
      BY <2>1, <2>2, <2>4 DEF Shown
    <3>4. Shown(r)'
      BY <2>1, <3>2, <3>3 DEF Shown
    <3>5. l \in {"load", "release"} /\ (state' = "Running" => l = "load")
      BY <2>1
    <3> HIDE DEF l
    <3> QED
      BY <2>1, <2>4, <3>1, <3>2, <3>3, <3>4, <3>5, InsideShown
  <2> QED
    BY <1>11, <2>3, <2>4 DEF CommitCatalog
<1>12. ASSUME NEW r \in Procs, Drop(r) PROVE ShowInv'
  BY <1>12 DEF Drop
<1>13. CASE Quit \/ Shutdown \/ UNCHANGED vars
  <2>1. UNCHANGED <<pc, op, snap, db, cat, applied, state, failed>>
    BY <1>13 DEF Quit, AskQuit, AnswerYes, AnswerNo, Shutdown, BeginShutdown, ShutdownDbSource, ShutdownCollector,
                 ShutdownSessions, vars, ctrlVars, procVars, hubVars, restVars
  <2>2. (LivePending' <=> LivePending) /\ \A p \in Procs : Shown(p)' <=> Shown(p)
    BY <2>1 DEF LivePending, Shown, ComingBut, Coming
  <2> QED
    BY <2>1, <2>2 DEF ShowInv, Newest
<1> QED
  BY <1>1, <1>3, <1>4, <1>5, <1>7, <1>8, <1>9, <1>10, <1>11, <1>12, <1>13
     DEF Next, Step, Locking, LiveApply

(* After a live apply readers and the collector have one configuration,    *)
(* and, if nothing fails, in the end the newest one, however changes and   *)
(* starts interleave (commit_catalog_and_apply_live), as long as no        *)
(* handler is dropped.                                                     *)
THEOREM OneConfiguration ==
    ASSUME Droppable = {} PROVE Spec => []Reflected
<1>1. Init => ShowInv
  BY DEF Init, ShowInv, Shown, Newest
<1>2. TypeOK /\ Known /\ IInv /\ ShowInv /\ [Next]_vars => ShowInv'
  BY StepShowInv
<1>3. TypeOK /\ Known /\ IInv /\ ShowInv => Reflected
  <2> SUFFICES ASSUME TypeOK, Known, IInv, ShowInv PROVE Reflected
    OBVIOUS
  <2>1. LiveAppliesWhole
    <3> SUFFICES ASSUME NEW p \in Procs, pc[p] = "applied"
                 PROVE  cat = applied \/ \E q \in Procs \ {p} : op[q].kind = "live" /\ pc[q] # "idle"
      BY DEF LiveAppliesWhole
    <3>1. cat = applied \/ ComingBut(p)
      BY DEF ShowInv, Shown, Known, Knows
    <3> QED
      BY <3>1 DEF ComingBut, Coming
  <2>2. NothingOvertaken
    BY DEF NothingOvertaken, ShowInv, Newest, LivePending
  <2> QED
    BY <2>1, <2>2 DEF Reflected
<1> QED
  BY <1>1, <1>2, <1>3, TypesInductive, Inductive, PTL DEF Spec
=============================================================================
