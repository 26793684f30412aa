-------------------------- MODULE WriteControlProofs --------------------------
(***************************************************************************)
(* Theorems about WriteControl for any number of operations at once and in *)
(* one life of the process, with failing files, databases that fail or     *)
(* never answer, crashes anywhere and futures dropped at any await.        *)
(*                                                                         *)
(* None of its properties is inductive: whether a late write of the        *)
(* database can undo what was reported depends on who still waits for it.  *)
(* IInv says who that is (StopWrites, ResumeWrites, Handover), and that    *)
(* the state file bars a restart whenever a resume's write may still land  *)
(* (FileTells).                                                            *)
(***************************************************************************)
EXTENDS WriteControl, SequencesExt, SequenceTheorems, FiniteSetTheorems, TLAPS

(* An element joins at the end; the first one is taken.                    *)
LEMMA JoinAndTake ==
  ASSUME NEW S, NEW q \in Seq(S)
  PROVE  /\ \A x \in S : Append(q, x) \in Seq(S)
         /\ q # <<>> => q[1] \in S /\ SubSeq(q, 2, Len(q)) \in Seq(S)
<1>1. \A x \in S : Append(q, x) \in Seq(S)
  OBVIOUS
<1>2. q # <<>> => q[1] \in S /\ SubSeq(q, 2, Len(q)) \in Seq(S)
  OBVIOUS
<1> QED
  BY <1>1, <1>2

(* One element is removed, the others keep their order.                    *)
LEMMA RemoveOne ==
  ASSUME NEW S, NEW q \in Seq(S), NEW k \in 1..Len(q)
  PROVE  /\ RemoveAt(q, k) \in Seq(S) /\ Len(RemoveAt(q, k)) = Len(q) - 1
         /\ \A j \in 1..Len(q) - 1 : RemoveAt(q, k)[j] = IF j < k THEN q[j] ELSE q[j + 1]
<1> DEFINE L == SubSeq(q, 1, k - 1)
           R == SubSeq(q, k + 1, Len(q))
<1>1. /\ L \in Seq(S) /\ Len(L) = k - 1
      /\ \A j \in 1..k - 1 : L[j] = q[j]
  OBVIOUS
<1>2. /\ R \in Seq(S) /\ Len(R) = Len(q) - k
      /\ \A j \in 1..Len(q) - k : R[j] = q[j + k]
  OBVIOUS
<1>3. RemoveAt(q, k) = L \o R
  BY DEF RemoveAt
<1> HIDE DEF L, R
<1>4. /\ L \o R \in Seq(S) /\ Len(L \o R) = Len(L) + Len(R)
      /\ \A j \in 1..Len(L) + Len(R) : (L \o R)[j] = IF j <= Len(L) THEN L[j] ELSE R[j - Len(L)]
  BY <1>1, <1>2, ConcatProperties
<1>5. ASSUME NEW j \in 1..Len(q) - 1 PROVE (L \o R)[j] = IF j < k THEN q[j] ELSE q[j + 1]
  <2>1. Len(L) + Len(R) = Len(q) - 1 /\ (j < k <=> j <= Len(L))
    BY <1>1, <1>2
  <2>2. CASE j < k
    BY <1>1, <1>4, <2>1, <2>2
  <2>3. CASE ~(j < k)
    <3>1. j - Len(L) \in 1..Len(q) - k /\ (j - Len(L)) + k = j + 1
      BY <1>1, <2>3
    <3>2. (L \o R)[j] = R[j - Len(L)]
      BY <1>4, <2>1, <2>3
    <3> QED
      BY <1>2, <2>3, <3>1, <3>2
  <2> QED
    BY <2>2, <2>3
<1> QED
  BY <1>1, <1>2, <1>3, <1>4, <1>5

(* Stops that are counted in lined, stops that have to lower the flag once *)
(* more, and operations that may still record an outcome.                  *)
Lined     == {p \in Procs : kind[p] = "stop" /\ pc[p] \in {"lock", "queued", "lowered"}}
Unlowered == {p \in Procs : kind[p] = "stop" /\ pc[p] \in {"lock", "queued"}}
Active    == {p \in Procs : pc[p] # "idle"}

Counts ==
    /\ lined = Cardinality(Lined)
    /\ gen + Cardinality(Unlowered) <= 2 * nOps
    /\ slot.seq + Cardinality(Active) <= nOps

(* Everybody past op_lock holds it, in the steps of his kind.              *)
StopSteps == {"lowered", "file", "saving"}
Holds ==
    \A p \in Procs :
      /\ pc[p] \in StopSteps => owner = p /\ kind[p] = "stop"
      /\ pc[p] \in Saving => owner = p /\ kind[p] = "resume"

(* Operations have numbers of their own; a number's write is there once    *)
(* the operation has spawned it.                                           *)
OwnNumbers ==
    /\ \A p \in Procs : pc[p] # "idle" => num[p] \in 1..nOps
    /\ \A p, q \in Procs : pc[p] # "idle" /\ pc[q] # "idle" /\ num[p] = num[q] => p = q
    /\ \A n \in Ids : n > nOps => writes[n].st = "none"
OwnWrites ==
    \A p \in Procs :
      /\ pc[p] \in {"lock", "queued", "lowered", "file", "pend", "check"} => writes[num[p]].st = "none"
      /\ pc[p] = "saving" => writes[num[p]].val = "Disabled"
      /\ pc[p] \in {"confirm", "raise"} => writes[num[p]].st = "ok"

(* A stop's write that runs is waited for, by the stop or by every later   *)
(* resume; a resume's is waited for by the resume, the stop that           *)
(* interrupted it, or that stop's own write.                               *)
Runs(n, val) == writes[n].st = "running" /\ writes[n].val = val
StopWrites ==
    \A n \in Ids : Runs(n, "Disabled") =>
        n \in lagStop \/ \E p \in Procs : pc[p] = "saving" /\ num[p] = n
ResumeWrites ==
    \A m \in Ids : Runs(m, "Enabled") =>
        \/ m \in lagResume
        \/ \E p \in Procs : pc[p] = "storing" /\ num[p] = m
        \/ \E n \in Ids : Runs(n, "Disabled") /\ m \in writes[n].after

(* The flag is down while a stop saves, and up only once no write can take *)
(* the database back.                                                      *)
Lowered ==
    /\ \A p \in Procs : pc[p] \in StopSteps => ~live
    /\ live => \A n \in Ids : ~Runs(n, "Disabled")
    /\ \A p \in Procs : pc[p] = "raise" => ~stopSaved
StoredEnabled ==
    \A p \in Procs :
      \/ pc[p] \in {"confirm", "raise"}
      \/ pc[p] = "storing" /\ writes[num[p]].st = "ok"
      => db = "Enabled"

(* What holds as long as no future is dropped: an interrupted resume's     *)
(* write is left to a stop still on its way, the state file is what the    *)
(* operation that holds the lock has written, and it says "pending" or     *)
(* "disabled" whenever a resume's write may still land.                    *)
Handover ==
    /\ lagResume # {} => \E s \in Procs : kind[s] = "stop" /\ pc[s] \in {"lock", "queued", "lowered", "file"}
    /\ \A p \in Procs : pc[p] \in Saving =>
         /\ lagResume = {}
         /\ gen # started[p] => Unlowered # {}
Barred == file \in {"Pending", "Disabled"}
FileTells ==
    /\ orphans = {}
    /\ \A p \in Procs :
         /\ pc[p] \in {"check", "storing", "confirm"} => file = "Pending"
         /\ pc[p] = "raise" => file = "Enabled"
         /\ pc[p] = "saving" /\ fileOk[p] => file = "Disabled"
         /\ pc[p] = "saving" /\ writes[num[p]].st = "ok" => ~Boots
    /\ \A n \in Ids : Runs(n, "Enabled") => Barred

(* What keeps a missing warning honest: a stop lowers the flag of whoever  *)
(* is being resumed; the follower of a late write still holds up resumes,  *)
(* and the file says what it will report; without a warning the state file *)
(* and the flag agree, or an operation that will see to it is under way.   *)
Overtaken == \A p \in Procs : pc[p] \in Saving /\ StoppedSince(p) => ~live
Followed ==
    \A n \in Ids : writes[n].follow =>
      /\ n \in lagStop /\ ~live
      /\ \A p \in Procs : pc[p] \notin Saving
      /\ writes[n].file => file = "Disabled"
Midway(p) == pc[p] \in {"check", "storing", "confirm"}
Deciding(p) == pc[p] = "raise" \/ (kind[p] = "stop" /\ pc[p] # "idle")
Warned ==
    /\ live /\ ~slot.warn => FileAllows \/ \E p \in Procs : Midway(p)
    /\ ~live /\ ~slot.warn /\ Boots => \E p \in Procs : Deciding(p)

Undropped ==
    detached =>
      /\ Handover /\ FileTells /\ Overtaken /\ Followed /\ Warned
      /\ stopSaved => ~live /\ ~Boots
      /\ live => db = "Enabled" /\ file # "Disabled"

IInv ==
    /\ TypeOK /\ Counts /\ Holds /\ OwnNumbers /\ OwnWrites /\ StopWrites /\ ResumeWrites
    /\ Lowered /\ StoredEnabled /\ ResumeSavesAlone /\ Undropped

-----------------------------------------------------------------------------
(* Counting.                                                               *)

LEMMA CountOne ==
    ASSUME NEW S \in SUBSET Procs, NEW p \in Procs
    PROVE  /\ Cardinality(S) \in Nat /\ Cardinality(S) <= Cardinality(Procs)
           /\ Cardinality(S \cup {p}) = IF p \in S THEN Cardinality(S) ELSE Cardinality(S) + 1
           /\ Cardinality(S \ {p}) = IF p \in S THEN Cardinality(S) - 1 ELSE Cardinality(S)
           /\ p \in S => Cardinality(S) > 0
<1>0. IsFiniteSet(S) /\ Cardinality(S) <= Cardinality(Procs)
  BY WriteControlAssumption, FS_Subset
<1>1. Cardinality(S) \in Nat
  BY <1>0, FS_CardinalityType
<1>2. Cardinality(S \cup {p}) = IF p \in S THEN Cardinality(S) ELSE Cardinality(S) + 1
  BY <1>0, FS_AddElement
<1>3. Cardinality(S \ {p}) = IF p \in S THEN Cardinality(S) - 1 ELSE Cardinality(S)
  BY <1>0, FS_RemoveElement
<1>4. ASSUME p \in S PROVE Cardinality(S) > 0
  <2>1. Cardinality(S) # 0
    BY <1>0, <1>4, FS_EmptySet
  <2> QED
    BY <1>1, <2>1
<1> QED
  BY <1>0, <1>1, <1>2, <1>3, <1>4

LEMMA NoneCounted == Cardinality({}) = 0 /\ Cardinality(Procs) \in Nat
BY FS_EmptySet, FS_CardinalityType, WriteControlAssumption

LEMMA Subsets == Lined \in SUBSET Procs /\ Unlowered \in SUBSET Procs /\ Active \in SUBSET Procs
BY DEF Lined, Unlowered, Active

(* An operation ends: at most it counted once in each.                     *)
LEMMA EndCounts ==
    ASSUME TypeOK, NEW p \in Procs, End(p), pc[p] # "idle"
    PROVE  Lined' = Lined \ {p} /\ Unlowered' = Unlowered \ {p} /\ Active' = Active \ {p}
<1>1. pc' = [pc EXCEPT ![p] = "idle"] /\ kind' = [kind EXCEPT ![p] = "stop"]
  BY DEF End, Goto
<1>2. pc \in [Procs -> Steps] /\ kind \in [Procs -> {"stop", "resume"}]
  BY DEF TypeOK
<1> QED
  BY <1>1, <1>2 DEF Lined, Unlowered, Active

(* It goes on, and counts where it does then.                              *)
LEMMA GotoCounts ==
    ASSUME TypeOK, NEW p \in Procs, NEW l \in Steps \ {"idle"}, Goto(p, l), pc[p] # "idle", kind' = kind
    PROVE  /\ Active' = Active
           /\ Lined' = IF kind[p] = "stop" /\ l \in {"lock", "queued", "lowered"}
                         THEN Lined \cup {p} ELSE Lined \ {p}
           /\ Unlowered' = IF kind[p] = "stop" /\ l \in {"lock", "queued"}
                             THEN Unlowered \cup {p} ELSE Unlowered \ {p}
<1>1. pc' = [pc EXCEPT ![p] = l]
  BY DEF Goto
<1>2. pc \in [Procs -> Steps] /\ kind \in [Procs -> {"stop", "resume"}]
  BY DEF TypeOK
<1> QED
  BY <1>1, <1>2 DEF Lined, Unlowered, Active

(* What the counted variables are.                                         *)
LEMMA Numbers ==
    ASSUME TypeOK
    PROVE  /\ gen \in Nat /\ lined \in Nat /\ nOps \in Nat /\ slot.seq \in Nat
           /\ nOps <= MaxOps /\ slot.warn \in BOOLEAN
BY WriteControlAssumption, NoneCounted DEF TypeOK

LEMMA EndKeepsCounts ==
    ASSUME TypeOK, Counts, NEW p \in Procs, End(p), pc[p] # "idle", gen' = gen,
           p \in Lined => lined' = IF lined = 0 THEN 0 ELSE lined - 1,
           p \notin Lined => lined' = lined,
           slot' = slot \/ \E w \in BOOLEAN : Record(w)
    PROVE  Counts'
<1>1. /\ Lined' = Lined \ {p} /\ Unlowered' = Unlowered \ {p} /\ Active' = Active \ {p}
      /\ p \in Active /\ nOps' = nOps
  BY EndCounts DEF Active, End
<1>2. slot'.seq \in {slot.seq, slot.seq + 1}
  BY DEF Record
<1>3. \A S \in SUBSET Procs :
        /\ Cardinality(S) \in Nat
        /\ Cardinality(S \ {p}) = IF p \in S THEN Cardinality(S) - 1 ELSE Cardinality(S)
        /\ p \in S => Cardinality(S) > 0
  BY CountOne
<1>4. lined' = Cardinality(Lined \ {p})
  BY <1>3, Subsets, Numbers DEF Counts
<1>5. gen + Cardinality(Unlowered \ {p}) <= 2 * nOps
  BY <1>3, Subsets, Numbers DEF Counts
<1>6. slot'.seq + Cardinality(Active \ {p}) <= nOps
  BY <1>1, <1>2, <1>3, Subsets, Numbers DEF Counts
<1> QED
  BY <1>1, <1>4, <1>5, <1>6 DEF Counts

LEMMA GotoKeepsCounts ==
    ASSUME TypeOK, Counts, NEW p \in Procs, NEW l \in Steps \ {"idle"}, Goto(p, l), pc[p] # "idle",
           kind' = kind, nOps' = nOps, slot' = slot,
           \/ /\ gen' = gen /\ lined' = lined
              /\ pc[p] \in {"lock", "queued"} <=> l \in {"lock", "queued"}
              /\ pc[p] # "lowered" /\ l # "lowered"
           \/ /\ kind[p] = "resume" /\ gen' = gen /\ lined' = lined
           \/ /\ kind[p] = "stop" /\ pc[p] = "queued" /\ l = "lowered"
              /\ gen' = gen + 1 /\ lined' = lined
           \/ /\ kind[p] = "stop" /\ pc[p] = "lowered" /\ l = "file"
              /\ gen' = gen /\ lined' = IF lined = 0 THEN 0 ELSE lined - 1
    PROVE  Counts'
<1>0. /\ Active' = Active
      /\ Lined' = IF kind[p] = "stop" /\ l \in {"lock", "queued", "lowered"}
                    THEN Lined \cup {p} ELSE Lined \ {p}
      /\ Unlowered' = IF kind[p] = "stop" /\ l \in {"lock", "queued"}
                        THEN Unlowered \cup {p} ELSE Unlowered \ {p}
      /\ slot'.seq = slot.seq
  BY GotoCounts
<1>1. \A S \in SUBSET Procs :
        /\ Cardinality(S) \in Nat
        /\ Cardinality(S \ {p}) = IF p \in S THEN Cardinality(S) - 1 ELSE Cardinality(S)
        /\ Cardinality(S \cup {p}) = IF p \in S THEN Cardinality(S) ELSE Cardinality(S) + 1
        /\ p \in S => Cardinality(S) > 0
  BY CountOne
<1>2. /\ p \in Lined <=> kind[p] = "stop" /\ pc[p] \in {"lock", "queued", "lowered"}
      /\ p \in Unlowered <=> kind[p] = "stop" /\ pc[p] \in {"lock", "queued"}
      /\ kind[p] \in {"stop", "resume"}
  BY DEF Lined, Unlowered, TypeOK
<1>3. lined' = Cardinality(Lined')
  <2>1. /\ Cardinality(Lined) \in Nat /\ (p \in Lined => Cardinality(Lined) > 0)
        /\ Cardinality(Lined \ {p}) = IF p \in Lined THEN Cardinality(Lined) - 1 ELSE Cardinality(Lined)
        /\ Cardinality(Lined \cup {p}) = IF p \in Lined THEN Cardinality(Lined) ELSE Cardinality(Lined) + 1
        /\ lined = Cardinality(Lined)
    BY <1>1, Subsets DEF Counts
  <2> QED
    BY <1>0, <1>2, <2>1
<1>4. gen' + Cardinality(Unlowered') <= 2 * nOps
  <2>1. /\ Cardinality(Unlowered) \in Nat
        /\ Cardinality(Unlowered \ {p})
             = IF p \in Unlowered THEN Cardinality(Unlowered) - 1 ELSE Cardinality(Unlowered)
        /\ Cardinality(Unlowered \cup {p})
             = IF p \in Unlowered THEN Cardinality(Unlowered) ELSE Cardinality(Unlowered) + 1
        /\ gen + Cardinality(Unlowered) <= 2 * nOps /\ gen \in Nat /\ nOps \in Nat
    BY <1>1, Subsets, Numbers DEF Counts
  <2> DEFINE u == Cardinality(Unlowered)
             v == Cardinality(Unlowered')
  <2>2. gen' + v \in Nat /\ gen' + v <= gen + u
    <3>1. CASE gen' = gen
      <4>1. v \in Nat /\ v <= u
        BY <1>0, <1>2, <2>1, <3>1
      <4> QED
        BY <2>1, <3>1, <4>1
    <3>2. CASE gen' # gen
      <4>1. gen' = gen + 1 /\ v = u - 1 /\ u > 0
        BY <1>0, <1>1, <1>2, <2>1, <3>2, Subsets
      <4> QED
        BY <2>1, <4>1
    <3> QED
      BY <3>1, <3>2
  <2> HIDE DEF u, v
  <2> QED
    BY <2>1, <2>2 DEF u, v
<1> QED
  BY <1>0, <1>3, <1>4 DEF Counts

LEMMA BeginCounts ==
    ASSUME TypeOK, Counts, NEW p \in Procs, NEW k \in {"stop", "resume"}, Begin(p, k)
    PROVE  Counts'
<1>1. /\ pc' = [pc EXCEPT ![p] = "lock"] /\ kind' = [kind EXCEPT ![p] = k]
      /\ pc[p] = "idle" /\ nOps' = nOps + 1 /\ slot' = slot
      /\ k = "stop" => gen' = gen + 1 /\ lined' = lined + 1
      /\ k = "resume" => gen' = gen /\ lined' = lined
  BY DEF Begin, Goto, Lower, flagVars
<1>2. /\ Active' = Active \cup {p} /\ p \notin Active
      /\ Lined' = IF k = "stop" THEN Lined \cup {p} ELSE Lined
      /\ Unlowered' = IF k = "stop" THEN Unlowered \cup {p} ELSE Unlowered
      /\ p \notin Lined /\ p \notin Unlowered
  BY <1>1 DEF TypeOK, Active, Lined, Unlowered
<1>3. \A S \in SUBSET Procs :
        /\ Cardinality(S) \in Nat
        /\ Cardinality(S \cup {p}) = IF p \in S THEN Cardinality(S) ELSE Cardinality(S) + 1
  BY CountOne
<1>4. lined' = Cardinality(Lined')
  BY <1>1, <1>2, <1>3, Subsets DEF Counts
<1>5. gen' + Cardinality(Unlowered') <= 2 * nOps'
  <2>1. /\ Cardinality(Unlowered) \in Nat /\ gen \in Nat /\ nOps \in Nat
        /\ gen + Cardinality(Unlowered) <= 2 * nOps
        /\ Cardinality(Unlowered \cup {p}) = Cardinality(Unlowered) + 1
    BY <1>2, <1>3, Subsets, Numbers DEF Counts
  <2>2. CASE k = "stop"
    BY <1>1, <1>2, <2>1, <2>2
  <2>3. CASE k = "resume"
    BY <1>1, <1>2, <2>1, <2>3
  <2> QED
    BY <2>2, <2>3
<1>6. slot'.seq + Cardinality(Active') <= nOps'
  BY <1>1, <1>2, <1>3, Subsets, Numbers DEF Counts
<1> QED
  BY <1>4, <1>5, <1>6 DEF Counts

(* The steps by what they do to the counts.                                *)
LEMMA StoppingCounts ==
    ASSUME TypeOK, Counts, NEW p \in Procs, Lock(p) \/ Stopping(p)
    PROVE  Counts'
<1>1. CASE Lock(p)
  <2>1. Goto(p, "queued") /\ pc[p] = "lock" /\ UNCHANGED <<kind, nOps, slot, gen, lined>>
    BY <1>1 DEF Lock, flagVars
  <2> QED
    BY <2>1, GotoKeepsCounts DEF Steps
<1>2. CASE Relower(p)
  <2>1. /\ Goto(p, "lowered") /\ pc[p] = "queued" /\ kind[p] = "stop" /\ gen' = gen + 1
        /\ UNCHANGED <<kind, nOps, slot, lined>>
    BY <1>2 DEF Relower, Lower, At
  <2> QED
    BY <2>1, GotoKeepsCounts DEF Steps
<1>3. CASE GotLock(p)
  <2>1. /\ Goto(p, "file") /\ pc[p] = "lowered" /\ kind[p] = "stop"
        /\ lined' = IF lined = 0 THEN 0 ELSE lined - 1
        /\ UNCHANGED <<kind, nOps, slot, gen>>
    BY <1>3 DEF GotLock, LeaveLine, At
  <2> QED
    BY <2>1, GotoKeepsCounts DEF Steps
<1>4. CASE SaveStop(p)
  <2>1. Goto(p, "saving") /\ pc[p] = "file" /\ UNCHANGED <<kind, nOps, slot, gen, lined>>
    BY <1>4 DEF SaveStop, At, flagVars
  <2> QED
    BY <2>1, GotoKeepsCounts DEF Steps
<1>5. CASE StopDone(p) \/ StopTimesOut(p)
  <2>1. /\ End(p) /\ pc[p] = "saving" /\ UNCHANGED <<gen, lined>>
        /\ \E w \in BOOLEAN : Record(w)
    BY <1>5 DEF StopDone, StopTimesOut, StopEnds, At, Return, flagVars, FullyPersisted
  <2>2. p \notin Lined
    BY <2>1 DEF Lined
  <2> QED
    BY <2>1, <2>2, EndKeepsCounts
<1> QED
  BY <1>1, <1>2, <1>3, <1>4, <1>5 DEF Stopping

ResumeGoes(p) ==
    \E l \in Saving : Goto(p, l) /\ UNCHANGED <<lockVars, kind, num, started, fileOk, nOps, slot>>
ResumeEnds(p) == Return(p) /\ (slot' = slot \/ \E w \in BOOLEAN : Record(w))

LEMMA ResumingCases ==
    ASSUME NEW p \in Procs, Resuming(p)
    PROVE  /\ kind[p] = "resume" /\ pc[p] \in Saving \cup {"queued"}
           /\ ResumeGoes(p) \/ ResumeEnds(p)
           /\ UNCHANGED <<gen, lined, orphans, detached>>
<1> USE DEF At, Interrupted, Fails, ResumeEnds, ResumeGoes, flagVars, dbVars, diskVars, histVars, Saving
<1>1. CASE WaitLag(p)
  BY <1>1 DEF WaitLag
<1>2. CASE WritePending(p)
  BY <1>2 DEF WritePending
<1>3. CASE StoreEnabled(p)
  BY <1>3 DEF StoreEnabled
<1>4. CASE AbandonStore(p)
  BY <1>4 DEF AbandonStore
<1>5. CASE Stored(p)
  BY <1>5 DEF Stored
<1>6. CASE Confirm(p)
  BY <1>6 DEF Confirm
<1>7. CASE Raise(p)
  BY <1>7 DEF Raise
<1> QED
  BY <1>1, <1>2, <1>3, <1>4, <1>5, <1>6, <1>7 DEF Resuming

LEMMA ResumingCounts ==
    ASSUME TypeOK, Counts, NEW p \in Procs, Resuming(p)
    PROVE  Counts'
<1>1. /\ kind[p] = "resume" /\ pc[p] # "idle"
      /\ UNCHANGED <<gen, lined>>
  BY ResumingCases DEF Saving
<1>2. CASE ResumeGoes(p)
  <2>1. PICK l \in Saving : Goto(p, l) /\ UNCHANGED <<kind, nOps, slot>>
    BY <1>2 DEF ResumeGoes
  <2>2. l \in Steps \ {"idle"}
    BY DEF Saving, Steps
  <2> QED
    BY <1>1, <2>1, <2>2, GotoKeepsCounts
<1>3. CASE ResumeEnds(p)
  <2>1. p \notin Lined
    BY <1>1 DEF Lined
  <2> QED
    BY <1>1, <1>3, <2>1, EndKeepsCounts DEF ResumeEnds, Return
<1> QED
  BY <1>2, <1>3, ResumingCases

LEMMA DropCounts ==
    ASSUME TypeOK, Counts, NEW p \in Procs, Drop(p)
    PROVE  Counts'
<1>1. /\ End(p) /\ slot' = slot /\ gen' = gen /\ pc[p] # "idle" /\ pc[p] \notin {"lock", "lowered"}
      /\ IF At(p, "stop", "queued") THEN LeaveLine ELSE lined' = lined
  BY DEF Drop
<1>2. p \in Lined <=> At(p, "stop", "queued")
  BY <1>1 DEF Lined, At
<1> QED
  BY <1>1, <1>2, EndKeepsCounts DEF LeaveLine

LEMMA StepCounts == TypeOK /\ Counts /\ [Next]_vars => Counts'
<1> SUFFICES ASSUME TypeOK, Counts, [Next]_vars PROVE Counts'
  OBVIOUS
<1>1. ASSUME NEW p \in Procs, Step(p) PROVE Counts'
  BY <1>1, StoppingCounts, ResumingCounts DEF Step
<1>2. ASSUME NEW n \in Ids, Land(n) \/ Follow(n) PROVE Counts'
  <2>1. /\ UNCHANGED <<gen, lined, nOps, pc, kind>> /\ slot'.seq = slot.seq
    BY <1>2 DEF Land, Follow, flagVars, procVars, TypeOK
  <2> QED
    BY <2>1 DEF Counts, Lined, Unlowered, Active
<1>3. CASE OrphanLands \/ UNCHANGED vars
  BY <1>3 DEF OrphanLands, vars, flagVars, procVars, Counts, Lined, Unlowered, Active
<1>4. CASE Restart
  <2>1. gen' = 0 /\ lined' = 0 /\ nOps' = 0 /\ slot'.seq = 0 /\ \A p \in Procs : pc'[p] = "idle"
    BY <1>4 DEF Restart, Everyone
  <2>2. Lined' = {} /\ Unlowered' = {} /\ Active' = {}
    BY <2>1 DEF Lined, Unlowered, Active
  <2> QED
    BY <2>1, <2>2, NoneCounted DEF Counts
<1> QED
  BY <1>1, <1>2, <1>3, <1>4, BeginCounts, DropCounts DEF Next

-----------------------------------------------------------------------------
(* Types.                                                                  *)

(* TypeOK but for the bounds that Counts gives.                            *)
Types ==
    /\ live \in BOOLEAN /\ gen \in Nat /\ lined \in Nat
    /\ owner \in Procs \cup {Free} /\ waiters \in Seq(Procs)
    /\ pc \in [Procs -> Steps] /\ kind \in [Procs -> {"stop", "resume"}]
    /\ num \in [Procs -> 0..MaxOps] /\ started \in [Procs -> 0..2 * MaxOps]
    /\ fileOk \in [Procs -> BOOLEAN] /\ nOps \in 0..MaxOps
    /\ writes \in [Ids -> Write] /\ lagStop \subseteq Ids /\ lagResume \subseteq Ids
    /\ slot \in [seq : Nat, warn : BOOLEAN]
    /\ orphans \subseteq {"Enabled", "Disabled", "Pending"}
    /\ db \in {"Enabled", "Disabled"} /\ file \in {"Absent", "Enabled", "Disabled", "Pending"}
    /\ stopSaved \in BOOLEAN /\ detached \in BOOLEAN

LEMMA TypeIsTypes == TypeOK => Types
<1> SUFFICES ASSUME TypeOK PROVE Types
  OBVIOUS
<1>1. slot \in [seq : Nat, warn : BOOLEAN]
  BY WriteControlAssumption DEF TypeOK
<1> QED
  BY <1>1, Numbers DEF TypeOK, Types

LEMMA TypesBounded == Types /\ Counts => TypeOK
<1> SUFFICES ASSUME Types, Counts PROVE TypeOK
  OBVIOUS
<1>0. /\ gen \in Nat /\ lined \in Nat /\ nOps \in 0..MaxOps /\ slot \in [seq : Nat, warn : BOOLEAN]
      /\ MaxOps \in Nat
  BY WriteControlAssumption DEF Types
<1>1. /\ Cardinality(Lined) <= Cardinality(Procs) /\ Cardinality(Procs) \in Nat
      /\ Cardinality(Unlowered) \in Nat /\ Cardinality(Active) \in Nat
  <2>1. IsFiniteSet(Lined) /\ IsFiniteSet(Unlowered) /\ IsFiniteSet(Active)
    BY Subsets, FS_Subset, WriteControlAssumption
  <2> QED
    BY <2>1, Subsets, FS_Subset, FS_CardinalityType, WriteControlAssumption
<1>2. gen \in 0..2 * MaxOps /\ lined \in 0..Cardinality(Procs)
  BY <1>0, <1>1 DEF Counts
<1>3. slot \in [seq : 0..MaxOps, warn : BOOLEAN]
  <2>1. slot.seq \in 0..MaxOps /\ slot.warn \in BOOLEAN /\ slot = [seq |-> slot.seq, warn |-> slot.warn]
    BY <1>0, <1>1 DEF Counts
  <2> QED
    BY <2>1
<1> QED
  BY <1>2, <1>3 DEF Types, TypeOK

(* The parts of a step.                                                    *)
LEMMA EndTypes ==
    ASSUME TypeOK, NEW p \in Procs, End(p)
    PROVE  /\ pc' \in [Procs -> Steps] /\ kind' \in [Procs -> {"stop", "resume"}]
           /\ num' \in [Procs -> 0..MaxOps] /\ started' \in [Procs -> 0..2 * MaxOps]
           /\ fileOk' \in [Procs -> BOOLEAN] /\ nOps' = nOps
<1>1. 0 \in 0..MaxOps /\ 0 \in 0..2 * MaxOps
  BY WriteControlAssumption
<1> QED
  BY <1>1 DEF End, Goto, TypeOK, Steps

LEMMA UnlockTypes ==
    ASSUME TypeOK, Unlock PROVE owner' \in Procs \cup {Free} /\ waiters' \in Seq(Procs)
<1>1. waiters \in Seq(Procs)
  BY DEF TypeOK
<1>2. waiters # <<>> => Head(waiters) \in Procs /\ Tail(waiters) \in Seq(Procs)
  BY <1>1
<1> QED
  BY <1>1, <1>2 DEF Unlock

LEMMA RecordTypes ==
    ASSUME TypeOK, NEW w \in BOOLEAN, Record(w) PROVE slot' \in [seq : Nat, warn : BOOLEAN]
BY Numbers DEF Record

LEMMA NoWriteType == NoWrite \in Write
<1>1. {} \in SUBSET Ids /\ 0 \in 0..MaxOps
  BY WriteControlAssumption
<1> QED
  BY <1>1 DEF NoWrite, Write

LEMMA SpawnTypes ==
    ASSUME TypeOK, NEW n \in Ids, NEW val \in {"Enabled", "Disabled"}, NEW after \in SUBSET Ids,
           SpawnWrite(n, val, after)
    PROVE  /\ writes' \in [Ids -> Write] /\ writes'[n].st = "running" /\ writes'[n].val = val
           /\ writes'[n].after = after
           /\ \A m \in Ids : m # n => writes'[m] = writes[m]
<1> DEFINE w == [NoWrite EXCEPT !.st = "running", !.val = val, !.after = after]
<1>1. w \in Write /\ w.st = "running" /\ w.val = val /\ w.after = after
  <2> HIDE DEF w
  <2>1. \A v \in Write :
          LET x == [v EXCEPT !.st = "running", !.val = val, !.after = after]
          IN  x \in Write /\ x.st = "running" /\ x.val = val /\ x.after = after
    BY DEF Write
  <2> QED
    BY <2>1, NoWriteType DEF w
<1>2. writes' = [writes EXCEPT ![n] = w] /\ writes \in [Ids -> Write]
  BY DEF SpawnWrite, TypeOK
<1> HIDE DEF w
<1> QED
  BY <1>1, <1>2

(* The four ways in which a write changes otherwise.                       *)
LEMMA WriteTypes ==
    ASSUME NEW w \in Write
    PROVE  /\ \A st \in {"ok", "err"} :
                /\ [w EXCEPT !.st = st] \in Write
                /\ [w EXCEPT !.st = st].st = st /\ [w EXCEPT !.st = st].val = w.val
                /\ [w EXCEPT !.st = st].after = w.after
           /\ LET v == [w EXCEPT !.follow = FALSE]
              IN  v \in Write /\ v.st = w.st /\ v.val = w.val /\ v.after = w.after
           /\ \A s \in 0..MaxOps, f \in BOOLEAN :
                LET v == [w EXCEPT !.follow = TRUE, !.seq = s, !.file = f]
                IN  v \in Write /\ v.st = w.st /\ v.val = w.val /\ v.after = w.after
BY DEF Write

LEMMA BeginTypes ==
    ASSUME TypeOK, NEW p \in Procs, NEW k \in {"stop", "resume"}, Begin(p, k)
    PROVE  Types'
<1>1. Types /\ nOps \in 0..MaxOps /\ nOps < MaxOps /\ nOps' = nOps + 1 /\ MaxOps \in Nat
  BY TypeIsTypes, WriteControlAssumption DEF Begin, TypeOK
<1>2. nOps' \in 0..MaxOps /\ num' \in [Procs -> 0..MaxOps]
  BY <1>1 DEF Begin, Types
<1>3. gen' \in Nat /\ lined' \in Nat /\ live' \in BOOLEAN
  <2>1. \/ gen' = gen + 1 /\ lined' = lined + 1 /\ live' = FALSE
        \/ gen' = gen /\ lined' = lined /\ live' = live
    BY DEF Begin, Lower, flagVars
  <2>2. gen \in Nat /\ lined \in Nat /\ live \in BOOLEAN
    BY <1>1 DEF Types
  <2>3. gen' \in Nat /\ lined' \in Nat
    BY <2>1, <2>2
  <2>4. live' \in BOOLEAN
    BY <2>1, <2>2
  <2> QED
    BY <2>3, <2>4
<1>5. started' \in [Procs -> 0..2 * MaxOps]
  <2>1. gen \in 0..2 * MaxOps /\ started \in [Procs -> 0..2 * MaxOps]
    BY DEF TypeOK
  <2>2. started' = started \/ started' = [started EXCEPT ![p] = gen]
    BY DEF Begin
  <2> QED
    BY <2>1, <2>2
<1>4. pc' \in [Procs -> Steps] /\ kind' \in [Procs -> {"stop", "resume"}]
  BY DEF Begin, Goto, TypeOK, Steps
<1> QED
  BY <1>1, <1>2, <1>3, <1>4, <1>5 DEF Begin, lockVars, dbVars, diskVars, histVars, Types

(* A step of the operation that keeps its own variables.                   *)
LEMMA GotoTypes ==
    ASSUME TypeOK, NEW p \in Procs, NEW l \in Steps, Goto(p, l) PROVE pc' \in [Procs -> Steps]
BY DEF Goto, TypeOK

LEMMA SetFinished ==
    ASSUME TypeOK, NEW n \in Ids PROVE writes[n] \in Write
BY DEF TypeOK

LEMMA StoppingTypes ==
    ASSUME TypeOK, Counts, OwnNumbers, NEW p \in Procs, Lock(p) \/ Stopping(p)
    PROVE  Types'
<1> USE DEF flagVars, lockVars, dbVars, diskVars, histVars
<1>0. Types /\ nOps \in Nat /\ nOps <= MaxOps
  BY TypeIsTypes, Numbers
<1>n. pc[p] # "idle" => num[p] \in Ids
  BY <1>0, WriteControlAssumption DEF OwnNumbers, Ids
<1>1. CASE Lock(p)
  <2>1. pc' \in [Procs -> Steps]
    <3>1. Goto(p, "queued") /\ "queued" \in Steps
      BY <1>1 DEF Lock, Steps
    <3> QED
      BY <3>1, GotoTypes
  <2>2. owner' \in Procs \cup {Free} /\ waiters' \in Seq(Procs)
    <3>1. owner' \in {p, owner} /\ (waiters' = waiters \/ waiters' = Append(waiters, p))
      BY <1>1 DEF Lock
    <3>2. Append(waiters, p) \in Seq(Procs)
      BY <1>0, JoinAndTake DEF Types
    <3> QED
      BY <1>0, <3>1, <3>2 DEF Types
  <2> QED
    BY <1>0, <1>1, <2>1, <2>2 DEF Lock, Types
<1>2. CASE Relower(p)
  <2>1. pc' \in [Procs -> Steps]
    <3>1. Goto(p, "lowered") /\ "lowered" \in Steps
      BY <1>2 DEF Relower, Steps
    <3> QED
      BY <3>1, GotoTypes
  <2>2. gen' \in Nat /\ live' \in BOOLEAN
    <3>1. gen' = gen + 1 /\ live' = FALSE
      BY <1>2 DEF Relower, Lower
    <3>2. gen' \in Nat
      BY <1>0, <3>1 DEF Types
    <3> QED
      BY <3>1, <3>2
  <2> QED
    BY <1>0, <1>2, <2>1, <2>2 DEF Relower, Types
<1>3. CASE GotLock(p)
  <2>1. pc' \in [Procs -> Steps] /\ lined' \in Nat
    BY <1>0, <1>3, GotoTypes DEF GotLock, Steps, LeaveLine, Types
  <2> QED
    BY <1>0, <1>3, <2>1 DEF GotLock, Types
<1>4. CASE SaveStop(p)
  <2>1. pc' \in [Procs -> Steps]
    BY <1>4, GotoTypes DEF SaveStop, Steps
  <2>2. writes' \in [Ids -> Write]
    <3>1. SpawnWrite(num[p], "Disabled", lagResume) /\ num[p] \in Ids /\ lagResume \in SUBSET Ids
      BY <1>0, <1>n, <1>4 DEF SaveStop, At, TakeWrites, Types
    <3> QED
      BY <3>1, SpawnTypes
  <2>3. /\ fileOk' \in [Procs -> BOOLEAN] /\ file' \in {"Absent", "Enabled", "Disabled", "Pending"}
        /\ lagResume' \subseteq Ids
    BY <1>0, <1>4 DEF SaveStop, Types
  <2> QED
    BY <1>0, <1>4, <2>1, <2>2, <2>3 DEF SaveStop, Types
<1>5. CASE StopDone(p) \/ StopTimesOut(p)
  <2>1. \E ok \in BOOLEAN : StopEnds(p, ok)
    BY <1>5 DEF StopDone, StopTimesOut
  <2>2. /\ Return(p) /\ UNCHANGED <<flagVars, lagResume, orphans, diskVars, detached>>
        /\ stopSaved' \in BOOLEAN /\ \E w \in BOOLEAN : Record(w)
    BY <1>0, <2>1 DEF StopEnds, SavedSomewhere, FullyPersisted, Types
  <2>3. /\ pc' \in [Procs -> Steps] /\ kind' \in [Procs -> {"stop", "resume"}]
        /\ num' \in [Procs -> 0..MaxOps] /\ started' \in [Procs -> 0..2 * MaxOps]
        /\ fileOk' \in [Procs -> BOOLEAN] /\ nOps' = nOps
        /\ owner' \in Procs \cup {Free} /\ waiters' \in Seq(Procs)
        /\ slot' \in [seq : Nat, warn : BOOLEAN]
    BY <2>2, EndTypes, UnlockTypes, RecordTypes DEF Return
  <2>4. writes' \in [Ids -> Write] /\ lagStop' \subseteq Ids
    <3>1. CASE StopDone(p)
      BY <1>0, <3>1 DEF StopDone, Types
    <3>2. CASE StopTimesOut(p)
      <4>1. slot.seq + 1 \in 0..MaxOps
        <5>1. pc[p] = "saving"
          BY <3>2 DEF StopTimesOut, At
        <5>2. Cardinality(Active) \in Nat /\ Cardinality(Active) > 0
          BY <5>1, CountOne, Subsets DEF Active
        <5>3. slot.seq + Cardinality(Active) <= nOps /\ slot.seq \in Nat /\ MaxOps \in Nat
          BY Numbers, WriteControlAssumption DEF Counts
        <5> QED
          BY <1>0, <5>2, <5>3
      <4>2. num[p] \in Ids /\ fileOk[p] \in BOOLEAN /\ writes[num[p]] \in Write
        BY <1>n, <3>2, SetFinished DEF StopTimesOut, At, TypeOK
      <4>3. [writes[num[p]] EXCEPT !.follow = TRUE, !.seq = slot.seq + 1, !.file = fileOk[p]] \in Write
        BY <4>1, <4>2, WriteTypes
      <4> QED
        BY <1>0, <3>2, <4>2, <4>3 DEF StopTimesOut, Types
    <3> QED
      BY <1>5, <3>1, <3>2
  <2> QED
    BY <1>0, <2>2, <2>3, <2>4 DEF Types
<1> QED
  BY <1>1, <1>2, <1>3, <1>4, <1>5 DEF Stopping

LEMMA ResumingTypes ==
    ASSUME TypeOK, OwnNumbers, NEW p \in Procs, Resuming(p)
    PROVE  Types'
<1> USE DEF flagVars, lockVars, dbVars, diskVars, histVars
<1>0. Types /\ nOps \in Nat /\ nOps <= MaxOps
  BY TypeIsTypes, Numbers
<1>1. /\ pc' \in [Procs -> Steps] /\ kind' \in [Procs -> {"stop", "resume"}]
      /\ num' \in [Procs -> 0..MaxOps] /\ started' \in [Procs -> 0..2 * MaxOps]
      /\ fileOk' \in [Procs -> BOOLEAN] /\ nOps' = nOps
      /\ owner' \in Procs \cup {Free} /\ waiters' \in Seq(Procs)
      /\ slot' \in [seq : Nat, warn : BOOLEAN]
  <2>1. CASE ResumeGoes(p)
    <3>1. PICK l \in Saving : Goto(p, l) /\ UNCHANGED <<lockVars, kind, num, started, fileOk, nOps, slot>>
      BY <2>1 DEF ResumeGoes
    <3>2. pc' \in [Procs -> Steps]
      BY <3>1, GotoTypes DEF Saving, Steps
    <3> QED
      BY <1>0, <3>1, <3>2 DEF Types
  <2>2. CASE ResumeEnds(p)
    <3>1. slot' \in [seq : Nat, warn : BOOLEAN]
      BY <1>0, <2>2, RecordTypes DEF ResumeEnds, Types
    <3> QED
      BY <2>2, <3>1, EndTypes, UnlockTypes DEF ResumeEnds, Return
  <2> QED
    BY <2>1, <2>2, ResumingCases
<1>2. UNCHANGED <<gen, lined, orphans, detached>> /\ (pc[p] # "idle" => num[p] \in Ids)
  <2>1. pc[p] # "idle" => num[p] \in Ids
    BY <1>0, WriteControlAssumption DEF OwnNumbers, Ids
  <2> QED
    BY <2>1, ResumingCases
<1>3. /\ live' \in BOOLEAN /\ writes' \in [Ids -> Write] /\ lagStop' \subseteq Ids
      /\ lagResume' \subseteq Ids /\ db' = db /\ stopSaved' \in BOOLEAN
      /\ file' \in {"Absent", "Enabled", "Disabled", "Pending"}
  <2>1. CASE WaitLag(p)
    BY <1>0, <2>1 DEF WaitLag, Types
  <2>2. CASE WritePending(p)
    BY <1>0, <2>2 DEF WritePending, PendingRecord, Types
  <2>3. CASE StoreEnabled(p)
    <3>1. writes' = writes \/ (SpawnWrite(num[p], "Enabled", {}) /\ num[p] \in Ids)
      BY <1>2, <2>3 DEF StoreEnabled, At
    <3>2. writes' \in [Ids -> Write]
      BY <1>0, <3>1, SpawnTypes DEF Types
    <3> QED
      BY <1>0, <2>3, <3>2 DEF StoreEnabled, Types
  <2>4. CASE AbandonStore(p)
    BY <1>0, <1>2, <2>4 DEF AbandonStore, At, Types
  <2>5. CASE Stored(p)
    BY <1>0, <2>5 DEF Stored, Types
  <2>6. CASE Confirm(p)
    BY <1>0, <2>6 DEF Confirm, Types
  <2>7. CASE Raise(p)
    BY <1>0, <2>7 DEF Raise, Types
  <2> QED
    BY <2>1, <2>2, <2>3, <2>4, <2>5, <2>6, <2>7 DEF Resuming
<1> QED
  BY <1>0, <1>1, <1>2, <1>3 DEF Types

LEMMA DropTypes ==
    ASSUME TypeOK, OwnNumbers, NEW p \in Procs, Drop(p)
    PROVE  Types'
<1> USE DEF diskVars
<1>0. Types /\ nOps \in Nat /\ nOps <= MaxOps
  BY TypeIsTypes, Numbers
<1>1. num[p] \in Ids
  BY <1>0, WriteControlAssumption DEF Drop, OwnNumbers, Ids
<1>2. owner' \in Procs \cup {Free} /\ waiters' \in Seq(Procs)
  <2>1. ASSUME NEW i \in DOMAIN waiters PROVE RemoveAt(waiters, i) \in Seq(Procs)
    <3>1. waiters \in Seq(Procs) /\ i \in 1..Len(waiters)
      BY <1>0 DEF Types
    <3> QED
      BY <3>1, RemoveOne
  <2>2. CASE owner = p
    BY <2>2, UnlockTypes DEF Drop
  <2>3. CASE owner # p
    BY <1>0, <2>1, <2>3 DEF Drop, Types
  <2> QED
    BY <2>2, <2>3
<1>3. lined' \in Nat
  BY <1>0 DEF Drop, LeaveLine, Types
<1>4. lagStop' \subseteq Ids /\ lagResume' \subseteq Ids
  BY <1>0, <1>1 DEF Drop, StopWriteLeft, Types
<1>5. orphans' \subseteq {"Enabled", "Disabled", "Pending"}
  BY <1>0 DEF Drop, WrittenRecord, PendingRecord, Types
<1>6. /\ pc' \in [Procs -> Steps] /\ kind' \in [Procs -> {"stop", "resume"}]
      /\ num' \in [Procs -> 0..MaxOps] /\ started' \in [Procs -> 0..2 * MaxOps]
      /\ fileOk' \in [Procs -> BOOLEAN] /\ nOps' = nOps
  BY EndTypes DEF Drop
<1> QED
  BY <1>0, <1>2, <1>3, <1>4, <1>5, <1>6 DEF Drop, Types

LEMMA WriteStepTypes ==
    ASSUME TypeOK, NEW n \in Ids, Land(n) \/ Follow(n)
    PROVE  Types'
<1> USE DEF flagVars, lockVars, procVars, histVars, diskVars
<1>0. Types /\ writes[n] \in Write
  BY TypeIsTypes, SetFinished
<1>1. CASE Land(n)
  <2>1. PICK st \in {"ok", "err"} :
           /\ writes' = [writes EXCEPT ![n].st = st]
           /\ db' \in IF st = "ok" THEN {writes[n].val} ELSE {writes[n].val, db}
    BY <1>1 DEF Land
  <2>2. [writes[n] EXCEPT !.st = st] \in Write
    BY <1>0, WriteTypes
  <2>3. writes' \in [Ids -> Write] /\ db' \in {"Enabled", "Disabled"}
    BY <1>0, <2>1, <2>2 DEF Types, Write
  <2> QED
    BY <1>0, <1>1, <2>3 DEF Land, Types
<1>2. CASE Follow(n)
  <2>1. [writes[n] EXCEPT !.follow = FALSE] \in Write
    BY <1>0, WriteTypes
  <2>2. writes' \in [Ids -> Write]
    BY <1>0, <1>2, <2>1 DEF Follow, Types
  <2>3. slot' \in [seq : Nat, warn : BOOLEAN]
    BY <1>0, <1>2 DEF Follow, FullyPersisted, Types
  <2> QED
    BY <1>0, <1>2, <2>2, <2>3 DEF Follow, Types
<1> QED
  BY <1>1, <1>2

LEMMA RestartTypes == ASSUME TypeOK, OrphanLands \/ Restart \/ UNCHANGED vars PROVE Types'
<1> USE DEF flagVars, lockVars, procVars, dbVars, histVars, diskVars
<1>0. Types
  BY TypeIsTypes
<1>1. CASE OrphanLands
  <2>1. file' \in {"Absent", "Enabled", "Disabled", "Pending"} /\ orphans' \subseteq orphans
    BY <1>0, <1>1 DEF OrphanLands, Types
  <2> QED
    BY <1>0, <1>1, <2>1 DEF OrphanLands, Types
<1>2. CASE Restart
  <2>1. 0 \in 0..MaxOps /\ 0 \in 0..2 * MaxOps
    BY WriteControlAssumption
  <2>2. /\ pc' \in [Procs -> Steps] /\ kind' \in [Procs -> {"stop", "resume"}]
        /\ num' \in [Procs -> 0..MaxOps] /\ started' \in [Procs -> 0..2 * MaxOps]
        /\ fileOk' \in [Procs -> BOOLEAN] /\ nOps' \in 0..MaxOps
    BY <1>2, <2>1 DEF Restart, Everyone, Steps
  <2>3. /\ writes' \in [Ids -> Write] /\ lagStop' \subseteq Ids /\ lagResume' \subseteq Ids
        /\ orphans' \subseteq {"Enabled", "Disabled", "Pending"}
    BY <1>2, NoWriteType DEF Restart
  <2>4. live' \in BOOLEAN
    BY <1>2 DEF Restart, Boots
  <2>5. slot' \in [seq : Nat, warn : BOOLEAN]
    BY <1>2 DEF Restart
  <2>6. gen' \in Nat /\ lined' \in Nat /\ owner' \in Procs \cup {Free} /\ waiters' \in Seq(Procs)
    BY <1>2 DEF Restart
  <2> QED
    BY <1>0, <1>2, <2>2, <2>3, <2>4, <2>5, <2>6 DEF Restart, Types
<1>3. CASE UNCHANGED vars
  BY <1>0, <1>3 DEF vars, Types
<1> QED
  BY <1>1, <1>2, <1>3

LEMMA StepTypeOK == TypeOK /\ Counts /\ OwnNumbers /\ [Next]_vars => TypeOK'
<1> SUFFICES ASSUME TypeOK, Counts, OwnNumbers, [Next]_vars PROVE TypeOK'
  OBVIOUS
<1>1. Types'
  <2>1. ASSUME NEW p \in Procs, Step(p) \/ Drop(p) \/ \E k \in {"stop", "resume"} : Begin(p, k)
        PROVE  Types'
    BY <2>1, StoppingTypes, ResumingTypes, DropTypes, BeginTypes DEF Step
  <2> QED
    BY <2>1, WriteStepTypes, RestartTypes DEF Next
<1>2. Counts'
  BY StepCounts
<1> QED
  BY <1>1, <1>2, TypesBounded, PTL

LEMMA InitTypeOK == Init => TypeOK
<1> SUFFICES ASSUME Init PROVE TypeOK
  OBVIOUS
<1>0. 0 \in 0..MaxOps /\ 0 \in 0..2 * MaxOps
  BY WriteControlAssumption
<1>1. Counts
  <2>1. Lined = {} /\ Unlowered = {} /\ Active = {}
    BY DEF Init, Everyone, Lined, Unlowered, Active
  <2> QED
    BY <2>1, NoneCounted DEF Init, Counts
<1>2. /\ pc \in [Procs -> Steps] /\ kind \in [Procs -> {"stop", "resume"}]
      /\ num \in [Procs -> 0..MaxOps] /\ started \in [Procs -> 0..2 * MaxOps]
      /\ fileOk \in [Procs -> BOOLEAN] /\ nOps \in 0..MaxOps
  BY <1>0 DEF Init, Everyone, Steps
<1>3. /\ writes \in [Ids -> Write] /\ lagStop \subseteq Ids /\ lagResume \subseteq Ids
      /\ orphans \subseteq {"Enabled", "Disabled", "Pending"}
  BY NoWriteType DEF Init
<1>4. live \in BOOLEAN
  BY DEF Init, Boots
<1>5. slot \in [seq : Nat, warn : BOOLEAN]
  BY DEF Init
<1>6. gen \in Nat /\ lined \in Nat /\ owner \in Procs \cup {Free} /\ waiters \in Seq(Procs)
  BY DEF Init
<1>7. /\ db \in {"Enabled", "Disabled"} /\ file \in {"Absent", "Enabled", "Disabled", "Pending"}
      /\ stopSaved \in BOOLEAN /\ detached \in BOOLEAN
  BY DEF Init
<1>8. Types
  BY <1>2, <1>3, <1>4, <1>5, <1>6, <1>7 DEF Types
<1> QED
  BY <1>1, <1>8, TypesBounded

-----------------------------------------------------------------------------
(* Who holds op_lock, and whose a number is.                               *)

(* What a step leaves of everyone else's variables.                        *)
Others(p) ==
    \A q \in Procs : q # p =>
        /\ pc'[q] = pc[q] /\ kind'[q] = kind[q] /\ num'[q] = num[q] /\ started'[q] = started[q]
        /\ fileOk'[q] = fileOk[q]
Goes(p, l) ==
    /\ Others(p) /\ nOps' = nOps /\ pc'[p] = l /\ kind'[p] = kind[p] /\ num'[p] = num[p]
    /\ started'[p] = started[p]
Ends(p) == Others(p) /\ nOps' = nOps /\ pc'[p] = "idle"

LEMMA GotoGoes ==
    ASSUME TypeOK, NEW p \in Procs, NEW l, Goto(p, l), UNCHANGED <<kind, num, started, nOps>>,
           fileOk' = fileOk \/ \E ok \in BOOLEAN : fileOk' = [fileOk EXCEPT ![p] = ok]
    PROVE  Goes(p, l)
BY DEF TypeOK, Goto, Goes, Others

LEMMA EndEnds == ASSUME TypeOK, NEW p \in Procs, End(p) PROVE Ends(p)
BY DEF TypeOK, End, Goto, Ends, Others

(* The steps of an operation: it gets op_lock, goes on with it, or leaves. *)
LEMMA StepShapes ==
    ASSUME TypeOK, Holds, NEW p \in Procs, Step(p)
    PROVE  \/ /\ pc[p] = "lock" /\ Goes(p, "queued") /\ (owner' = owner \/ owner = Free)
              /\ UNCHANGED writes
           \/ /\ owner = p /\ owner' = owner
              /\ \/ /\ kind[p] = "stop"
                    /\ \/ pc[p] = "queued" /\ Goes(p, "lowered") /\ UNCHANGED writes
                       \/ pc[p] = "lowered" /\ Goes(p, "file") /\ UNCHANGED writes
                       \/ pc[p] = "file" /\ Goes(p, "saving") /\ SpawnWrite(num[p], "Disabled", lagResume)
                 \/ /\ kind[p] = "resume"
                    /\ \/ pc[p] = "queued" /\ Goes(p, "pend") /\ UNCHANGED writes
                       \/ pc[p] = "pend" /\ Goes(p, "check") /\ UNCHANGED writes
                       \/ pc[p] = "check" /\ Goes(p, "storing") /\ SpawnWrite(num[p], "Enabled", {})
                       \/ /\ pc[p] = "storing" /\ Goes(p, "confirm") /\ UNCHANGED writes
                          /\ writes[num[p]].st = "ok"
                       \/ pc[p] = "confirm" /\ Goes(p, "raise") /\ UNCHANGED writes
           \/ /\ owner = p /\ Ends(p) /\ pc[p] # "idle"
              /\ \/ UNCHANGED writes
                 \/ /\ pc[p] = "saving"
                    /\ \E s \in Nat, f \in BOOLEAN :
                         writes' = [writes EXCEPT ![num[p]] =
                                      [@ EXCEPT !.follow = TRUE, !.seq = s, !.file = f]]
<1> USE DEF At, flagVars, lockVars, dbVars, diskVars, histVars
<1>0. \A q \in Procs : pc[q] \in StopSteps \cup Saving => owner = q
  BY DEF Holds
<1>1. CASE Lock(p)
  BY <1>1, GotoGoes DEF Lock
<1>2. CASE Relower(p)
  BY <1>2, GotoGoes DEF Relower
<1>3. CASE GotLock(p)
  BY <1>0, <1>3, GotoGoes DEF GotLock, StopSteps
<1>4. CASE SaveStop(p)
  <2>1. Goes(p, "saving")
    BY <1>4, GotoGoes DEF SaveStop
  <2> QED
    BY <1>0, <1>4, <2>1 DEF SaveStop, StopSteps, TakeWrites
<1>5. CASE StopDone(p)
  BY <1>0, <1>5, EndEnds DEF StopDone, StopEnds, Return, StopSteps
<1>6. CASE StopTimesOut(p)
  <2>1. Ends(p) /\ owner = p /\ pc[p] = "saving"
    BY <1>0, <1>6, EndEnds DEF StopTimesOut, StopEnds, Return, StopSteps
  <2>2. slot.seq + 1 \in Nat /\ fileOk[p] \in BOOLEAN
    BY Numbers DEF TypeOK
  <2> QED
    BY <1>6, <2>1, <2>2 DEF StopTimesOut
<1>7. CASE WaitLag(p)
  BY <1>7, GotoGoes, EndEnds DEF WaitLag, Interrupted, Return
<1>8. CASE WritePending(p)
  BY <1>0, <1>8, GotoGoes, EndEnds DEF WritePending, Fails, Return, Saving
<1>9. CASE StoreEnabled(p)
  BY <1>0, <1>9, GotoGoes, EndEnds DEF StoreEnabled, Interrupted, Return, Saving
<1>10. CASE AbandonStore(p)
  BY <1>0, <1>10, EndEnds DEF AbandonStore, Interrupted, Return, Saving
<1>11. CASE Stored(p)
  BY <1>0, <1>11, GotoGoes, EndEnds DEF Stored, Fails, Return, Saving
<1>12. CASE Confirm(p)
  BY <1>0, <1>12, GotoGoes, EndEnds DEF Confirm, Fails, Return, Saving
<1>13. CASE Raise(p)
  BY <1>0, <1>13, EndEnds DEF Raise, Interrupted, Return, Saving
<1> QED
  BY <1>1, <1>2, <1>3, <1>4, <1>5, <1>6, <1>7, <1>8, <1>9, <1>10, <1>11, <1>12, <1>13
     DEF Step, Stopping, Resuming

(* What becomes of the writes.                                             *)
SameWrite(m) ==
    writes'[m].st = writes[m].st /\ writes'[m].val = writes[m].val /\ writes'[m].after = writes[m].after
Spawned(m, val, after) ==
    writes'[m].st = "running" /\ writes'[m].val = val /\ writes'[m].after = after
SpawnsStop(p) == pc[p] = "file" /\ pc'[p] = "saving"
SpawnsStore(p) == pc[p] = "check" /\ pc'[p] = "storing"

LEMMA OwnId ==
    ASSUME TypeOK, OwnNumbers, NEW p \in Procs, pc[p] # "idle" PROVE num[p] \in Ids /\ num[p] <= nOps
<1>1. nOps \in Nat /\ nOps <= MaxOps /\ num[p] \in 1..nOps
  BY Numbers DEF OwnNumbers
<1> QED
  BY <1>1, WriteControlAssumption DEF Ids

LEMMA StepWrites ==
    ASSUME TypeOK, Holds, OwnNumbers, NEW p \in Procs, Step(p)
    PROVE  /\ SpawnsStop(p) => Spawned(num[p], "Disabled", lagResume)
           /\ SpawnsStore(p) => Spawned(num[p], "Enabled", {})
           /\ \A m \in Ids : SameWrite(m) \/ (m = num[p] /\ (SpawnsStop(p) \/ SpawnsStore(p)))
<1>0. pc[p] # "idle" /\ num[p] \in Ids
  <2>1. pc[p] # "idle"
    BY StepShapes
  <2> QED
    BY <2>1, OwnId
<1>1. CASE UNCHANGED writes /\ ~SpawnsStop(p) /\ ~SpawnsStore(p)
  BY <1>1 DEF SameWrite
<1>2. CASE pc[p] = "file" /\ Goes(p, "saving") /\ SpawnWrite(num[p], "Disabled", lagResume)
  <2>1. lagResume \in SUBSET Ids
    BY DEF TypeOK
  <2>2. SpawnsStop(p) /\ ~SpawnsStore(p)
    BY <1>2 DEF SpawnsStop, SpawnsStore, Goes
  <2> QED
    BY <1>0, <1>2, <2>1, <2>2, SpawnTypes DEF SameWrite, Spawned
<1>3. CASE pc[p] = "check" /\ Goes(p, "storing") /\ SpawnWrite(num[p], "Enabled", {})
  <2>2. SpawnsStore(p) /\ ~SpawnsStop(p)
    BY <1>3 DEF SpawnsStop, SpawnsStore, Goes
  <2> QED
    BY <1>0, <1>3, <2>2, SpawnTypes DEF SameWrite, Spawned
<1>4. CASE /\ Ends(p)
           /\ \E s \in Nat, f \in BOOLEAN :
                writes' = [writes EXCEPT ![num[p]] = [@ EXCEPT !.follow = TRUE, !.seq = s, !.file = f]]
  <2>1. PICK s \in Nat, f \in BOOLEAN :
          writes' = [writes EXCEPT ![num[p]] = [writes[num[p]] EXCEPT !.follow = TRUE, !.seq = s, !.file = f]]
    BY <1>4
  <2>2. LET v == [writes[num[p]] EXCEPT !.follow = TRUE, !.seq = s, !.file = f]
        IN  v.st = writes[num[p]].st /\ v.val = writes[num[p]].val /\ v.after = writes[num[p]].after
    <3>1. writes[num[p]] \in Write
      BY <1>0, SetFinished
    <3> QED
      BY <3>1 DEF Write
  <2>3. ~SpawnsStop(p) /\ ~SpawnsStore(p)
    BY <1>4 DEF Ends, SpawnsStop, SpawnsStore
  <2> QED
    BY <1>0, <2>1, <2>2, <2>3 DEF SameWrite, TypeOK
<1>5. CASE UNCHANGED writes /\ Ends(p)
  BY <1>1, <1>5 DEF Ends, SpawnsStop, SpawnsStore
<1>6. CASE UNCHANGED writes /\ \E l \in Steps \ {"saving", "storing"} : Goes(p, l)
  BY <1>1, <1>6 DEF Goes, SpawnsStop, SpawnsStore
<1> QED
  BY <1>2, <1>3, <1>4, <1>5, <1>6, StepShapes DEF Steps

LEMMA LandWrites ==
    ASSUME TypeOK, NEW n \in Ids, Land(n) \/ Follow(n)
    PROVE  /\ \A m \in Ids : SameWrite(m) \/ (m = n /\ Land(n))
           /\ writes'[n].val = writes[n].val /\ writes'[n].after = writes[n].after
           /\ Land(n) => writes[n].st = "running" /\ writes'[n].st \in {"ok", "err"}
           /\ UNCHANGED <<lockVars, procVars, lagStop, lagResume, flagVars, orphans, file, histVars>>
<1>0. writes[n] \in Write /\ writes \in [Ids -> Write]
  BY DEF TypeOK
<1>1. CASE Land(n)
  <2>1. PICK st \in {"ok", "err"} : writes' = [writes EXCEPT ![n].st = st]
    BY <1>1 DEF Land
  <2>2. LET v == [writes[n] EXCEPT !.st = st]
        IN  v.st = st /\ v.val = writes[n].val /\ v.after = writes[n].after
    BY <1>0 DEF Write
  <2>3. writes'[n] = [writes[n] EXCEPT !.st = st] /\ \A m \in Ids : m # n => writes'[m] = writes[m]
    BY <1>0, <2>1
  <2> QED
    BY <1>1, <2>2, <2>3 DEF SameWrite, Land, Runnable
<1>2. CASE Follow(n) /\ ~Land(n)
  <2>1. writes' = [writes EXCEPT ![n].follow = FALSE]
    BY <1>2 DEF Follow
  <2>2. LET v == [writes[n] EXCEPT !.follow = FALSE]
        IN  v.st = writes[n].st /\ v.val = writes[n].val /\ v.after = writes[n].after
    BY <1>0 DEF Write
  <2>3. writes'[n] = [writes[n] EXCEPT !.follow = FALSE] /\ \A m \in Ids : m # n => writes'[m] = writes[m]
    BY <1>0, <2>1
  <2>4. \A m \in Ids : SameWrite(m)
    BY <2>2, <2>3 DEF SameWrite
  <2> QED
    BY <1>2, <2>4 DEF SameWrite, Follow, diskVars
<1> QED
  BY <1>1, <1>2

LEMMA BeginGoes ==
    ASSUME TypeOK, NEW p \in Procs, NEW k \in {"stop", "resume"}, Begin(p, k)
    PROVE  /\ \A q \in Procs : q # p =>
                pc'[q] = pc[q] /\ kind'[q] = kind[q] /\ num'[q] = num[q] /\ started'[q] = started[q]
           /\ pc[p] = "idle" /\ pc'[p] = "lock" /\ num'[p] = nOps + 1 /\ nOps' = nOps + 1
           /\ kind'[p] = k /\ nOps < MaxOps /\ nOps \in Nat
           /\ k = "resume" => started'[p] = gen
           /\ UNCHANGED <<lockVars, dbVars, orphans, diskVars, histVars, fileOk>>
BY Numbers DEF Begin, Goto, TypeOK

LEMMA DropEnds ==
    ASSUME TypeOK, NEW p \in Procs, Drop(p)
    PROVE  /\ Ends(p) /\ pc[p] # "idle" /\ UNCHANGED <<live, gen, writes, diskVars, stopSaved>>
           /\ (owner # p => owner' = owner) /\ ~detached'
           /\ lagStop' = lagStop \cup StopWriteLeft(p)
           /\ lagResume \subseteq lagResume'
           /\ At(p, "resume", "storing") => num[p] \in lagResume'
BY EndEnds DEF Drop

LEMMA StepHolds == ASSUME TypeOK, Holds, [Next]_vars PROVE Holds'
<1> USE DEF Saving, StopSteps
<1>f. Free \notin Procs
  BY WriteControlAssumption
<1>1. ASSUME NEW p \in Procs, Step(p) PROVE Holds'
  <2>1. CASE pc[p] = "lock" /\ Goes(p, "queued") /\ (owner' = owner \/ owner = Free)
    BY <1>f, <2>1 DEF Holds, Goes, Others
  <2>2. ASSUME owner = p, owner' = owner, kind[p] = "stop", NEW l \in {"lowered", "file", "saving"}, Goes(p, l)
        PROVE  Holds'
    BY <2>2 DEF Holds, Goes, Others
  <2>3. ASSUME owner = p, owner' = owner, kind[p] = "resume",
               NEW l \in {"pend", "check", "storing", "confirm", "raise"}, Goes(p, l)
        PROVE  Holds'
    BY <2>3 DEF Holds, Goes, Others
  <2>4. CASE owner = p /\ Ends(p)
    BY <2>4 DEF Holds, Ends, Others
  <2> QED
    BY <1>1, <2>1, <2>2, <2>3, <2>4, StepShapes
<1>2. ASSUME NEW p \in Procs, Drop(p) PROVE Holds'
  BY <1>2, DropEnds DEF Holds, Ends, Others
<1>3. ASSUME NEW p \in Procs, NEW k \in {"stop", "resume"}, Begin(p, k) PROVE Holds'
  BY <1>3, BeginGoes DEF Holds, lockVars
<1>4. ASSUME NEW n \in Ids, Land(n) \/ Follow(n) PROVE Holds'
  BY <1>4, LandWrites DEF Holds, lockVars, procVars
<1>5. CASE OrphanLands \/ UNCHANGED vars
  BY <1>5 DEF Holds, OrphanLands, vars, lockVars, procVars
<1>6. CASE Restart
  BY <1>6 DEF Holds, Restart, Everyone
<1> QED
  BY <1>1, <1>2, <1>3, <1>4, <1>5, <1>6 DEF Next

LEMMA StepOwnNumbers == ASSUME TypeOK, Holds, OwnNumbers, [Next]_vars PROVE OwnNumbers'
<1>n. nOps \in Nat
  BY Numbers
<1>1. ASSUME NEW p \in Procs, Step(p) PROVE OwnNumbers'
  <2>1. /\ Others(p) /\ nOps' = nOps /\ pc[p] # "idle"
        /\ pc'[p] # "idle" => num'[p] = num[p]
    BY <1>1, StepShapes DEF Goes, Ends
  <2>2. \A n \in Ids : n > nOps => writes'[n].st = "none"
    <3> SUFFICES ASSUME NEW n \in Ids, n > nOps PROVE writes'[n].st = "none"
      OBVIOUS
    <3>1. n # num[p]
      BY <1>n, <2>1, OwnId DEF Ids
    <3>2. SameWrite(n)
      BY <1>1, <3>1, StepWrites
    <3> QED
      BY <3>2 DEF SameWrite, OwnNumbers
  <2> QED
    BY <2>1, <2>2 DEF OwnNumbers, Others
<1>2. ASSUME NEW p \in Procs, Drop(p) PROVE OwnNumbers'
  BY <1>2, DropEnds DEF OwnNumbers, Ends, Others
<1>3. ASSUME NEW p \in Procs, NEW k \in {"stop", "resume"}, Begin(p, k) PROVE OwnNumbers'
  <2>1. /\ \A q \in Procs : q # p => pc'[q] = pc[q] /\ num'[q] = num[q]
        /\ num'[p] = nOps + 1 /\ nOps' = nOps + 1 /\ writes' = writes
    BY <1>3, BeginGoes DEF dbVars
  <2>2. \A q \in Procs : pc'[q] # "idle" => num'[q] \in 1..nOps'
    BY <1>n, <2>1 DEF OwnNumbers
  <2>3. \A q, r \in Procs : pc'[q] # "idle" /\ pc'[r] # "idle" /\ num'[q] = num'[r] => q = r
    BY <1>n, <2>1 DEF OwnNumbers
  <2>4. \A n \in Ids : n > nOps' => writes'[n].st = "none"
    BY <1>n, <2>1 DEF OwnNumbers, Ids
  <2> QED
    BY <2>2, <2>3, <2>4 DEF OwnNumbers
<1>4. ASSUME NEW n \in Ids, Land(n) \/ Follow(n) PROVE OwnNumbers'
  <2>1. UNCHANGED procVars /\ \A m \in Ids : writes[m].st = "none" => writes'[m].st = "none"
    BY <1>4, LandWrites DEF SameWrite
  <2> QED
    BY <2>1 DEF OwnNumbers, procVars
<1>5. CASE OrphanLands \/ UNCHANGED vars
  BY <1>5 DEF OwnNumbers, OrphanLands, vars, dbVars, procVars
<1>6. CASE Restart
  BY <1>6 DEF OwnNumbers, Restart, Everyone, NoWrite
<1> QED
  BY <1>1, <1>2, <1>3, <1>4, <1>5, <1>6 DEF Next

LEMMA StepOwnWrites ==
    ASSUME TypeOK, Holds, OwnNumbers, OwnWrites, [Next]_vars PROVE OwnWrites'
<1>1. ASSUME NEW p \in Procs, Step(p) PROVE OwnWrites'
  <2>0. /\ Others(p) /\ pc[p] # "idle" /\ (pc'[p] # "idle" => num'[p] = num[p])
    BY <1>1, StepShapes DEF Goes, Ends
  <2>1. ASSUME NEW q \in Procs, q # p, pc[q] # "idle" PROVE SameWrite(num[q])
    BY <1>1, <2>0, <2>1, StepWrites, OwnId DEF OwnNumbers
  <2>2. ASSUME NEW q \in Procs, q # p
        PROVE  /\ pc'[q] \in {"lock", "queued", "lowered", "file", "pend", "check"} => writes'[num'[q]].st = "none"
               /\ pc'[q] = "saving" => writes'[num'[q]].val = "Disabled"
               /\ pc'[q] \in {"confirm", "raise"} => writes'[num'[q]].st = "ok"
    BY <2>0, <2>1, <2>2 DEF OwnWrites, Others, SameWrite
  <2>3. /\ pc'[p] \in {"lock", "queued", "lowered", "file", "pend", "check"} => writes'[num'[p]].st = "none"
        /\ pc'[p] = "saving" => writes'[num'[p]].val = "Disabled"
        /\ pc'[p] \in {"confirm", "raise"} => writes'[num'[p]].st = "ok"
    <3>1. SameWrite(num[p]) \/ SpawnsStop(p) \/ SpawnsStore(p)
      BY <1>1, <2>0, StepWrites, OwnId
    <3>2. CASE SpawnsStop(p)
      BY <1>1, <2>0, <3>2, StepWrites DEF SpawnsStop, Spawned
    <3>3. CASE SpawnsStore(p)
      BY <3>3 DEF SpawnsStore
    <3>4. CASE SameWrite(num[p])
      <4>1. writes'[num[p]].st = writes[num[p]].st /\ writes'[num[p]].val = writes[num[p]].val
        BY <3>4 DEF SameWrite
      <4>2. \/ pc'[p] = "idle"
            \/ /\ pc[p] \in {"lock", "queued", "lowered", "pend"} /\ pc'[p] \notin {"saving", "confirm", "raise"}
            \/ SpawnsStop(p) \/ SpawnsStore(p)
            \/ pc[p] = "storing" /\ pc'[p] = "confirm" /\ writes[num[p]].st = "ok"
            \/ pc[p] = "confirm" /\ pc'[p] = "raise"
        BY <1>1, StepShapes DEF Goes, Ends, SpawnsStop, SpawnsStore
      <4> QED
        BY <2>0, <3>2, <3>3, <4>1, <4>2 DEF OwnWrites
    <3> QED
      BY <3>1, <3>2, <3>3, <3>4
  <2> QED
    BY <2>2, <2>3 DEF OwnWrites
<1>2. ASSUME NEW p \in Procs, Drop(p) PROVE OwnWrites'
  BY <1>2, DropEnds DEF OwnWrites, Ends, Others
<1>3. ASSUME NEW p \in Procs, NEW k \in {"stop", "resume"}, Begin(p, k) PROVE OwnWrites'
  <2>1. /\ \A q \in Procs : q # p => pc'[q] = pc[q] /\ num'[q] = num[q]
        /\ pc'[p] = "lock" /\ num'[p] = nOps + 1 /\ writes' = writes /\ nOps < MaxOps /\ nOps \in Nat
    BY <1>3, BeginGoes DEF dbVars
  <2>2. writes[nOps + 1].st = "none"
    BY <2>1, WriteControlAssumption DEF OwnNumbers, Ids
  <2> QED
    BY <2>1, <2>2 DEF OwnWrites
<1>4. ASSUME NEW n \in Ids, Land(n) \/ Follow(n) PROVE OwnWrites'
  <2>1. /\ UNCHANGED <<pc, num>>
        /\ \A m \in Ids : SameWrite(m) \/ (writes[m].st = "running" /\ writes'[m].val = writes[m].val)
    BY <1>4, LandWrites DEF procVars
  <2> QED
    BY <2>1, OwnId DEF OwnWrites, SameWrite
<1>5. CASE OrphanLands \/ UNCHANGED vars
  BY <1>5 DEF OwnWrites, OrphanLands, vars, dbVars, procVars
<1>6. CASE Restart
  BY <1>6 DEF OwnWrites, Restart, Everyone
<1> QED
  BY <1>1, <1>2, <1>3, <1>4, <1>5, <1>6 DEF Next

-----------------------------------------------------------------------------
(* What a step of an operation does to the lists, the flag and the records. *)

LEMMA LagFacts ==
    ASSUME TypeOK, NEW p \in Procs, Step(p)
    PROVE  /\ UNCHANGED <<db, orphans, detached>>
           /\ \A n \in lagStop : Finished(n) \/ n \in lagStop'
           /\ pc[p] = "saving" => Finished(num[p]) \/ num[p] \in lagStop'
           /\ pc[p] = "storing" => Finished(num[p]) \/ num[p] \in lagResume'
           /\ pc[p] = "file" \/ lagResume \subseteq lagResume'
           /\ pc[p] = "file" => pc'[p] = "saving" /\ lagResume' = {}
           /\ lagResume' \subseteq lagResume \/ (pc[p] = "storing" /\ StoppedSince(p) /\ pc'[p] = "idle")
           /\ pc[p] = "queued" /\ pc'[p] = "pend" =>
                lined = 0 /\ gen = started[p] /\ \A n \in lagStop : Finished(n)
<1> USE DEF At, flagVars, lockVars, dbVars, diskVars, histVars
<1>0. /\ pc \in [Procs -> Steps]
      /\ \A l \in Steps : Goto(p, l) => pc'[p] = l
      /\ End(p) => pc'[p] = "idle"
      /\ lined \in Nat
  BY Numbers DEF TypeOK, Goto, End, Steps
<1>1. CASE Lock(p)
  BY <1>0, <1>1 DEF Lock, Steps
<1>2. CASE Relower(p)
  BY <1>0, <1>2 DEF Relower, Lower, Steps
<1>3. CASE GotLock(p)
  BY <1>0, <1>3 DEF GotLock, LeaveLine, Steps
<1>4. CASE SaveStop(p)
  BY <1>0, <1>4 DEF SaveStop, TakeWrites, Steps
<1>5. CASE StopDone(p)
  BY <1>0, <1>5 DEF StopDone, StopEnds, Return, Record, Steps
<1>6. CASE StopTimesOut(p)
  BY <1>0, <1>6 DEF StopTimesOut, StopEnds, Return, Record, Steps
<1>7. CASE WaitLag(p)
  BY <1>0, <1>7 DEF WaitLag, Interrupted, Return, LagOver, StoppedSince, Over, Finished, Steps
<1>8. CASE WritePending(p)
  BY <1>0, <1>8 DEF WritePending, Fails, Return, PendingRecord, Steps
<1>9. CASE StoreEnabled(p)
  BY <1>0, <1>9 DEF StoreEnabled, Interrupted, Return, Steps
<1>10. CASE AbandonStore(p)
  BY <1>0, <1>10 DEF AbandonStore, Interrupted, Return, Steps
<1>11. CASE Stored(p)
  BY <1>0, <1>11 DEF Stored, Fails, Return, Steps
<1>12. CASE Confirm(p)
  BY <1>0, <1>12 DEF Confirm, Fails, Return, Steps
<1>13. CASE Raise(p)
  BY <1>0, <1>13 DEF Raise, Interrupted, Return, Record, Steps
<1> QED
  BY <1>1, <1>2, <1>3, <1>4, <1>5, <1>6, <1>7, <1>8, <1>9, <1>10, <1>11, <1>12, <1>13
     DEF Step, Stopping, Resuming

LEMMA FlagFacts ==
    ASSUME TypeOK, NEW p \in Procs, Step(p)
    PROVE  /\ live' => live \/ pc[p] = "raise"
           /\ pc'[p] = "lowered" => ~live'
           /\ stopSaved' => stopSaved \/ pc[p] = "saving"
           /\ pc'[p] = "raise" => ~stopSaved'
           /\ pc[p] = "raise" => UNCHANGED <<file, stopSaved>>
           /\ gen' # gen => pc'[p] = "lowered"
<1> USE DEF At, flagVars, lockVars, dbVars, diskVars, histVars
<1>0. /\ pc \in [Procs -> Steps]
      /\ \A l \in Steps : Goto(p, l) => pc'[p] = l
      /\ End(p) => pc'[p] = "idle"
  BY DEF TypeOK, Goto, End, Steps
<1>1. CASE Lock(p)
  BY <1>0, <1>1 DEF Lock, Steps
<1>2. CASE Relower(p)
  BY <1>0, <1>2 DEF Relower, Lower, Steps
<1>3. CASE GotLock(p)
  BY <1>0, <1>3 DEF GotLock, LeaveLine, Steps
<1>4. CASE SaveStop(p)
  BY <1>0, <1>4 DEF SaveStop, TakeWrites, Steps
<1>5. CASE StopDone(p)
  BY <1>0, <1>5 DEF StopDone, StopEnds, Return, Record, Steps
<1>6. CASE StopTimesOut(p)
  BY <1>0, <1>6 DEF StopTimesOut, StopEnds, Return, Record, Steps
<1>7. CASE WaitLag(p)
  BY <1>0, <1>7 DEF WaitLag, Interrupted, Return, LagOver, StoppedSince, Over, Finished, Steps
<1>8. CASE WritePending(p)
  BY <1>0, <1>8 DEF WritePending, Fails, Return, PendingRecord, Steps
<1>9. CASE StoreEnabled(p)
  BY <1>0, <1>9 DEF StoreEnabled, Interrupted, Return, Steps
<1>10. CASE AbandonStore(p)
  BY <1>0, <1>10 DEF AbandonStore, Interrupted, Return, Steps
<1>11. CASE Stored(p)
  BY <1>0, <1>11 DEF Stored, Fails, Return, Steps
<1>12. CASE Confirm(p)
  <2>1. live' = live /\ gen' = gen /\ pc[p] # "raise" /\ (pc'[p] = "lowered" => FALSE)
    BY <1>0, <1>12 DEF Confirm, Fails, Return, Steps
  <2>2. CASE stopSaved' = FALSE
    BY <2>1, <2>2
  <2>3. CASE stopSaved' = stopSaved /\ pc'[p] = "idle"
    BY <2>1, <2>3
  <2> QED
    BY <1>0, <1>12, <2>2, <2>3 DEF Confirm, Fails, Return
<1>13. CASE Raise(p)
  BY <1>0, <1>13 DEF Raise, Interrupted, Return, Record, Steps
<1> QED
  BY <1>1, <1>2, <1>3, <1>4, <1>5, <1>6, <1>7, <1>8, <1>9, <1>10, <1>11, <1>12, <1>13
     DEF Step, Stopping, Resuming

-----------------------------------------------------------------------------
(* Who waits for a write.                                                  *)

LEMMA WriteVals ==
    ASSUME TypeOK, NEW n \in Ids
    PROVE  writes[n].val \in {"Enabled", "Disabled"} /\ writes[n].st \in {"none", "running", "ok", "err"}
           /\ writes[n].after \subseteq Ids
BY DEF TypeOK, Write

LEMMA RestartWrites ==
    ASSUME Restart
    PROVE  /\ \A n \in Ids : writes'[n].st = "none"
           /\ \A p \in Procs : pc'[p] = "idle"
BY DEF Restart, NoWrite, Everyone

LEMMA StepStopWrites ==
    ASSUME TypeOK, Holds, OwnNumbers, OwnWrites, StopWrites, [Next]_vars PROVE StopWrites'
<1> SUFFICES ASSUME NEW n \in Ids, Runs(n, "Disabled")'
             PROVE  (n \in lagStop \/ \E p \in Procs : pc[p] = "saving" /\ num[p] = n)'
  BY DEF StopWrites
<1>0. Runs(n, "Disabled") => n \in lagStop \/ \E p \in Procs : pc[p] = "saving" /\ num[p] = n
  BY DEF StopWrites
<1> USE DEF Runs
<1>1. ASSUME NEW p \in Procs, Step(p)
      PROVE  n \in lagStop' \/ \E q \in Procs : pc'[q] = "saving" /\ num'[q] = n
  <2>0. Others(p)
    BY <1>1, StepShapes DEF Goes, Ends
  <2>1. CASE SpawnsStop(p) /\ n = num[p]
    <3>1. pc'[p] = "saving" /\ num'[p] = n
      BY <1>1, <2>1, StepShapes DEF SpawnsStop, Goes, Ends
    <3> QED
      BY <3>1
  <2>2. CASE SpawnsStore(p) /\ n = num[p]
    BY <1>1, <2>2, StepWrites DEF Spawned
  <2>3. CASE SameWrite(n)
    <3>1. Runs(n, "Disabled") /\ ~Finished(n)
      BY <2>3 DEF SameWrite, Finished
    <3>2. CASE n \in lagStop
      BY <1>1, <3>1, <3>2, LagFacts
    <3>3. ASSUME NEW q \in Procs, pc[q] = "saving", num[q] = n
          PROVE  n \in lagStop' \/ \E r \in Procs : pc'[r] = "saving" /\ num'[r] = n
      BY <1>1, <2>0, <3>1, <3>3, LagFacts DEF Others
    <3> QED
      BY <1>0, <3>1, <3>2, <3>3
  <2> QED
    BY <1>1, <2>1, <2>2, <2>3, StepWrites
<1>2. ASSUME NEW p \in Procs, Drop(p)
      PROVE  n \in lagStop' \/ \E q \in Procs : pc'[q] = "saving" /\ num'[q] = n
  <2>1. Others(p) /\ writes' = writes /\ lagStop' = lagStop \cup StopWriteLeft(p)
    BY <1>2, DropEnds DEF Ends
  <2>2. pc[p] = "saving" => num[p] \in lagStop'
    BY <2>1 DEF StopWriteLeft, At, Holds, StopSteps
  <2> QED
    BY <1>0, <2>1, <2>2 DEF Others
<1>3. ASSUME NEW p \in Procs, NEW k \in {"stop", "resume"}, Begin(p, k)
      PROVE  n \in lagStop' \/ \E q \in Procs : pc'[q] = "saving" /\ num'[q] = n
  BY <1>0, <1>3, BeginGoes DEF dbVars
<1>4. ASSUME NEW m \in Ids, Land(m) \/ Follow(m)
      PROVE  n \in lagStop' \/ \E q \in Procs : pc'[q] = "saving" /\ num'[q] = n
  <2>1. Runs(n, "Disabled")
    BY <1>4, LandWrites DEF SameWrite
  <2> QED
    BY <1>0, <1>4, <2>1, LandWrites DEF procVars
<1>5. CASE OrphanLands \/ UNCHANGED vars
  BY <1>0, <1>5 DEF OrphanLands, vars, dbVars, procVars
<1>6. CASE Restart
  BY <1>6, RestartWrites
<1> QED
  BY <1>1, <1>2, <1>3, <1>4, <1>5, <1>6 DEF Next

LEMMA StepResumeWrites ==
    ASSUME TypeOK, Holds, OwnNumbers, OwnWrites, ResumeWrites, [Next]_vars PROVE ResumeWrites'
<1> DEFINE Awaited(m) ==
             \/ m \in lagResume
             \/ \E p \in Procs : pc[p] = "storing" /\ num[p] = m
             \/ \E n \in Ids : Runs(n, "Disabled") /\ m \in writes[n].after
<1> SUFFICES ASSUME NEW m \in Ids, Runs(m, "Enabled")' PROVE Awaited(m)'
  BY DEF ResumeWrites
<1>0. Runs(m, "Enabled") => Awaited(m)
  BY DEF ResumeWrites
<1> USE DEF Runs
<1>1. ASSUME NEW p \in Procs, Step(p) PROVE Awaited(m)'
  <2>0. Others(p) /\ pc[p] # "idle" /\ num[p] \in Ids
    <3>1. Others(p) /\ pc[p] # "idle"
      BY <1>1, StepShapes DEF Goes, Ends
    <3> QED
      BY <3>1, OwnId
  <2>1. CASE SpawnsStop(p) /\ m = num[p]
    BY <1>1, <2>1, StepWrites DEF Spawned
  <2>2. CASE SpawnsStore(p) /\ m = num[p]
    <3>1. pc'[p] = "storing" /\ num'[p] = m
      BY <1>1, <2>2, StepShapes DEF SpawnsStore, Goes, Ends
    <3> QED
      BY <3>1
  <2>3. CASE SameWrite(m)
    <3>1. Runs(m, "Enabled") /\ ~Finished(m)
      BY <2>3 DEF SameWrite, Finished
    <3>2. CASE m \in lagResume
      <4>1. CASE pc[p] = "file"
        <5>1. SpawnsStop(p)
          BY <1>1, <4>1, LagFacts DEF SpawnsStop
        <5>2. Spawned(num[p], "Disabled", lagResume)
          BY <1>1, <5>1, StepWrites
        <5> QED
          BY <2>0, <3>2, <5>2 DEF Spawned
      <4>2. CASE pc[p] # "file"
        BY <1>1, <3>2, <4>2, LagFacts
      <4> QED
        BY <4>1, <4>2
    <3>3. ASSUME NEW q \in Procs, pc[q] = "storing", num[q] = m PROVE Awaited(m)'
      BY <1>1, <2>0, <3>1, <3>3, LagFacts DEF Others
    <3>4. ASSUME NEW n \in Ids, Runs(n, "Disabled"), m \in writes[n].after PROVE Awaited(m)'
      <4>1. SameWrite(n)
        BY <1>1, <3>4, StepWrites DEF OwnWrites, SpawnsStop, SpawnsStore
      <4> QED
        BY <3>4, <4>1 DEF SameWrite
    <3> QED
      BY <1>0, <3>1, <3>2, <3>3, <3>4
  <2> QED
    BY <1>1, <2>1, <2>2, <2>3, StepWrites
<1>2. ASSUME NEW p \in Procs, Drop(p) PROVE Awaited(m)'
  <2>1. Others(p) /\ writes' = writes /\ lagResume \subseteq lagResume'
    BY <1>2, DropEnds DEF Ends
  <2>2. pc[p] = "storing" => num[p] \in lagResume'
    BY <1>2, DropEnds DEF At, Holds, Saving
  <2> QED
    BY <1>0, <2>1, <2>2 DEF Others
<1>3. ASSUME NEW p \in Procs, NEW k \in {"stop", "resume"}, Begin(p, k) PROVE Awaited(m)'
  BY <1>0, <1>3, BeginGoes DEF dbVars
<1>4. ASSUME NEW l \in Ids, Land(l) \/ Follow(l) PROVE Awaited(m)'
  <2>1. Runs(m, "Enabled") /\ ~Finished(m)
    BY <1>4, LandWrites DEF SameWrite, Finished
  <2>2. ASSUME NEW n \in Ids, Runs(n, "Disabled"), m \in writes[n].after PROVE Awaited(m)'
    <3>1. SameWrite(n)
      BY <1>4, <2>1, <2>2, LandWrites DEF Land, Runnable
    <3> QED
      BY <2>2, <3>1 DEF SameWrite
  <2> QED
    BY <1>0, <1>4, <2>1, <2>2, LandWrites DEF procVars
<1>5. CASE OrphanLands \/ UNCHANGED vars
  BY <1>0, <1>5 DEF OrphanLands, vars, dbVars, procVars
<1>6. CASE Restart
  BY <1>6, RestartWrites
<1> QED
  BY <1>1, <1>2, <1>3, <1>4, <1>5, <1>6 DEF Next

(* No stop's write runs while a resume saves.                              *)
Alone == \A p \in Procs : pc[p] \in Saving => \A n \in Ids : ~Runs(n, "Disabled")

LEMMA AloneIs == TypeOK /\ Holds => (ResumeSavesAlone <=> Alone)
<1> SUFFICES ASSUME TypeOK, Holds PROVE ResumeSavesAlone <=> Alone
  OBVIOUS
<1>1. \A n \in Ids : writes[n].val = "Enabled" <=> writes[n].val # "Disabled"
  BY WriteVals
<1>2. \A p \in Procs : pc[p] \in Saving => kind[p] = "resume"
  BY DEF Holds
<1> QED
  BY <1>1, <1>2 DEF ResumeSavesAlone, Alone, Runs

LEMMA StepAlone ==
    ASSUME TypeOK, Holds, OwnNumbers, OwnWrites, StopWrites, Alone, [Next]_vars
    PROVE  Alone'
<1> SUFFICES ASSUME NEW r \in Procs, pc'[r] \in Saving, NEW n \in Ids, Runs(n, "Disabled")' PROVE FALSE
  BY DEF Alone
<1> USE DEF Runs
<1>1. ASSUME NEW p \in Procs, Step(p) PROVE FALSE
  <2>0. Others(p)
    BY <1>1, StepShapes DEF Goes, Ends
  <2>1. CASE SpawnsStop(p)
    <3>1. r # p /\ owner = p /\ pc[r] \in Saving
      BY <1>1, <2>0, <2>1 DEF SpawnsStop, Saving, Others, Holds, StopSteps
    <3> QED
      BY <3>1 DEF Holds
  <2>2. CASE ~SpawnsStop(p)
    <3>1. Runs(n, "Disabled") /\ ~Finished(n)
      BY <1>1, <2>2, StepWrites DEF SameWrite, Spawned, Finished
    <3>2. CASE pc[r] \in Saving
      BY <3>1, <3>2 DEF Alone
    <3>3. CASE pc[r] \notin Saving
      <4>1. r = p /\ pc[p] = "queued" /\ pc'[p] = "pend" /\ owner = p
        BY <1>1, <2>0, <3>3, StepShapes DEF Others, Goes, Ends, Saving
      <4>2. n \notin lagStop
        BY <1>1, <3>1, <4>1, LagFacts
      <4>3. PICK q \in Procs : pc[q] = "saving" /\ num[q] = n
        BY <3>1, <4>2 DEF StopWrites
      <4> QED
        BY <4>1, <4>3 DEF Holds, StopSteps
    <3> QED
      BY <3>2, <3>3
  <2> QED
    BY <2>1, <2>2
<1>2. ASSUME NEW p \in Procs, Drop(p) PROVE FALSE
  BY <1>2, DropEnds DEF Ends, Others, Alone, Saving
<1>3. ASSUME NEW p \in Procs, NEW k \in {"stop", "resume"}, Begin(p, k) PROVE FALSE
  BY <1>3, BeginGoes DEF dbVars, Alone, Saving
<1>4. ASSUME NEW m \in Ids, Land(m) \/ Follow(m) PROVE FALSE
  <2>1. Runs(n, "Disabled") /\ pc' = pc
    BY <1>4, LandWrites DEF SameWrite, procVars
  <2> QED
    BY <2>1 DEF Alone
<1>5. CASE OrphanLands \/ UNCHANGED vars
  BY <1>5 DEF OrphanLands, vars, dbVars, procVars, Alone
<1>6. CASE Restart
  BY <1>6, RestartWrites
<1> QED
  BY <1>1, <1>2, <1>3, <1>4, <1>5, <1>6 DEF Next

LEMMA StepLowered ==
    ASSUME TypeOK, Holds, OwnNumbers, Lowered, Alone, [Next]_vars
    PROVE  Lowered'
<1> USE DEF Runs
<1>1. ASSUME NEW p \in Procs, Step(p) PROVE Lowered'
  <2>0. Others(p) /\ (pc[p] \in StopSteps \cup Saving => owner = p)
    BY <1>1, StepShapes DEF Goes, Ends, Holds
  <2>1. ASSUME NEW q \in Procs, pc'[q] \in StopSteps PROVE ~live'
    <3>1. CASE q # p
      <4>1. pc[q] \in StopSteps /\ owner = q
        BY <2>0, <2>1, <3>1 DEF Others, Holds
      <4> QED
        BY <1>1, <2>0, <3>1, <4>1, FlagFacts DEF Lowered, Saving
    <3>2. CASE q = p
      <4>1. pc'[p] = "lowered" \/ (pc[p] \in StopSteps /\ pc[p] # "raise")
        BY <1>1, <2>1, <3>2, StepShapes DEF Goes, Ends, StopSteps
      <4> QED
        BY <1>1, <4>1, FlagFacts DEF Lowered
    <3> QED
      BY <3>1, <3>2
  <2>2. ASSUME live', NEW n \in Ids, Runs(n, "Disabled")' PROVE FALSE
    <3>1. ~SpawnsStop(p)
      BY <2>1, <2>2 DEF SpawnsStop, StopSteps
    <3>2. Runs(n, "Disabled")
      BY <1>1, <2>2, <3>1, StepWrites DEF SameWrite, Spawned
    <3> QED
      BY <1>1, <2>2, <3>2, FlagFacts DEF Lowered, Alone, Saving
  <2>3. ASSUME NEW q \in Procs, pc'[q] = "raise" PROVE ~stopSaved'
    BY <1>1, <2>0, <2>3, FlagFacts DEF Others, Lowered, StopSteps, Saving, Holds
  <2> QED
    BY <2>1, <2>2, <2>3 DEF Lowered
<1>2. ASSUME NEW p \in Procs, Drop(p) PROVE Lowered'
  BY <1>2, DropEnds DEF Lowered, Ends, Others, StopSteps
<1>3. ASSUME NEW p \in Procs, NEW k \in {"stop", "resume"}, Begin(p, k) PROVE Lowered'
  <2>1. live' => live
    BY <1>3 DEF Begin, Lower, flagVars
  <2> QED
    BY <1>3, <2>1, BeginGoes DEF Lowered, StopSteps, dbVars, histVars
<1>4. ASSUME NEW m \in Ids, Land(m) \/ Follow(m) PROVE Lowered'
  <2>1. UNCHANGED <<pc, live, stopSaved>> /\ \A n \in Ids : Runs(n, "Disabled")' => Runs(n, "Disabled")
    BY <1>4, LandWrites DEF SameWrite, procVars, flagVars, histVars
  <2> QED
    BY <2>1 DEF Lowered
<1>5. CASE OrphanLands \/ UNCHANGED vars
  BY <1>5 DEF OrphanLands, vars, dbVars, procVars, flagVars, histVars, Lowered
<1>6. CASE Restart
  BY <1>6, RestartWrites DEF Lowered, StopSteps
<1> QED
  BY <1>1, <1>2, <1>3, <1>4, <1>5, <1>6 DEF Next

(* A resume's write that was confirmed is in the database: no other can    *)
(* follow it.                                                              *)
Kept(p) == pc[p] \in {"confirm", "raise"} \/ (pc[p] = "storing" /\ writes[num[p]].st = "ok")

LEMMA StepStoredEnabled ==
    ASSUME TypeOK, Holds, OwnNumbers, OwnWrites, StoredEnabled, Alone, [Next]_vars
    PROVE  StoredEnabled'
<1> SUFFICES ASSUME NEW r \in Procs, Kept(r)' PROVE db' = "Enabled"
  BY DEF StoredEnabled, Kept
<1>0. \A q \in Procs : Kept(q) => db = "Enabled"
  BY DEF StoredEnabled, Kept
<1>1. ASSUME NEW p \in Procs, Step(p) PROVE db' = "Enabled"
  <2>1. db' = db /\ Others(p)
    BY <1>1, LagFacts, StepShapes DEF Goes, Ends
  <2>2. CASE r = p
    BY <1>0, <1>1, <2>1, <2>2, StepShapes, StepWrites
       DEF Kept, Goes, Ends, SpawnsStore, Spawned
  <2>3. CASE r # p
    <3>1. pc[r] # "idle" /\ pc[p] # "idle" /\ num[r] # num[p]
      BY <1>1, <2>1, <2>3, StepShapes DEF Kept, Others, OwnNumbers, Goes, Ends
    <3>2. SameWrite(num[r])
      BY <1>1, <3>1, StepWrites, OwnId
    <3> QED
      BY <1>0, <2>1, <2>3, <3>2 DEF Kept, Others, SameWrite
  <2> QED
    BY <2>2, <2>3
<1>2. ASSUME NEW p \in Procs, Drop(p) PROVE db' = "Enabled"
  BY <1>0, <1>2, DropEnds DEF Kept, Ends, Others, diskVars
<1>3. ASSUME NEW p \in Procs, NEW k \in {"stop", "resume"}, Begin(p, k) PROVE db' = "Enabled"
  BY <1>0, <1>3, BeginGoes DEF Kept, dbVars, diskVars
<1>4. ASSUME NEW m \in Ids, Land(m) \/ Follow(m) PROVE db' = "Enabled"
  <2>1. /\ UNCHANGED <<pc, num>> /\ pc[r] \in Saving /\ num[r] \in Ids
        /\ \A l \in Ids : SameWrite(l) \/ (l = m /\ Land(m))
    BY <1>4, LandWrites, OwnId DEF procVars, Kept, Saving
  <2>2. CASE Land(m)
    <3>1. /\ writes[m].val = "Enabled"
          /\ \E st \in {"ok", "err"} :
               /\ writes' = [writes EXCEPT ![m].st = st]
               /\ db' \in IF st = "ok" THEN {writes[m].val} ELSE {writes[m].val, db}
      BY <2>1, <2>2, WriteVals DEF Land, Runnable, Alone, Runs
    <3>2. CASE Kept(r)
      BY <1>0, <3>1, <3>2
    <3>3. CASE ~Kept(r)
      <4>1. num[r] = m /\ writes'[m].st = "ok"
        BY <2>1, <3>3 DEF Kept, SameWrite
      <4>2. \A st : writes' = [writes EXCEPT ![m].st = st] => writes'[m].st = st
        BY DEF TypeOK, Write
      <4> QED
        BY <3>1, <4>1, <4>2
    <3> QED
      BY <3>2, <3>3
  <2>3. CASE ~Land(m)
    BY <1>0, <1>4, <2>1, <2>3 DEF Follow, diskVars, Kept, SameWrite
  <2> QED
    BY <2>2, <2>3
<1>5. CASE OrphanLands \/ UNCHANGED vars
  BY <1>0, <1>5 DEF OrphanLands, vars, dbVars, procVars, diskVars, Kept
<1>6. CASE Restart
  BY <1>6, RestartWrites DEF Kept
<1> QED
  BY <1>1, <1>2, <1>3, <1>4, <1>5, <1>6 DEF Next

LEMMA FileFacts ==
    ASSUME TypeOK, NEW p \in Procs, Step(p)
    PROVE  /\ file' # file => pc[p] \in {"file", "pend", "confirm"}
           /\ file' \in {file, "Disabled", "Pending"} \/ (pc[p] = "confirm" /\ pc'[p] = "raise")
           /\ file' = "Disabled" => file = "Disabled" \/ pc[p] = "file"
           /\ pc'[p] = "check" => file' = "Pending"
           /\ pc'[p] = "raise" => file' = "Enabled"
           /\ pc'[p] = "saving" /\ fileOk'[p] => file' = "Disabled"
           /\ stopSaved' => stopSaved \/ (pc[p] = "saving" /\ (writes[num[p]].st = "ok" \/ fileOk[p]))
<1> USE DEF At, flagVars, lockVars, dbVars, diskVars, histVars
<1>0. /\ pc \in [Procs -> Steps]
      /\ \A l \in Steps : Goto(p, l) => pc'[p] = l
      /\ End(p) => pc'[p] = "idle"
      /\ \A ok \in BOOLEAN : fileOk' = [fileOk EXCEPT ![p] = ok] => fileOk'[p] = ok
  BY DEF TypeOK, Goto, End, Steps
<1>1. CASE Lock(p)
  BY <1>0, <1>1 DEF Lock, Steps
<1>2. CASE Relower(p)
  BY <1>0, <1>2 DEF Relower, Lower, Steps
<1>3. CASE GotLock(p)
  BY <1>0, <1>3 DEF GotLock, LeaveLine, Steps
<1>4. CASE SaveStop(p)
  BY <1>0, <1>4 DEF SaveStop, TakeWrites, Steps
<1>5. CASE StopDone(p)
  BY <1>0, <1>5 DEF StopDone, StopEnds, Return, SavedSomewhere, Steps
<1>6. CASE StopTimesOut(p)
  BY <1>0, <1>6 DEF StopTimesOut, StopEnds, Return, SavedSomewhere, Steps
<1>7. CASE WaitLag(p)
  BY <1>0, <1>7 DEF WaitLag, Interrupted, Return, LagOver, StoppedSince, Over, Finished, Steps
<1>8. CASE WritePending(p)
  BY <1>0, <1>8 DEF WritePending, Fails, Return, PendingRecord, Steps
<1>9. CASE StoreEnabled(p)
  BY <1>0, <1>9 DEF StoreEnabled, Interrupted, Return, Steps
<1>10. CASE AbandonStore(p)
  BY <1>0, <1>10 DEF AbandonStore, Interrupted, Return, Steps
<1>11. CASE Stored(p)
  BY <1>0, <1>11 DEF Stored, Fails, Return, Steps
<1>12. CASE Confirm(p)
  <2>1. pc[p] = "confirm"
    BY <1>12 DEF Confirm
  <2>2. CASE file' = "Enabled" /\ stopSaved' = FALSE /\ pc'[p] = "raise"
    BY <2>1, <2>2
  <2>3. CASE file' = file /\ stopSaved' = stopSaved /\ pc'[p] = "idle"
    BY <2>1, <2>3
  <2> QED
    BY <1>0, <1>12, <2>2, <2>3 DEF Confirm, Fails, Return, Steps
<1>13. CASE Raise(p)
  BY <1>0, <1>13 DEF Raise, Interrupted, Return, Record, Steps
<1> QED
  BY <1>1, <1>2, <1>3, <1>4, <1>5, <1>6, <1>7, <1>8, <1>9, <1>10, <1>11, <1>12, <1>13
     DEF Step, Stopping, Resuming

(* A stop on its way does not leave before it has op_lock and has saved.   *)
LEMMA StopGoes ==
    ASSUME TypeOK, NEW p \in Procs, Step(p), kind[p] = "stop", pc[p] \in {"lock", "queued", "lowered"}
    PROVE  Goes(p, CASE pc[p] = "lock" -> "queued" [] pc[p] = "queued" -> "lowered" [] OTHER -> "file")
<1> USE DEF At, flagVars, lockVars, dbVars, diskVars, histVars
<1>1. CASE Lock(p)
  BY <1>1, GotoGoes DEF Lock
<1>2. CASE Relower(p)
  BY <1>2, GotoGoes DEF Relower
<1>3. CASE GotLock(p)
  BY <1>3, GotoGoes DEF GotLock
<1>4. CASE SaveStop(p) \/ StopDone(p) \/ StopTimesOut(p)
  BY <1>4 DEF SaveStop, StopDone, StopTimesOut
<1>5. CASE Resuming(p)
  BY <1>5, ResumingCases
<1> QED
  BY <1>1, <1>2, <1>3, <1>4, <1>5 DEF Step, Stopping

-----------------------------------------------------------------------------
(* What holds as long as no future is dropped.                             *)

OnItsWay(s) == kind[s] = "stop" /\ pc[s] \in {"lock", "queued", "lowered", "file"}

LEMMA LinedCounted == TypeOK /\ Counts => (lined = 0 <=> Lined = {})
<1> SUFFICES ASSUME TypeOK, Counts PROVE lined = 0 <=> Lined = {}
  OBVIOUS
<1>1. IsFiniteSet(Lined)
  BY Subsets, WriteControlAssumption, FS_Subset
<1> QED
  BY <1>1, FS_EmptySet DEF Counts

LEMMA StepHandover ==
    ASSUME TypeOK, Counts, Holds, OwnNumbers, Handover, [Next]_vars, detached'
    PROVE  Handover'
<1>h. /\ lagResume # {} => \E s \in Procs : OnItsWay(s)
      /\ \A q \in Procs : pc[q] \in Saving => lagResume = {} /\ (gen # started[q] => Unlowered # {})
  BY DEF Handover, OnItsWay
<1>g. /\ lagResume' # {} => \E s \in Procs : OnItsWay(s)'
      /\ \A q \in Procs : pc'[q] \in Saving => lagResume' = {} /\ (gen' # started'[q] => Unlowered' # {})
      => Handover'
  BY DEF Handover, OnItsWay
<1>1. ASSUME NEW p \in Procs, Step(p) PROVE Handover'
  <2>0. Others(p) /\ (pc[p] \in StopSteps \cup Saving => owner = p)
    BY <1>1, StepShapes DEF Goes, Ends, Holds
  <2>s. ASSUME NEW s \in Procs, OnItsWay(s), s # p \/ pc[p] # "file" PROVE OnItsWay(s)'
    <3>1. CASE s # p
      BY <2>0, <2>s, <3>1 DEF Others, OnItsWay
    <3>2. CASE s = p
      BY <1>1, <2>s, <3>2, StopGoes DEF Goes, OnItsWay
    <3> QED
      BY <3>1, <3>2
  <2>u. ASSUME NEW s \in Unlowered, s # p \/ pc[p] = "lock" PROVE Unlowered' # {}
    <3>1. s \in Procs /\ kind[s] = "stop" /\ pc[s] \in {"lock", "queued"}
      BY DEF Unlowered
    <3>2. s \in Unlowered'
      <4>1. CASE s # p
        BY <2>0, <3>1, <4>1 DEF Others, Unlowered
      <4>2. CASE s = p
        BY <1>1, <2>u, <3>1, <4>2, StopGoes DEF Goes, Unlowered
      <4> QED
        BY <4>1, <4>2
    <3> QED
      BY <3>2
  <2>1. ASSUME lagResume' # {} PROVE \E s \in Procs : OnItsWay(s)'
    <3>1. CASE lagResume' \subseteq lagResume
      <4>1. PICK s \in Procs : OnItsWay(s)
        BY <1>h, <2>1, <3>1
      <4>2. pc[p] # "file"
        BY <1>1, <2>1, LagFacts
      <4> QED
        BY <2>s, <4>1, <4>2
    <3>2. CASE pc[p] = "storing" /\ StoppedSince(p)
      <4>1. gen # started[p] => Unlowered # {}
        BY <1>h, <3>2 DEF Saving
      <4>2. lined > 0 => Lined # {}
        BY LinedCounted, Numbers
      <4>3. Lined # {} \/ Unlowered # {}
        BY <3>2, <4>1, <4>2 DEF StoppedSince
      <4>4. PICK s \in Procs : OnItsWay(s)
        BY <4>3 DEF Lined, Unlowered, OnItsWay
      <4> QED
        BY <2>s, <3>2, <4>4
    <3> QED
      BY <1>1, <3>1, <3>2, LagFacts
  <2>2. ASSUME NEW q \in Procs, pc'[q] \in Saving
        PROVE  lagResume' = {} /\ (gen' # started'[q] => Unlowered' # {})
    <3>g. gen' = gen \/ pc'[p] = "lowered"
      BY <1>1, FlagFacts
    <3>1. CASE q # p
      <4>1. pc[q] \in Saving /\ owner = q /\ started'[q] = started[q]
        BY <2>0, <2>2, <3>1 DEF Others, Holds
      <4>2. pc[p] = "lock" /\ pc'[p] = "queued"
        BY <1>1, <2>0, <3>1, <4>1, StepShapes DEF Goes, Ends
      <4>3. lagResume' \subseteq lagResume
        BY <1>1, <4>2, LagFacts
      <4> QED
        BY <1>h, <2>u, <3>g, <4>1, <4>2, <4>3
    <3>2. CASE q = p /\ pc[p] \in Saving
      <4>1. Goes(p, pc'[p]) /\ pc'[p] # "idle" /\ pc'[p] # "lowered"
        BY <1>1, <2>2, <3>2, StepShapes DEF Goes, Ends, Saving
      <4>2. lagResume' \subseteq lagResume /\ gen' = gen /\ started'[p] = started[p]
        BY <1>1, <3>g, <4>1, LagFacts DEF Goes
      <4>3. \A s \in Unlowered : s # p
        BY <3>2 DEF Unlowered, Saving
      <4> QED
        BY <1>h, <2>u, <3>2, <4>2, <4>3
    <3>3. CASE q = p /\ pc[p] \notin Saving
      <4>1. pc[p] = "queued" /\ pc'[p] = "pend" /\ Goes(p, "pend") /\ kind[p] = "resume" /\ owner = p
        BY <1>1, <2>2, <3>3, StepShapes DEF Goes, Ends, Saving
      <4>2. lined = 0 /\ gen = started[p] /\ gen' = gen /\ started'[p] = started[p]
        BY <1>1, <3>g, <4>1, LagFacts DEF Goes
      <4>3. Lined = {}
        BY <4>2, LinedCounted
      <4>4. ~\E s \in Procs : OnItsWay(s)
        BY <4>1, <4>3 DEF OnItsWay, Lined, Holds, StopSteps
      <4>5. lagResume' \subseteq lagResume
        BY <1>1, <4>1, LagFacts
      <4> QED
        BY <1>h, <3>3, <4>2, <4>4, <4>5
    <3> QED
      BY <3>1, <3>2, <3>3
  <2> QED
    BY <1>g, <2>1, <2>2
<1>2. ASSUME NEW p \in Procs, Drop(p) PROVE Handover'
  BY <1>2, DropEnds
<1>3. ASSUME NEW p \in Procs, NEW k \in {"stop", "resume"}, Begin(p, k) PROVE Handover'
  <2>1. /\ lagResume' = lagResume
        /\ k = "resume" => gen' = gen
        /\ k = "stop" => p \in Unlowered'
        /\ Unlowered \subseteq Unlowered'
    BY <1>3, BeginGoes DEF dbVars, Begin, flagVars, Unlowered
  <2>2. \A s \in Procs : OnItsWay(s) => OnItsWay(s)'
    BY <1>3, BeginGoes DEF OnItsWay
  <2>3. \A q \in Procs : pc'[q] \in Saving => pc[q] \in Saving /\ started'[q] = started[q]
    BY <1>3, BeginGoes DEF Saving
  <2> QED
    BY <1>g, <1>h, <2>1, <2>2, <2>3
<1>4. ASSUME NEW m \in Ids, Land(m) \/ Follow(m) PROVE Handover'
  BY <1>4, LandWrites DEF Handover, procVars, flagVars, Unlowered
<1>5. CASE OrphanLands \/ UNCHANGED vars
  BY <1>5 DEF OrphanLands, vars, dbVars, procVars, flagVars, Handover, Unlowered
<1>6. CASE Restart
  BY <1>6, RestartWrites DEF Handover, Restart, Saving
<1> QED
  BY <1>1, <1>2, <1>3, <1>4, <1>5, <1>6 DEF Next

(* A write that lands while the file bars a restart whenever a resume's    *)
(* may, does not open the way for one.                                     *)
LEMMA LandBoots ==
    ASSUME TypeOK, FileTells, NEW m \in Ids, Land(m) \/ Follow(m)
    PROVE  /\ Boots' => Boots
           /\ db' = db \/ db' = writes[m].val
<1>1. CASE Land(m)
  <2>1. file' = file /\ db' \in {writes[m].val, db} /\ writes[m].st = "running"
    BY <1>1 DEF Land, Runnable
  <2>2. writes[m].val = "Enabled" => file \in {"Pending", "Disabled"}
    BY <2>1 DEF FileTells, Runs, Barred
  <2> QED
    BY <2>1, <2>2, WriteVals DEF Boots, FileAllows
<1>2. CASE Follow(m)
  BY <1>2 DEF Follow, diskVars, Boots, FileAllows
<1> QED
  BY <1>1, <1>2

LEMMA StepFileTells ==
    ASSUME TypeOK, Holds, OwnNumbers, OwnWrites, ResumeWrites, Alone, Handover, FileTells, [Next]_vars,
           detached'
    PROVE  FileTells'
<1> DEFINE Tells(p) ==
      /\ pc[p] \in {"check", "storing", "confirm"} => file = "Pending"
      /\ pc[p] = "raise" => file = "Enabled"
      /\ pc[p] = "saving" /\ fileOk[p] => file = "Disabled"
      /\ pc[p] = "saving" /\ writes[num[p]].st = "ok" => ~Boots
<1>h. /\ orphans = {}
      /\ \A p \in Procs : Tells(p)
      /\ \A n \in Ids : Runs(n, "Enabled") => Barred
  BY DEF FileTells
<1>g. /\ orphans' = {}
      /\ \A p \in Procs : Tells(p)'
      /\ \A n \in Ids : Runs(n, "Enabled")' => Barred'
      => FileTells'
  BY DEF FileTells
<1>1. ASSUME NEW p \in Procs, Step(p) PROVE FileTells'
  <2>0. Others(p) /\ pc[p] # "idle" /\ (pc[p] \in StopSteps \cup Saving => owner = p) /\ db' = db
    BY <1>1, StepShapes, LagFacts DEF Goes, Ends, Holds
  <2>1. ASSUME NEW q \in Procs, q # p PROVE Tells(q)'
    <3>1. pc'[q] = pc[q] /\ num'[q] = num[q] /\ fileOk'[q] = fileOk[q]
      BY <2>0, <2>1 DEF Others
    <3>2. CASE pc[q] \in StopSteps \cup Saving
      <4>1. file' = file
        BY <1>1, <2>0, <2>1, <3>2, FileFacts DEF Holds, StopSteps, Saving
      <4>2. SameWrite(num[q])
        <5>1. pc[q] # "idle" /\ num[q] # num[p]
          BY <2>0, <2>1, <3>2 DEF StopSteps, Saving, OwnNumbers
        <5> QED
          BY <1>1, <5>1, StepWrites, OwnId
      <4>3. Boots' = Boots
        BY <2>0, <4>1 DEF Boots, FileAllows
      <4>4. writes'[num'[q]].st = writes[num[q]].st
        BY <3>1, <4>2 DEF SameWrite
      <4> QED
        BY <1>h, <3>1, <4>1, <4>3, <4>4
    <3>3. CASE pc[q] \notin StopSteps \cup Saving
      BY <3>1, <3>3 DEF StopSteps, Saving
    <3> QED
      BY <3>2, <3>3
  <2>2. Tells(p)'
    <3>1. pc'[p] \in {"check", "storing", "confirm"} => file' = "Pending"
      <4>1. \/ pc'[p] = "check"
            \/ pc'[p] = "storing" /\ pc[p] = "check"
            \/ pc'[p] = "confirm" /\ pc[p] = "storing"
            \/ pc'[p] \notin {"check", "storing", "confirm"}
        BY <1>1, StepShapes DEF Goes, Ends
      <4> QED
        BY <1>1, <1>h, <4>1, FileFacts
    <3>2. pc'[p] = "saving" => writes'[num'[p]].st # "ok"
      <4> SUFFICES ASSUME pc'[p] = "saving" PROVE writes'[num'[p]].st # "ok"
        OBVIOUS
      <4>1. SpawnsStop(p) /\ num'[p] = num[p]
        BY <1>1, StepShapes DEF Goes, Ends, SpawnsStop
      <4> QED
        BY <1>1, <4>1, StepWrites DEF Spawned
    <3> QED
      BY <1>1, <3>1, <3>2, FileFacts
  <2>3. ASSUME NEW m \in Ids, Runs(m, "Enabled")' PROVE Barred'
    <3>1. CASE SpawnsStore(p)
      <4>1. file = "Pending" /\ file' = file
        BY <1>1, <1>h, <3>1, FileFacts DEF SpawnsStore
      <4> QED
        BY <4>1 DEF Barred
    <3>2. CASE ~SpawnsStore(p)
      <4>1. Runs(m, "Enabled")
        <5>1. CASE SpawnsStop(p) /\ m = num[p]
          BY <1>1, <2>3, <5>1, StepWrites DEF Spawned, Runs
        <5>2. CASE SameWrite(m)
          BY <2>3, <5>2 DEF SameWrite, Runs
        <5> QED
          BY <1>1, <3>2, <5>1, <5>2, StepWrites
      <4>2. pc[p] # "confirm"
        <5> SUFFICES ASSUME pc[p] = "confirm" PROVE FALSE
          OBVIOUS
        <5>1. m \notin lagResume
          BY DEF Handover, Saving
        <5>2. \A n \in Ids : ~Runs(n, "Disabled")
          BY DEF Alone, Saving
        <5>3. PICK q \in Procs : pc[q] = "storing" /\ num[q] = m
          BY <4>1, <5>1, <5>2 DEF ResumeWrites
        <5> QED
          BY <5>3 DEF Holds, Saving
      <4>3. Barred
        BY <1>h, <4>1
      <4> QED
        BY <1>1, <4>2, <4>3, FileFacts DEF Barred
    <3> QED
      BY <3>1, <3>2
  <2>4. orphans' = {}
    BY <1>1, <1>h, LagFacts
  <2> QED
    BY <1>g, <2>1, <2>2, <2>3, <2>4
<1>2. ASSUME NEW p \in Procs, Drop(p) PROVE FileTells'
  BY <1>2, DropEnds
<1>3. ASSUME NEW p \in Procs, NEW k \in {"stop", "resume"}, Begin(p, k) PROVE FileTells'
  <2>1. UNCHANGED <<writes, orphans, db, file, fileOk>>
    BY <1>3, BeginGoes DEF dbVars, diskVars
  <2>2. \A q \in Procs : pc'[q] = "lock" \/ (pc'[q] = pc[q] /\ num'[q] = num[q])
    BY <1>3, BeginGoes
  <2>3. \A q \in Procs : Tells(q)'
    BY <1>h, <2>1, <2>2 DEF Boots, FileAllows
  <2> QED
    BY <1>g, <1>h, <2>1, <2>3 DEF Runs, Barred
<1>4. ASSUME NEW m \in Ids, Land(m) \/ Follow(m) PROVE FileTells'
  <2>1. /\ UNCHANGED <<pc, num, fileOk, file, orphans>>
        /\ \A n \in Ids : Runs(n, "Enabled")' => Runs(n, "Enabled")
    BY <1>4, LandWrites DEF procVars, SameWrite, Runs
  <2>2. ASSUME NEW q \in Procs, pc[q] = "saving", writes'[num[q]].st = "ok" PROVE ~Boots'
    <3>1. num[q] \in Ids /\ writes[num[q]].val = "Disabled"
      BY <2>2, OwnId DEF OwnWrites
    <3>2. CASE SameWrite(num[q])
      BY <1>4, <1>h, <2>2, <3>2, LandBoots DEF SameWrite
    <3>3. CASE num[q] = m /\ Land(m)
      <4>1. PICK st \in {"ok", "err"} :
              /\ writes' = [writes EXCEPT ![m].st = st]
              /\ db' \in IF st = "ok" THEN {writes[m].val} ELSE {writes[m].val, db}
        BY <3>3 DEF Land
      <4>2. writes'[m].st = st
        BY <4>1 DEF TypeOK, Write
      <4> QED
        BY <2>2, <3>1, <3>3, <4>1, <4>2 DEF Boots
    <3> QED
      BY <1>4, <3>1, <3>2, <3>3, LandWrites
  <2>3. \A q \in Procs : Tells(q)'
    BY <1>h, <2>1, <2>2
  <2> QED
    BY <1>g, <1>h, <2>1, <2>3 DEF Barred
<1>5. CASE OrphanLands \/ UNCHANGED vars
  <2>1. UNCHANGED vars
    BY <1>5, <1>h DEF OrphanLands
  <2> QED
    BY <2>1 DEF vars, dbVars, procVars, diskVars, FileTells, Runs, Barred, Boots, FileAllows
<1>6. CASE Restart
  BY <1>6, <1>g, RestartWrites DEF Restart, Runs
<1> QED
  BY <1>1, <1>2, <1>3, <1>4, <1>5, <1>6 DEF Next

SavedStop == stopSaved => ~live /\ ~Boots
LiveSaved == live => db = "Enabled" /\ file # "Disabled"

LEMMA StepSavedStop ==
    ASSUME TypeOK, Holds, Lowered, FileTells, SavedStop, [Next]_vars, detached'
    PROVE  SavedStop'
<1>b. UNCHANGED <<db, file>> => Boots' = Boots
  BY DEF Boots, FileAllows
<1>1. ASSUME NEW p \in Procs, Step(p) PROVE SavedStop'
  <2> SUFFICES ASSUME stopSaved' PROVE ~live' /\ ~Boots'
    BY DEF SavedStop
  <2>1. db' = db /\ (file' \in {file, "Disabled", "Pending"})
    BY <1>1, LagFacts, FileFacts, FlagFacts
  <2>2. ~live /\ ~Boots /\ pc[p] # "raise"
    <3>1. CASE stopSaved
      BY <3>1 DEF SavedStop, Lowered
    <3>2. CASE pc[p] = "saving" /\ (writes[num[p]].st = "ok" \/ fileOk[p])
      BY <3>2 DEF Lowered, StopSteps, FileTells, Boots, FileAllows
    <3> QED
      BY <1>1, <3>1, <3>2, FileFacts
  <2>3. ~live'
    BY <1>1, <2>2, FlagFacts
  <2>4. ~Boots'
    BY <2>1, <2>2 DEF Boots, FileAllows
  <2> QED
    BY <2>3, <2>4
<1>2. ASSUME NEW p \in Procs, Drop(p) PROVE SavedStop'
  BY <1>2, DropEnds
<1>3. ASSUME NEW p \in Procs, NEW k \in {"stop", "resume"}, Begin(p, k) PROVE SavedStop'
  <2>1. (live' => live) /\ UNCHANGED <<db, file, stopSaved>>
    BY <1>3 DEF Begin, Lower, flagVars, diskVars, histVars
  <2> QED
    BY <1>b, <2>1 DEF SavedStop
<1>4. ASSUME NEW m \in Ids, Land(m) \/ Follow(m) PROVE SavedStop'
  BY <1>4, LandBoots, LandWrites DEF SavedStop, flagVars, histVars
<1>5. CASE OrphanLands \/ UNCHANGED vars
  <2>1. UNCHANGED <<live, db, file, stopSaved>>
    BY <1>5 DEF OrphanLands, FileTells, vars, flagVars, diskVars, histVars
  <2> QED
    BY <1>b, <2>1 DEF SavedStop
<1>6. CASE Restart
  <2>1. UNCHANGED <<db, file, stopSaved>> /\ (live' => Boots)
    BY <1>6 DEF Restart, diskVars, histVars
  <2> QED
    BY <1>b, <2>1 DEF SavedStop
<1> QED
  BY <1>1, <1>2, <1>3, <1>4, <1>5, <1>6 DEF Next

LEMMA StepLiveSaved ==
    ASSUME TypeOK, Lowered, StoredEnabled, FileTells, LiveSaved, [Next]_vars, detached'
    PROVE  LiveSaved'
<1>1. ASSUME NEW p \in Procs, Step(p) PROVE LiveSaved'
  <2> SUFFICES ASSUME live' PROVE db' = "Enabled" /\ file' # "Disabled"
    BY DEF LiveSaved
  <2>1. db = "Enabled" /\ file # "Disabled" /\ pc[p] # "file"
    <3>1. CASE live
      BY <3>1 DEF LiveSaved, Lowered, StopSteps
    <3>2. CASE pc[p] = "raise"
      BY <3>2 DEF StoredEnabled, FileTells
    <3> QED
      BY <1>1, <3>1, <3>2, FlagFacts
  <2> QED
    BY <1>1, <2>1, LagFacts, FileFacts
<1>2. ASSUME NEW p \in Procs, Drop(p) PROVE LiveSaved'
  BY <1>2, DropEnds
<1>3. ASSUME NEW p \in Procs, NEW k \in {"stop", "resume"}, Begin(p, k) PROVE LiveSaved'
  BY <1>3 DEF Begin, Lower, flagVars, diskVars, LiveSaved
<1>4. ASSUME NEW m \in Ids, Land(m) \/ Follow(m) PROVE LiveSaved'
  <2>1. UNCHANGED <<live, file>>
    BY <1>4, LandWrites DEF flagVars
  <2>2. CASE Land(m) /\ live
    <3>1. writes[m].val = "Enabled" /\ db' \in {writes[m].val, db}
      BY <2>2, WriteVals DEF Land, Runnable, Lowered, Runs
    <3> QED
      BY <2>1, <2>2, <3>1 DEF LiveSaved
  <2>3. CASE ~live
    BY <2>1, <2>3 DEF LiveSaved
  <2>4. CASE Follow(m)
    BY <2>1, <2>4 DEF Follow, diskVars, LiveSaved
  <2> QED
    BY <1>4, <2>2, <2>3, <2>4
<1>5. CASE OrphanLands \/ UNCHANGED vars
  BY <1>5 DEF OrphanLands, FileTells, vars, flagVars, diskVars, LiveSaved
<1>6. CASE Restart
  BY <1>6 DEF Restart, diskVars, Boots, FileAllows, LiveSaved
<1> QED
  BY <1>1, <1>2, <1>3, <1>4, <1>5, <1>6 DEF Next

(* What a step does to the warning and to the writes that are followed.    *)
LEMMA SlotFacts ==
    ASSUME TypeOK, NEW p \in Procs, Step(p), ~slot'.warn
    PROVE  \/ ~slot.warn /\ (pc'[p] = "idle" => kind[p] = "resume" /\ StoppedSince(p))
           \/ pc[p] = "saving" /\ fileOk[p] /\ pc'[p] = "idle"
           \/ pc[p] = "raise" /\ live'
<1> USE DEF At, flagVars, lockVars, dbVars, diskVars, histVars
<1>0. /\ pc \in [Procs -> Steps]
      /\ \A l \in Steps : Goto(p, l) => pc'[p] = l
      /\ \A w \in BOOLEAN : Record(w) => slot'.warn = w
  BY DEF TypeOK, Goto, Record
<1>1. CASE Lock(p)
  BY <1>0, <1>1 DEF Lock, Steps
<1>2. CASE Relower(p) \/ GotLock(p) \/ SaveStop(p)
  BY <1>0, <1>2 DEF Relower, GotLock, SaveStop, Steps
<1>3. CASE StopDone(p) \/ StopTimesOut(p)
  <2>1. pc[p] = "saving" /\ End(p) /\ \E d \in BOOLEAN : Record(~FullyPersisted(d, fileOk[p]))
    BY <1>3 DEF StopDone, StopTimesOut, StopEnds, Return
  <2>2. PICK d \in BOOLEAN : Record(~FullyPersisted(d, fileOk[p]))
    BY <2>1
  <2>3. slot'.warn = ~FullyPersisted(d, fileOk[p])
    BY <2>2 DEF Record
  <2>4. pc'[p] = "idle"
    BY <1>0, <2>1 DEF End, Steps
  <2> QED
    BY <2>1, <2>3, <2>4 DEF FullyPersisted
<1>4. CASE WaitLag(p)
  BY <1>0, <1>4 DEF WaitLag, Interrupted, Steps
<1>5. CASE WritePending(p)
  BY <1>0, <1>5 DEF WritePending, Fails, Steps
<1>6. CASE StoreEnabled(p)
  BY <1>0, <1>6 DEF StoreEnabled, Interrupted, Steps
<1>7. CASE AbandonStore(p)
  BY <1>0, <1>7 DEF AbandonStore, Interrupted, Steps
<1>8. CASE Stored(p)
  BY <1>0, <1>8 DEF Stored, Fails, Steps
<1>9. CASE Confirm(p)
  BY <1>0, <1>9 DEF Confirm, Fails, Steps
<1>10. CASE Raise(p)
  BY <1>0, <1>10 DEF Raise, Interrupted, Steps
<1> QED
  BY <1>1, <1>2, <1>3, <1>4, <1>5, <1>6, <1>7, <1>8, <1>9, <1>10 DEF Step, Stopping, Resuming

LEMMA MoreFacts ==
    ASSUME TypeOK, NEW p \in Procs, Step(p)
    PROVE  /\ lined' # lined => pc[p] = "lowered" /\ pc'[p] = "file"
           /\ live /\ ~live' => pc'[p] = "lowered"
           /\ pc[p] = "file" => file' \in {file, "Disabled"}
           /\ pc[p] = "pend" /\ file' # file => pc'[p] = "check"
           /\ pc[p] = "confirm" /\ file' # file => pc'[p] = "raise"
           /\ pc[p] = "queued" /\ pc'[p] = "pend" => \A n \in lagStop : ~writes[n].follow
           /\ \A n \in lagStop : writes[n].follow => n \in lagStop'
<1> USE DEF At, flagVars, lockVars, dbVars, diskVars, histVars
<1>0. /\ pc \in [Procs -> Steps]
      /\ \A l \in Steps : Goto(p, l) => pc'[p] = l
      /\ End(p) => pc'[p] = "idle"
  BY DEF TypeOK, Goto, End, Steps
<1>1. CASE Lock(p)
  BY <1>0, <1>1 DEF Lock, Steps
<1>2. CASE Relower(p)
  BY <1>0, <1>2 DEF Relower, Lower, Steps
<1>3. CASE GotLock(p)
  BY <1>0, <1>3 DEF GotLock, LeaveLine, Steps
<1>4. CASE SaveStop(p)
  BY <1>0, <1>4 DEF SaveStop, TakeWrites, Steps
<1>5. CASE StopDone(p)
  BY <1>0, <1>5 DEF StopDone, StopEnds, Return, Steps
<1>6. CASE StopTimesOut(p)
  BY <1>0, <1>6 DEF StopTimesOut, StopEnds, Return, Steps
<1>7. CASE WaitLag(p)
  BY <1>0, <1>7 DEF WaitLag, Interrupted, Return, LagOver, Over, Steps
<1>8. CASE WritePending(p)
  BY <1>0, <1>8 DEF WritePending, Fails, Return, PendingRecord, Steps
<1>9. CASE StoreEnabled(p)
  BY <1>0, <1>9 DEF StoreEnabled, Interrupted, Return, Steps
<1>10. CASE AbandonStore(p)
  BY <1>0, <1>10 DEF AbandonStore, Interrupted, Return, Steps
<1>11. CASE Stored(p)
  BY <1>0, <1>11 DEF Stored, Fails, Return, Steps
<1>12. CASE Confirm(p)
  BY <1>0, <1>12 DEF Confirm, Fails, Return, Steps
<1>13. CASE Raise(p)
  BY <1>0, <1>13 DEF Raise, Interrupted, Return, Record, Steps
<1> QED
  BY <1>1, <1>2, <1>3, <1>4, <1>5, <1>6, <1>7, <1>8, <1>9, <1>10, <1>11, <1>12, <1>13
     DEF Step, Stopping, Resuming

(* A write is followed from the time out of its stop on.                   *)
Followable(p, n) == pc[p] = "saving" /\ n = num[p] /\ n \in lagStop' /\ writes'[n].file = fileOk[p]

LEMMA FollowFacts ==
    ASSUME TypeOK, Holds, OwnNumbers, NEW p \in Procs, Step(p), NEW n \in Ids, writes'[n].follow
    PROVE  \/ writes[n].follow /\ writes'[n].file = writes[n].file
           \/ Followable(p, n)
<1>0. pc[p] # "idle" /\ num[p] \in Ids /\ writes \in [Ids -> Write]
  <2>1. pc[p] # "idle"
    BY StepShapes
  <2> QED
    BY <2>1, OwnId DEF TypeOK
<1>1. CASE UNCHANGED writes
  BY <1>1
<1>2. CASE \E val \in {"Enabled", "Disabled"}, after \in SUBSET Ids : SpawnWrite(num[p], val, after)
  <2>1. PICK val \in {"Enabled", "Disabled"}, after \in SUBSET Ids : SpawnWrite(num[p], val, after)
    BY <1>2
  <2>2. CASE n = num[p]
    <3>1. writes'[n] = [NoWrite EXCEPT !.st = "running", !.val = val, !.after = after]
      BY <1>0, <2>1, <2>2 DEF SpawnWrite
    <3>2. writes'[n].follow = FALSE
      BY <3>1 DEF NoWrite
    <3> QED
      BY <3>2
  <2>3. CASE n # num[p]
    BY <1>0, <2>1, <2>3 DEF SpawnWrite
  <2> QED
    BY <2>2, <2>3
<1>3. CASE StopTimesOut(p)
  <2>1. pc[p] = "saving" /\ num[p] \in lagStop'
    BY <1>3 DEF StopTimesOut, At
  <2>2. CASE n = num[p]
    <3>1. writes'[n] = [writes[n] EXCEPT !.follow = TRUE, !.seq = slot.seq + 1, !.file = fileOk[p]]
      BY <1>0, <1>3, <2>2 DEF StopTimesOut
    <3>2. writes'[n].file = fileOk[p]
      BY <1>0, <3>1 DEF Write
    <3> QED
      BY <2>1, <2>2, <3>2 DEF Followable
  <2>3. CASE n # num[p]
    BY <1>0, <1>3, <2>3 DEF StopTimesOut
  <2> QED
    BY <2>2, <2>3
<1>4. UNCHANGED writes \/ StopTimesOut(p)
      \/ \E val \in {"Enabled", "Disabled"}, after \in SUBSET Ids : SpawnWrite(num[p], val, after)
  <2>1. lagResume \in SUBSET Ids
    BY DEF TypeOK
  <2>2. CASE Lock(p) \/ Relower(p) \/ GotLock(p) \/ StopDone(p)
    BY <2>2 DEF Lock, Relower, GotLock, StopDone, dbVars
  <2>3. CASE SaveStop(p)
    BY <2>1, <2>3 DEF SaveStop, TakeWrites
  <2>4. CASE StoreEnabled(p)
    BY <2>4 DEF StoreEnabled
  <2>5. CASE WaitLag(p) \/ WritePending(p) \/ AbandonStore(p) \/ Stored(p) \/ Confirm(p) \/ Raise(p)
    BY <2>5 DEF WaitLag, WritePending, AbandonStore, Stored, Confirm, Raise, dbVars
  <2> QED
    BY <2>2, <2>3, <2>4, <2>5 DEF Step, Stopping, Resuming
<1> QED
  BY <1>1, <1>2, <1>3, <1>4

LEMMA LandFollows ==
    ASSUME TypeOK, NEW m \in Ids, Land(m) \/ Follow(m), NEW n \in Ids, writes'[n].follow
    PROVE  writes[n].follow /\ writes'[n].file = writes[n].file
<1>0. writes \in [Ids -> Write] /\ writes[m] \in Write
  BY DEF TypeOK
<1>1. CASE Land(m)
  <2>1. PICK st \in {"ok", "err"} : writes' = [writes EXCEPT ![m].st = st]
    BY <1>1 DEF Land
  <2>2. n # m => writes'[n] = writes[n]
    BY <1>0, <2>1
  <2>3. writes'[m].follow = writes[m].follow /\ writes'[m].file = writes[m].file
    BY <1>0, <2>1 DEF Write
  <2> QED
    BY <2>2, <2>3
<1>2. CASE Follow(m)
  <2>1. writes' = [writes EXCEPT ![m].follow = FALSE]
    BY <1>2 DEF Follow
  <2>2. n # m => writes'[n] = writes[n]
    BY <1>0, <2>1
  <2>3. writes'[m].follow = FALSE
    BY <1>0, <2>1 DEF Write
  <2> QED
    BY <2>2, <2>3
<1> QED
  BY <1>1, <1>2

LEMMA StepOvertaken ==
    ASSUME TypeOK, Holds, OwnNumbers, Overtaken, [Next]_vars, detached'
    PROVE  Overtaken'
<1> SUFFICES ASSUME NEW r \in Procs, pc'[r] \in Saving, StoppedSince(r)' PROVE ~live'
  BY DEF Overtaken
<1>0. pc[r] \in Saving /\ StoppedSince(r) => ~live
  BY DEF Overtaken
<1>1. ASSUME NEW p \in Procs, Step(p) PROVE ~live'
  <2>0. Others(p) /\ (pc[p] \in StopSteps \cup Saving => owner = p)
    BY <1>1, StepShapes DEF Goes, Ends, Holds
  <2>1. CASE pc[r] \in Saving
    <3>1. gen' = gen /\ lined' = lined /\ started'[r] = started[r] /\ (live' => live)
      <4>1. CASE r = p
        <5>1. pc'[p] \notin {"lowered", "idle"} /\ pc[p] \notin {"lowered", "raise"} /\ started'[p] = started[p]
          BY <1>1, <2>1, <4>1, StepShapes DEF Saving, Goes, Ends
        <5> QED
          BY <1>1, <4>1, <5>1, FlagFacts, MoreFacts
      <4>2. CASE r # p
        <5>1. owner = r /\ started'[r] = started[r]
          BY <2>0, <2>1, <4>2 DEF Holds, Others
        <5>2. pc[p] = "lock" /\ pc'[p] = "queued"
          BY <1>1, <4>2, <5>1, StepShapes DEF Goes
        <5> QED
          BY <1>1, <5>1, <5>2, FlagFacts, MoreFacts
      <4> QED
        BY <4>1, <4>2
    <3> QED
      BY <1>0, <2>1, <3>1 DEF StoppedSince
  <2>2. CASE pc[r] \notin Saving
    <3>1. r = p /\ pc[p] = "queued" /\ pc'[p] = "pend" /\ started'[p] = started[p]
      BY <1>1, <2>0, <2>2, StepShapes DEF Others, Goes, Ends, Saving
    <3>2. gen' = gen /\ lined' = lined /\ lined = 0 /\ gen = started[p]
      BY <1>1, <3>1, FlagFacts, MoreFacts, LagFacts
    <3> QED
      BY <3>1, <3>2 DEF StoppedSince
  <2> QED
    BY <2>1, <2>2
<1>2. ASSUME NEW p \in Procs, Drop(p) PROVE FALSE
  BY <1>2, DropEnds
<1>3. ASSUME NEW p \in Procs, NEW k \in {"stop", "resume"}, Begin(p, k) PROVE ~live'
  <2>1. CASE k = "stop"
    BY <1>3, <2>1 DEF Begin, Lower
  <2>2. CASE k = "resume"
    <3>1. UNCHANGED <<live, gen, lined>> /\ r # p /\ pc'[r] = pc[r] /\ started'[r] = started[r]
      BY <1>3, <2>2, BeginGoes DEF Begin, flagVars, Saving
    <3> QED
      BY <1>0, <3>1 DEF StoppedSince
  <2> QED
    BY <2>1, <2>2
<1>4. ASSUME NEW m \in Ids, Land(m) \/ Follow(m) PROVE ~live'
  BY <1>0, <1>4, LandWrites DEF procVars, flagVars, StoppedSince
<1>5. CASE OrphanLands \/ UNCHANGED vars
  BY <1>0, <1>5 DEF OrphanLands, vars, procVars, flagVars, StoppedSince
<1>6. CASE Restart
  BY <1>6, RestartWrites DEF Saving
<1> QED
  BY <1>1, <1>2, <1>3, <1>4, <1>5, <1>6 DEF Next

LEMMA StepFollowed ==
    ASSUME TypeOK, Holds, OwnNumbers, Lowered, FileTells, Followed, [Next]_vars, detached'
    PROVE  Followed'
<1> DEFINE Fine(n) ==
      /\ n \in lagStop /\ ~live
      /\ \A p \in Procs : pc[p] \notin Saving
      /\ writes[n].file => file = "Disabled"
<1> SUFFICES ASSUME NEW n \in Ids, writes'[n].follow PROVE Fine(n)'
  BY DEF Followed
<1>0. writes[n].follow => Fine(n)
  BY DEF Followed
<1>1. ASSUME NEW p \in Procs, Step(p) PROVE Fine(n)'
  <2>0. Others(p) /\ (pc[p] \in StopSteps \cup Saving => owner = p)
    BY <1>1, StepShapes DEF Goes, Ends, Holds
  <2>1. CASE writes[n].follow /\ writes'[n].file = writes[n].file
    <3>1. n \in lagStop /\ n \in lagStop'
      BY <1>0, <1>1, <2>1, MoreFacts
    <3>2. ~live' /\ pc[p] \notin Saving
      BY <1>0, <1>1, <2>1, FlagFacts DEF Saving
    <3>3. pc'[p] \notin Saving
      <4>1. ~(pc[p] = "queued" /\ pc'[p] = "pend")
        BY <1>1, <2>1, <3>1, MoreFacts
      <4> QED
        BY <1>1, <3>2, <4>1, StepShapes DEF Goes, Ends, Saving
    <3>4. \A q \in Procs : pc'[q] \notin Saving
      BY <1>0, <2>0, <2>1, <3>3 DEF Others
    <3>5. writes'[n].file => file' = "Disabled"
      BY <1>0, <1>1, <2>1, <3>2, FileFacts, MoreFacts DEF Saving
    <3> QED
      BY <3>1, <3>2, <3>4, <3>5
  <2>2. CASE Followable(p, n)
    <3>1. pc[p] = "saving" /\ n \in lagStop' /\ ~live /\ owner = p
      BY <2>0, <2>2 DEF Followable, Lowered, StopSteps
    <3>2. ~live' /\ pc'[p] = "idle" /\ file' = file
      BY <1>1, <3>1, FlagFacts, FileFacts, StepShapes DEF Ends
    <3>3. \A q \in Procs : pc'[q] \notin Saving
      BY <2>0, <3>1, <3>2 DEF Others, Holds, Saving
    <3>4. writes'[n].file => file' = "Disabled"
      BY <2>2, <3>2 DEF Followable, FileTells
    <3> QED
      BY <3>1, <3>2, <3>3, <3>4
  <2> QED
    BY <1>1, <2>1, <2>2, FollowFacts
<1>2. ASSUME NEW p \in Procs, Drop(p) PROVE FALSE
  BY <1>2, DropEnds
<1>3. ASSUME NEW p \in Procs, NEW k \in {"stop", "resume"}, Begin(p, k) PROVE Fine(n)'
  <2>1. (live' => live) /\ UNCHANGED <<writes, lagStop, file>>
    BY <1>3 DEF Begin, Lower, flagVars, dbVars, diskVars
  <2>2. \A q \in Procs : pc'[q] = pc[q] \/ pc'[q] = "lock"
    BY <1>3, BeginGoes
  <2> QED
    BY <1>0, <2>1, <2>2 DEF Saving
<1>4. ASSUME NEW m \in Ids, Land(m) \/ Follow(m) PROVE Fine(n)'
  <2>1. Fine(n) /\ writes'[n].file = writes[n].file
    BY <1>0, <1>4, LandFollows
  <2> QED
    BY <1>4, <2>1, LandWrites DEF procVars, flagVars
<1>5. CASE OrphanLands \/ UNCHANGED vars
  BY <1>0, <1>5 DEF OrphanLands, FileTells, vars, procVars, flagVars, dbVars, diskVars
<1>6. CASE Restart
  BY <1>6 DEF Restart, NoWrite
<1> QED
  BY <1>1, <1>2, <1>3, <1>4, <1>5, <1>6 DEF Next

LEMMA StepWarnedLive ==
    ASSUME TypeOK, Holds, Lowered, FileTells, Overtaken, Warned, NEW p \in Procs, Step(p),
           live', ~slot'.warn
    PROVE  FileAllows' \/ \E q \in Procs : Midway(q)'
<1>0. Others(p) /\ (pc[p] \in StopSteps \cup Saving => owner = p)
  BY StepShapes DEF Goes, Ends, Holds
<1>1. CASE pc[p] = "raise"
  BY <1>1, FlagFacts DEF FileTells, FileAllows
<1>2. CASE pc[p] # "raise"
  <2>1. live /\ pc[p] \notin StopSteps
    BY <1>2, FlagFacts DEF Lowered
  <2>2. ~slot.warn /\ (pc'[p] = "idle" => pc[p] \notin Saving)
    BY <1>2, <2>1, SlotFacts DEF StopSteps, Overtaken
  <2>3. CASE \E q \in Procs : Midway(q)
    <3>1. PICK q \in Procs : Midway(q)
      BY <2>3
    <3>2. CASE q # p
      BY <1>0, <3>1, <3>2 DEF Midway, Others
    <3>3. CASE q = p
      <4>1. pc'[p] \in {"storing", "confirm", "raise"}
        BY <2>2, <3>1, <3>3, StepShapes DEF Midway, Goes, Ends, Saving
      <4>2. pc'[p] = "raise" => FileAllows'
        BY FileFacts DEF FileAllows
      <4> QED
        BY <4>1, <4>2 DEF Midway
    <3> QED
      BY <3>2, <3>3
  <2>4. CASE FileAllows
    <3>1. CASE file' = file
      BY <2>4, <3>1 DEF FileAllows
    <3>2. CASE file' # file
      <4>1. pc'[p] \in {"check", "raise"}
        BY <2>1, <3>2, FileFacts, MoreFacts DEF StopSteps
      <4>2. pc'[p] = "raise" => FileAllows'
        BY FileFacts DEF FileAllows
      <4> QED
        BY <4>1, <4>2 DEF Midway
    <3> QED
      BY <3>1, <3>2
  <2> QED
    BY <2>1, <2>2, <2>3, <2>4 DEF Warned
<1> QED
  BY <1>1, <1>2

LEMMA StepWarnedStopped ==
    ASSUME TypeOK, Counts, Holds, Handover, FileTells, Warned, NEW p \in Procs, Step(p),
           ~live', ~slot'.warn, Boots'
    PROVE  \E q \in Procs : Deciding(q)'
<1>0. Others(p) /\ db' = db
  BY StepShapes, LagFacts DEF Goes, Ends
<1>1. ~slot.warn /\ (pc'[p] = "idle" => kind[p] = "resume" /\ StoppedSince(p))
  <2>1. ~(pc[p] = "saving" /\ fileOk[p])
    <3> SUFFICES ASSUME pc[p] = "saving", fileOk[p] PROVE FALSE
      OBVIOUS
    <3>1. file = "Disabled" /\ file' = file
      BY FileFacts DEF FileTells
    <3> QED
      BY <3>1 DEF Boots, FileAllows
  <2> QED
    BY <2>1, SlotFacts
<1>2. CASE live
  <2>1. pc'[p] = "lowered"
    BY <1>2, MoreFacts
  <2>2. kind'[p] = "stop"
    BY <2>1, StepShapes DEF Goes, Ends
  <2> QED
    BY <2>1, <2>2 DEF Deciding
<1>3. CASE ~Boots
  <2>1. file' \notin {file, "Disabled", "Pending"}
    BY <1>0, <1>3 DEF Boots, FileAllows
  <2>2. pc'[p] = "raise"
    BY <2>1, FileFacts
  <2> QED
    BY <2>2 DEF Deciding
<1>4. CASE ~live /\ Boots
  <2>1. PICK q \in Procs : Deciding(q)
    BY <1>1, <1>4 DEF Warned
  <2>2. CASE q # p
    BY <1>0, <2>1, <2>2 DEF Deciding, Others
  <2>3. CASE q = p /\ pc[p] # "raise"
    <3>1. kind[p] = "stop" /\ pc[p] # "idle"
      BY <2>1, <2>3 DEF Deciding
    <3>2. pc'[p] # "idle" /\ kind'[p] = "stop"
      BY <1>1, <3>1, StepShapes DEF Goes, Ends
    <3> QED
      BY <3>2 DEF Deciding
  <2>4. CASE pc[p] = "raise"
    <3>1. pc'[p] = "idle"
      BY <2>4, StepShapes DEF Ends
    <3>2. gen # started[p] \/ lined # 0
      BY <1>1, <3>1, Numbers DEF StoppedSince
    <3>3. Unlowered # {} \/ Lined # {}
      BY <2>4, <3>2, LinedCounted DEF Handover, Saving
    <3>4. PICK s \in Procs : kind[s] = "stop" /\ pc[s] \in {"lock", "queued", "lowered"}
      BY <3>3 DEF Unlowered, Lined
    <3>5. s # p
      BY <2>4, <3>4
    <3> QED
      BY <1>0, <3>4, <3>5 DEF Others, Deciding
  <2> QED
    BY <2>2, <2>3, <2>4
<1> QED
  BY <1>2, <1>3, <1>4

LEMMA StepWarned ==
    ASSUME TypeOK, Counts, Holds, Lowered, Handover, FileTells, Overtaken, Followed, Warned,
           [Next]_vars, detached'
    PROVE  Warned'
<1>b. UNCHANGED <<db, file>> => Boots' = Boots /\ FileAllows' = FileAllows
  BY DEF Boots, FileAllows
<1>1. ASSUME NEW p \in Procs, Step(p) PROVE Warned'
  BY <1>1, StepWarnedLive, StepWarnedStopped DEF Warned
<1>2. ASSUME NEW p \in Procs, Drop(p) PROVE FALSE
  BY <1>2, DropEnds
<1>3. ASSUME NEW p \in Procs, NEW k \in {"stop", "resume"}, Begin(p, k) PROVE Warned'
  <2>1. /\ UNCHANGED <<db, file, slot>> /\ pc[p] = "idle" /\ pc'[p] = "lock" /\ kind'[p] = k
        /\ \A q \in Procs : q # p => pc'[q] = pc[q] /\ kind'[q] = kind[q]
    BY <1>3, BeginGoes DEF Begin, diskVars
  <2>2. CASE k = "stop"
    BY <1>3, <2>1, <2>2 DEF Begin, Lower, Warned, Deciding
  <2>3. CASE k = "resume"
    <3>1. live' = live
      BY <1>3, <2>3 DEF Begin, flagVars
    <3>2. \A q \in Procs : (Midway(q) => Midway(q)') /\ (Deciding(q) => Deciding(q)')
      BY <2>1 DEF Midway, Deciding
    <3> QED
      BY <1>b, <2>1, <3>1, <3>2 DEF Warned
  <2> QED
    BY <2>2, <2>3
<1>4. ASSUME NEW m \in Ids, Land(m) \/ Follow(m) PROVE Warned'
  <2>1. /\ UNCHANGED <<live, file, pc, kind>> /\ (Boots' => Boots) /\ FileAllows' = FileAllows
    BY <1>4, LandWrites, LandBoots DEF flagVars, procVars, FileAllows
  <2>2. \A q \in Procs : Midway(q)' = Midway(q) /\ Deciding(q)' = Deciding(q)
    BY <2>1 DEF Midway, Deciding
  <2>3. CASE slot' = slot
    BY <2>1, <2>2, <2>3 DEF Warned
  <2>4. CASE slot' # slot
    <3>1. /\ writes[m].follow
          /\ slot' = [slot EXCEPT !.warn = ~FullyPersisted(writes[m].st = "ok", writes[m].file)]
      BY <1>4, <2>4 DEF Land, Follow
    <3>2. slot'.warn = ~FullyPersisted(writes[m].st = "ok", writes[m].file)
      BY <3>1 DEF TypeOK
    <3>3. ~slot'.warn => file = "Disabled" /\ ~live
      BY <3>1, <3>2 DEF Followed, FullyPersisted
    <3> QED
      BY <2>1, <3>3 DEF Warned, Boots, FileAllows
  <2> QED
    BY <2>3, <2>4
<1>5. CASE OrphanLands \/ UNCHANGED vars
  <2>1. UNCHANGED <<live, db, file, slot, pc, kind>>
    BY <1>5 DEF OrphanLands, FileTells, vars, flagVars, diskVars, procVars
  <2>2. \A q \in Procs : Midway(q)' = Midway(q) /\ Deciding(q)' = Deciding(q)
    BY <2>1 DEF Midway, Deciding
  <2> QED
    BY <1>b, <2>1, <2>2 DEF Warned
<1>6. CASE Restart
  <2>1. PICK readable \in BOOLEAN :
          /\ live' = (readable /\ Boots)
          /\ slot' = [seq |-> 0, warn |-> ~readable \/ file = "Pending" \/ (file # "Absent" /\ file # db)]
    BY <1>6 DEF Restart
  <2>2. UNCHANGED <<db, file>> /\ (~slot'.warn => readable)
    BY <1>6, <2>1 DEF Restart, diskVars
  <2> QED
    BY <1>b, <2>1, <2>2 DEF Warned, Boots
<1> QED
  BY <1>1, <1>2, <1>3, <1>4, <1>5, <1>6 DEF Next

(* Once a future was dropped, that stays so.                               *)
LEMMA DetachedWas == ASSUME [Next]_vars, detached', TypeOK PROVE detached
<1>1. ASSUME NEW p \in Procs, Step(p) PROVE detached
  BY <1>1, LagFacts
<1>2. ASSUME NEW p \in Procs, NEW k \in {"stop", "resume"}, Begin(p, k) PROVE detached
  BY <1>2, BeginGoes DEF histVars
<1>3. ASSUME NEW m \in Ids, Land(m) \/ Follow(m) PROVE detached
  BY <1>3, LandWrites DEF histVars
<1>4. CASE OrphanLands \/ Restart \/ UNCHANGED vars
  BY <1>4 DEF OrphanLands, Restart, vars, histVars
<1> QED
  BY <1>1, <1>2, <1>3, <1>4, DropEnds DEF Next

LEMMA InitIInv == Init => IInv
<1> SUFFICES ASSUME Init PROVE IInv
  OBVIOUS
<1> USE DEF Init, Everyone
<1>1. TypeOK
  BY InitTypeOK
<1>2. Counts
  <2>1. Lined = {} /\ Unlowered = {} /\ Active = {}
    BY DEF Lined, Unlowered, Active
  <2> QED
    BY <2>1, NoneCounted DEF Counts
<1>3. Holds /\ OwnNumbers /\ OwnWrites
  BY DEF Holds, StopSteps, Saving, OwnNumbers, OwnWrites, NoWrite
<1>4. StopWrites /\ ResumeWrites /\ Lowered /\ StoredEnabled /\ ResumeSavesAlone
  BY DEF StopWrites, ResumeWrites, Runs, NoWrite, Lowered, StopSteps, StoredEnabled, ResumeSavesAlone, Saving
<1>5. Undropped
  <2>1. Overtaken /\ Followed /\ Warned
    BY DEF Overtaken, Followed, Warned, Saving, NoWrite, Boots
  <2> QED
    BY <2>1 DEF Undropped, Handover, FileTells, Runs, NoWrite, Saving, Boots, FileAllows
<1> QED
  BY <1>1, <1>2, <1>3, <1>4, <1>5 DEF IInv

LEMMA StepIInv == IInv /\ [Next]_vars => IInv'
<1> SUFFICES ASSUME IInv, [Next]_vars PROVE IInv'
  OBVIOUS
<1>0. /\ TypeOK /\ Counts /\ Holds /\ OwnNumbers /\ OwnWrites /\ StopWrites /\ ResumeWrites
      /\ Lowered /\ StoredEnabled /\ Alone /\ Undropped
  BY AloneIs DEF IInv
<1>1. TypeOK' /\ Counts'
  BY <1>0, StepTypeOK, StepCounts
<1>2. Holds' /\ OwnNumbers' /\ OwnWrites'
  BY <1>0, StepHolds, StepOwnNumbers, StepOwnWrites
<1>3. StopWrites' /\ ResumeWrites' /\ Lowered' /\ StoredEnabled' /\ Alone'
  BY <1>0, StepStopWrites, StepResumeWrites, StepLowered, StepStoredEnabled, StepAlone
<1>4. ResumeSavesAlone'
  BY <1>1, <1>2, <1>3, AloneIs, PTL
<1>5. Undropped'
  <2> SUFFICES ASSUME detached' 
             PROVE  Handover' /\ FileTells' /\ Overtaken' /\ Followed' /\ Warned' /\ SavedStop' /\ LiveSaved'
    BY DEF Undropped, SavedStop, LiveSaved
  <2>1. Handover /\ FileTells /\ Overtaken /\ Followed /\ Warned /\ SavedStop /\ LiveSaved
    BY <1>0, DetachedWas DEF Undropped, SavedStop, LiveSaved
  <2> QED
    BY <1>0, <2>1, StepHandover, StepFileTells, StepOvertaken, StepFollowed, StepWarned,
       StepSavedStop, StepLiveSaved
<1> QED
  BY <1>1, <1>2, <1>3, <1>4, <1>5 DEF IInv

LEMMA AlwaysIInv == Spec => []IInv
BY InitIInv, StepIInv, PTL DEF Spec

-----------------------------------------------------------------------------
(* The types and the bounds: the queue of stops that StopState counts      *)
(* never exceeds the stops there are, however they end.                    *)
THEOREM TypeCorrect == Spec => []TypeOK
BY AlwaysIInv, PTL DEF IInv

(* A stop that was reported as saved holds: across crashes, failing disks  *)
(* and databases, and resumes that fail, no restart accepts writes until a *)
(* resume is confirmed, as long as no operation is dropped.                *)
THEOREM SavedStopsHold == Spec => []SavedStopHolds
<1>1. IInv => SavedStopHolds
  BY DEF IInv, Undropped, SavedStopHolds
<1> QED
  BY <1>1, AlwaysIInv, PTL

(* A resume is the last word on the stops before it: no write of theirs is *)
(* left when it saves, and no place says stop once it has raised the flag. *)
THEOREM ResumesAreFinal == Spec => []ResumeIsFinal
<1>1. IInv => ResumeIsFinal
  BY DEF IInv, Undropped, LiveIsSaved, ResumeIsFinal
<1> QED
  BY <1>1, AlwaysIInv, PTL

(* Only the last save of a resume leads from "a restart stops" to "a       *)
(* restart accepts writes": no late write, no failed save and no restart   *)
(* does.                                                                   *)
OnlyConfirms == ~Boots /\ Boots' /\ detached => \E p \in Procs : At(p, "resume", "confirm")

LEMMA StepConfirms == IInv /\ [Next]_vars => OnlyConfirms
<1> SUFFICES ASSUME IInv, [Next]_vars, ~Boots, Boots', detached
             PROVE  \E p \in Procs : At(p, "resume", "confirm")
  BY DEF OnlyConfirms
<1>0. TypeOK /\ Holds /\ FileTells
  BY DEF IInv, Undropped
<1>1. ASSUME NEW p \in Procs, Step(p) PROVE At(p, "resume", "confirm")
  <2>1. db' = db
    BY <1>0, <1>1, LagFacts
  <2>2. file' \notin {file, "Disabled", "Pending"}
    BY <2>1 DEF Boots, FileAllows
  <2>3. pc[p] = "confirm"
    BY <1>0, <1>1, <2>2, FileFacts
  <2> QED
    BY <1>0, <2>3 DEF Holds, Saving, At
<1>2. ASSUME NEW p \in Procs, Drop(p) PROVE FALSE
  BY <1>0, <1>2, DropEnds DEF diskVars, Boots, FileAllows
<1>3. ASSUME NEW p \in Procs, NEW k \in {"stop", "resume"}, Begin(p, k) PROVE FALSE
  BY <1>0, <1>3, BeginGoes DEF diskVars, Boots, FileAllows
<1>4. ASSUME NEW m \in Ids, Land(m) \/ Follow(m) PROVE FALSE
  BY <1>0, <1>4, LandBoots
<1>5. CASE OrphanLands \/ Restart \/ UNCHANGED vars
  BY <1>0, <1>5 DEF OrphanLands, Restart, FileTells, vars, diskVars, Boots, FileAllows
<1> QED
  BY <1>1, <1>2, <1>3, <1>4, <1>5 DEF Next

THEOREM OnlyConfirmedResumesEnable == Spec => OnlyConfirmationEnables
<1>1. IInv /\ [Next]_vars => [OnlyConfirms]_vars
  BY StepConfirms
<1>2. [][OnlyConfirms]_vars => OnlyConfirmationEnables
  BY DEF OnlyConfirms, OnlyConfirmationEnables
<1>3. Spec => [][Next]_vars
  BY DEF Spec
<1> QED
  BY <1>1, <1>2, <1>3, AlwaysIInv, PTL

(* Once all is quiet, an administrator who sees no warning can rely on it  *)
(* that a restart changes nothing: a late result that a stop did not wait  *)
(* for, a resume cut short and an unreadable place have all been reported. *)
THEOREM NoSurprises == Spec => []NoWarningNoSurprise
<1>1. IInv => NoWarningNoSurprise
  <2> SUFFICES ASSUME IInv, Quiet, detached, ~slot.warn PROVE Boots = live
    BY DEF NoWarningNoSurprise
  <2>1. /\ Warned /\ (live => db = "Enabled") /\ live \in BOOLEAN
        /\ \A p \in Procs : pc[p] = "idle"
    BY DEF IInv, Undropped, Quiet, TypeOK
  <2>2. \A p \in Procs : ~Midway(p) /\ ~Deciding(p)
    BY <2>1 DEF Midway, Deciding
  <2>3. live => Boots
    BY <2>1, <2>2 DEF Warned, Boots
  <2>4. ~live => ~Boots
    BY <2>1, <2>2 DEF Warned
  <2> QED
    BY <2>1, <2>3, <2>4 DEF Boots
<1> QED
  BY <1>1, AlwaysIInv, PTL
=============================================================================
