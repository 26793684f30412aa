--------------------------- MODULE SinkQueueProofs ---------------------------
(***************************************************************************)
(* What is proved of the database sink: the types, where every row is, and *)
(* where and how often a row is stored, whatever the settings, the failing *)
(* operations and the stop do.                                             *)
(***************************************************************************)
EXTENDS SinkQueue, FiniteSetTheorems, SequenceTheorems, TLAPS

-----------------------------------------------------------------------------
(* A queue holds its rows in the order in which they were sampled.         *)
Rising(q) == \A i, j \in 1..Len(q) : i < j => q[i] < q[j]

Last(q) == q[Len(q)]

(* The rows of a queue are numbers.                                        *)
LEMMA Held ==
    ASSUME NEW q \in Seq(Nat)
    PROVE  /\ Contents(q) = {q[i] : i \in 1..Len(q)} /\ Contents(q) \subseteq Nat
           /\ Len(q) \in Nat /\ (q = <<>> <=> Len(q) = 0)
           /\ q # <<>> => Len(q) \in 1..Len(q) /\ Last(q) \in Contents(q)
           /\ Contents(<<>>) = {} /\ Rising(<<>>) /\ <<>> \in Seq(Nat) /\ Len(<<>>) = 0
<1>1. DOMAIN q = 1..Len(q) /\ Len(q) \in Nat /\ \A i \in 1..Len(q) : q[i] \in Nat
  OBVIOUS
<1>2. q = <<>> <=> Len(q) = 0
  BY EmptySeq
<1>3. q # <<>> => Len(q) \in 1..Len(q)
  BY <1>1, <1>2
<1>4. <<>> \in Seq(Nat) /\ Len(<<>>) = 0 /\ DOMAIN <<>> = {} /\ 1..0 = {}
  OBVIOUS
<1> QED
  BY <1>1, <1>2, <1>3, <1>4 DEF Contents, Rising, Last

(* A part of a queue, from one place to another, keeps the order.          *)
LEMMA PartOf ==
    ASSUME NEW q \in Seq(Nat), NEW m \in 1..Len(q) + 1, NEW n \in (m - 1)..Len(q)
    PROVE  /\ SubSeq(q, m, n) \in Seq(Nat) /\ Len(SubSeq(q, m, n)) = n - m + 1
           /\ \A i \in 1..n - m + 1 : SubSeq(q, m, n)[i] = q[m + i - 1]
           /\ Contents(SubSeq(q, m, n)) = {q[i] : i \in m..n}
           /\ Rising(q) => Rising(SubSeq(q, m, n))
<1> DEFINE s == SubSeq(q, m, n)
<1>1. Len(q) \in Nat /\ m \in Nat /\ n \in Nat /\ n - m + 1 \in Nat /\ \A i \in m..n : i \in 1..Len(q) /\ q[i] \in Nat
  OBVIOUS
<1>2. /\ s \in Seq(Nat) /\ Len(s) = n - m + 1
      /\ \A i \in 1..n - m + 1 : s[i] = q[m + i - 1]
  BY <1>1, SubSeqProperties
<1> HIDE DEF s
<1>3. Contents(s) = {q[i] : i \in m..n}
  <2>1. Contents(s) = {s[i] : i \in 1..n - m + 1}
    BY <1>2, Held
  <2>2. \A i \in 1..n - m + 1 : m + i - 1 \in m..n
    BY <1>1
  <2>3. \A i \in m..n : i - m + 1 \in 1..n - m + 1 /\ m + (i - m + 1) - 1 = i
    BY <1>1
  <2>4. \A i \in m..n : s[i - m + 1] = q[i]
    BY <1>2, <2>3
  <2>5. \A i \in 1..n - m + 1 : s[i] \in {q[j] : j \in m..n}
    BY <1>2, <2>2
  <2>6. \A i \in m..n : q[i] \in {s[j] : j \in 1..n - m + 1}
    BY <2>3, <2>4
  <2> QED
    BY <2>1, <2>5, <2>6
<1>4. Rising(q) => Rising(s)
  <2> SUFFICES ASSUME Rising(q), NEW i \in 1..n - m + 1, NEW j \in 1..n - m + 1, i < j PROVE s[i] < s[j]
    BY <1>2 DEF Rising
  <2>1. m + i - 1 \in 1..Len(q) /\ m + j - 1 \in 1..Len(q) /\ m + i - 1 < m + j - 1
    BY <1>1
  <2> QED
    BY <1>2, <2>1 DEF Rising
<1> QED
  BY <1>2, <1>3, <1>4 DEF s

(* RowQueue::push: the row comes last; of a full queue the oldest row goes. *)
LEMMA PushedOne ==
    ASSUME SinkAssumption, rows \in Seq(Nat), Len(rows) <= MaxRows, Rising(rows),
           NEW row \in Nat, \A r \in Contents(rows) : r < row
    PROVE  /\ Pushed(row) \in Seq(Nat) /\ Len(Pushed(row)) <= MaxRows /\ Rising(Pushed(row))
           /\ Full => rows # <<>> /\ Head(rows) \in Contents(rows)
           /\ Contents(Pushed(row)) = {row} \cup
                (IF Full THEN Contents(rows) \ {Head(rows)} ELSE Contents(rows))
<1> DEFINE q == IF Full THEN Tail(rows) ELSE rows
<1>0. MaxRows \in Nat \ {0} /\ Len(rows) \in Nat /\ Contents(rows) = {rows[i] : i \in 1..Len(rows)}
      /\ \A i \in 1..Len(rows) : rows[i] \in Nat
  BY Held DEF SinkAssumption
<1>1. Full => rows # <<>> /\ Len(rows) > 0 /\ Head(rows) = rows[1] /\ 1 \in 1..Len(rows)
  BY <1>0, Held DEF Full
<1>2. /\ q \in Seq(Nat) /\ Rising(q) /\ Len(q) < MaxRows
      /\ Contents(q) = IF Full THEN Contents(rows) \ {Head(rows)} ELSE Contents(rows)
  <2>1. CASE Full
    <3>1. /\ q = SubSeq(rows, 2, Len(rows))
          /\ 2 \in 1..Len(rows) + 1 /\ Len(rows) \in (2 - 1)..Len(rows)
          /\ Len(rows) - 2 + 1 = Len(rows) - 1
      <4>1. Tail(rows) = SubSeq(rows, 2, Len(rows))
        BY <1>1, <2>1, TailIsSubSeq
      <4> QED
        BY <1>0, <1>1, <2>1, <4>1
    <3> HIDE DEF q
    <3>2. /\ q \in Seq(Nat) /\ Len(q) = Len(rows) - 1 /\ Rising(q)
          /\ Contents(q) = {rows[i] : i \in 2..Len(rows)}
      BY <3>1, PartOf
    <3>3. \A i \in 2..Len(rows) : rows[1] < rows[i]
      BY <1>0, <1>1, <2>1 DEF Rising
    <3>4. {rows[i] : i \in 2..Len(rows)} = Contents(rows) \ {rows[1]}
      <4>1. \A i \in 1..Len(rows) : i = 1 \/ i \in 2..Len(rows)
        BY <1>0
      <4>2. \A i \in 2..Len(rows) : i \in 1..Len(rows) /\ rows[i] # rows[1]
        <5>1. \A i \in 2..Len(rows) : i \in 1..Len(rows)
          BY <1>0
        <5> QED
          BY <1>0, <1>1, <2>1, <3>3, <5>1
      <4> QED
        BY <1>0, <4>1, <4>2
    <3>5. Len(rows) - 1 < MaxRows
      BY <1>0
    <3> QED
      BY <1>1, <2>1, <3>2, <3>4, <3>5
  <2>2. CASE ~Full
    BY <1>0, <2>2 DEF Full
  <2> QED
    BY <2>1, <2>2
<1> HIDE DEF q
<1>3. /\ Pushed(row) = Append(q, row)
      /\ Pushed(row) \in Seq(Nat) /\ Len(Pushed(row)) = Len(q) + 1 /\ Len(q) \in Nat
      /\ \A i \in 1..Len(q) : Pushed(row)[i] = q[i]
      /\ Pushed(row)[Len(q) + 1] = row
  <2>1. Pushed(row) = Append(q, row)
    BY DEF Pushed, q
  <2>2. Len(q) \in Nat
    BY <1>2
  <2> QED
    BY <1>2, <2>1, <2>2, AppendProperties
<1> HIDE DEF Pushed
<1>4. Len(Pushed(row)) <= MaxRows
  BY <1>0, <1>2, <1>3
<1>5. \A r \in Contents(q) : r \in Contents(rows) /\ r < row
  BY <1>2
<1>6. Contents(q) = {q[i] : i \in 1..Len(q)}
  BY <1>2, Held
<1>7. Contents(Pushed(row)) = {row} \cup Contents(q)
  <2>1. Contents(Pushed(row)) = {Pushed(row)[i] : i \in 1..Len(q) + 1}
    BY <1>3, Held
  <2>2. \A i : i \in 1..Len(q) + 1 <=> i \in 1..Len(q) \/ i = Len(q) + 1
    BY <1>3
  <2> QED
    BY <1>3, <1>6, <2>1, <2>2
<1>8. Rising(Pushed(row))
  <2> SUFFICES ASSUME NEW i \in 1..Len(q) + 1, NEW j \in 1..Len(q) + 1, i < j
               PROVE  Pushed(row)[i] < Pushed(row)[j]
    BY <1>3 DEF Rising
  <2>1. i \in 1..Len(q)
    BY <1>3
  <2>2. CASE j = Len(q) + 1
    BY <1>3, <1>5, <1>6, <2>1, <2>2
  <2>3. CASE j \in 1..Len(q)
    BY <1>2, <1>3, <2>1, <2>3 DEF Rising
  <2>4. Len(q) \in Nat
    BY <1>3
  <2>5. j = Len(q) + 1 \/ j \in 1..Len(q)
    BY <2>4
  <2> QED
    BY <2>2, <2>3, <2>5
<1> QED
  BY <1>0, <1>1, <1>2, <1>3, <1>4, <1>7, <1>8

(* RowQueue::peek_batch: the oldest rows, as many as a batch holds.        *)
LEMMA PeekedSome ==
    ASSUME SinkAssumption, NEW q \in Seq(Nat), q # <<>>
    PROVE  /\ Peeked(q) \in Seq(Nat) /\ Peeked(q) # <<>> /\ Len(Peeked(q)) <= Batch
           /\ Contents(Peeked(q)) \subseteq Contents(q)
           /\ Rising(q) => /\ Rising(Peeked(q))
                           /\ \A r \in Contents(q) : r <= Last(Peeked(q)) => r \in Contents(Peeked(q))
<1> DEFINE n == IF Len(q) < Batch THEN Len(q) ELSE Batch
<1>1. Batch \in Nat \ {0} /\ Len(q) \in Nat \ {0} /\ n \in 1..Len(q) /\ n <= Batch /\ Peeked(q) = SubSeq(q, 1, n)
  BY Held DEF SinkAssumption, Peeked
<1> HIDE DEF n
<1>2. /\ Peeked(q) \in Seq(Nat) /\ Len(Peeked(q)) = n
      /\ \A i \in 1..n : Peeked(q)[i] = q[i]
      /\ Contents(Peeked(q)) = {q[i] : i \in 1..n}
      /\ Rising(q) => Rising(Peeked(q))
  <2>1. 1 \in 1..Len(q) + 1 /\ n \in (1 - 1)..Len(q) /\ n - 1 + 1 = n /\ \A i \in 1..n : 1 + i - 1 = i
    BY <1>1
  <2> QED
    BY <1>1, <2>1, PartOf
<1>3. Peeked(q) # <<>>
  BY <1>1, <1>2
<1>4. Contents(q) = {q[i] : i \in 1..Len(q)} /\ \A i \in 1..Len(q) : q[i] \in Nat
  BY Held
<1>5. \A i \in 1..n : i \in 1..Len(q)
  BY <1>1
<1>6. ASSUME Rising(q), NEW i \in 1..Len(q), q[i] <= Last(Peeked(q)) PROVE i \in 1..n
  <2>1. Last(Peeked(q)) = q[n] /\ n \in 1..Len(q)
    BY <1>1, <1>2 DEF Last
  <2>2. n < i => q[n] < q[i]
    BY <1>6, <2>1 DEF Rising
  <2>3. q[n] \in Nat /\ q[i] \in Nat
    BY <1>4, <2>1
  <2> QED
    BY <1>1, <1>6, <2>1, <2>2, <2>3
<1> QED
  BY <1>1, <1>2, <1>3, <1>4, <1>5, <1>6

(* RowQueue::commit finds where the rows that were sent end.               *)
LEMMA PoppedSome ==
    ASSUME rows \in Seq(Nat), NEW batch \in Seq(Nat), batch # <<>>
    PROVE  /\ Popped(batch) \in 0..Len(rows)
           /\ \A i \in 1..Popped(batch) : rows[i] <= Last(batch)
           /\ Popped(batch) < Len(rows) => rows[Popped(batch) + 1] > Last(batch)
<1> DEFINE Ends == {n \in Nat : n >= Len(rows) \/ rows[n + 1] > Last(batch)}
           P(n) == /\ \A i \in 1..n : rows[i] <= Last(batch)
                   /\ n < Len(rows) => rows[n + 1] > Last(batch)
<1>1. Len(rows) \in Nat /\ Last(batch) \in Nat /\ \A i \in 1..Len(rows) : rows[i] \in Nat
  BY Held
<1>2. PICK m \in Ends : \A n \in Ends : ~(<<n, m>> \in OpToRel(<, Nat))
  <2>1. Ends \subseteq Nat /\ Len(rows) \in Ends
    BY <1>1
  <2> HIDE DEF Ends
  <2> QED
    BY <2>1, NatLessThanWellFounded, WFMin
<1>3. m \in Nat /\ \A n \in Ends : ~(n < m)
  <2>1. m \in Nat /\ Ends \subseteq Nat
    OBVIOUS
  <2> HIDE DEF Ends
  <2> QED
    BY <1>2, <2>1, Zenon DEF OpToRel
<1>4. m \in 0..Len(rows)
  <2>1. Len(rows) \in Ends
    BY <1>1
  <2> HIDE DEF Ends
  <2> QED
    BY <1>1, <1>3, <2>1
<1>5. P(m)
  <2>1. ASSUME NEW i \in 1..m PROVE rows[i] <= Last(batch)
    <3>1. i - 1 \in Nat /\ i - 1 < m /\ i \in 1..Len(rows) /\ (i - 1) + 1 = i /\ i - 1 < Len(rows)
      BY <1>1, <1>4
    <3>2. i - 1 \notin Ends
      BY <1>3, <3>1
    <3>3. ~(rows[i] > Last(batch))
      BY <3>1, <3>2
    <3> QED
      BY <1>1, <3>1, <3>3
  <2>2. m < Len(rows) => rows[m + 1] > Last(batch)
    BY <1>1, <1>3, <1>4
  <2> QED
    BY <2>1, <2>2
<1> HIDE DEF P
<1>6. Popped(batch) = CHOOSE n \in 0..Len(rows) : P(n)
  BY DEF Popped, P, Last
<1>7. Popped(batch) \in 0..Len(rows) /\ P(Popped(batch))
  BY <1>4, <1>5, <1>6
<1> QED
  BY <1>7 DEF P

(* RowQueue::commit leaves the rows after the last one that was sent.      *)
LEMMA AckedSome ==
    ASSUME rows \in Seq(Nat), NEW batch \in Seq(Nat), batch # <<>>
    PROVE  /\ Acked(batch) \in Seq(Nat) /\ Len(Acked(batch)) <= Len(rows)
           /\ Rising(rows) => /\ Rising(Acked(batch))
                              /\ Contents(Acked(batch)) = {r \in Contents(rows) : r > Last(batch)}
<1> DEFINE n == Popped(batch)
<1>1. /\ n \in 0..Len(rows) /\ Len(rows) \in Nat /\ Last(batch) \in Nat
      /\ \A i \in 1..n : rows[i] <= Last(batch)
      /\ n < Len(rows) => rows[n + 1] > Last(batch)
  BY PoppedSome, Held
<1>2. Acked(batch) = SubSeq(rows, n + 1, Len(rows))
  BY DEF Acked
<1> HIDE DEF n
<1>3. /\ Acked(batch) \in Seq(Nat) /\ Len(Acked(batch)) = Len(rows) - n
      /\ Contents(Acked(batch)) = {rows[i] : i \in n + 1..Len(rows)}
      /\ Rising(rows) => Rising(Acked(batch))
  <2>1. n + 1 \in 1..Len(rows) + 1 /\ Len(rows) \in ((n + 1) - 1)..Len(rows)
        /\ Len(rows) - (n + 1) + 1 = Len(rows) - n
    BY <1>1
  <2> DEFINE m == n + 1
             e == Len(rows)
  <2>2. /\ SubSeq(rows, m, e) \in Seq(Nat) /\ Len(SubSeq(rows, m, e)) = e - m + 1
        /\ Contents(SubSeq(rows, m, e)) = {rows[i] : i \in m..e}
        /\ Rising(rows) => Rising(SubSeq(rows, m, e))
    <3>1. m \in 1..Len(rows) + 1 /\ e \in (m - 1)..Len(rows)
      BY <2>1
    <3> HIDE DEF m, e
    <3> QED
      BY <3>1, PartOf
  <2> QED
    BY <1>2, <2>1, <2>2, Zenon
<1>4. ASSUME Rising(rows) PROVE Contents(Acked(batch)) = {r \in Contents(rows) : r > Last(batch)}
  <2>1. Contents(rows) = {rows[i] : i \in 1..Len(rows)} /\ \A i \in 1..Len(rows) : rows[i] \in Nat
    BY Held
  <2>2. ASSUME NEW i \in n + 1..Len(rows) PROVE i \in 1..Len(rows) /\ rows[i] > Last(batch)
    <3>1. i \in 1..Len(rows) /\ n < Len(rows) /\ n + 1 \in 1..Len(rows) /\ (i = n + 1 \/ n + 1 < i)
      BY <1>1
    <3>2. rows[n + 1] > Last(batch) /\ rows[n + 1] \in Nat /\ rows[i] \in Nat
      BY <1>1, <2>1, <3>1
    <3>3. n + 1 < i => rows[n + 1] < rows[i]
      BY <1>4, <3>1 DEF Rising
    <3> QED
      BY <1>1, <3>1, <3>2, <3>3
  <2>3. ASSUME NEW i \in 1..Len(rows), rows[i] > Last(batch) PROVE i \in n + 1..Len(rows)
    <3>1. i \notin 1..n
      BY <1>1, <2>1, <2>3
    <3> QED
      BY <1>1, <3>1
  <2> QED
    BY <1>3, <2>1, <2>2, <2>3
<1>5. Len(rows) - n <= Len(rows)
  BY <1>1
<1> QED
  BY <1>3, <1>4, <1>5

(* A queue in order holds as many rows as it is long.                      *)
LEMMA HowMany ==
    ASSUME NEW q \in Seq(Nat), Rising(q)
    PROVE  IsFiniteSet(Contents(q)) /\ Cardinality(Contents(q)) = Len(q)
<1>1. Len(q) \in Nat /\ q \in [1..Len(q) -> Nat] /\ Contents(q) = {q[i] : i \in 1..Len(q)}
  BY Held, LenProperties
<1>2. IsFiniteSet(1..Len(q)) /\ Cardinality(1..Len(q)) = Len(q)
  <2>1. IsFiniteSet(1..Len(q)) /\ Cardinality(1..Len(q)) = IF 1 > Len(q) THEN 0 ELSE Len(q) - 1 + 1
    BY <1>1, FS_Interval
  <2> QED
    BY <1>1, <2>1
<1>3. q \in Bijection(1..Len(q), Contents(q))
  <2>1. q \in [1..Len(q) -> Contents(q)]
    BY <1>1
  <2>2. \A i, j \in 1..Len(q) : i # j => q[i] # q[j]
    <3>1. \A i, j \in 1..Len(q) : i # j => i < j \/ j < i
      BY <1>1
    <3>2. \A i, j \in 1..Len(q) : q[i] \in Nat /\ q[j] \in Nat
      BY <1>1
    <3> QED
      BY <3>1, <3>2 DEF Rising
  <2> QED
    BY <1>1, <2>1, <2>2 DEF Bijection, Injection, Surjection, IsInjective
<1>4. ExistsBijection(1..Len(q), Contents(q))
  BY <1>3 DEF ExistsBijection
<1> QED
  BY <1>2, <1>4, FS_Bijection

-----------------------------------------------------------------------------
(***************************************************************************)
(* Types.                                                                  *)
(***************************************************************************)

(* A flusher sends a batch that is not empty and no larger than allowed.   *)
Sends(x) ==
    /\ x \in FlusherStates /\ Len(x.batch) <= Batch
    /\ x.at \in {"check", "insert"} <=> x.job # None
    /\ x.at = "insert" => x.batch # <<>>

TypeInv == TypeOK /\ \A f \in Flushers : Sends(fl[f])

(* A flusher that rests or is gone has neither a job nor a batch.          *)
Rests(x) == x.at \in {"none", "timed", "drain", "last"} /\ x.job = None /\ x.batch = <<>>

(* Nothing is asked of a flusher by what it does itself.                   *)
SameOrders(x, y) == y.stop = x.stop /\ y.drain = x.drain /\ y.aborted = x.aborted

LEMMA GoneRests == Sends(Gone) /\ Rests(Gone) /\ Gone.at = "none" /\ ~Gone.stop /\ ~Gone.aborted
<1>1. Len(<<>>) = 0 /\ <<>> \in Seq(Nat)
  OBVIOUS
<1>2. Batch \in Nat
  BY SinkAssumption
<1> QED
  BY <1>1, <1>2 DEF Gone, Sends, Rests, FlusherStates

LEMMA RestRests ==
    ASSUME NEW x, Sends(x), NEW q
    PROVE  /\ Sends(Rest(x, q)) /\ Rests(Rest(x, q))
           /\ x.aborted => Rest(x, q) = Gone
           /\ ~x.aborted => Rest(x, q).at # "none" /\ SameOrders(x, Rest(x, q))
<1>1. CASE x.aborted
  BY <1>1, GoneRests DEF Rest
<1>2. CASE ~x.aborted
  <2> DEFINE to == IF ~x.drain THEN "timed" ELSE IF q = <<>> THEN "last" ELSE "drain"
             y == [x EXCEPT !.at = to, !.job = None, !.batch = <<>>]
  <2>1. Rest(x, q) = y
    BY <1>2 DEF Rest
  <2>2. to \in {"timed", "drain", "last"}
    OBVIOUS
  <2> HIDE DEF to
  <2>3. Len(<<>>) = 0 /\ <<>> \in Seq(Nat) /\ Batch \in Nat
    BY SinkAssumption
  <2>4. /\ y \in FlusherStates /\ y.at = to /\ y.job = None /\ y.batch = <<>>
        /\ y.stop = x.stop /\ y.drain = x.drain /\ y.aborted = x.aborted
    BY <2>2, <2>3 DEF Sends, FlusherStates
  <2> HIDE DEF y
  <2> QED
    BY <1>2, <2>1, <2>2, <2>3, <2>4 DEF Sends, Rests, SameOrders
<1>3. x.aborted \in BOOLEAN
  BY DEF Sends, FlusherStates
<1> QED
  BY <1>1, <1>2, <1>3

LEMMA SendingSends ==
    ASSUME NEW x, Sends(x), NEW job \in Jobs, NEW q \in Seq(Nat)
    PROVE  /\ Sends(Sending(x, job, q))
           /\ q = <<>> \/ x.aborted => Sending(x, job, q) = Rest(x, q)
           /\ q # <<>> /\ ~x.aborted =>
                /\ Sending(x, job, q).at = "insert" /\ Sending(x, job, q).job = job
                /\ Sending(x, job, q).batch = Peeked(q) /\ SameOrders(x, Sending(x, job, q))
<1>1. CASE q = <<>> \/ x.aborted
  BY <1>1, RestRests DEF Sending
<1>2. CASE q # <<>> /\ ~x.aborted
  <2> DEFINE y == [x EXCEPT !.at = "insert", !.job = job, !.batch = Peeked(q)]
  <2>1. Sending(x, job, q) = y
    BY <1>2 DEF Sending
  <2>2. Peeked(q) \in Seq(Nat) /\ Peeked(q) # <<>> /\ Len(Peeked(q)) <= Batch
    BY <1>2, PeekedSome, SinkAssumption
  <2>3. job # None
    BY SinkAssumption DEF SinkAssumption
  <2> HIDE DEF Jobs
  <2>4. /\ y \in FlusherStates /\ y.at = "insert" /\ y.job = job /\ y.batch = Peeked(q)
        /\ y.stop = x.stop /\ y.drain = x.drain /\ y.aborted = x.aborted
    BY <2>2 DEF Sends, FlusherStates
  <2> HIDE DEF y
  <2> QED
    BY <1>2, <2>1, <2>2, <2>3, <2>4 DEF Sends, SameOrders
<1> QED
  BY <1>1, <1>2

(* What TypeInv says, in the parts the actions change.                     *)
EngineTyped == applied \in Configs /\ engine \in EngineStates
QueueTyped ==
    /\ group \in Groups \cup {None} /\ rows \in Seq(Nat) /\ dropped \in Nat /\ broken \in Nat \cup {None}
    /\ Len(rows) <= MaxRows /\ (group = None => rows = <<>>)
TasksTyped ==
    /\ producer \in Producers \cup {None} /\ ending \subseteq Producers /\ serving \in Flushers \cup {None}
FlTyped == fl \in [Flushers -> FlusherStates] /\ \A f \in Flushers : Sends(fl[f])
HistoryTyped ==
    /\ stored \subseteq Nat \X Tables /\ made \in Seq(Tables)
    /\ strays \subseteq Nat /\ twice \subseteq Nat /\ gone \subseteq Nat
    /\ unsure \in BOOLEAN /\ cut \in Nat /\ changes \in 0..Changes /\ troubles \in 0..Troubles

LEMMA TypeParts ==
    /\ TypeInv <=> EngineTyped /\ QueueTyped /\ TasksTyped /\ FlTyped /\ HistoryTyped
    /\ TypeInv' <=> EngineTyped' /\ QueueTyped' /\ TasksTyped' /\ FlTyped' /\ HistoryTyped'
BY DEF TypeInv, TypeOK, EngineTyped, QueueTyped, TasksTyped, FlTyped, HistoryTyped, Sends

(* One flusher goes on, the others stay.                                   *)
LEMMA OneFlusher ==
    ASSUME FlTyped, NEW f \in Flushers, NEW y, Sends(y), fl' = [fl EXCEPT ![f] = y]
    PROVE  FlTyped' /\ fl'[f] = y /\ \A g \in Flushers : g # f => fl'[g] = fl[g]
<1>1. y \in FlusherStates
  BY DEF Sends
<1>2. fl' \in [Flushers -> FlusherStates] /\ fl'[f] = y /\ \A g \in Flushers : g # f => fl'[g] = fl[g]
  BY <1>1 DEF FlTyped
<1>3. \A g \in Flushers : Sends(fl'[g])
  BY <1>2 DEF FlTyped
<1>4. \A g \in Flushers : Sends(fl'[g]) => Sends(fl[g])'
  BY DEF Sends, FlusherStates, Jobs
<1> QED
  BY <1>2, <1>3, <1>4 DEF FlTyped, FlusherStates, Jobs

(* What a flusher is asked to do, and an abort.                            *)
LEMMA Ordered ==
    ASSUME NEW x, Sends(x)
    PROVE  /\ \A y \in {[x EXCEPT !.stop = TRUE], [x EXCEPT !.drain = TRUE], [x EXCEPT !.aborted = TRUE]} :
                Sends(y) /\ y.at = x.at /\ y.job = x.job /\ y.batch = x.batch
           /\ [x EXCEPT !.stop = TRUE].aborted = x.aborted /\ [x EXCEPT !.stop = TRUE].stop
           /\ [x EXCEPT !.drain = TRUE].aborted = x.aborted /\ [x EXCEPT !.drain = TRUE].stop = x.stop
           /\ [x EXCEPT !.aborted = TRUE].aborted
<1> USE DEF Sends, FlusherStates
<1>1. /\ Sends([x EXCEPT !.stop = TRUE]) /\ Sends([x EXCEPT !.drain = TRUE])
      /\ Sends([x EXCEPT !.aborted = TRUE])
  OBVIOUS
<1> QED
  BY <1>1

LEMMA PushedTyped ==
    ASSUME QueueTyped, NEW row \in Nat
    PROVE  Pushed(row) \in Seq(Nat) /\ Len(Pushed(row)) <= MaxRows /\ (Full => rows # <<>> /\ Head(rows) \in Nat)
<1> DEFINE q == IF Full THEN Tail(rows) ELSE rows
<1>1. MaxRows \in Nat \ {0} /\ rows \in Seq(Nat) /\ Len(rows) \in Nat /\ Len(rows) <= MaxRows
  BY SinkAssumption, Held DEF SinkAssumption, QueueTyped
<1>2. Full => rows # <<>> /\ Head(rows) \in Nat
  BY <1>1, Held DEF Full
<1>3. q \in Seq(Nat) /\ Len(q) \in Nat /\ Len(q) < MaxRows
  <2>1. CASE Full
    <3>1. Tail(rows) \in Seq(Nat) /\ Len(Tail(rows)) = Len(rows) - 1
      BY <1>1, <1>2, <2>1, HeadTailProperties
    <3>2. Len(Tail(rows)) \in Nat
      BY <3>1
    <3> QED
      BY <1>1, <2>1, <3>1, <3>2
  <2>2. CASE ~Full
    BY <1>1, <2>2 DEF Full
  <2> QED
    BY <2>1, <2>2
<1> HIDE DEF q
<1>4. Pushed(row) = Append(q, row)
  BY DEF Pushed, q
<1>5. Append(q, row) \in Seq(Nat) /\ Len(Append(q, row)) = Len(q) + 1
  BY <1>3, AppendProperties
<1> QED
  BY <1>1, <1>2, <1>3, <1>4, <1>5

LEMMA QueuedTyped ==
    ASSUME QueueTyped, NEW job
    PROVE  Queued(job) \in Seq(Nat)
BY DEF QueueTyped, Queued

(* What is appended to a history.                                          *)
LEMMA MadeOne ==
    ASSUME HistoryTyped, NEW t \in Tables
    PROVE  /\ Append(made, t) \in Seq(Tables) /\ Len(made) \in Nat /\ DOMAIN made = 1..Len(made)
           /\ DOMAIN Append(made, t) = 1..Len(made) + 1
           /\ \A i \in 1..Len(made) : Append(made, t)[i] = made[i] /\ made[i] \in Tables
           /\ Append(made, t)[Len(made) + 1] = t
<1>1. made \in Seq(Tables)
  BY DEF HistoryTyped
<1>2. /\ Append(made, t) \in Seq(Tables) /\ Len(Append(made, t)) = Len(made) + 1
      /\ \A i \in 1..Len(made) : Append(made, t)[i] = made[i]
      /\ Append(made, t)[Len(made) + 1] = t
  BY <1>1, AppendProperties
<1>3. Len(made) \in Nat /\ DOMAIN made = 1..Len(made) /\ \A i \in 1..Len(made) : made[i] \in Tables
  BY <1>1
<1>4. DOMAIN Append(made, t) = 1..Len(made) + 1
  BY <1>2
<1> QED
  BY <1>2, <1>3, <1>4

(* The registered group with other marks.                                  *)
LEMMA MarkedTyped ==
    ASSUME QueueTyped, NEW f \in Flushers, NEW g, Marked(f, g), group # None => g \in Groups
    PROVE  group' \in Groups \cup {None} /\ (group' = None <=> group = None)
<1>1. None \notin Groups
  BY SinkAssumption DEF SinkAssumption
<1> QED
  BY <1>1 DEF QueueTyped, Marked

LEMMA TypePush ==
    ASSUME TypeInv, NEW p \in Producers, Push(p), ending' \subseteq ending
    PROVE  TypeInv'
<1> USE TypeParts
<1>1. EngineTyped' /\ FlTyped'
  BY DEF Push, EngineTyped, FlTyped, settings, Sends
<1>2. TasksTyped'
  BY DEF Push, TasksTyped
<1>3. p.table \in Tables /\ Len(made) + 1 \in Nat
  BY MadeOne DEF Producers, HistoryTyped
<1>4. HistoryTyped'
  <2>1. made' \in Seq(Tables)
    BY <1>3, MadeOne DEF Push
  <2>2. strays' \subseteq Nat
    BY <1>3 DEF Push, HistoryTyped
  <2>3. gone' \subseteq Nat
    BY <1>3, PushedTyped DEF Push, HistoryTyped
  <2> QED
    BY <2>1, <2>2, <2>3 DEF Push, HistoryTyped, settings
<1>5. QueueTyped'
  <2>1. CASE group # None /\ group.q = p.q
    <3>1. rows' = Pushed(Len(made) + 1) /\ dropped' \in Nat
      BY <2>1 DEF Push, QueueTyped
    <3> QED
      BY <1>3, <2>1, <3>1, PushedTyped DEF Push, QueueTyped
  <2>2. CASE ~(group # None /\ group.q = p.q)
    BY <2>2 DEF Push, QueueTyped
  <2> QED
    BY <2>1, <2>2
<1> QED
  BY <1>1, <1>2, <1>4, <1>5

LEMMA JobTyped ==
    ASSUME TypeInv, NEW f \in Flushers
    PROVE  /\ fl[f].at \in {"check", "insert"} => fl[f].job \in Jobs
           /\ fl[f].batch \in Seq(Nat)
           /\ group # None => Job \in Jobs
           /\ Sends(fl[f])
<1>1. Sends(fl[f]) /\ fl[f] \in FlusherStates
  BY TypeParts DEF FlTyped
<1>2. group # None => Job \in Jobs
  BY TypeParts DEF QueueTyped, Job, Jobs, Groups
<1> QED
  BY <1>1, <1>2 DEF Sends, FlusherStates

LEMMA WrittenTyped ==
    ASSUME TypeInv, NEW f \in Flushers, (fl[f].at = "insert" /\ Written(f)) \/ UNCHANGED <<stored, twice>>
    PROVE  stored' \subseteq Nat \X Tables /\ twice' \subseteq Nat
<1>1. CASE fl[f].at = "insert" /\ Written(f)
  <2>1. fl[f].job.table \in Tables /\ Contents(fl[f].batch) \subseteq Nat
    BY <1>1, JobTyped, Held DEF Jobs
  <2> QED
    BY <1>1, <2>1, TypeParts DEF Written, HistoryTyped
<1>2. CASE UNCHANGED <<stored, twice>>
  BY <1>2, TypeParts DEF HistoryTyped
<1> QED
  BY <1>1, <1>2

LEMMA TypeFlusher ==
    ASSUME TypeInv, NEW f \in Flushers, FlusherWorks(f) \/ Fails(f)
    PROVE  TypeInv'
<1> USE TypeParts
<1>1. CASE RoundBegins(f)
  <2>1. FlTyped'
    <3>1. CASE group.ready /\ rows # <<>> /\ fl' = [fl EXCEPT ![f] = Sending(fl[f], Job, rows)]
      <4>1. rows \in Seq(Nat) /\ Job \in Jobs
        BY <1>1, JobTyped DEF RoundBegins, QueueTyped
      <4>2. Sends(Sending(fl[f], Job, rows))
        BY <4>1, JobTyped, SendingSends
      <4> QED
        BY <3>1, <4>2, OneFlusher
    <3>2. CASE ~group.ready /\ fl' = [fl EXCEPT ![f].at = "check", ![f].job = Job]
      <4> DEFINE y == [fl[f] EXCEPT !.at = "check", !.job = Job]
      <4>1. Job \in Jobs /\ Job # None
        BY <1>1, JobTyped, SinkAssumption DEF RoundBegins, SinkAssumption
      <4> HIDE DEF Job, Jobs
      <4>2. Sends(y)
        BY <4>1, JobTyped DEF Sends, FlusherStates
      <4>3. fl' = [fl EXCEPT ![f] = y]
        BY <3>2 DEF FlTyped
      <4> HIDE DEF y
      <4> QED
        BY <4>2, <4>3, OneFlusher
    <3> QED
      BY <1>1, <3>1, <3>2 DEF RoundBegins
  <2>2. EngineTyped' /\ TasksTyped' /\ HistoryTyped'
    BY <1>1 DEF RoundBegins, EngineTyped, TasksTyped, HistoryTyped, settings, history
  <2>3. QueueTyped'
    BY <1>1 DEF RoundBegins, QueueTyped, queue
  <2> QED
    BY <2>1, <2>2, <2>3
<1>2. CASE DrainedDry(f)
  <2>1. FlTyped'
    BY <1>2, JobTyped, RestRests, OneFlusher DEF DrainedDry
  <2>2. EngineTyped' /\ TasksTyped' /\ HistoryTyped'
    BY <1>2 DEF DrainedDry, EngineTyped, TasksTyped, HistoryTyped, settings, history
  <2>3. QueueTyped'
    BY <1>2 DEF DrainedDry, QueueTyped, queue
  <2> QED
    BY <2>1, <2>2, <2>3
<1>3. CASE CheckPasses(f)
  <2>1. FlTyped'
    <3>1. Sends(Sending(fl[f], fl[f].job, Queued(fl[f].job)))
      BY <1>3, JobTyped, QueuedTyped, SendingSends DEF CheckPasses
    <3> QED
      BY <1>3, <3>1, OneFlusher DEF CheckPasses
  <2>2. EngineTyped' /\ TasksTyped' /\ HistoryTyped'
    BY <1>3 DEF CheckPasses, EngineTyped, TasksTyped, HistoryTyped, settings, history
  <2>3. QueueTyped'
    <3>1. group # None => [group EXCEPT !.state = "running", !.ready = TRUE] \in Groups
      BY DEF QueueTyped, Groups
    <3>2. group' \in Groups \cup {None} /\ (group' = None <=> group = None)
      BY <1>3, <3>1, MarkedTyped DEF CheckPasses
    <3> QED
      BY <1>3, <3>2 DEF CheckPasses, QueueTyped
  <2> QED
    BY <2>1, <2>2, <2>3
<1>4. CASE Answered(f)
  <2> DEFINE ours == group # None /\ group.q = fl[f].job.q
             left == IF ours THEN Acked(fl[f].batch) ELSE <<>>
  <2>1. fl[f].job \in Jobs /\ fl[f].batch \in Seq(Nat) /\ fl[f].batch # <<>>
    BY <1>4, JobTyped DEF Answered, Sends
  <2>2. rows \in Seq(Nat) /\ Len(rows) <= MaxRows /\ MaxRows \in Nat /\ Len(rows) \in Nat
    BY Held, SinkAssumption DEF QueueTyped, SinkAssumption
  <2>3. Acked(fl[f].batch) \in Seq(Nat) /\ Len(Acked(fl[f].batch)) <= Len(rows)
    BY <2>1, <2>2, AckedSome
  <2>4. left \in Seq(Nat)
    BY <2>3, Held
  <2>5. rows' = IF ours THEN left ELSE rows
    BY <1>4 DEF Answered
  <2>6. rows' \in Seq(Nat) /\ Len(rows') <= MaxRows /\ (~ours => rows' = rows)
    <3>1. Len(Acked(fl[f].batch)) \in Nat
      BY <2>3, Held
    <3> QED
      BY <2>2, <2>3, <2>5, <3>1
  <2>7. fl' = [fl EXCEPT ![f] = Sending(fl[f], fl[f].job, left)]
    BY <1>4 DEF Answered
  <2>8. Marked(f, [group EXCEPT !.state = "running"])
    BY <1>4 DEF Answered
  <2>9. FlTyped'
    BY <2>1, <2>4, <2>7, JobTyped, SendingSends, OneFlusher
  <2> HIDE DEF left
  <2>10. QueueTyped'
    <3>1. group # None => [group EXCEPT !.state = "running"] \in Groups
      BY DEF QueueTyped, Groups
    <3>2. group' \in Groups \cup {None} /\ (group' = None <=> group = None)
      BY <2>8, <3>1, MarkedTyped
    <3> QED
      BY <1>4, <2>6, <3>2 DEF Answered, QueueTyped
  <2>11. HistoryTyped'
    BY <1>4, WrittenTyped DEF Answered, HistoryTyped, settings
  <2>12. EngineTyped' /\ TasksTyped'
    BY <1>4 DEF Answered, EngineTyped, TasksTyped, settings
  <2> QED
    BY <2>9, <2>10, <2>11, <2>12
<1>5. CASE FlusherEnds(f)
  <2>1. FlTyped'
    BY <1>5, GoneRests, OneFlusher DEF FlusherEnds
  <2>2. EngineTyped' /\ TasksTyped'
    BY <1>5 DEF FlusherEnds, EngineTyped, TasksTyped, settings
  <2>3. QueueTyped'
    BY <1>5 DEF FlusherEnds, QueueTyped, queue
  <2>4. unsure' \in BOOLEAN
    BY <1>5 DEF FlusherEnds, HistoryTyped
  <2>5. HistoryTyped'
    BY <1>5, <2>4, WrittenTyped DEF FlusherEnds, Unanswered, HistoryTyped, settings
  <2> QED
    BY <2>1, <2>2, <2>3, <2>5
<1>6. CASE Fails(f)
  <2>1. FlTyped'
    BY <1>6, JobTyped, RestRests, OneFlusher DEF Fails
  <2>2. EngineTyped' /\ TasksTyped'
    BY <1>6 DEF Fails, EngineTyped, TasksTyped, settings
  <2>3. QueueTyped'
    <3>1. group # None => /\ [group EXCEPT !.state = "backoff", !.ready = FALSE] \in Groups
                          /\ [group EXCEPT !.state = "error", !.ready = FALSE] \in Groups
      BY DEF QueueTyped, Groups
    <3>2. None \notin Groups
      BY SinkAssumption DEF SinkAssumption
    <3>3. group' \in Groups \cup {None} /\ (group' = None <=> group = None)
      BY <1>6, <3>1, <3>2, MarkedTyped DEF Fails
    <3> QED
      BY <1>6, <3>3 DEF Fails, QueueTyped
  <2>4. unsure' \in BOOLEAN
    BY <1>6 DEF Fails, HistoryTyped
  <2>5. troubles' \in 0..Troubles
    <3>1. troubles \in 0..Troubles /\ troubles > 0 /\ troubles' = troubles - 1 /\ Troubles \in Nat
      BY <1>6, SinkAssumption DEF Fails, HistoryTyped, SinkAssumption
    <3> QED
      BY <3>1
  <2>6. HistoryTyped'
    BY <1>6, <2>4, <2>5, WrittenTyped DEF Fails, Unanswered, HistoryTyped, settings
  <2> QED
    BY <2>1, <2>2, <2>3, <2>6
<1> QED
  BY <1>1, <1>2, <1>3, <1>4, <1>5, <1>6 DEF FlusherWorks

(* A flusher that is dismissed is aborted, unless it has ended.            *)
FlGood(h) == h \in [Flushers -> FlusherStates] /\ \A g \in Flushers : Sends(h[g])

LEMMA FlTypedGood == (FlTyped <=> FlGood(fl)) /\ (FlTyped' <=> FlGood(fl'))
BY DEF FlTyped, FlGood, Sends, FlusherStates, Jobs

LEMMA DismissedOne ==
    ASSUME FlTyped, NEW d \in Flushers \cup {None}
    PROVE  /\ FlGood(Dismissed(d))
           /\ \A g \in Flushers : Dismissed(d)[g] = IF g = d /\ fl[g].at # "none"
                                                   THEN [fl[g] EXCEPT !.aborted = TRUE] ELSE fl[g]
<1>1. None \notin Flushers
  BY SinkAssumption DEF SinkAssumption
<1>2. fl \in [Flushers -> FlusherStates] /\ \A g \in Flushers : Sends(fl[g])
  BY DEF FlTyped
<1>3. CASE d = None \/ fl[d].at = "none"
  BY <1>1, <1>2, <1>3 DEF Dismissed, FlGood
<1>4. CASE d # None /\ fl[d].at # "none"
  <2> DEFINE y == [fl[d] EXCEPT !.aborted = TRUE]
  <2>1. d \in Flushers /\ Dismissed(d) = [fl EXCEPT ![d] = y]
    BY <1>2, <1>4 DEF Dismissed
  <2>2. Sends(y) /\ y \in FlusherStates
    BY <1>2, <2>1, Ordered DEF Sends
  <2>3. \A g \in Flushers : Dismissed(d)[g] = IF g = d THEN y ELSE fl[g]
    BY <1>2, <2>1
  <2>4. Dismissed(d) \in [Flushers -> FlusherStates]
    BY <1>2, <2>1, <2>2
  <2>5. \A g \in Flushers : Sends(Dismissed(d)[g])
    BY <1>2, <2>2, <2>3
  <2> QED
    BY <1>4, <2>1, <2>3, <2>4, <2>5 DEF FlGood
<1> QED
  BY <1>3, <1>4

LEMMA GoodOne ==
    ASSUME NEW h, FlGood(h), NEW f \in Flushers, NEW y, Sends(y)
    PROVE  /\ FlGood([h EXCEPT ![f] = y])
           /\ \A g \in Flushers : [h EXCEPT ![f] = y][g] = IF g = f THEN y ELSE h[g]
<1>1. y \in FlusherStates
  BY DEF Sends
<1> QED
  BY <1>1 DEF FlGood

(* Settings that are applied.                                              *)
LEMMA FreshTyped ==
    ASSUME NEW gen \in Nat, NEW q \in Nat, NEW w \in Configs
    PROVE  Fresh(gen, q, w) \in Groups
BY DEF Fresh, Groups, Configs

LEMMA TypeApplyBegins ==
    ASSUME TypeInv, NEW w \in Settings, ApplyBegins(w)
    PROVE  TypeInv'
<1> USE TypeParts
<1> DEFINE restart == Restarts(applied, w)
           carry == restart /\ group # None /\ Carries(applied, w)
           flush == restart /\ group # None /\ ~carry
<1>1. w \in Configs /\ engine.last \in Nat
  BY SinkAssumption DEF SinkAssumption, EngineTyped, EngineStates
<1>2. /\ producer' = IF restart THEN None ELSE producer
      /\ ending' = IF restart /\ producer # None THEN ending \cup {producer} ELSE ending
      /\ group' = IF carry THEN NextGeneration(w) ELSE group
      /\ broken' = IF restart THEN None ELSE broken
      /\ engine' = [engine EXCEPT !.at = "flushing", !.to = w, !.flush = flush,
                                  !.waiting = flush /\ WorthWaiting,
                                  !.last = IF carry THEN engine.last + 1 ELSE engine.last,
                                  !.carried = IF restart THEN broken ELSE None]
  BY DEF ApplyBegins
<1>3. changes > 0 /\ changes' = changes - 1
      /\ UNCHANGED <<applied, rows, dropped, serving, fl, stored, history, troubles>>
  BY DEF ApplyBegins
<1>4. EngineTyped'
  <2>1. flush \in BOOLEAN /\ (flush /\ WorthWaiting) \in BOOLEAN
    OBVIOUS
  <2>2. (IF carry THEN engine.last + 1 ELSE engine.last) \in Nat
    BY <1>1
  <2>3. (IF restart THEN broken ELSE None) \in Nat \cup {None}
    BY DEF QueueTyped
  <2> HIDE DEF restart, carry, flush
  <2>4. engine' \in EngineStates
    <3>1. engine \in EngineStates
      BY DEF EngineTyped
    <3>2. ASSUME NEW f \in BOOLEAN, NEW wait \in BOOLEAN, NEW l \in Nat, NEW c \in Nat \cup {None}
          PROVE  [engine EXCEPT !.at = "flushing", !.to = w, !.flush = f, !.waiting = wait,
                                !.last = l, !.carried = c] \in EngineStates
      BY <1>1, <3>1 DEF EngineStates
    <3> QED
      BY <1>2, <2>1, <2>2, <2>3, <3>2
  <2> QED
    BY <1>3, <2>4 DEF EngineTyped
<1>5. QueueTyped'
  <2>0. group # None => NextGeneration(w) \in Groups
    <3> SUFFICES ASSUME group # None PROVE NextGeneration(w) \in Groups
      OBVIOUS
    <3>1. group.q \in Nat /\ engine.last + 1 \in Nat
      BY <1>1 DEF QueueTyped, Groups
    <3> QED
      BY <1>1, <3>1, FreshTyped DEF NextGeneration
  <2>1. carry => NextGeneration(w) \in Groups /\ group # None
    BY <2>0
  <2>2. None \notin Groups
    BY SinkAssumption DEF SinkAssumption
  <2>3. group' \in Groups \cup {None} /\ (group' = None <=> group = None)
    BY <1>2, <2>1, <2>2 DEF QueueTyped
  <2> HIDE DEF carry, flush
  <2> QED
    BY <1>2, <1>3, <2>3 DEF QueueTyped
<1>6. TasksTyped' /\ FlTyped'
  BY <1>2, <1>3 DEF TasksTyped, FlTyped, Sends
<1>7. HistoryTyped'
  <2>1. changes' \in 0..Changes
    BY <1>3, SinkAssumption DEF HistoryTyped, SinkAssumption
  <2> QED
    BY <1>3, <2>1 DEF HistoryTyped, history
<1> QED
  BY <1>4, <1>5, <1>6, <1>7

(* What ApplyDiscards does, by what it assigns.                            *)
DiscardStops == ConnStops(applied, engine.to) /\ serving # None

LEMMA Discarding ==
    ASSUME TypeInv, ApplyDiscards
    PROVE  /\ engine.at = "flushing"
           /\ engine' = [engine EXCEPT !.at = IF DiscardStops THEN "stopping" ELSE "starting",
                                       !.flusher = IF DiscardStops THEN serving ELSE None,
                                       !.carried = IF engine.flush THEN dropped + Len(rows) ELSE engine.carried,
                                       !.waiting = FALSE]
           /\ group' = IF engine.flush THEN None ELSE group
           /\ rows' = IF engine.flush THEN <<>> ELSE rows
           /\ dropped' = IF engine.flush THEN 0 ELSE dropped
           /\ gone' = IF engine.flush THEN gone \cup Contents(rows) ELSE gone
           /\ serving' = IF DiscardStops THEN None ELSE serving
           /\ fl' = IF DiscardStops THEN [fl EXCEPT ![serving].stop = TRUE] ELSE fl
           /\ UNCHANGED <<settings, broken, producer, ending, stored,
                          made, strays, twice, unsure, cut, troubles>>
<1>1. CASE engine.flush
  BY <1>1 DEF ApplyDiscards, DiscardStops
<1>2. CASE ~engine.flush
  <2>1. engine' = [engine EXCEPT !.at = IF DiscardStops THEN "stopping" ELSE "starting",
                                 !.flusher = IF DiscardStops THEN serving ELSE None,
                                 !.waiting = FALSE]
    BY <1>2 DEF ApplyDiscards, DiscardStops
  <2>2. engine \in EngineStates
    BY TypeParts DEF EngineTyped
  <2>3. engine' = [engine EXCEPT !.at = IF DiscardStops THEN "stopping" ELSE "starting",
                                 !.flusher = IF DiscardStops THEN serving ELSE None,
                                 !.carried = engine.carried,
                                 !.waiting = FALSE]
    BY <2>1, <2>2 DEF EngineStates
  <2> QED
    BY <1>2, <2>3 DEF ApplyDiscards, DiscardStops
<1>3. engine.flush \in BOOLEAN
  BY TypeParts DEF EngineTyped, EngineStates
<1> QED
  BY <1>1, <1>2, <1>3

(* A flusher that is asked to stop.                                        *)
LEMMA StopAsked ==
    ASSUME TypeInv, serving # None
    PROVE  /\ serving \in Flushers
           /\ Sends([fl[serving] EXCEPT !.stop = TRUE])
           /\ [fl EXCEPT ![serving].stop = TRUE] = [fl EXCEPT ![serving] = [fl[serving] EXCEPT !.stop = TRUE]]
<1>1. serving \in Flushers
  BY TypeParts DEF TasksTyped
<1>2. Sends(fl[serving]) /\ fl \in [Flushers -> FlusherStates]
  BY <1>1, TypeParts DEF FlTyped
<1> QED
  BY <1>1, <1>2, Ordered

LEMMA TypeApplyDiscards ==
    ASSUME TypeInv, ApplyDiscards
    PROVE  TypeInv'
<1> USE TypeParts
<1>1. dropped \in Nat /\ Len(rows) \in Nat /\ Contents(rows) \subseteq Nat /\ serving \in Flushers \cup {None}
  BY Held DEF QueueTyped, TasksTyped
<1>2. EngineTyped'
  <2>1. (IF engine.flush THEN dropped + Len(rows) ELSE engine.carried) \in Nat \cup {None}
    BY <1>1 DEF EngineTyped, EngineStates
  <2>2. (IF DiscardStops THEN serving ELSE None) \in Flushers \cup {None}
    BY <1>1
  <2>3. (IF DiscardStops THEN "stopping" ELSE "starting") \in {"stopping", "starting"}
    OBVIOUS
  <2>4. ASSUME NEW a \in {"stopping", "starting"}, NEW f \in Flushers \cup {None}, NEW c \in Nat \cup {None}
        PROVE  [engine EXCEPT !.at = a, !.flusher = f, !.carried = c, !.waiting = FALSE] \in EngineStates
    BY DEF EngineTyped, EngineStates
  <2> DEFINE at == IF DiscardStops THEN "stopping" ELSE "starting"
             flusher == IF DiscardStops THEN serving ELSE None
             carried == IF engine.flush THEN dropped + Len(rows) ELSE engine.carried
  <2>5. engine' \in EngineStates
    <3>1. engine' = [engine EXCEPT !.at = at, !.flusher = flusher, !.carried = carried, !.waiting = FALSE]
      BY Discarding, Zenon
    <3> HIDE DEF at, flusher, carried
    <3>2. at \in {"stopping", "starting"} /\ flusher \in Flushers \cup {None} /\ carried \in Nat \cup {None}
      BY <2>1, <2>2, <2>3 DEF at, flusher, carried
    <3> QED
      BY <2>4, <3>1, <3>2, Zenon
  <2>6. applied' = applied /\ applied \in Configs
    BY Discarding DEF EngineTyped, settings
  <2> QED
    BY <2>5, <2>6 DEF EngineTyped
<1>3. QueueTyped'
  <2>1. /\ group' = IF engine.flush THEN None ELSE group
        /\ rows' = IF engine.flush THEN <<>> ELSE rows
        /\ dropped' = IF engine.flush THEN 0 ELSE dropped
        /\ broken' = broken
    BY Discarding
  <2>2. <<>> \in Seq(Nat) /\ Len(<<>>) <= MaxRows /\ 0 \in Nat
    BY SinkAssumption, Held DEF SinkAssumption
  <2>3. CASE engine.flush
    BY <2>1, <2>2, <2>3 DEF QueueTyped
  <2>4. CASE ~engine.flush
    BY <2>1, <2>4 DEF QueueTyped
  <2> QED
    BY <2>3, <2>4
<1>4. TasksTyped'
  BY Discarding DEF TasksTyped
<1>5. FlTyped'
  <2>1. CASE DiscardStops
    BY <2>1, Discarding, StopAsked, OneFlusher DEF DiscardStops
  <2>2. CASE ~DiscardStops
    BY <2>2, Discarding DEF FlTyped, Sends
  <2> QED
    BY <2>1, <2>2
<1>6. HistoryTyped'
  <2>1. gone' \subseteq Nat
    BY <1>1, Discarding DEF HistoryTyped
  <2> QED
    BY <2>1, Discarding DEF HistoryTyped, settings
<1> QED
  BY <1>2, <1>3, <1>4, <1>5, <1>6

(* What ApplyStarts does, by what it assigns: f is the new flusher, if     *)
(* there is one.                                                           *)
NewFlusher == ConnStarts(applied, engine.to)
Anew == Restarts(applied, engine.to)
Runnable == engine.to.spec # None /\ Connected(engine.to)
CountSoFar == IF engine.carried = None THEN 0 ELSE engine.carried

Starting(f) ==
    /\ engine.at \in {"stopping", "starting"}
    /\ NewFlusher => fl[f] = Gone
    /\ serving' = IF NewFlusher THEN f ELSE serving
    /\ fl' = IF NewFlusher THEN [Dismissed(engine.flusher) EXCEPT ![f] = [Gone EXCEPT !.at = "timed"]]
             ELSE Dismissed(engine.flusher)
    /\ group' = IF Anew /\ Runnable /\ group = None
                THEN Fresh(engine.last + 1, engine.last + 1, engine.to) ELSE group
    /\ rows' = IF Anew /\ Runnable /\ group = None THEN <<>> ELSE rows
    /\ dropped' = IF Anew /\ Runnable /\ group = None THEN CountSoFar ELSE dropped
    /\ producer' = IF Anew /\ Runnable THEN [q |-> group'.q, table |-> engine.to.table] ELSE producer
    /\ broken' = IF Anew /\ ~Runnable THEN CountSoFar ELSE broken
    /\ applied' = engine.to
    /\ unsure' = (unsure \/ InsertCut(engine.flusher))
    /\ engine' = [engine EXCEPT !.at = "run", !.flush = FALSE, !.flusher = None, !.carried = None,
                                !.last = IF group' # None THEN group'.gen ELSE engine.last]
    /\ UNCHANGED <<changes, ending, stored, made, strays, twice, gone, cut, troubles>>

LEMMA StartsOne ==
    ASSUME ApplyStarts
    PROVE  \E f \in Flushers : Starting(f)
<1>1. PICK f \in Flushers :
        /\ IF NewFlusher THEN f \in FreeFlushers ELSE f = serving \/ serving = None
        /\ serving' = IF NewFlusher THEN f ELSE serving
        /\ fl' = IF NewFlusher THEN [Dismissed(engine.flusher) EXCEPT ![f] = [Gone EXCEPT !.at = "timed"]]
                 ELSE Dismissed(engine.flusher)
        /\ IF ~Anew
           THEN UNCHANGED <<queue, producer>>
           ELSE IF ~Runnable
           THEN /\ broken' = CountSoFar
                /\ UNCHANGED <<group, rows, dropped, producer>>
           ELSE /\ IF group # None
                   THEN UNCHANGED <<group, rows, dropped>>
                   ELSE /\ group' = Fresh(engine.last + 1, engine.last + 1, engine.to)
                        /\ rows' = <<>> /\ dropped' = CountSoFar
                /\ producer' = [q |-> group'.q, table |-> engine.to.table]
                /\ UNCHANGED broken
  BY DEF ApplyStarts, NewFlusher, Anew, Runnable, CountSoFar
<1>2. /\ group' = IF Anew /\ Runnable /\ group = None
                  THEN Fresh(engine.last + 1, engine.last + 1, engine.to) ELSE group
      /\ rows' = IF Anew /\ Runnable /\ group = None THEN <<>> ELSE rows
      /\ dropped' = IF Anew /\ Runnable /\ group = None THEN CountSoFar ELSE dropped
      /\ producer' = IF Anew /\ Runnable THEN [q |-> group'.q, table |-> engine.to.table] ELSE producer
      /\ broken' = IF Anew /\ ~Runnable THEN CountSoFar ELSE broken
  <2>1. CASE ~Anew
    BY <1>1, <2>1 DEF queue
  <2>2. CASE Anew /\ ~Runnable
    BY <1>1, <2>2
  <2>3. CASE Anew /\ Runnable
    BY <1>1, <2>3
  <2> QED
    BY <2>1, <2>2, <2>3
<1>3. /\ engine.at \in {"stopping", "starting"}
      /\ applied' = engine.to
      /\ unsure' = (unsure \/ InsertCut(engine.flusher))
      /\ engine' = [engine EXCEPT !.at = "run", !.flush = FALSE, !.flusher = None, !.carried = None,
                                  !.last = IF group' # None THEN group'.gen ELSE engine.last]
      /\ UNCHANGED <<changes, ending, stored, made, strays, twice, gone, cut, troubles>>
  BY DEF ApplyStarts
<1> QED
  BY <1>1, <1>2, <1>3 DEF Starting, FreeFlushers

LEMMA NewFlusherSends ==
    /\ Sends([Gone EXCEPT !.at = "timed"]) /\ Rests([Gone EXCEPT !.at = "timed"])
    /\ [Gone EXCEPT !.at = "timed"].at = "timed"
    /\ ~[Gone EXCEPT !.at = "timed"].stop /\ ~[Gone EXCEPT !.at = "timed"].aborted
BY GoneRests DEF Gone, Sends, Rests, FlusherStates

LEMMA TypeStarting ==
    ASSUME TypeInv, NEW f \in Flushers, Starting(f)
    PROVE  TypeInv'
<1> USE TypeParts
<1>1. /\ engine.to \in Configs /\ engine.last \in Nat /\ engine.last + 1 \in Nat
      /\ engine.flusher \in Flushers \cup {None} /\ engine \in EngineStates
      /\ CountSoFar \in Nat /\ engine.to.table \in Tables
  BY DEF EngineTyped, EngineStates, CountSoFar, Configs
<1>2. Fresh(engine.last + 1, engine.last + 1, engine.to) \in Groups
  BY <1>1, FreshTyped
<1>3. None \notin Groups
  BY SinkAssumption DEF SinkAssumption
<1>4. QueueTyped'
  <2>1. CASE Anew /\ Runnable /\ group = None
    <3>1. <<>> \in Seq(Nat) /\ Len(<<>>) <= MaxRows
      BY SinkAssumption, Held DEF SinkAssumption
    <3> QED
      BY <1>1, <1>2, <1>3, <2>1, <3>1 DEF Starting, QueueTyped
  <2>2. CASE ~(Anew /\ Runnable /\ group = None)
    BY <1>1, <2>2 DEF Starting, QueueTyped
  <2> QED
    BY <2>1, <2>2
<1>5. EngineTyped'
  <2>1. (IF group' # None THEN group'.gen ELSE engine.last) \in Nat
    BY <1>1, <1>4 DEF QueueTyped, Groups
  <2> QED
    BY <1>1, <2>1 DEF Starting, EngineTyped, EngineStates
<1>6. TasksTyped'
  <2>1. Anew /\ Runnable => group' \in Groups
    BY <1>2 DEF Starting, QueueTyped
  <2>2. Anew /\ Runnable => group'.q \in Nat
    BY <2>1 DEF Groups
  <2>3. producer' \in Producers \cup {None}
    BY <1>1, <2>2 DEF Starting, Producers, TasksTyped
  <2> QED
    BY <2>3 DEF Starting, TasksTyped
<1>7. FlTyped'
  <2>1. FlGood(Dismissed(engine.flusher))
    BY <1>1, DismissedOne
  <2>2. FlGood(fl')
    BY <2>1, GoodOne, NewFlusherSends DEF Starting
  <2> QED
    BY <2>2, FlTypedGood
<1>8. HistoryTyped'
  <2>1. unsure' \in BOOLEAN
    BY DEF Starting, HistoryTyped
  <2> QED
    BY <2>1 DEF Starting, HistoryTyped
<1> QED
  BY <1>4, <1>5, <1>6, <1>7, <1>8

LEMMA TypeShutdownBegins ==
    ASSUME TypeInv, ShutdownBegins
    PROVE  TypeInv'
<1> USE TypeParts
<1>1. engine.flusher \in Flushers \cup {None} /\ engine \in EngineStates /\ applied \in Configs
  BY DEF EngineTyped, EngineStates
<1>2. EngineTyped'
  BY <1>1 DEF ShutdownBegins, EngineTyped, EngineStates, settings
<1>3. QueueTyped'
  BY DEF ShutdownBegins, QueueTyped, queue
<1>4. TasksTyped'
  BY DEF ShutdownBegins, TasksTyped
<1>5. FlTyped'
  <2>1. FlGood(Dismissed(engine.flusher))
    BY <1>1, DismissedOne
  <2>2. CASE serving = None
    BY <2>1, <2>2, FlTypedGood DEF ShutdownBegins
  <2>3. CASE serving # None
    <3> DEFINE h == Dismissed(engine.flusher)
               y == [h[serving] EXCEPT !.drain = TRUE]
    <3>1. serving \in Flushers
      BY <2>3 DEF TasksTyped
    <3>2. Sends(y)
      BY <2>1, <3>1, Ordered DEF FlGood
    <3>3. fl' = [h EXCEPT ![serving] = y]
      BY <2>1, <2>3, <3>1 DEF ShutdownBegins, FlGood
    <3> HIDE DEF h, y
    <3>4. FlGood(h)
      BY <2>1 DEF h
    <3>5. FlGood(fl')
      BY <3>1, <3>2, <3>3, <3>4, GoodOne
    <3> QED
      BY <3>5, FlTypedGood
  <2> QED
    BY <2>2, <2>3
<1>6. HistoryTyped'
  <2>1. cut' \in Nat
    BY <1>1 DEF ShutdownBegins, HistoryTyped, EngineStates
  <2>2. unsure' \in BOOLEAN
    BY DEF ShutdownBegins, HistoryTyped
  <2> QED
    BY <2>1, <2>2 DEF ShutdownBegins, HistoryTyped, settings
<1> QED
  BY <1>2, <1>3, <1>4, <1>5, <1>6

LEMMA TypeDrainEnds ==
    ASSUME TypeInv, DrainEnds
    PROVE  TypeInv'
<1> USE TypeParts
<1>1. engine \in EngineStates /\ serving \in Flushers \cup {None}
  BY DEF EngineTyped, TasksTyped
<1>2. EngineTyped'
  BY <1>1 DEF DrainEnds, EngineTyped, EngineStates, settings
<1>3. QueueTyped' /\ TasksTyped' /\ HistoryTyped'
  BY DEF DrainEnds, QueueTyped, TasksTyped, HistoryTyped, queue, settings, history
<1>4. FlTyped'
  <2>1. CASE serving = None
    BY <2>1 DEF DrainEnds, FlTyped, Sends
  <2>2. CASE serving # None
    BY <2>2, StopAsked, OneFlusher DEF DrainEnds
  <2> QED
    BY <2>1, <2>2
<1> QED
  BY <1>2, <1>3, <1>4

LEMMA TypeReport ==
    ASSUME TypeInv, Report
    PROVE  TypeInv'
<1> USE TypeParts
<1>1. engine.flusher \in Flushers \cup {None} /\ engine \in EngineStates
  BY DEF EngineTyped, EngineStates
<1>2. Len(rows) \in Nat /\ Contents(rows) \subseteq Nat /\ <<>> \in Seq(Nat) /\ Len(<<>>) <= MaxRows
  BY SinkAssumption, Held DEF QueueTyped, SinkAssumption
<1>3. EngineTyped'
  BY <1>1 DEF Report, EngineTyped, EngineStates, settings
<1>4. QueueTyped'
  BY <1>2 DEF Report, CountedReport, QueueTyped
<1>5. TasksTyped'
  BY DEF Report, TasksTyped
<1>6. FlTyped'
  BY <1>1, DismissedOne, FlTypedGood DEF Report
<1>7. HistoryTyped'
  <2>1. unsure' \in BOOLEAN
    BY DEF Report, HistoryTyped
  <2>2. gone' \subseteq Nat
    BY <1>2 DEF Report, CountedReport, HistoryTyped
  <2> QED
    BY <2>1, <2>2 DEF Report, HistoryTyped, settings
<1> QED
  BY <1>3, <1>4, <1>5, <1>6, <1>7

LEMMA TypeStart ==
    ASSUME Init
    PROVE  TypeInv
<1> DEFINE f0 == CHOOSE g \in Flushers : TRUE
<1>1. f0 \in Flushers /\ Initial \in Configs /\ Initial.table \in Tables /\ MaxRows \in Nat
  BY SinkAssumption DEF SinkAssumption, Configs
<1> HIDE DEF f0
<1>2. EngineTyped
  BY <1>1 DEF Init, EngineTyped, EngineStates
<1>3. <<>> \in Seq(Nat) /\ Len(<<>>) = 0 /\ <<>> \in Seq(Tables)
  OBVIOUS
<1>4. QueueTyped
  BY <1>1, <1>3 DEF Init, QueueTyped, Groups
<1>5. TasksTyped
  BY <1>1 DEF Init, TasksTyped, Producers, f0
<1>6. FlTyped
  <2>1. fl = [g \in Flushers |-> IF g = f0 THEN [Gone EXCEPT !.at = "timed"] ELSE Gone]
    BY DEF Init, f0
  <2>2. Gone \in FlusherStates /\ [Gone EXCEPT !.at = "timed"] \in FlusherStates
    BY GoneRests, NewFlusherSends DEF Sends
  <2> QED
    BY <2>1, <2>2, GoneRests, NewFlusherSends DEF FlTyped
<1>7. HistoryTyped
  <2>1. Changes \in 0..Changes /\ Troubles \in 0..Troubles
    BY SinkAssumption DEF SinkAssumption
  <2>2. stored = {} /\ made = <<>> /\ strays = {} /\ twice = {} /\ gone = {} /\ unsure = FALSE /\ cut = 0
        /\ changes = Changes /\ troubles = Troubles
    BY DEF Init
  <2> QED
    BY <1>3, <2>1, <2>2 DEF HistoryTyped
<1> QED
  BY <1>2, <1>4, <1>5, <1>6, <1>7, TypeParts

LEMMA TypeStutter ==
    ASSUME TypeInv, UNCHANGED vars
    PROVE  TypeInv'
<1> USE DEF vars, settings, queue, tasks, history
<1>1. EngineTyped' /\ QueueTyped'
  BY TypeParts DEF EngineTyped, QueueTyped
<1>2. TasksTyped' /\ HistoryTyped'
  BY TypeParts DEF TasksTyped, HistoryTyped
<1>3. FlTyped'
  BY TypeParts DEF FlTyped, Sends
<1> QED
  BY <1>1, <1>2, <1>3, TypeParts

LEMMA TypeStep ==
    ASSUME TypeInv, [Next]_vars
    PROVE  TypeInv'
<1>1. CASE Sample
  <2>1. producer \in Producers
    BY <1>1, TypeParts DEF Sample, TasksTyped
  <2> QED
    BY <1>1, <2>1, TypePush DEF Sample
<1>2. CASE LastSample
  <2>1. \A p \in ending : p \in Producers
    BY TypeParts DEF TasksTyped
  <2> QED
    BY <1>2, <2>1, TypePush DEF LastSample
<1>3. CASE \E f \in Flushers : FlusherWorks(f) \/ Fails(f)
  BY <1>3, TypeFlusher
<1>4. CASE EngineWorks
  BY <1>4, TypeApplyDiscards, StartsOne, TypeStarting, TypeDrainEnds, TypeReport DEF EngineWorks
<1>5. CASE ShutdownBegins
  BY <1>5, TypeShutdownBegins
<1>6. CASE \E w \in Settings : ApplyBegins(w)
  BY <1>6, TypeApplyBegins
<1>7. CASE UNCHANGED vars
  BY <1>7, TypeStutter
<1> QED
  BY <1>1, <1>2, <1>3, <1>4, <1>5, <1>6, <1>7 DEF Next

(* Every variable has its type, whatever the settings, the failing         *)
(* operations and the stop do: in particular the queue never exceeds       *)
(* queue_max_rows and a batch never exceeds batch_size.                    *)
THEOREM TypeCorrect == Spec => []TypeOK
<1>1. Init => TypeInv
  BY TypeStart
<1>2. TypeInv /\ [Next]_vars => TypeInv'
  BY TypeStep
<1>3. TypeInv => TypeOK
  BY DEF TypeInv
<1> QED
  BY <1>1, <1>2, <1>3, PTL DEF Spec

-----------------------------------------------------------------------------
(***************************************************************************)
(* The plan that is being applied, and the flushers.                       *)
(***************************************************************************)

(* A registered group is the one the settings ask for.                     *)
Fits(w) == group # None => group.table = w.table /\ w.spec # None /\ Connected(w)

Applying == engine.at \in {"flushing", "stopping", "starting"}
Flushes == engine.at = "flushing" /\ engine.flush

(* Counts are carried only while there is neither a group nor a broken one *)
(* that could hold them, and only by a plan that makes the group anew.     *)
Plan ==
    /\ engine.carried # None => group = None /\ broken = None
    /\ engine.at = "run" => engine.carried = None /\ Fits(applied)
    /\ group # None => broken = None
    /\ Flushes => group # None
    /\ Applying /\ ~Anew => engine.carried = None /\ ~Flushes
    /\ Applying /\ Anew => broken = None
    /\ Applying /\ ~Flushes => Fits(engine.to)

(* At most one flusher is in charge or is being stopped; the others have   *)
(* ended or are aborted.                                                   *)
Served ==
    /\ serving # None => /\ engine.flusher = None
                         /\ fl[serving].at # "none" /\ ~fl[serving].stop /\ ~fl[serving].aborted
    /\ \A f \in Flushers : fl[f].at = "none" => ~fl[f].aborted
    /\ \A f \in Flushers : fl[f].at # "none" /\ ~fl[f].aborted => f = serving \/ f = engine.flusher
    /\ engine.at \in {"run", "flushing", "draining"} => engine.flusher = None
    /\ engine.at = "run" \/ Applying => (serving # None => Connected(applied))
    /\ engine.at \in {"stopping", "starting"} /\ ConnStops(applied, engine.to) => serving = None

Busy(f) == fl[f].at \in {"check", "insert"}

(* The numbers of queues are not used again, and whoever uses the queue of *)
(* the registered group uses it for the group's table.                     *)
Tabled ==
    /\ group # None => group.q <= engine.last /\ group.gen = engine.last
    /\ producer # None => producer.q <= engine.last
    /\ \A p \in ending : p.q <= engine.last
    /\ \A f \in Flushers : Busy(f) => fl[f].job.q <= engine.last
    /\ group # None =>
         /\ producer # None /\ producer.q = group.q => producer.table = group.table
         /\ \A p \in ending : p.q = group.q => p.table = group.table
         /\ \A f \in Flushers : Busy(f) /\ fl[f].job.q = group.q => fl[f].job.table = group.table

(* What a flusher does, whichever step it is.                              *)
SameGroup ==
    /\ group' = None <=> group = None
    /\ group # None => group'.q = group.q /\ group'.gen = group.gen /\ group'.table = group.table

Apart == UNCHANGED <<settings, engine, dropped, broken, producer, ending, serving,
                     made, strays, gone, cut>>

Given(f, job) ==
    \/ Busy(f) /\ job = fl[f].job
    \/ group # None /\ job = Job

Did(f, y) ==
    /\ fl'[f] = y /\ Sends(y) /\ \A g \in Flushers : g # f => fl'[g] = fl[g]
    /\ SameGroup
    /\ \/ y = Gone /\ (fl[f].aborted \/ fl[f].stop)
       \/ y.at # "none" /\ fl[f].at # "none" /\ SameOrders(fl[f], y)
    /\ y.at \in {"check", "insert"} => Given(f, y.job)
    /\ Apart

LEMMA MarkedSame ==
    ASSUME TypeInv, NEW f \in Flushers, NEW g, Marked(f, g),
           group # None => g \in Groups /\ g.q = group.q /\ g.gen = group.gen /\ g.table = group.table
    PROVE  SameGroup
<1>1. None \notin Groups
  BY SinkAssumption DEF SinkAssumption
<1> QED
  BY <1>1 DEF Marked, SameGroup

(* The marks of a group leave the rest of it alone.                        *)
LEMMA Marks ==
    ASSUME TypeInv, group # None
    PROVE  \A s \in {"running", "backoff", "error"} :
             /\ LET g == [group EXCEPT !.state = s]
                IN  g \in Groups /\ g.q = group.q /\ g.gen = group.gen /\ g.table = group.table
             /\ \A r \in BOOLEAN :
                  LET g == [group EXCEPT !.state = s, !.ready = r]
                  IN  g \in Groups /\ g.q = group.q /\ g.gen = group.gen /\ g.table = group.table
<1>1. group \in Groups
  BY TypeParts DEF QueueTyped
<1> QED
  BY <1>1 DEF Groups

LEMMA FlusherDid ==
    ASSUME TypeInv, NEW f \in Flushers, FlusherWorks(f) \/ Fails(f)
    PROVE  \E y : Did(f, y)
<1>0. /\ FlTyped /\ Sends(fl[f]) /\ fl[f] \in FlusherStates /\ rows \in Seq(Nat)
      /\ fl[f].at # "none" => fl[f].at \in {"timed", "drain", "last", "check", "insert"}
      /\ UNCHANGED group => SameGroup
  BY TypeParts, JobTyped DEF QueueTyped, Sends, FlusherStates, SameGroup
<1>a. ASSUME NEW q \in Seq(Nat), NEW job \in Jobs, fl' = [fl EXCEPT ![f] = Sending(fl[f], job, q)], SameGroup,
             fl[f].at # "none", Given(f, job),
             Apart
      PROVE  \E y : Did(f, y)
  <2> DEFINE y == Sending(fl[f], job, q)
  <2>1. Sends(y)
    BY <1>0, SendingSends
  <2> HIDE DEF y
  <2>2. fl'[f] = y /\ \A g \in Flushers : g # f => fl'[g] = fl[g]
    BY <1>0, <1>a, <2>1, OneFlusher DEF y
  <2>3. \/ y = Gone /\ fl[f].aborted
        \/ y.at \in {"timed", "drain", "last"} /\ SameOrders(fl[f], y)
        \/ y.at = "insert" /\ y.job = job /\ SameOrders(fl[f], y)
    BY <1>0, SendingSends, RestRests DEF y, Rests
  <2>4. y.at \in {"check", "insert"} => y.job = job
    BY <2>3, GoneRests
  <2>5. \/ y = Gone /\ (fl[f].aborted \/ fl[f].stop)
        \/ y.at # "none" /\ fl[f].at # "none" /\ SameOrders(fl[f], y)
    BY <1>a, <2>3
  <2>6. y.at \in {"check", "insert"} => Given(f, y.job)
    BY <1>a, <2>4
  <2>7. Did(f, y)
    BY <1>a, <2>1, <2>2, <2>5, <2>6 DEF Did
  <2> QED
    BY <2>7
<1>b. ASSUME NEW q, fl' = [fl EXCEPT ![f] = Rest(fl[f], q)], SameGroup, fl[f].at # "none",
             Apart
      PROVE  \E y : Did(f, y)
  <2> DEFINE y == Rest(fl[f], q)
  <2>1. Sends(y) /\ y.at \notin {"check", "insert"}
    BY <1>0, RestRests DEF Rests
  <2>2. \/ y = Gone /\ (fl[f].aborted \/ fl[f].stop)
        \/ y.at # "none" /\ fl[f].at # "none" /\ SameOrders(fl[f], y)
    BY <1>0, <1>b, RestRests
  <2> HIDE DEF y
  <2>3. fl'[f] = y /\ \A g \in Flushers : g # f => fl'[g] = fl[g]
    BY <1>0, <1>b, <2>1, OneFlusher DEF y
  <2>4. Did(f, y)
    BY <1>b, <2>1, <2>2, <2>3 DEF Did
  <2> QED
    BY <2>4
<1>1. CASE RoundBegins(f)
  <2>1. fl[f].at # "none" /\ group # None /\ SameGroup /\ Job \in Jobs /\ Given(f, Job)
        /\ Apart
    BY <1>0, <1>1, JobTyped DEF RoundBegins, queue, history, Apart, Given
  <2>2. CASE fl' = [fl EXCEPT ![f] = Sending(fl[f], Job, rows)]
    BY <1>0, <1>a, <2>1, <2>2
  <2>3. CASE fl' = [fl EXCEPT ![f].at = "check", ![f].job = Job]
    <3> DEFINE y == [fl[f] EXCEPT !.at = "check", !.job = Job]
    <3>1. Job # None
      BY <2>1, SinkAssumption DEF SinkAssumption
    <3> HIDE DEF Job, Jobs
    <3>2. Sends(y) /\ y.at = "check" /\ y.job = Job /\ SameOrders(fl[f], y)
      BY <1>0, <2>1, <3>1 DEF Sends, FlusherStates, SameOrders
    <3>3. fl' = [fl EXCEPT ![f] = y]
      BY <1>0, <2>3 DEF FlTyped
    <3> HIDE DEF y
    <3>4. fl'[f] = y /\ \A g \in Flushers : g # f => fl'[g] = fl[g]
      BY <1>0, <3>2, <3>3, OneFlusher
    <3>5. Did(f, y)
      BY <2>1, <3>2, <3>4 DEF Did
    <3> QED
      BY <3>5
  <2> QED
    BY <1>1, <2>2, <2>3 DEF RoundBegins
<1>2. CASE DrainedDry(f)
  <2>1. fl[f].at # "none" /\ SameGroup /\ fl' = [fl EXCEPT ![f] = Rest(fl[f], <<>>)]
        /\ Apart
    BY <1>0, <1>2 DEF DrainedDry, queue, history, Apart
  <2> QED
    BY <1>b, <2>1
<1>3. CASE CheckPasses(f)
  <2> DEFINE job == fl[f].job
             left == Queued(job)
  <2>1. SameGroup
    BY <1>3, MarkedSame, Marks DEF CheckPasses
  <2>2. fl[f].at # "none" /\ Busy(f) /\ fl' = [fl EXCEPT ![f] = Sending(fl[f], job, left)]
        /\ Apart
    BY <1>3 DEF CheckPasses, Busy, history, Apart
  <2>3. job \in Jobs /\ left \in Seq(Nat)
    BY <2>2, JobTyped, QueuedTyped, TypeParts DEF Busy
  <2>4. Given(f, job)
    BY <2>2 DEF Given
  <2> HIDE DEF job, left
  <2> QED
    BY <1>a, <2>1, <2>2, <2>3, <2>4
<1>4. CASE Answered(f)
  <2> DEFINE job == fl[f].job
             left == IF group # None /\ group.q = job.q THEN Acked(fl[f].batch) ELSE <<>>
  <2>1. SameGroup
    BY <1>4, MarkedSame, Marks DEF Answered
  <2>2. fl[f].at # "none" /\ Busy(f) /\ fl' = [fl EXCEPT ![f] = Sending(fl[f], job, left)]
        /\ Apart
    BY <1>4 DEF Answered, Busy, Apart
  <2>3. job \in Jobs /\ fl[f].batch \in Seq(Nat) /\ fl[f].batch # <<>>
    BY <1>4, JobTyped DEF Answered, Sends
  <2>4. left \in Seq(Nat)
    BY <1>0, <2>3, AckedSome, Held
  <2>5. Given(f, job)
    BY <2>2 DEF Given
  <2> HIDE DEF left, job
  <2> QED
    BY <1>a, <2>1, <2>2, <2>3, <2>4, <2>5
<1>5. CASE FlusherEnds(f)
  <2>1. SameGroup /\ fl' = [fl EXCEPT ![f] = Gone] /\ (fl[f].aborted \/ fl[f].stop)
        /\ Apart
    BY <1>0, <1>5 DEF FlusherEnds, queue, Apart
  <2>2. fl'[f] = Gone /\ \A g \in Flushers : g # f => fl'[g] = fl[g]
    BY <1>0, <2>1, GoneRests, OneFlusher
  <2>3. Did(f, Gone)
    BY <2>1, <2>2, GoneRests DEF Did
  <2> QED
    BY <2>3
<1>6. CASE Fails(f)
  <2>1. SameGroup
    <3>1. CASE group' = IF group = None THEN None ELSE [group EXCEPT !.state = "backoff", !.ready = FALSE]
      <4>1. None \notin Groups
        BY SinkAssumption DEF SinkAssumption
      <4>2. group # None => LET g == [group EXCEPT !.state = "backoff", !.ready = FALSE]
                            IN g \in Groups /\ g.q = group.q /\ g.gen = group.gen /\ g.table = group.table
        BY Marks
      <4> QED
        BY <3>1, <4>1, <4>2 DEF SameGroup
    <3>2. CASE Marked(f, [group EXCEPT !.state = "error", !.ready = FALSE])
      BY <3>2, MarkedSame, Marks
    <3> QED
      BY <1>6, <3>1, <3>2 DEF Fails
  <2>2. fl[f].at # "none" /\ fl' = [fl EXCEPT ![f] = Rest(fl[f], rows)]
        /\ Apart
    BY <1>6 DEF Fails, Apart
  <2> QED
    BY <1>b, <2>1, <2>2
<1> QED
  BY <1>1, <1>2, <1>3, <1>4, <1>5, <1>6 DEF FlusherWorks

(* A flusher's steps leave the plan, the flushers and the queues' numbers  *)
(* in order.                                                               *)
OrderInv == TypeInv /\ Plan /\ Served /\ Tabled

LEMMA FitsStays ==
    ASSUME SameGroup, NEW w, Fits(w)
    PROVE  group' # None => group'.table = w.table /\ w.spec # None /\ Connected(w)
BY DEF SameGroup, Fits

LEMMA OrderFlusher ==
    ASSUME OrderInv, NEW f \in Flushers, FlusherWorks(f) \/ Fails(f)
    PROVE  OrderInv'
<1>1. TypeInv /\ TypeInv' /\ Plan /\ Served /\ Tabled
  BY TypeFlusher DEF OrderInv
<1>2. PICK y : Did(f, y)
  BY <1>1, FlusherDid
<1>3. engine' = engine /\ applied' = applied /\ broken' = broken /\ serving' = serving /\ SameGroup
      /\ producer' = producer /\ ending' = ending
  BY <1>2 DEF Did, Apart, settings
<1>4. Plan'
  BY <1>1, <1>3 DEF Plan, SameGroup, Fits, Applying, Flushes, Anew
<1>5. Served'
  <2>1. serving # None => serving \in Flushers
    BY <1>1, TypeParts DEF TasksTyped
  <2>2. \A g \in Flushers : g = f \/ g # f
    OBVIOUS
  <2>3. Gone.at = "none" /\ ~Gone.aborted
    BY GoneRests
  <2>4. /\ fl'[f] = y /\ \A g \in Flushers : g # f => fl'[g] = fl[g]
        /\ \/ y = Gone /\ (fl[f].aborted \/ fl[f].stop)
           \/ y.at # "none" /\ fl[f].at # "none" /\ y.stop = fl[f].stop /\ y.aborted = fl[f].aborted
    BY <1>2 DEF Did, SameOrders
  <2>5. serving # None => fl'[serving].at # "none" /\ ~fl'[serving].stop /\ ~fl'[serving].aborted
    BY <1>1, <2>1, <2>4 DEF Served
  <2>6. \A g \in Flushers : fl'[g].at = "none" => ~fl'[g].aborted
    BY <1>1, <2>2, <2>3, <2>4 DEF Served
  <2>7. \A g \in Flushers : fl'[g].at # "none" /\ ~fl'[g].aborted => g = serving \/ g = engine.flusher
    BY <1>1, <2>2, <2>3, <2>4 DEF Served
  <2> QED
    BY <1>1, <1>3, <2>5, <2>6, <2>7 DEF Served, Applying
<1>6. Tabled'
  <2>1. /\ fl'[f] = y /\ \A g \in Flushers : g # f => fl'[g] = fl[g]
        /\ y.at \in {"check", "insert"} => \/ Busy(f) /\ y.job = fl[f].job
                                           \/ group # None /\ y.job = Job
    BY <1>2 DEF Did, Given
  <2>2. Job.q = group.q /\ Job.table = group.table
    BY DEF Job
  <2>3. ASSUME NEW g \in Flushers, Busy(g)'
        PROVE  /\ fl'[g].job.q <= engine.last
               /\ group # None /\ fl'[g].job.q = group.q => fl'[g].job.table = group.table
    <3>1. fl'[g].at \in {"check", "insert"}
      BY <2>3 DEF Busy
    <3>2. CASE Busy(g) /\ fl'[g].job = fl[g].job
      BY <1>1, <3>2 DEF Tabled
    <3>3. CASE group # None /\ fl'[g].job = Job
      BY <1>1, <2>2, <3>3 DEF Tabled
    <3> QED
      BY <2>1, <3>1, <3>2, <3>3 DEF Busy
  <2> QED
    BY <1>1, <1>3, <2>3 DEF Tabled, SameGroup
<1> QED
  BY <1>1, <1>4, <1>5, <1>6 DEF OrderInv

(* Sampling touches neither the plan nor the flushers.                     *)
LEMMA OrderSample ==
    ASSUME OrderInv, Sample \/ LastSample
    PROVE  OrderInv'
<1>1. TypeInv /\ TypeInv' /\ Plan /\ Served /\ Tabled
  BY TypeStep DEF OrderInv, Next
<1>2. /\ UNCHANGED <<applied, engine, group, broken, producer, serving, fl>> /\ ending' \subseteq ending
  BY DEF Sample, LastSample, Push, settings
<1>3. Plan'
  BY <1>1, <1>2 DEF Plan, Fits, Applying, Flushes, Anew
<1>4. Served'
  BY <1>1, <1>2 DEF Served, Applying
<1>5. Tabled'
  BY <1>1, <1>2 DEF Tabled, Busy
<1> QED
  BY <1>1, <1>3, <1>4, <1>5 DEF OrderInv

(* The settings are changed: a group is passed on, kept for a last flush,  *)
(* or left alone.                                                          *)
LEMMA OrderApplyBegins ==
    ASSUME OrderInv, NEW w \in Settings, ApplyBegins(w)
    PROVE  OrderInv'
<1> DEFINE restart == Restarts(applied, w)
           carry == restart /\ group # None /\ Carries(applied, w)
           flush == restart /\ group # None /\ ~carry
<1>1. TypeInv /\ TypeInv' /\ Plan /\ Served /\ Tabled
  BY TypeApplyBegins DEF OrderInv
<1>2. /\ engine \in EngineStates /\ engine.last \in Nat /\ None \notin Groups
      /\ group # None => group \in Groups /\ group.q \in Nat
      /\ producer # None => producer.q \in Nat
      /\ \A p \in ending : p.q \in Nat
      /\ \A f \in Flushers : Busy(f) => fl[f].job.q \in Nat
  <2>1. \A f \in Flushers : Busy(f) => fl[f].job.q \in Nat
    BY <1>1, JobTyped DEF Busy, Jobs
  <2>2. \A p \in ending : p.q \in Nat
    BY <1>1, TypeParts DEF TasksTyped, Producers
  <2> QED
    BY <1>1, <2>1, <2>2, TypeParts, SinkAssumption
    DEF EngineTyped, EngineStates, QueueTyped, TasksTyped, Groups, Producers, SinkAssumption
<1>3. /\ engine.at = "run"
      /\ producer' = IF restart THEN None ELSE producer
      /\ ending' = IF restart /\ producer # None THEN ending \cup {producer} ELSE ending
      /\ group' = IF carry THEN NextGeneration(w) ELSE group
      /\ broken' = IF restart THEN None ELSE broken
      /\ engine' = [engine EXCEPT !.at = "flushing", !.to = w, !.flush = flush,
                                  !.waiting = flush /\ WorthWaiting,
                                  !.last = IF carry THEN engine.last + 1 ELSE engine.last,
                                  !.carried = IF restart THEN broken ELSE None]
      /\ applied' = applied /\ serving' = serving /\ fl' = fl
  BY DEF ApplyBegins
<1>4. /\ engine'.at = "flushing" /\ engine'.to = w /\ engine'.flush = flush /\ engine'.flusher = engine.flusher
      /\ engine'.last = IF carry THEN engine.last + 1 ELSE engine.last
      /\ engine'.carried = IF restart THEN broken ELSE None
  BY <1>2, <1>3 DEF EngineStates
<1>5. Fits(applied) /\ (group # None => broken = None)
  BY <1>1, <1>3 DEF Plan
<1>6. carry => /\ group # None /\ restart /\ group' = NextGeneration(w) /\ group' # None
               /\ group'.q = group.q /\ group'.gen = engine.last + 1 /\ group'.table = w.table
               /\ group.table = w.table /\ w.spec # None /\ Connected(w)
  <2> SUFFICES ASSUME carry
               PROVE  /\ group # None /\ restart /\ group' = NextGeneration(w) /\ group' # None
                      /\ group'.q = group.q /\ group'.gen = engine.last + 1 /\ group'.table = w.table
                      /\ group.table = w.table /\ w.spec # None /\ Connected(w)
    OBVIOUS
  <2>1. group # None /\ restart /\ group' = NextGeneration(w)
    BY <1>3
  <2>2. NextGeneration(w).q = group.q /\ NextGeneration(w).gen = engine.last + 1 /\ NextGeneration(w).table = w.table
    BY DEF NextGeneration, Fresh
  <2>3. applied.table = w.table /\ w.spec # None /\ ~ConnStops(applied, w)
    BY DEF Carries
  <2>4. group.table = w.table /\ Connected(w)
    BY <1>5, <2>1, <2>3 DEF Fits, ConnStops, Connected
  <2>5. w \in Configs
    BY SinkAssumption DEF SinkAssumption
  <2>6. NextGeneration(w) \in Groups
    BY <1>2, <2>1, <2>5, FreshTyped DEF NextGeneration
  <2> QED
    BY <1>2, <2>1, <2>2, <2>3, <2>4, <2>6
<1>7. ~carry => group' = group
  BY <1>3
<1>8. group' # None <=> group # None
  BY <1>6, <1>7
<1>9. Plan'
  <2>1. ~restart => ~carry /\ ~flush
    OBVIOUS
  <2>2. ~restart => group' = group /\ Fits(w)
    BY <1>5, <1>7, <2>1 DEF Restarts, Fits
  <2>3. restart /\ ~flush => carry \/ group = None
    OBVIOUS
  <2>4. ~flush => (group' # None => group'.table = w.table /\ w.spec # None /\ Connected(w))
    BY <1>6, <1>8, <2>2, <2>3 DEF Fits
  <2>7. flush => group # None
    OBVIOUS
  <2>5. Anew' <=> restart
    BY <1>3, <1>4 DEF Anew
  <2> HIDE DEF restart, carry, flush
  <2>6. Flushes' <=> flush
    BY <1>4 DEF Flushes
  <2> QED
    BY <1>3, <1>4, <1>5, <1>8, <2>1, <2>4, <2>5, <2>6, <2>7 DEF Plan, Fits, Applying
<1>10. Served'
  BY <1>1, <1>3, <1>4 DEF Served, Applying
<1> HIDE DEF restart, carry, flush
<1>11. Tabled'
  <2>1. group' # None => group'.q <= engine'.last /\ group'.gen = engine'.last /\ group'.q = group.q
    BY <1>1, <1>2, <1>4, <1>6, <1>7 DEF Tabled
  <2>2. group' # None => group # None /\ group'.table = group.table
    BY <1>6, <1>7, <1>8
  <2>3. producer' # None => producer' = producer
    BY <1>3
  <2>4. \A p \in ending' : p \in ending \/ (producer # None /\ p = producer)
    BY <1>3
  <2>5. engine.last <= engine'.last /\ engine'.last \in Nat
    BY <1>2, <1>4
  <2>6. /\ producer' # None => producer'.q <= engine'.last
        /\ \A p \in ending' : p.q <= engine'.last
        /\ \A f \in Flushers : Busy(f) => fl[f].job.q <= engine'.last
    <3>1. producer # None => producer.q <= engine'.last
      BY <1>1, <1>2, <2>5 DEF Tabled
    <3>2. \A p \in ending : p.q <= engine'.last
      BY <1>1, <1>2, <2>5 DEF Tabled
    <3>3. \A f \in Flushers : Busy(f) => fl[f].job.q <= engine'.last
      BY <1>1, <1>2, <2>5 DEF Tabled
    <3> QED
      BY <2>3, <2>4, <3>1, <3>2, <3>3
  <2>7. group' # None =>
          /\ producer' # None /\ producer'.q = group'.q => producer'.table = group'.table
          /\ \A p \in ending' : p.q = group'.q => p.table = group'.table
          /\ \A f \in Flushers : Busy(f) /\ fl[f].job.q = group'.q => fl[f].job.table = group'.table
    BY <1>1, <2>1, <2>2, <2>3, <2>4 DEF Tabled
  <2> QED
    BY <1>3, <2>1, <2>6, <2>7 DEF Tabled, Busy
<1> QED
  BY <1>1, <1>9, <1>10, <1>11 DEF OrderInv

(* A flusher that is asked to stop goes on with what it does.              *)
LEMMA StopAskedEach ==
    ASSUME TypeInv, serving # None, fl' = [fl EXCEPT ![serving].stop = TRUE]
    PROVE  \A f \in Flushers : /\ fl'[f].at = fl[f].at /\ fl'[f].job = fl[f].job /\ fl'[f].batch = fl[f].batch
                               /\ fl'[f].aborted = fl[f].aborted
<1> DEFINE y == [fl[serving] EXCEPT !.stop = TRUE]
<1>1. serving \in Flushers /\ Sends(y) /\ fl' = [fl EXCEPT ![serving] = y] /\ Sends(fl[serving]) /\ FlTyped
  BY StopAsked, JobTyped, TypeParts
<1>2. y.at = fl[serving].at /\ y.job = fl[serving].job /\ y.batch = fl[serving].batch /\ y.aborted = fl[serving].aborted
  BY <1>1, Ordered
<1> HIDE DEF y
<1>3. fl'[serving] = y /\ \A g \in Flushers : g # serving => fl'[g] = fl[g]
  BY <1>1, OneFlusher
<1> QED
  BY <1>1, <1>2, <1>3

LEMMA OrderApplyDiscards ==
    ASSUME OrderInv, ApplyDiscards
    PROVE  OrderInv'
<1>1. TypeInv /\ TypeInv' /\ Plan /\ Served /\ Tabled
  BY TypeApplyDiscards DEF OrderInv
<1>2. engine \in EngineStates /\ engine.at = "flushing" /\ serving \in Flushers \cup {None}
  BY <1>1, Discarding, TypeParts DEF EngineTyped, TasksTyped
<1>3. /\ engine' = [engine EXCEPT !.at = IF DiscardStops THEN "stopping" ELSE "starting",
                                  !.flusher = IF DiscardStops THEN serving ELSE None,
                                  !.carried = IF engine.flush THEN dropped + Len(rows) ELSE engine.carried,
                                  !.waiting = FALSE]
      /\ group' = IF engine.flush THEN None ELSE group
      /\ serving' = IF DiscardStops THEN None ELSE serving
      /\ fl' = IF DiscardStops THEN [fl EXCEPT ![serving].stop = TRUE] ELSE fl
      /\ UNCHANGED <<applied, broken, producer, ending>>
  BY <1>1, Discarding DEF settings
<1>4. /\ engine'.at \in {"stopping", "starting"} /\ engine'.to = engine.to /\ engine'.last = engine.last
      /\ engine'.flusher = (IF DiscardStops THEN serving ELSE None)
      /\ engine'.carried = (IF engine.flush THEN dropped + Len(rows) ELSE engine.carried)
      /\ engine.flush \in BOOLEAN
  BY <1>2, <1>3 DEF EngineStates
<1>5. Plan'
  <2>1. Anew' <=> Anew
    BY <1>3, <1>4 DEF Anew
  <2>2. Flushes <=> engine.flush
    BY <1>2 DEF Flushes
  <2>3. ~Flushes'
    BY <1>4 DEF Flushes
  <2>4. Applying /\ Applying' /\ engine'.at # "run"
    BY <1>2, <1>4 DEF Applying
  <2>5. CASE engine.flush
    BY <1>1, <1>3, <1>4, <2>1, <2>2, <2>3, <2>4, <2>5 DEF Plan, Fits
  <2>6. CASE ~engine.flush
    BY <1>1, <1>3, <1>4, <2>1, <2>2, <2>3, <2>4, <2>6 DEF Plan, Fits
  <2> QED
    BY <1>4, <2>5, <2>6
<1>6. \A f \in Flushers : /\ fl'[f].at = fl[f].at /\ fl'[f].job = fl[f].job
                          /\ fl'[f].aborted = fl[f].aborted /\ (~DiscardStops => fl'[f] = fl[f])
  BY <1>1, <1>3, StopAskedEach DEF DiscardStops
<1>7. Served'
  <2>1. CASE DiscardStops
    <3>1. serving # None /\ engine'.flusher = serving /\ serving' = None
      BY <1>3, <1>4, <2>1 DEF DiscardStops
    <3>2. engine.flusher = None /\ \A f \in Flushers : fl[f].at # "none" /\ ~fl[f].aborted => f = serving \/ f = engine.flusher
      BY <1>1, <1>2 DEF Served
    <3>3. None \notin Flushers
      BY SinkAssumption DEF SinkAssumption
    <3>4. \A f \in Flushers : fl'[f].at # "none" /\ ~fl'[f].aborted => f = engine'.flusher
      BY <1>6, <3>1, <3>2, <3>3
    <3>5. \A f \in Flushers : fl'[f].at = "none" => ~fl'[f].aborted
      BY <1>1, <1>6 DEF Served
    <3> QED
      BY <1>4, <3>1, <3>4, <3>5 DEF Served
  <2>2. CASE ~DiscardStops
    <3>1. engine'.flusher = None /\ serving' = serving /\ fl' = fl /\ engine.flusher = None
      BY <1>1, <1>2, <1>3, <1>4, <2>2 DEF Served
    <3>2. ConnStops(applied, engine.to) => serving = None
      BY <2>2 DEF DiscardStops
    <3>3. serving # None => Connected(applied)
      BY <1>1, <1>2 DEF Served, Applying
    <3> QED
      BY <1>1, <1>3, <1>4, <3>1, <3>2, <3>3 DEF Served
  <2> QED
    BY <2>1, <2>2
<1>8. Tabled'
  <2>1. group' # None => group' = group
    BY <1>3
  <2>2. \A f \in Flushers : (Busy(f)' <=> Busy(f)) /\ fl'[f].job = fl[f].job
    BY <1>6 DEF Busy
  <2> QED
    BY <1>1, <1>3, <1>4, <2>1, <2>2 DEF Tabled
<1> QED
  BY <1>1, <1>5, <1>7, <1>8 DEF OrderInv

(* Who is dismissed goes on with what it does until it ends.               *)
LEMMA DismissedEach ==
    ASSUME TypeInv, NEW f \in Flushers
    PROVE  LET x == Dismissed(engine.flusher)[f]
           IN  /\ x.at = fl[f].at /\ x.job = fl[f].job /\ x.batch = fl[f].batch /\ x.stop = fl[f].stop
               /\ f # engine.flusher \/ fl[f].at = "none" => x = fl[f]
               /\ f = engine.flusher /\ fl[f].at # "none" => x.aborted
               /\ Sends(x)
<1>1. engine.flusher \in Flushers \cup {None} /\ FlTyped /\ Sends(fl[f])
  BY TypeParts, JobTyped DEF EngineTyped, EngineStates
<1>2. Dismissed(engine.flusher)[f] = IF f = engine.flusher /\ fl[f].at # "none"
                                     THEN [fl[f] EXCEPT !.aborted = TRUE] ELSE fl[f]
  BY <1>1, DismissedOne
<1> DEFINE y == [fl[f] EXCEPT !.aborted = TRUE]
<1>3. Sends(y) /\ y.at = fl[f].at /\ y.job = fl[f].job /\ y.batch = fl[f].batch /\ y.aborted
  BY <1>1, Ordered
<1>4. y.stop = fl[f].stop
  BY <1>1 DEF Sends, FlusherStates
<1> QED
  BY <1>1, <1>2, <1>3, <1>4

LEMMA OrderStarting ==
    ASSUME OrderInv, NEW f \in Flushers, Starting(f)
    PROVE  OrderInv'
<1> DEFINE made_anew == Anew /\ Runnable /\ group = None
           fresh == Fresh(engine.last + 1, engine.last + 1, engine.to)
<1>1. TypeInv /\ TypeInv' /\ Plan /\ Served /\ Tabled
  BY TypeStarting DEF OrderInv
<1>2. /\ engine \in EngineStates /\ engine.last \in Nat /\ None \notin Groups /\ engine.to \in Configs
      /\ group \in Groups \cup {None} /\ engine.at \in {"stopping", "starting"} /\ Applying /\ ~Flushes
      /\ engine.flusher \in Flushers \cup {None} /\ serving \in Flushers \cup {None} /\ None \notin Flushers
  BY <1>1, TypeParts, SinkAssumption
  DEF EngineTyped, EngineStates, QueueTyped, TasksTyped, SinkAssumption, Starting, Applying, Flushes
<1>3. /\ group' = IF made_anew THEN fresh ELSE group
      /\ producer' = IF Anew /\ Runnable THEN [q |-> group'.q, table |-> engine.to.table] ELSE producer
      /\ broken' = IF Anew /\ ~Runnable THEN CountSoFar ELSE broken
      /\ applied' = engine.to /\ ending' = ending
      /\ engine' = [engine EXCEPT !.at = "run", !.flush = FALSE, !.flusher = None, !.carried = None,
                                  !.last = IF group' # None THEN group'.gen ELSE engine.last]
  BY DEF Starting
<1>4. /\ engine'.at = "run" /\ engine'.carried = None /\ engine'.flusher = None
      /\ engine'.last = IF group' # None THEN group'.gen ELSE engine.last
  BY <1>2, <1>3 DEF EngineStates
<1>5. fresh \in Groups /\ fresh.q = engine.last + 1 /\ fresh.gen = engine.last + 1 /\ fresh.table = engine.to.table
      /\ fresh # None
  BY <1>2, FreshTyped DEF Fresh
<1> HIDE DEF fresh
<1>6. Fits(engine.to) /\ (group # None => broken = None)
  BY <1>1, <1>2 DEF Plan
<1>7. group' # None => group'.table = engine.to.table /\ Runnable
  BY <1>3, <1>5, <1>6 DEF Fits, Runnable
<1>8. Plan'
  <2>1. group' # None => broken' = None
    <3>1. CASE Anew
      <4>1. broken = None
        BY <1>1, <1>2, <3>1 DEF Plan
      <4> QED
        BY <1>3, <1>7, <4>1
    <3>2. CASE ~Anew
      BY <1>3, <1>6, <3>2
    <3> QED
      BY <3>1, <3>2
  <2>2. Fits(applied)'
    BY <1>3, <1>7 DEF Fits, Runnable
  <2> QED
    BY <1>4, <2>1, <2>2 DEF Plan, Applying, Flushes
<1> DEFINE d == Dismissed(engine.flusher)
           y == [Gone EXCEPT !.at = "timed"]
<1>9. /\ serving' = IF NewFlusher THEN f ELSE serving
      /\ fl' = IF NewFlusher THEN [d EXCEPT ![f] = y] ELSE d
      /\ NewFlusher => fl[f] = Gone
  BY DEF Starting
<1>10. FlGood(d) /\ Sends(y) /\ y.at = "timed" /\ ~y.stop /\ ~y.aborted /\ Gone.at = "none"
  BY <1>1, <1>2, DismissedOne, NewFlusherSends, GoneRests, TypeParts
<1>11. \A g \in Flushers : fl'[g] = IF NewFlusher /\ g = f THEN y ELSE d[g]
  BY <1>9, <1>10, GoodOne
<1>12. \A g \in Flushers : /\ d[g].at = fl[g].at /\ d[g].job = fl[g].job /\ d[g].stop = fl[g].stop
                           /\ g # engine.flusher \/ fl[g].at = "none" => d[g] = fl[g]
                           /\ g = engine.flusher /\ fl[g].at # "none" => d[g].aborted
  BY <1>1, DismissedEach
<1> HIDE DEF d, y
<1>13. Served'
  <2>1. NewFlusher => serving = None
    <3> SUFFICES ASSUME NewFlusher, serving # None PROVE FALSE
      OBVIOUS
    <3>1. Connected(applied) /\ ~ConnStops(applied, engine.to)
      BY <1>1, <1>2 DEF Served
    <3> QED
      BY <3>1 DEF NewFlusher, ConnStarts, ConnStops
  <2>2. ASSUME serving' # None
        PROVE  fl'[serving'].at # "none" /\ ~fl'[serving'].stop /\ ~fl'[serving'].aborted
               /\ Connected(applied')
    <3>1. CASE NewFlusher
      BY <1>3, <1>9, <1>10, <1>11, <3>1 DEF NewFlusher, ConnStarts
    <3>2. CASE ~NewFlusher
      <4>1. serving' = serving /\ serving # None /\ serving \in Flushers
        BY <1>2, <1>9, <2>2, <3>2
      <4>2. engine.flusher = None /\ fl[serving].at # "none" /\ ~fl[serving].stop /\ ~fl[serving].aborted
            /\ Connected(applied) /\ ~ConnStops(applied, engine.to)
        BY <1>1, <1>2, <4>1 DEF Served
      <4>3. fl'[serving] = fl[serving]
        BY <1>2, <1>11, <1>12, <3>2, <4>1, <4>2
      <4>4. Connected(engine.to)
        BY <4>2 DEF ConnStops, Connected
      <4> QED
        BY <1>3, <4>1, <4>2, <4>3, <4>4
    <3> QED
      BY <3>1, <3>2
  <2>3. \A g \in Flushers : fl'[g].at = "none" => ~fl'[g].aborted
    <3>1. \A g \in Flushers : d[g].at = "none" => ~d[g].aborted
      BY <1>1, <1>12 DEF Served
    <3> QED
      BY <1>10, <1>11, <3>1
  <2>4. \A g \in Flushers : fl'[g].at # "none" /\ ~fl'[g].aborted => g = serving'
    <3> SUFFICES ASSUME NEW g \in Flushers, fl'[g].at # "none", ~fl'[g].aborted PROVE g = serving'
      OBVIOUS
    <3>1. CASE NewFlusher /\ g = f
      BY <1>9, <3>1
    <3>2. CASE ~(NewFlusher /\ g = f)
      <4>1. d[g].at # "none" /\ ~d[g].aborted
        BY <1>11, <3>2
      <4>2. g # engine.flusher /\ d[g] = fl[g]
        BY <1>12, <4>1
      <4>3. g = serving
        BY <1>1, <4>1, <4>2 DEF Served
      <4> QED
        BY <1>2, <1>9, <2>1, <4>3
    <3> QED
      BY <3>1, <3>2
  <2>5. Served' <=>
          /\ serving' # None => /\ engine'.flusher = None
                                /\ fl'[serving'].at # "none" /\ ~fl'[serving'].stop /\ ~fl'[serving'].aborted
          /\ \A g \in Flushers : fl'[g].at = "none" => ~fl'[g].aborted
          /\ \A g \in Flushers : fl'[g].at # "none" /\ ~fl'[g].aborted => g = serving' \/ g = engine'.flusher
          /\ engine'.at \in {"run", "flushing", "draining"} => engine'.flusher = None
          /\ engine'.at = "run" \/ Applying' => (serving' # None => Connected(applied'))
          /\ engine'.at \in {"stopping", "starting"} /\ ConnStops(applied', engine'.to) => serving' = None
    BY DEF Served, Connected, ConnStops
  <2> QED
    BY <1>4, <2>2, <2>3, <2>4, <2>5
<1>14. Tabled'
  <2>1. /\ producer # None => producer.q \in Nat
        /\ \A p \in ending : p.q \in Nat
        /\ \A g \in Flushers : Busy(g) => fl[g].job.q \in Nat
        /\ group # None => group.q \in Nat
    BY <1>1, TypeParts, JobTyped DEF TasksTyped, Producers, Busy, Jobs, QueueTyped, Groups
  <2>2. \A g \in Flushers : Busy(g)' => Busy(g) /\ fl'[g].job = fl[g].job
    BY <1>10, <1>11, <1>12 DEF Busy
  <2>3. group' # None => /\ group'.q <= engine'.last /\ group'.gen = engine'.last
                         /\ group'.table = engine.to.table
                         /\ \/ group'.q = engine.last + 1 /\ made_anew
                            \/ group' = group
    BY <1>1, <1>2, <1>3, <1>4, <1>5, <1>7, <2>1 DEF Tabled
  <2>4. engine.last <= engine'.last /\ engine'.last \in Nat
    <3>1. CASE made_anew
      BY <1>2, <1>3, <1>4, <1>5, <3>1
    <3>2. CASE ~made_anew
      BY <1>1, <1>2, <1>3, <1>4, <3>2 DEF Tabled
    <3> QED
      BY <3>1, <3>2
  <2>5. \A n \in Nat : n <= engine.last => n <= engine'.last /\ n # engine.last + 1
    BY <1>2, <2>4
  <2>6. /\ \A p \in ending : p.q <= engine'.last
        /\ \A g \in Flushers : Busy(g)' => fl'[g].job.q <= engine'.last
    BY <1>1, <2>1, <2>2, <2>5 DEF Tabled
  <2>7. producer' # None => producer'.q <= engine'.last
    <3>1. CASE Anew /\ Runnable
      <4>1. group' # None /\ producer' = [q |-> group'.q, table |-> engine.to.table]
        BY <1>3, <1>5, <3>1
      <4> QED
        BY <2>3, <4>1
    <3>2. CASE ~(Anew /\ Runnable)
      BY <1>1, <1>3, <2>1, <2>5, <3>2 DEF Tabled
    <3> QED
      BY <3>1, <3>2
  <2>8. ASSUME group' # None
        PROVE  /\ producer' # None /\ producer'.q = group'.q => producer'.table = group'.table
               /\ \A p \in ending : p.q = group'.q => p.table = group'.table
               /\ \A g \in Flushers : Busy(g)' /\ fl'[g].job.q = group'.q => fl'[g].job.table = group'.table
    <3>1. CASE group'.q = engine.last + 1 /\ made_anew
      <4>1. producer' = [q |-> group'.q, table |-> engine.to.table]
        BY <1>3, <3>1
      <4>2. \A p \in ending : p.q # group'.q
        BY <1>1, <2>1, <2>5, <3>1 DEF Tabled
      <4>3. \A g \in Flushers : Busy(g) => fl[g].job.q # group'.q
        BY <1>1, <2>1, <2>5, <3>1 DEF Tabled
      <4> QED
        BY <2>2, <2>3, <2>8, <4>1, <4>2, <4>3
    <3>2. CASE group' = group
      <4>1. producer' = producer \/ producer' = [q |-> group'.q, table |-> engine.to.table]
        BY <1>3
      <4>2. producer' # None /\ producer'.q = group'.q => producer'.table = group'.table
        BY <1>1, <2>3, <2>8, <3>2, <4>1 DEF Tabled
      <4> QED
        BY <1>1, <2>2, <2>8, <3>2, <4>2 DEF Tabled
    <3> QED
      BY <2>3, <2>8, <3>1, <3>2
  <2> QED
    BY <1>3, <2>3, <2>6, <2>7, <2>8 DEF Tabled
<1> QED
  BY <1>1, <1>8, <1>13, <1>14 DEF OrderInv

(* The engine's part in the stop.                                          *)
LEMMA OrderShutdownBegins ==
    ASSUME OrderInv, ShutdownBegins
    PROVE  OrderInv'
<1>1. TypeInv /\ TypeInv' /\ Plan /\ Served /\ Tabled
  BY TypeShutdownBegins DEF OrderInv
<1>2. engine \in EngineStates /\ serving \in Flushers \cup {None} /\ None \notin Flushers
      /\ engine.flusher \in Flushers \cup {None}
  BY <1>1, TypeParts, SinkAssumption DEF EngineTyped, EngineStates, TasksTyped, SinkAssumption
<1>3. /\ ending' = IF producer = None THEN ending ELSE ending \cup {producer}
      /\ producer' = None /\ group' = group /\ broken' = broken /\ serving' = serving /\ applied' = applied
      /\ engine' = [engine EXCEPT !.at = "draining", !.to = applied, !.flush = FALSE, !.waiting = FALSE,
                                  !.carried = None, !.flusher = None]
  BY DEF ShutdownBegins, settings, queue
<1>4. engine'.at = "draining" /\ engine'.carried = None /\ engine'.flusher = None /\ engine'.last = engine.last
  BY <1>2, <1>3 DEF EngineStates
<1>5. Plan'
  BY <1>1, <1>3, <1>4 DEF Plan, Applying, Flushes
<1> DEFINE d == Dismissed(engine.flusher)
<1>6. \A g \in Flushers : /\ d[g].at = fl[g].at /\ d[g].job = fl[g].job /\ d[g].stop = fl[g].stop
                          /\ g # engine.flusher \/ fl[g].at = "none" => d[g] = fl[g]
                          /\ g = engine.flusher /\ fl[g].at # "none" => d[g].aborted
                          /\ Sends(d[g])
  BY <1>1, DismissedEach
<1>7. FlGood(d)
  BY <1>1, <1>2, DismissedOne, TypeParts
<1>8. fl' = IF serving = None THEN d ELSE [d EXCEPT ![serving].drain = TRUE]
  BY DEF ShutdownBegins
<1> HIDE DEF d
<1>9. \A g \in Flushers : /\ fl'[g].at = d[g].at /\ fl'[g].job = d[g].job
                          /\ fl'[g].stop = d[g].stop /\ fl'[g].aborted = d[g].aborted
  <2>1. CASE serving = None
    BY <1>8, <2>1
  <2>2. CASE serving # None
    <3> DEFINE y == [d[serving] EXCEPT !.drain = TRUE]
    <3>1. serving \in Flushers
      BY <1>2, <2>2
    <3>2. Sends(y) /\ y.at = d[serving].at /\ y.job = d[serving].job /\ y.aborted = d[serving].aborted
          /\ y.stop = d[serving].stop
      BY <1>6, <3>1, Ordered
    <3>3. fl' = [d EXCEPT ![serving] = y]
      BY <1>7, <1>8, <2>2, <3>1 DEF FlGood
    <3> HIDE DEF y
    <3>4. \A g \in Flushers : fl'[g] = IF g = serving THEN y ELSE d[g]
      BY <1>7, <3>1, <3>2, <3>3, GoodOne
    <3> QED
      BY <3>2, <3>4
  <2> QED
    BY <2>1, <2>2
<1>10. Served'
  <2>1. serving # None => fl'[serving].at # "none" /\ ~fl'[serving].stop /\ ~fl'[serving].aborted
    <3> SUFFICES ASSUME serving # None
                 PROVE  fl'[serving].at # "none" /\ ~fl'[serving].stop /\ ~fl'[serving].aborted
      OBVIOUS
    <3>1. serving \in Flushers /\ engine.flusher = None
          /\ fl[serving].at # "none" /\ ~fl[serving].stop /\ ~fl[serving].aborted
      BY <1>1, <1>2 DEF Served
    <3>2. d[serving] = fl[serving]
      BY <1>2, <1>6, <3>1
    <3> QED
      BY <1>9, <3>1, <3>2
  <2>2. \A g \in Flushers : fl'[g].at = "none" => ~fl'[g].aborted
    BY <1>1, <1>6, <1>9 DEF Served
  <2>3. \A g \in Flushers : fl'[g].at # "none" /\ ~fl'[g].aborted => g = serving
    <3> SUFFICES ASSUME NEW g \in Flushers, fl'[g].at # "none", ~fl'[g].aborted PROVE g = serving
      OBVIOUS
    <3>1. d[g].at # "none" /\ ~d[g].aborted
      BY <1>9
    <3>2. g # engine.flusher /\ d[g] = fl[g]
      BY <1>6, <3>1
    <3> QED
      BY <1>1, <3>1, <3>2 DEF Served
  <2> QED
    BY <1>3, <1>4, <2>1, <2>2, <2>3 DEF Served, Applying
<1>11. Tabled'
  <2>1. \A g \in Flushers : (Busy(g)' <=> Busy(g)) /\ fl'[g].job = fl[g].job
    BY <1>6, <1>9 DEF Busy
  <2>2. \A p \in ending' : p \in ending \/ (producer # None /\ p = producer)
    BY <1>3
  <2> QED
    BY <1>1, <1>3, <1>4, <2>1, <2>2 DEF Tabled
<1> QED
  BY <1>1, <1>5, <1>10, <1>11 DEF OrderInv

LEMMA OrderDrainEnds ==
    ASSUME OrderInv, DrainEnds
    PROVE  OrderInv'
<1>1. TypeInv /\ TypeInv' /\ Plan /\ Served /\ Tabled
  BY TypeDrainEnds DEF OrderInv
<1>2. engine \in EngineStates /\ engine.at = "draining" /\ serving \in Flushers \cup {None} /\ None \notin Flushers
      /\ engine.flusher = None
  BY <1>1, TypeParts, SinkAssumption DEF EngineTyped, TasksTyped, DrainEnds, Served, SinkAssumption
<1>3. /\ engine' = [engine EXCEPT !.at = "closing", !.flusher = serving] /\ serving' = None
      /\ fl' = IF serving = None THEN fl ELSE [fl EXCEPT ![serving].stop = TRUE]
      /\ UNCHANGED <<applied, group, broken, producer, ending>>
  BY DEF DrainEnds, settings, queue
<1>4. /\ engine'.at = "closing" /\ engine'.flusher = serving /\ engine'.last = engine.last
      /\ engine'.carried = engine.carried
  BY <1>2, <1>3 DEF EngineStates
<1>5. Plan'
  BY <1>1, <1>3, <1>4 DEF Plan, Applying, Flushes
<1>6. \A g \in Flushers : /\ fl'[g].at = fl[g].at /\ fl'[g].job = fl[g].job /\ fl'[g].aborted = fl[g].aborted
  BY <1>1, <1>3, StopAskedEach
<1>7. Served'
  <2>1. \A g \in Flushers : fl'[g].at # "none" /\ ~fl'[g].aborted => g = engine'.flusher
    BY <1>1, <1>2, <1>4, <1>6 DEF Served
  <2>2. \A g \in Flushers : fl'[g].at = "none" => ~fl'[g].aborted
    BY <1>1, <1>6 DEF Served
  <2> QED
    BY <1>3, <1>4, <2>1, <2>2 DEF Served, Applying
<1>8. Tabled'
  <2>1. \A g \in Flushers : (Busy(g)' <=> Busy(g)) /\ fl'[g].job = fl[g].job
    BY <1>6 DEF Busy
  <2> QED
    BY <1>1, <1>3, <1>4, <2>1 DEF Tabled
<1> QED
  BY <1>1, <1>5, <1>7, <1>8 DEF OrderInv

LEMMA OrderReport ==
    ASSUME OrderInv, Report
    PROVE  OrderInv'
<1>1. TypeInv /\ TypeInv' /\ Plan /\ Served /\ Tabled
  BY TypeReport DEF OrderInv
<1>2. engine \in EngineStates /\ engine.at = "closing" /\ serving \in Flushers \cup {None} /\ None \notin Flushers
  BY <1>1, TypeParts, SinkAssumption DEF EngineTyped, TasksTyped, Report, SinkAssumption
<1>3. /\ engine' = [engine EXCEPT !.at = "done", !.flusher = None]
      /\ fl' = Dismissed(engine.flusher)
      /\ UNCHANGED <<applied, group, broken, producer, ending, serving>>
  BY DEF Report, settings
<1>4. /\ engine'.at = "done" /\ engine'.flusher = None /\ engine'.last = engine.last
      /\ engine'.carried = engine.carried
  BY <1>2, <1>3 DEF EngineStates
<1>5. Plan'
  BY <1>1, <1>3, <1>4 DEF Plan, Applying, Flushes
<1>6. \A g \in Flushers : /\ fl'[g].at = fl[g].at /\ fl'[g].job = fl[g].job /\ fl'[g].stop = fl[g].stop
                          /\ g # engine.flusher \/ fl[g].at = "none" => fl'[g] = fl[g]
                          /\ g = engine.flusher /\ fl[g].at # "none" => fl'[g].aborted
  BY <1>1, <1>3, DismissedEach
<1>7. Served'
  <2>1. \A g \in Flushers : fl'[g].at # "none" /\ ~fl'[g].aborted => g = serving
    BY <1>1, <1>6 DEF Served
  <2>2. \A g \in Flushers : fl'[g].at = "none" => ~fl'[g].aborted
    BY <1>1, <1>6 DEF Served
  <2>3. serving # None => fl'[serving].at # "none" /\ ~fl'[serving].stop /\ ~fl'[serving].aborted
    <3> SUFFICES ASSUME serving # None
                 PROVE  fl'[serving].at # "none" /\ ~fl'[serving].stop /\ ~fl'[serving].aborted
      OBVIOUS
    <3>1. serving \in Flushers /\ engine.flusher = None
          /\ fl[serving].at # "none" /\ ~fl[serving].stop /\ ~fl[serving].aborted
      BY <1>1, <1>2 DEF Served
    <3> QED
      BY <1>2, <1>6, <3>1
  <2> QED
    BY <1>3, <1>4, <2>1, <2>2, <2>3 DEF Served, Applying
<1>8. Tabled'
  <2>1. \A g \in Flushers : (Busy(g)' <=> Busy(g)) /\ fl'[g].job = fl[g].job
    BY <1>6 DEF Busy
  <2> QED
    BY <1>1, <1>3, <1>4, <2>1 DEF Tabled
<1> QED
  BY <1>1, <1>5, <1>7, <1>8 DEF OrderInv

LEMMA OrderStart ==
    ASSUME Init
    PROVE  OrderInv
<1> DEFINE f0 == CHOOSE g \in Flushers : TRUE
<1>1. f0 \in Flushers /\ None \notin Flushers /\ Initial.spec # None /\ Initial.conn # None /\ None \notin Groups
  BY SinkAssumption DEF SinkAssumption
<1>2. TypeInv
  BY TypeStart
<1>3. /\ applied = Initial /\ engine.at = "run" /\ engine.carried = None /\ engine.flusher = None /\ engine.last = 1
      /\ group.gen = 1 /\ group.q = 1 /\ group.table = Initial.table /\ broken = None
      /\ producer.q = 1 /\ producer.table = Initial.table /\ ending = {} /\ serving = f0
      /\ \A g \in Flushers : fl[g] = IF g = f0 THEN [Gone EXCEPT !.at = "timed"] ELSE Gone
  BY DEF Init
<1> HIDE DEF f0
<1>4. Plan
  BY <1>1, <1>3 DEF Plan, Fits, Connected, Applying, Flushes
<1>5. Served
  BY <1>1, <1>3, NewFlusherSends, GoneRests DEF Served, Applying, Connected
<1>6. Tabled
  <2>1. \A g \in Flushers : ~Busy(g)
    BY <1>3, NewFlusherSends, GoneRests DEF Busy
  <2> QED
    BY <1>3, <2>1 DEF Tabled
<1> QED
  BY <1>2, <1>4, <1>5, <1>6 DEF OrderInv

LEMMA OrderStep ==
    ASSUME OrderInv, [Next]_vars
    PROVE  OrderInv'
<1>1. CASE Sample \/ LastSample
  BY <1>1, OrderSample
<1>2. CASE \E f \in Flushers : FlusherWorks(f) \/ Fails(f)
  BY <1>2, OrderFlusher
<1>3. CASE EngineWorks
  BY <1>3, OrderApplyDiscards, StartsOne, OrderStarting, OrderDrainEnds, OrderReport DEF EngineWorks
<1>4. CASE ShutdownBegins
  BY <1>4, OrderShutdownBegins
<1>5. CASE \E w \in Settings : ApplyBegins(w)
  BY <1>5, OrderApplyBegins
<1>6. CASE UNCHANGED vars
  <2>1. TypeInv' /\ Plan /\ Served /\ Tabled
    BY <1>6, TypeStutter DEF OrderInv
  <2>2. UNCHANGED <<applied, engine, group, broken, producer, ending, serving, fl>>
    BY <1>6 DEF vars, settings, queue, tasks
  <2>3. Plan'
    BY <2>1, <2>2 DEF Plan, Fits, Applying, Flushes, Anew
  <2>4. Served'
    BY <2>1, <2>2 DEF Served, Applying
  <2>5. Tabled'
    BY <2>1, <2>2 DEF Tabled, Busy
  <2> QED
    BY <2>1, <2>3, <2>4, <2>5 DEF OrderInv
<1> QED
  BY <1>1, <1>2, <1>3, <1>4, <1>5, <1>6 DEF Next

-----------------------------------------------------------------------------
(***************************************************************************)
(* Where the rows are.                                                     *)
(***************************************************************************)

Numbers == DOMAIN made

(* The queue holds rows of the group's table, in their order, and none     *)
(* that was counted as dropped.                                            *)
InPlace ==
    /\ Rising(rows) /\ Contents(rows) \subseteq Numbers /\ Contents(rows) \cap gone = {}
    /\ gone \subseteq Numbers /\ stored \subseteq Numbers \X Tables
    /\ group # None => \A r \in Contents(rows) : made[r] = group.table
    /\ RowsInTheirTable

Ours(f) == group # None /\ fl[f].job.q = group.q

(* What an INSERT under way has taken is what an acknowledgement will      *)
(* remove: of the queue's rows, all up to its last one.                    *)
SendsOwn(f) ==
    /\ Rising(fl[f].batch) /\ Contents(fl[f].batch) \subseteq Numbers
    /\ \A r \in Contents(fl[f].batch) : made[r] = fl[f].job.table
    /\ Ours(f) => \A r \in Contents(rows) : r <= Last(fl[f].batch) => r \in Contents(fl[f].batch)
    /\ ~Ours(f) => Contents(rows) \cap Contents(fl[f].batch) = {}
Sent == \A f \in Flushers : fl[f].at = "insert" => SendsOwn(f)

(* While no INSERT has ended without an answer, nothing is stored that is  *)
(* still queued or being sent, and nobody who sends is aborted.            *)
Once ==
    ~unsure => /\ twice = {}
               /\ Contents(rows) \cap StoredRows = {}
               /\ \A f \in Flushers : fl[f].at = "insert" =>
                    ~fl[f].aborted /\ Contents(fl[f].batch) \cap StoredRows = {}

Accounted == Cardinality(gone) = Counted + cut

RowInv == OrderInv /\ InPlace /\ Sent /\ Once /\ Lost = {} /\ Accounted

(* The types the rows' part uses.                                          *)
LEMMA RowTypes ==
    ASSUME TypeInv
    PROVE  /\ rows \in Seq(Nat) /\ Len(rows) <= MaxRows /\ Contents(rows) \subseteq Nat
           /\ made \in Seq(Tables) /\ Numbers = 1..Len(made) /\ Len(made) \in Nat /\ Len(made) + 1 \notin Numbers
           /\ Numbers \subseteq Nat
           /\ gone \subseteq Nat /\ stored \subseteq Nat \X Tables /\ dropped \in Nat /\ cut \in Nat
           /\ group # None => group \in Groups
           /\ group = None => rows = <<>> /\ Contents(rows) = {}
           /\ \A f \in Flushers : /\ Sends(fl[f]) /\ fl[f].batch \in Seq(Nat) /\ Contents(fl[f].batch) \subseteq Nat
                                  /\ fl[f].at = "insert" => /\ fl[f].job \in Jobs /\ fl[f].batch # <<>>
                                                            /\ Last(fl[f].batch) \in Contents(fl[f].batch)
           /\ Counted \in Nat
<1>1. rows \in Seq(Nat) /\ Len(rows) <= MaxRows /\ dropped \in Nat /\ (group = None => rows = <<>>)
      /\ (group # None => group \in Groups) /\ broken \in Nat \cup {None}
  BY TypeParts DEF QueueTyped
<1>2. Contents(rows) \subseteq Nat /\ Contents(<<>>) = {}
  BY <1>1, Held
<1>3. made \in Seq(Tables) /\ gone \subseteq Nat /\ stored \subseteq Nat \X Tables /\ cut \in Nat
  BY TypeParts DEF HistoryTyped
<1>4. Numbers = 1..Len(made) /\ Len(made) \in Nat
  BY <1>3 DEF Numbers
<1>5. Len(made) + 1 \notin Numbers /\ Numbers \subseteq Nat
  BY <1>4
<1>6. ASSUME NEW f \in Flushers
      PROVE  /\ Sends(fl[f]) /\ fl[f].batch \in Seq(Nat) /\ Contents(fl[f].batch) \subseteq Nat
             /\ fl[f].at = "insert" => /\ fl[f].job \in Jobs /\ fl[f].batch # <<>>
                                       /\ Last(fl[f].batch) \in Contents(fl[f].batch)
  <2>1. /\ Sends(fl[f]) /\ fl[f].batch \in Seq(Nat)
        /\ fl[f].at = "insert" => fl[f].job \in Jobs /\ fl[f].batch # <<>>
    BY JobTyped DEF Sends
  <2> QED
    BY <2>1, Held
<1>7. Counted \in Nat
  <2>1. engine.carried \in Nat \cup {None}
    BY TypeParts DEF EngineTyped, EngineStates
  <2> QED
    BY <1>1, <2>1 DEF Counted
<1> QED
  BY <1>1, <1>2, <1>3, <1>4, <1>5, <1>6, <1>7

LEMMA StoredOnes ==
    ASSUME NEW P, NEW s, s \subseteq P \X Tables
    PROVE  /\ \A x \in s : x[1] \in P /\ x[2] \in Tables
           /\ {x[1] : x \in s} \subseteq P
OBVIOUS

(* A row is sampled.                                                       *)
LEMMA RowsPush ==
    ASSUME RowInv, OrderInv', NEW p \in Producers, Push(p),
           group # None /\ p.q = group.q => p.table = group.table
    PROVE  RowInv'
<1> DEFINE row == Len(made) + 1
           ours == group # None /\ group.q = p.q
<1>1. TypeInv /\ TypeInv' /\ InPlace /\ Sent /\ Once /\ Lost = {} /\ Accounted
  BY DEF RowInv, OrderInv
<1>2. /\ made' = Append(made, p.table)
      /\ ours => /\ rows' = Pushed(row)
                 /\ dropped' = IF Full THEN dropped + 1 ELSE dropped
                 /\ gone' = IF Full THEN gone \cup {Head(rows)} ELSE gone
                 /\ strays' = strays
      /\ ~ours => strays' = strays \cup {row} /\ rows' = rows /\ dropped' = dropped /\ gone' = gone
      /\ UNCHANGED <<engine, group, broken, fl, stored, twice, unsure, cut>>
  BY DEF Push
<1>3. /\ Numbers' = Numbers \cup {row} /\ row \notin Numbers /\ row \in Nat
      /\ \A r \in Numbers : made'[r] = made[r] /\ r < row
      /\ made'[row] = p.table
  <2>1. p.table \in Tables
    BY DEF Producers
  <2>2. /\ DOMAIN made' = 1..Len(made) + 1 /\ DOMAIN made = 1..Len(made) /\ Len(made) \in Nat
        /\ \A i \in 1..Len(made) : made'[i] = made[i]
        /\ made'[Len(made) + 1] = p.table
    BY <1>1, <1>2, <2>1, MadeOne, TypeParts
  <2> QED
    BY <2>2 DEF Numbers
<1> HIDE DEF row
<1>4. Contents(rows) \subseteq Numbers /\ gone \subseteq Numbers /\ stored \subseteq Numbers \X Tables
      /\ StoredRows \subseteq Numbers /\ Contents(rows) \cap gone = {}
  BY <1>1, StoredOnes DEF InPlace, StoredRows
<1>5. /\ Rising(rows')
      /\ Full => rows # <<>> /\ Head(rows) \in Contents(rows)
      /\ ours => Contents(rows') = {row} \cup (IF Full THEN Contents(rows) \ {Head(rows)} ELSE Contents(rows))
      /\ ~ours => Contents(rows') = Contents(rows)
  <2>1. rows \in Seq(Nat) /\ Len(rows) <= MaxRows /\ Rising(rows) /\ \A r \in Contents(rows) : r < row
    BY <1>1, <1>3, <1>4, RowTypes DEF InPlace
  <2>2. /\ Rising(Pushed(row))
        /\ Full => rows # <<>> /\ Head(rows) \in Contents(rows)
        /\ Contents(Pushed(row)) = {row} \cup (IF Full THEN Contents(rows) \ {Head(rows)} ELSE Contents(rows))
    BY <1>3, <2>1, PushedOne, SinkAssumption
  <2> QED
    BY <1>2, <2>1, <2>2
<1>6. Contents(rows') \subseteq {row} \cup Contents(rows)
  BY <1>5
<1>7. InPlace'
  <2>1. Contents(rows') \subseteq Numbers' /\ gone' \subseteq Numbers' /\ stored' \subseteq Numbers' \X Tables
    <3>1. gone' \subseteq Numbers
      BY <1>2, <1>4, <1>5
    <3>2. Contents(rows') \subseteq Numbers \cup {row}
      BY <1>4, <1>6
    <3> QED
      BY <1>2, <1>3, <1>4, <3>1, <3>2
  <2>2. Contents(rows') \cap gone' = {}
    <3>1. CASE ours
      BY <1>2, <1>3, <1>4, <1>5, <3>1
    <3>2. CASE ~ours
      BY <1>2, <1>4, <1>5, <3>2
    <3> QED
      BY <3>1, <3>2
  <2>3. ASSUME group' # None PROVE \A r \in Contents(rows') : made'[r] = group'.table
    <3>1. \A r \in Contents(rows) : made'[r] = group.table
      BY <1>1, <1>2, <1>3, <1>4, <2>3 DEF InPlace
    <3>2. CASE ours
      BY <1>2, <1>3, <1>6, <3>1, <3>2
    <3>3. CASE ~ours
      BY <1>2, <1>5, <3>1, <3>3
    <3> QED
      BY <3>2, <3>3
  <2>4. RowsInTheirTable'
    <3>1. \A x \in stored : x[1] \in Numbers /\ x[2] = made[x[1]]
      BY <1>1, <1>4, StoredOnes DEF InPlace, RowsInTheirTable
    <3> QED
      BY <1>2, <1>3, <3>1 DEF RowsInTheirTable
  <2> QED
    BY <1>5, <2>1, <2>2, <2>3, <2>4 DEF InPlace
<1>8. Sent'
  <2> SUFFICES ASSUME NEW f \in Flushers, fl[f].at = "insert" PROVE SendsOwn(f)'
    BY <1>2 DEF Sent
  <2>1. SendsOwn(f) /\ Last(fl[f].batch) \in Contents(fl[f].batch) /\ Contents(fl[f].batch) \subseteq Numbers
    BY <1>1, RowTypes DEF Sent, SendsOwn
  <2>2. Ours(f)' <=> Ours(f)
    BY <1>2 DEF Ours
  <2>3. \A r \in Contents(fl[f].batch) : made'[r] = made[r] /\ r # row
    BY <1>3, <2>1
  <2>4. ~(row <= Last(fl[f].batch))
    <3>1. Last(fl[f].batch) < row /\ Last(fl[f].batch) \in Nat
      BY <1>1, <1>3, <2>1, RowTypes
    <3> QED
      BY <1>3, <3>1
  <2>5. Contents(fl[f].batch) \subseteq Numbers'
    BY <1>3, <2>1
  <2>6. Ours(f) => \A r \in Contents(rows') : r <= Last(fl[f].batch) => r \in Contents(fl[f].batch)
    BY <1>6, <2>1, <2>4 DEF SendsOwn
  <2>7. ~Ours(f) => Contents(rows') \cap Contents(fl[f].batch) = {}
    BY <1>6, <2>1, <2>3 DEF SendsOwn
  <2> QED
    BY <1>2, <2>1, <2>2, <2>3, <2>5, <2>6, <2>7 DEF SendsOwn
<1>9. Once'
  BY <1>1, <1>2, <1>3, <1>4, <1>6 DEF Once, StoredRows
<1>10. Lost' = {}
  <2>1. Numbers \subseteq StoredRows \cup Contents(rows) \cup gone \cup strays
    BY <1>1 DEF Lost, Numbers
  <2>2. StoredRows' = StoredRows
    BY <1>2 DEF StoredRows
  <2>3. CASE ours
    <3>1. Contents(rows) \subseteq Contents(rows') \cup gone' /\ gone \subseteq gone' /\ strays' = strays
          /\ row \in Contents(rows')
      BY <1>2, <1>5, <2>3
    <3> QED
      BY <1>3, <2>1, <2>2, <3>1 DEF Lost, Numbers
  <2>4. CASE ~ours
    <3>1. Contents(rows') = Contents(rows) /\ gone' = gone /\ strays \subseteq strays' /\ row \in strays'
      BY <1>2, <1>5, <2>4
    <3> QED
      BY <1>3, <2>1, <2>2, <3>1 DEF Lost, Numbers
  <2> QED
    BY <2>3, <2>4
<1>11. Accounted'
  <2>1. IsFiniteSet(gone) /\ dropped \in Nat /\ cut \in Nat
    <3>1. Numbers = 1..Len(made) /\ Len(made) \in Nat /\ dropped \in Nat /\ cut \in Nat
      BY <1>1, RowTypes
    <3>2. IsFiniteSet(Numbers)
      BY <3>1, FS_Interval
    <3> QED
      BY <1>4, <3>1, <3>2, FS_Subset
  <2>2. CASE ours /\ Full
    <3>1. Head(rows) \notin gone
      BY <1>4, <1>5, <2>2
    <3>2. Cardinality(gone \cup {Head(rows)}) = Cardinality(gone) + 1
      BY <2>1, <3>1, FS_AddElement
    <3>3. Counted = dropped /\ Counted' = dropped + 1 /\ cut' = cut /\ gone' = gone \cup {Head(rows)}
      BY <1>2, <2>2 DEF Counted
    <3> QED
      BY <1>1, <2>1, <3>2, <3>3 DEF Accounted
  <2>3. CASE ~(ours /\ Full)
    <3>1. gone' = gone /\ dropped' = dropped
      BY <1>2, <2>3
    <3> QED
      BY <1>1, <1>2, <3>1 DEF Accounted, Counted
  <2> QED
    BY <2>2, <2>3
<1> QED
  BY <1>7, <1>8, <1>9, <1>10, <1>11 DEF RowInv

(* A flusher's step that stores nothing: it may take the first rows of the *)
(* registered group's queue.                                               *)
LEMMA RowsQuiet ==
    ASSUME RowInv, OrderInv', NEW f \in Flushers, NEW y, Did(f, y),
           UNCHANGED <<rows, stored, twice, unsure>>,
           y.at = "insert" => /\ rows # <<>> /\ y.batch = Peeked(rows) /\ ~y.aborted
                              /\ group # None /\ y.job.q = group.q /\ y.job.table = group.table
    PROVE  RowInv'
<1>1. TypeInv /\ TypeInv' /\ InPlace /\ Sent /\ Once /\ Lost = {} /\ Accounted
  BY DEF RowInv, OrderInv
<1>2. /\ fl'[f] = y /\ (\A g \in Flushers : g # f => fl'[g] = fl[g]) /\ SameGroup
      /\ UNCHANGED <<engine, dropped, broken, made, strays, gone, cut>>
  BY DEF Did, Apart
<1>3. \A g \in Flushers : g # f => (SendsOwn(g)' <=> SendsOwn(g))
  <2> SUFFICES ASSUME NEW g \in Flushers, g # f PROVE SendsOwn(g)' <=> SendsOwn(g)
    OBVIOUS
  <2>1. fl'[g] = fl[g] /\ rows' = rows /\ made' = made
    BY <1>2
  <2>2. Ours(g)' <=> Ours(g)
    BY <1>2, <2>1 DEF Ours, SameGroup
  <2> QED
    BY <2>1, <2>2 DEF SendsOwn, Numbers
<1>4. y.at = "insert" => /\ Rising(y.batch) /\ Contents(y.batch) \subseteq Contents(rows)
                         /\ \A r \in Contents(rows) : r <= Last(y.batch) => r \in Contents(y.batch)
  BY <1>1, RowTypes, PeekedSome, SinkAssumption DEF InPlace
<1>5. InPlace'
  BY <1>1, <1>2 DEF InPlace, Numbers, RowsInTheirTable, SameGroup
<1>6. Sent'
  <2>1. ASSUME fl'[f].at = "insert" PROVE SendsOwn(f)'
    <3>1. y.at = "insert"
      BY <1>2, <2>1
    <3>2. Ours(f)'
      BY <1>2, <3>1 DEF Ours, SameGroup
    <3>3. Contents(y.batch) \subseteq Numbers /\ \A r \in Contents(y.batch) : made[r] = group.table
      BY <1>1, <1>4, <3>1 DEF InPlace
    <3> QED
      BY <1>2, <1>4, <3>1, <3>2, <3>3 DEF SendsOwn, Numbers
  <2>2. ASSUME NEW g \in Flushers, g # f, fl'[g].at = "insert" PROVE SendsOwn(g)'
    BY <1>1, <1>2, <1>3, <2>2 DEF Sent
  <2> QED
    BY <2>1, <2>2 DEF Sent
<1>7. Once'
  <2> SUFFICES ASSUME ~unsure
               PROVE  /\ twice' = {} /\ Contents(rows') \cap StoredRows' = {}
                      /\ \A g \in Flushers : fl'[g].at = "insert" =>
                           ~fl'[g].aborted /\ Contents(fl'[g].batch) \cap StoredRows' = {}
    BY DEF Once
  <2>1. twice = {} /\ Contents(rows) \cap StoredRows = {} /\ StoredRows' = StoredRows
    BY <1>1 DEF Once, StoredRows
  <2>2. fl'[f].at = "insert" => ~fl'[f].aborted /\ Contents(fl'[f].batch) \cap StoredRows = {}
    BY <1>2, <1>4, <2>1
  <2>3. \A g \in Flushers : g # f /\ fl'[g].at = "insert" =>
           ~fl'[g].aborted /\ Contents(fl'[g].batch) \cap StoredRows = {}
    BY <1>1, <1>2 DEF Once
  <2> QED
    BY <2>1, <2>2, <2>3
<1>8. Lost' = {} /\ Accounted'
  BY <1>1, <1>2 DEF Lost, StoredRows, Accounted, Counted, SameGroup
<1> QED
  BY <1>5, <1>6, <1>7, <1>8 DEF RowInv

(* An INSERT that is committed stores what was sampled, in its table.      *)
LEMMA Stores ==
    ASSUME RowInv, NEW f \in Flushers, fl[f].at = "insert", Written(f)
    PROVE  /\ stored' \subseteq Numbers \X Tables
           /\ StoredRows' = StoredRows \cup Contents(fl[f].batch)
           /\ \A x \in stored' : x[2] = made[x[1]]
           /\ ~unsure => twice' = {}
<1>1. TypeInv /\ InPlace /\ SendsOwn(f) /\ Once
  BY DEF RowInv, OrderInv, Sent
<1> DEFINE sent == Contents(fl[f].batch)
           into == fl[f].job.table
<1>2. into \in Tables /\ sent \subseteq Numbers /\ \A r \in sent : made[r] = into
  BY <1>1, RowTypes DEF SendsOwn, Jobs
<1>3. stored' = stored \cup {<<row, into>> : row \in sent}
      /\ twice' = twice \cup {row \in sent : \E u \in Tables : <<row, u>> \in stored}
  BY DEF Written
<1> HIDE DEF sent, into
<1>4. stored' \subseteq Numbers \X Tables
  BY <1>1, <1>2, <1>3 DEF InPlace
<1>5. {x[1] : x \in stored'} = {x[1] : x \in stored} \cup sent
  <2>1. \A r \in sent : <<r, into>> \in stored' /\ <<r, into>>[1] = r
    BY <1>3
  <2>2. \A x \in stored' : x \in stored \/ x[1] \in sent
    BY <1>3
  <2>3. \A x \in stored : x \in stored'
    BY <1>3
  <2>4. sent \subseteq {x[1] : x \in stored'}
    <3> SUFFICES ASSUME NEW r \in sent PROVE \E x \in stored' : r = x[1]
      OBVIOUS
    <3> QED
      BY <2>1
  <2> QED
    BY <2>2, <2>3, <2>4
<1>6. \A x \in stored' : x[2] = made[x[1]]
  BY <1>1, <1>2, <1>3 DEF InPlace, RowsInTheirTable
<1>7. ~unsure => twice' = {}
  <2> SUFFICES ASSUME ~unsure PROVE twice' = {}
    OBVIOUS
  <2>1. twice = {} /\ sent \cap StoredRows = {}
    BY <1>1 DEF Once, sent
  <2>2. \A r \in sent : \A u \in Tables : <<r, u>> \notin stored
    <3> SUFFICES ASSUME NEW r \in sent, NEW u \in Tables, <<r, u>> \in stored PROVE FALSE
      OBVIOUS
    <3>1. <<r, u>>[1] \in StoredRows
      BY DEF StoredRows
    <3> QED
      BY <2>1, <3>1
  <2> QED
    BY <1>3, <2>1, <2>2
<1> QED
  BY <1>4, <1>5, <1>6, <1>7 DEF StoredRows, sent

(* At most one flusher that is not aborted has not ended.                  *)
LEMMA OneActive ==
    ASSUME OrderInv, NEW f \in Flushers, NEW g \in Flushers,
           fl[f].at # "none", ~fl[f].aborted, fl[g].at # "none", ~fl[g].aborted
    PROVE  f = g
<1>1. /\ serving # None => engine.flusher = None
      /\ f = serving \/ f = engine.flusher
      /\ g = serving \/ g = engine.flusher
  BY DEF OrderInv, Served
<1>2. f # None /\ g # None
  BY SinkAssumption DEF SinkAssumption
<1> QED
  BY <1>1, <1>2

(* The database answers: what was sent leaves the queue, and it is stored. *)
LEMMA RowsAnswered ==
    ASSUME RowInv, OrderInv', NEW f \in Flushers, Answered(f)
    PROVE  RowInv'
<1> DEFINE job == fl[f].job
           ours == group # None /\ group.q = job.q
           left == IF ours THEN Acked(fl[f].batch) ELSE <<>>
           y == Sending(fl[f], job, left)
<1>1. TypeInv /\ TypeInv' /\ InPlace /\ Sent /\ Once /\ Lost = {} /\ Accounted /\ OrderInv
  BY DEF RowInv, OrderInv
<1>2. /\ fl[f].at = "insert" /\ Written(f)
      /\ rows' = IF ours THEN left ELSE rows
      /\ Marked(f, [group EXCEPT !.state = "running"])
      /\ fl' = [fl EXCEPT ![f] = Sending(fl[f], job, left)]
      /\ UNCHANGED <<settings, engine, dropped, broken, producer, ending, serving,
                     made, strays, unsure, gone, cut, troubles>>
  BY DEF Answered
<1>3. /\ SendsOwn(f) /\ job \in Jobs /\ fl[f].batch \in Seq(Nat) /\ fl[f].batch # <<>> /\ Sends(fl[f])
      /\ Last(fl[f].batch) \in Contents(fl[f].batch) /\ Contents(fl[f].batch) \subseteq Nat
      /\ rows \in Seq(Nat) /\ Rising(rows) /\ FlTyped
  BY <1>1, <1>2, RowTypes, TypeParts DEF Sent, InPlace
<1>4. /\ Acked(fl[f].batch) \in Seq(Nat) /\ Rising(Acked(fl[f].batch))
      /\ Contents(Acked(fl[f].batch)) = {r \in Contents(rows) : r > Last(fl[f].batch)}
  BY <1>3, AckedSome
<1>5. /\ left \in Seq(Nat) /\ Rising(left) /\ (~ours => left = <<>>) /\ (ours => left = Acked(fl[f].batch))
  BY <1>3, <1>4, Held
<1>6. \A r \in Contents(fl[f].batch) : r <= Last(fl[f].batch)
  <2>1. /\ Rising(fl[f].batch) /\ Contents(fl[f].batch) = {fl[f].batch[i] : i \in 1..Len(fl[f].batch)}
        /\ Len(fl[f].batch) \in 1..Len(fl[f].batch) /\ Len(fl[f].batch) \in Nat
    BY <1>3, Held DEF SendsOwn
  <2>2. ASSUME NEW i \in 1..Len(fl[f].batch) PROVE fl[f].batch[i] <= Last(fl[f].batch)
    <3>1. i < Len(fl[f].batch) => fl[f].batch[i] < fl[f].batch[Len(fl[f].batch)]
      BY <2>1 DEF Rising
    <3>2. fl[f].batch[i] \in Nat /\ fl[f].batch[Len(fl[f].batch)] \in Nat
      BY <1>3, <2>1
    <3>3. i = Len(fl[f].batch) \/ i < Len(fl[f].batch)
      BY <2>1
    <3> QED
      BY <3>1, <3>2, <3>3 DEF Last
  <2> QED
    BY <2>1, <2>2
<1>7. Ours(f) <=> ours
  BY DEF Ours
<1>8. /\ Contents(rows') \subseteq Contents(rows)
      /\ Contents(rows') \cap Contents(fl[f].batch) = {}
      /\ Contents(rows) \subseteq Contents(rows') \cup Contents(fl[f].batch)
      /\ Rising(rows')
  <2>1. CASE ours
    <3>1. rows' = Acked(fl[f].batch)
      BY <1>2, <2>1
    <3>2. \A r \in Contents(rows) : r <= Last(fl[f].batch) => r \in Contents(fl[f].batch)
      BY <1>3, <1>7, <2>1 DEF SendsOwn
    <3>3. \A r \in Contents(rows) : r > Last(fl[f].batch) \/ r <= Last(fl[f].batch)
      BY <1>1, <1>3, RowTypes
    <3>4. \A r \in Contents(fl[f].batch) : ~(r > Last(fl[f].batch))
      BY <1>3, <1>6
    <3> QED
      BY <1>4, <3>1, <3>2, <3>3, <3>4
  <2>2. CASE ~ours
    BY <1>2, <1>3, <1>7, <2>2 DEF SendsOwn
  <2> QED
    BY <2>1, <2>2
<1>9. SameGroup
  BY <1>1, <1>2, MarkedSame, Marks
<1> HIDE DEF left
<1>10. /\ Sends(y)
       /\ fl'[f] = y /\ \A g \in Flushers : g # f => fl'[g] = fl[g]
       /\ y.at = "insert" => /\ left # <<>> /\ y.batch = Peeked(left) /\ y.job = job
                             /\ ~fl[f].aborted /\ y.aborted = fl[f].aborted
  <2>1. Sends(y)
    BY <1>3, <1>5, SendingSends
  <2>2. fl'[f] = y /\ \A g \in Flushers : g # f => fl'[g] = fl[g]
    BY <1>2, <1>3, <2>1, OneFlusher
  <2>3. left = <<>> \/ fl[f].aborted => y.at # "insert"
    <3>1. left = <<>> \/ fl[f].aborted => y = Rest(fl[f], left)
      BY <1>3, <1>5, SendingSends
    <3>2. Rest(fl[f], left).at # "insert"
      BY <1>3, RestRests DEF Rests
    <3> QED
      BY <3>1, <3>2
  <2>4. left # <<>> /\ ~fl[f].aborted => y.batch = Peeked(left) /\ y.job = job /\ SameOrders(fl[f], y)
    BY <1>3, <1>5, SendingSends
  <2> QED
    BY <2>1, <2>2, <2>3, <2>4 DEF SameOrders
<1> HIDE DEF y
<1>11. y.at = "insert" => /\ ours /\ rows' = left
                          /\ Rising(y.batch) /\ Contents(y.batch) \subseteq Contents(rows')
                          /\ \A r \in Contents(rows') : r <= Last(y.batch) => r \in Contents(y.batch)
  <2> SUFFICES ASSUME y.at = "insert"
               PROVE  /\ ours /\ rows' = left
                      /\ Rising(y.batch) /\ Contents(y.batch) \subseteq Contents(rows')
                      /\ \A r \in Contents(rows') : r <= Last(y.batch) => r \in Contents(y.batch)
    OBVIOUS
  <2>1. ours /\ rows' = left /\ left # <<>> /\ y.batch = Peeked(left)
    BY <1>2, <1>5, <1>10
  <2> QED
    BY <1>5, <2>1, PeekedSome, SinkAssumption
<1>12. /\ stored' \subseteq Numbers \X Tables
       /\ StoredRows' = StoredRows \cup Contents(fl[f].batch)
       /\ \A x \in stored' : x[2] = made[x[1]]
       /\ ~unsure => twice' = {}
  BY <1>2, Stores
<1> HIDE DEF job, ours
<1>13. InPlace'
  <2>1. Contents(rows') \subseteq Numbers /\ Contents(rows') \cap gone = {} /\ gone \subseteq Numbers
    BY <1>1, <1>8 DEF InPlace
  <2>2. group' # None => \A r \in Contents(rows') : made[r] = group'.table
    BY <1>1, <1>8, <1>9 DEF InPlace, SameGroup
  <2>3. RowsInTheirTable'
    BY <1>2, <1>12 DEF RowsInTheirTable
  <2> QED
    BY <1>2, <1>8, <1>12, <2>1, <2>2, <2>3 DEF InPlace, Numbers
<1>14. Sent'
  <2>1. ASSUME fl'[f].at = "insert" PROVE SendsOwn(f)'
    <3>1. y.at = "insert"
      BY <1>10, <2>1
    <3>2. ours /\ y.job = job /\ Contents(y.batch) \subseteq Contents(rows)
      BY <1>8, <1>10, <1>11, <3>1
    <3>3. Ours(f)'
      BY <1>9, <1>10, <3>2 DEF Ours, SameGroup, ours
    <3>4. group # None /\ job.table = group.table
      BY <1>1, <1>2, <3>2 DEF OrderInv, Tabled, Busy, ours, job
    <3>5. Contents(y.batch) \subseteq Numbers /\ \A r \in Contents(y.batch) : made[r] = job.table
      BY <1>1, <3>2, <3>4 DEF InPlace
    <3> QED
      BY <1>2, <1>10, <1>11, <3>1, <3>2, <3>3, <3>5 DEF SendsOwn, Numbers
  <2>2. ASSUME NEW g \in Flushers, g # f, fl'[g].at = "insert" PROVE SendsOwn(g)'
    <3>1. fl'[g] = fl[g] /\ SendsOwn(g)
      BY <1>1, <1>10, <2>2 DEF Sent
    <3>2. Ours(g)' <=> Ours(g)
      BY <1>9, <3>1 DEF Ours, SameGroup
    <3> QED
      BY <1>2, <1>8, <3>1, <3>2 DEF SendsOwn, Numbers
  <2> QED
    BY <2>1, <2>2 DEF Sent
<1>15. Once'
  <2> SUFFICES ASSUME ~unsure
               PROVE  /\ twice' = {} /\ Contents(rows') \cap StoredRows' = {}
                      /\ \A g \in Flushers : fl'[g].at = "insert" =>
                           ~fl'[g].aborted /\ Contents(fl'[g].batch) \cap StoredRows' = {}
    BY <1>2 DEF Once
  <2>1. /\ Contents(rows) \cap StoredRows = {}
        /\ \A g \in Flushers : fl[g].at = "insert" => ~fl[g].aborted
    BY <1>1 DEF Once
  <2>2. Contents(rows') \cap StoredRows' = {}
    BY <1>8, <1>12, <2>1
  <2>3. ASSUME NEW g \in Flushers, fl'[g].at = "insert"
        PROVE  ~fl'[g].aborted /\ Contents(fl'[g].batch) \cap StoredRows' = {}
    <3>1. CASE g = f
      BY <1>10, <1>11, <2>2, <2>3, <3>1
    <3>2. CASE g # f
      <4>1. fl[g].at = "insert" /\ ~fl[g].aborted /\ ~fl[f].aborted /\ fl[f].at = "insert"
        BY <1>2, <1>10, <2>1, <2>3, <3>2
      <4> QED
        BY <1>1, <3>2, <4>1, OneActive
    <3> QED
      BY <3>1, <3>2
  <2> QED
    BY <1>12, <2>2, <2>3
<1>16. Lost' = {}
  <2>1. Numbers \subseteq StoredRows \cup Contents(rows) \cup gone \cup strays
    BY <1>1 DEF Lost, Numbers
  <2>2. Numbers \subseteq StoredRows' \cup Contents(rows') \cup gone \cup strays
    BY <1>8, <1>12, <2>1
  <2> QED
    BY <1>2, <2>2 DEF Lost, Numbers
<1>17. Accounted'
  BY <1>1, <1>2, <1>9 DEF Accounted, Counted, SameGroup
<1> QED
  BY <1>13, <1>14, <1>15, <1>16, <1>17 DEF RowInv

(* A check or an INSERT ends without an answer, or the flusher ends.       *)
LEMMA RowsUnanswered ==
    ASSUME RowInv, OrderInv', NEW f \in Flushers, NEW y, Did(f, y), y.at # "insert",
           rows' = rows, Unanswered(f), unsure' = (unsure \/ fl[f].at = "insert")
    PROVE  RowInv'
<1>1. TypeInv /\ TypeInv' /\ InPlace /\ Sent /\ Once /\ Lost = {} /\ Accounted
  BY DEF RowInv, OrderInv
<1>2. /\ fl'[f] = y /\ (\A g \in Flushers : g # f => fl'[g] = fl[g]) /\ SameGroup
      /\ UNCHANGED <<engine, dropped, broken, made, strays, gone, cut>>
  BY DEF Did, Apart
<1>3. /\ stored' \subseteq Numbers \X Tables /\ StoredRows \subseteq StoredRows'
      /\ \A x \in stored' : x[2] = made[x[1]]
      /\ fl[f].at # "insert" => UNCHANGED <<stored, twice>>
  <2>1. CASE fl[f].at = "insert" /\ Written(f)
    BY <2>1, Stores
  <2>2. CASE UNCHANGED <<stored, twice>>
    BY <1>1, <2>2 DEF InPlace, RowsInTheirTable, StoredRows
  <2> QED
    BY <2>1, <2>2 DEF Unanswered
<1>4. InPlace'
  BY <1>1, <1>2, <1>3 DEF InPlace, Numbers, RowsInTheirTable, SameGroup
<1>5. Sent'
  <2> SUFFICES ASSUME NEW g \in Flushers, fl'[g].at = "insert" PROVE SendsOwn(g)'
    BY DEF Sent
  <2>1. g # f /\ fl'[g] = fl[g] /\ SendsOwn(g)
    BY <1>1, <1>2 DEF Sent
  <2>2. Ours(g)' <=> Ours(g)
    BY <1>2, <2>1 DEF Ours, SameGroup
  <2> QED
    BY <1>2, <2>1, <2>2 DEF SendsOwn, Numbers
<1>6. Once'
  <2> SUFFICES ASSUME ~unsure, fl[f].at # "insert" PROVE Once'
    BY DEF Once
  <2>1. UNCHANGED <<stored, twice>> /\ \A g \in Flushers : fl'[g].at = "insert" => fl'[g] = fl[g]
    BY <1>2, <1>3
  <2> QED
    BY <1>1, <2>1 DEF Once, StoredRows
<1>7. Lost' = {} /\ Accounted'
  <2>1. Numbers \subseteq StoredRows \cup Contents(rows) \cup gone \cup strays
    BY <1>1 DEF Lost, Numbers
  <2>2. Numbers \subseteq StoredRows' \cup Contents(rows) \cup gone \cup strays
    BY <1>3, <2>1
  <2>3. Lost' = {}
    BY <1>2, <2>2 DEF Lost, Numbers
  <2> QED
    BY <1>1, <1>2, <2>3 DEF Accounted, Counted, SameGroup
<1> QED
  BY <1>4, <1>5, <1>6, <1>7 DEF RowInv

LEMMA RowsFlusher ==
    ASSUME RowInv, NEW f \in Flushers, FlusherWorks(f) \/ Fails(f)
    PROVE  RowInv'
<1>1. TypeInv /\ OrderInv /\ OrderInv' /\ rows \in Seq(Nat) /\ Sends(fl[f]) /\ FlTyped
  BY OrderFlusher, RowTypes, TypeParts DEF RowInv, OrderInv
<1>2. PICK y : Did(f, y)
  BY <1>1, FlusherDid
<1>3. ASSUME NEW q \in Seq(Nat), NEW job \in Jobs, fl' = [fl EXCEPT ![f] = Sending(fl[f], job, q)],
             q # <<>> => /\ q = rows /\ group # None
                         /\ job.q = group.q /\ job.table = group.table
      PROVE  y.at = "insert" => /\ rows # <<>> /\ y.batch = Peeked(rows) /\ ~y.aborted
                                /\ group # None /\ y.job.q = group.q /\ y.job.table = group.table
  <2> DEFINE x == Sending(fl[f], job, q)
  <2>1. Sends(x) /\ (q = <<>> \/ fl[f].aborted => x = Rest(fl[f], q))
        /\ (q # <<>> /\ ~fl[f].aborted => x.job = job /\ x.batch = Peeked(q) /\ SameOrders(fl[f], x))
    BY <1>1, <1>3, SendingSends
  <2>2. y = x
    BY <1>1, <1>2, <1>3, <2>1, OneFlusher DEF Did
  <2>3. Rest(fl[f], q).at # "insert"
    BY <1>1, RestRests DEF Rests
  <2> HIDE DEF x
  <2> QED
    BY <1>3, <2>1, <2>2, <2>3 DEF SameOrders
<1>4. ASSUME NEW q, fl' = [fl EXCEPT ![f] = Rest(fl[f], q)] PROVE y.at # "insert"
  <2>1. Sends(Rest(fl[f], q)) /\ Rest(fl[f], q).at # "insert"
    BY <1>1, RestRests DEF Rests
  <2> QED
    BY <1>1, <1>2, <1>4, <2>1, OneFlusher DEF Did
<1>5. CASE RoundBegins(f)
  <2>1. UNCHANGED <<rows, stored, twice, unsure>> /\ group # None
    BY <1>5 DEF RoundBegins, queue, history
  <2>2. Job \in Jobs /\ Job.q = group.q /\ Job.table = group.table
    BY <1>1, <2>1, JobTyped DEF Job
  <2>3. CASE fl' = [fl EXCEPT ![f] = Sending(fl[f], Job, rows)]
    BY <1>1, <1>2, <1>3, <2>1, <2>2, <2>3, RowsQuiet
  <2>4. CASE fl' = [fl EXCEPT ![f].at = "check", ![f].job = Job]
    <3>1. fl'[f].at = "check"
      BY <1>1, <2>4 DEF FlTyped, FlusherStates
    <3>2. y.at # "insert"
      BY <1>2, <3>1 DEF Did
    <3> QED
      BY <1>1, <1>2, <2>1, <3>2, RowsQuiet
  <2> QED
    BY <1>5, <2>3, <2>4 DEF RoundBegins
<1>6. CASE DrainedDry(f)
  <2>1. UNCHANGED <<rows, stored, twice, unsure>> /\ y.at # "insert"
    BY <1>4, <1>6 DEF DrainedDry, queue, history
  <2> QED
    BY <1>1, <1>2, <2>1, RowsQuiet
<1>7. CASE CheckPasses(f)
  <2> DEFINE job == fl[f].job
             q == Queued(job)
  <2>1. UNCHANGED <<rows, stored, twice, unsure>> /\ Busy(f) /\ fl' = [fl EXCEPT ![f] = Sending(fl[f], job, q)]
    BY <1>7 DEF CheckPasses, history, Busy
  <2>2. job \in Jobs /\ q \in Seq(Nat)
    BY <1>1, <2>1, JobTyped, QueuedTyped, TypeParts DEF Busy
  <2>3. q # <<>> => q = rows /\ group # None /\ job.q = group.q /\ job.table = group.table
    BY <1>1, <2>1 DEF Queued, OrderInv, Tabled
  <2> HIDE DEF job, q
  <2>4. y.at = "insert" => /\ rows # <<>> /\ y.batch = Peeked(rows) /\ ~y.aborted
                           /\ group # None /\ y.job.q = group.q /\ y.job.table = group.table
    BY <1>3, <2>1, <2>2, <2>3
  <2> QED
    BY <1>1, <1>2, <2>1, <2>4, RowsQuiet
<1>8. CASE Answered(f)
  BY <1>1, <1>8, RowsAnswered
<1>9. CASE FlusherEnds(f)
  <2>1. fl' = [fl EXCEPT ![f] = Gone] /\ rows' = rows /\ Unanswered(f) /\ unsure' = (unsure \/ fl[f].at = "insert")
    BY <1>9 DEF FlusherEnds, queue
  <2>2. y = Gone
    BY <1>1, <1>2, <2>1, GoneRests, OneFlusher DEF Did
  <2>3. y.at # "insert"
    BY <2>2, GoneRests
  <2> QED
    BY <1>1, <1>2, <2>1, <2>3, RowsUnanswered
<1>10. CASE Fails(f)
  <2>1. fl' = [fl EXCEPT ![f] = Rest(fl[f], rows)] /\ rows' = rows /\ Unanswered(f)
        /\ unsure' = (unsure \/ fl[f].at = "insert")
    BY <1>10 DEF Fails
  <2> QED
    BY <1>1, <1>2, <1>4, <2>1, RowsUnanswered
<1> QED
  BY <1>5, <1>6, <1>7, <1>8, <1>9, <1>10 DEF FlusherWorks

(* The engine touches what a flusher does only by asking it to stop or to  *)
(* drain, or by aborting it.                                               *)
Told ==
    /\ \A g \in Flushers : fl'[g].at = "insert" =>
         /\ fl[g].at = "insert" /\ fl'[g].job = fl[g].job /\ fl'[g].batch = fl[g].batch
         /\ fl'[g].aborted => fl[g].aborted \/ unsure'
    /\ unsure => unsure'
    /\ UNCHANGED <<made, stored, twice, strays>>

(* The queue is passed on, or left alone.                                  *)
LEMMA RowsKept ==
    ASSUME RowInv, Told, UNCHANGED <<rows, gone>>,
           group' # None <=> group # None,
           group # None => group'.q = group.q /\ group'.table = group.table
    PROVE  InPlace' /\ Sent' /\ Once' /\ Lost' = {}
<1>1. InPlace /\ Sent /\ Once /\ Lost = {}
  BY DEF RowInv
<1>2. InPlace'
  BY <1>1 DEF InPlace, Numbers, RowsInTheirTable, Told
<1>3. Sent'
  <2> SUFFICES ASSUME NEW g \in Flushers, fl'[g].at = "insert" PROVE SendsOwn(g)'
    BY DEF Sent
  <2>1. fl'[g].job = fl[g].job /\ fl'[g].batch = fl[g].batch /\ SendsOwn(g) /\ made' = made
    BY <1>1 DEF Told, Sent
  <2>2. Ours(g)' <=> Ours(g)
    BY <2>1 DEF Ours
  <2> QED
    BY <2>1, <2>2 DEF SendsOwn, Numbers
<1>4. Once'
  <2> SUFFICES ASSUME ~unsure, ~unsure' PROVE Once'
    BY DEF Once, Told
  <2> QED
    BY <1>1 DEF Once, StoredRows, Told
<1>5. Lost' = {}
  BY <1>1 DEF Lost, StoredRows, Told
<1> QED
  BY <1>2, <1>3, <1>4, <1>5

(* What is left in the queue is dropped and counted.                       *)
LEMMA RowsEmptied ==
    ASSUME RowInv, Told, rows' = <<>>, gone' = gone \cup Contents(rows)
    PROVE  /\ InPlace' /\ Sent' /\ Once' /\ Lost' = {}
           /\ Cardinality(gone') = Cardinality(gone) + Len(rows)
           /\ Cardinality(gone) \in Nat /\ Len(rows) \in Nat
<1>1. InPlace /\ Sent /\ Once /\ Lost = {} /\ TypeInv
  BY DEF RowInv, OrderInv
<1>2. Contents(rows') = {} /\ Rising(rows') /\ made' = made /\ stored' = stored
  BY <1>1, RowTypes, Held DEF Told
<1>3. InPlace'
  BY <1>1, <1>2 DEF InPlace, Numbers, RowsInTheirTable
<1>4. Sent'
  <2> SUFFICES ASSUME NEW g \in Flushers, fl'[g].at = "insert" PROVE SendsOwn(g)'
    BY DEF Sent
  <2>1. fl'[g].job = fl[g].job /\ fl'[g].batch = fl[g].batch /\ SendsOwn(g)
    BY <1>1 DEF Told, Sent
  <2> QED
    BY <1>2, <2>1 DEF SendsOwn, Numbers
<1>5. Once'
  <2> SUFFICES ASSUME ~unsure, ~unsure' PROVE Once'
    BY DEF Once, Told
  <2> QED
    BY <1>1, <1>2 DEF Once, StoredRows, Told
<1>6. Lost' = {}
  BY <1>1, <1>2 DEF Lost, StoredRows, Told
<1>7. IsFiniteSet(gone) /\ Cardinality(gone) \in Nat
  <2>1. Numbers = 1..Len(made) /\ Len(made) \in Nat
    BY <1>1, RowTypes
  <2>2. IsFiniteSet(Numbers)
    BY <2>1, FS_Interval
  <2>3. gone \in SUBSET Numbers
    BY <1>1 DEF InPlace
  <2>4. IsFiniteSet(gone)
    BY <2>2, <2>3, FS_Subset
  <2> QED
    BY <2>4, FS_CardinalityType
<1>8. IsFiniteSet(Contents(rows)) /\ Cardinality(Contents(rows)) = Len(rows) /\ Len(rows) \in Nat
  BY <1>1, RowTypes, HowMany, Held DEF InPlace
<1>9. Cardinality(gone \cup Contents(rows)) = Cardinality(gone) + Len(rows)
  <2>1. gone \cap Contents(rows) = {}
    BY <1>1 DEF InPlace
  <2>2. Cardinality(gone \cup Contents(rows))
          = Cardinality(gone) + Cardinality(Contents(rows)) - Cardinality(gone \cap Contents(rows))
    BY <1>7, <1>8, FS_Union
  <2>3. Cardinality(gone \cap Contents(rows)) = 0
    BY <2>1, FS_EmptySet, Zenon
  <2> QED
    BY <1>7, <1>8, <2>2, <2>3
<1> QED
  BY <1>3, <1>4, <1>5, <1>6, <1>7, <1>8, <1>9

LEMMA RowsApplyBegins ==
    ASSUME RowInv, NEW w \in Settings, ApplyBegins(w)
    PROVE  RowInv'
<1> DEFINE restart == Restarts(applied, w)
           carry == restart /\ group # None /\ Carries(applied, w)
<1>1. OrderInv /\ OrderInv' /\ TypeInv /\ TypeInv' /\ Accounted /\ Plan
  BY OrderApplyBegins DEF RowInv, OrderInv
<1>2. /\ group' = IF carry THEN NextGeneration(w) ELSE group
      /\ broken' = IF restart THEN None ELSE broken
      /\ engine' = [engine EXCEPT !.at = "flushing", !.to = w, !.flush = restart /\ group # None /\ ~carry,
                                  !.waiting = (restart /\ group # None /\ ~carry) /\ WorthWaiting,
                                  !.last = IF carry THEN engine.last + 1 ELSE engine.last,
                                  !.carried = IF restart THEN broken ELSE None]
      /\ UNCHANGED <<applied, rows, dropped, serving, fl, stored, history, troubles>>
      /\ engine.at = "run"
  BY DEF ApplyBegins
<1>3. engine \in EngineStates
  BY <1>1, TypeParts DEF EngineTyped
<1>4. engine'.carried = IF restart THEN broken ELSE None
  BY <1>2, <1>3 DEF EngineStates
<1>5. carry => /\ group # None /\ NextGeneration(w).q = group.q /\ NextGeneration(w).table = w.table
               /\ group.table = w.table /\ NextGeneration(w) # None
  <2> SUFFICES ASSUME carry
               PROVE  /\ group # None /\ NextGeneration(w).q = group.q /\ NextGeneration(w).table = w.table
                      /\ group.table = w.table /\ NextGeneration(w) # None
    OBVIOUS
  <2>1. group # None /\ applied.table = w.table
    BY DEF Carries
  <2>2. group.table = applied.table
    BY <1>1, <1>2, <2>1 DEF Plan, Fits
  <2>3. NextGeneration(w).q = group.q /\ NextGeneration(w).table = w.table
    BY DEF NextGeneration, Fresh
  <2>4. w \in Configs /\ engine.last + 1 \in Nat /\ group.q \in Nat /\ None \notin Groups
    BY <1>1, <1>3, <2>1, RowTypes, SinkAssumption DEF SinkAssumption, EngineStates, Groups
  <2>5. NextGeneration(w) \in Groups
    BY <2>4, FreshTyped DEF NextGeneration
  <2> QED
    BY <2>1, <2>2, <2>3, <2>4, <2>5
<1> HIDE DEF carry
<1>6. /\ group' # None <=> group # None
      /\ group # None => group'.q = group.q /\ group'.table = group.table
  BY <1>2, <1>5
<1>7. Told /\ UNCHANGED <<rows, gone>>
  BY <1>2 DEF Told, history
<1>8. InPlace' /\ Sent' /\ Once' /\ Lost' = {}
  BY <1>6, <1>7, RowsKept
<1>9. Accounted'
  <2>1. gone' = gone /\ cut' = cut /\ dropped' = dropped
    BY <1>2 DEF history
  <2>2. engine.carried = None
    BY <1>1, <1>2 DEF Plan
  <2>3. Counted' = Counted
    <3>1. CASE group # None
      BY <1>6, <2>1, <3>1 DEF Counted
    <3>2. CASE group = None
      BY <1>2, <1>4, <1>6, <2>2, <3>2 DEF Counted
    <3> QED
      BY <3>1, <3>2
  <2> QED
    BY <1>1, <2>1, <2>3 DEF Accounted
<1> QED
  BY <1>1, <1>8, <1>9 DEF RowInv

LEMMA RowsApplyDiscards ==
    ASSUME RowInv, ApplyDiscards
    PROVE  RowInv'
<1>1. OrderInv /\ OrderInv' /\ TypeInv /\ Accounted /\ Plan
  BY OrderApplyDiscards DEF RowInv, OrderInv
<1>2. /\ engine.at = "flushing"
      /\ engine' = [engine EXCEPT !.at = IF DiscardStops THEN "stopping" ELSE "starting",
                                  !.flusher = IF DiscardStops THEN serving ELSE None,
                                  !.carried = IF engine.flush THEN dropped + Len(rows) ELSE engine.carried,
                                  !.waiting = FALSE]
      /\ group' = IF engine.flush THEN None ELSE group
      /\ rows' = IF engine.flush THEN <<>> ELSE rows
      /\ dropped' = IF engine.flush THEN 0 ELSE dropped
      /\ gone' = IF engine.flush THEN gone \cup Contents(rows) ELSE gone
      /\ fl' = IF DiscardStops THEN [fl EXCEPT ![serving].stop = TRUE] ELSE fl
      /\ UNCHANGED <<broken, stored, made, strays, twice, unsure, cut>>
  BY <1>1, Discarding
<1>3. engine'.carried = IF engine.flush THEN dropped + Len(rows) ELSE engine.carried
  <2>1. engine \in EngineStates
    BY <1>1, TypeParts DEF EngineTyped
  <2> QED
    BY <1>2, <2>1 DEF EngineStates
<1>4. Told
  <2>1. \A g \in Flushers : /\ fl'[g].at = fl[g].at /\ fl'[g].job = fl[g].job /\ fl'[g].batch = fl[g].batch
                            /\ fl'[g].aborted = fl[g].aborted
    BY <1>1, <1>2, StopAskedEach DEF DiscardStops
  <2> QED
    BY <1>2, <2>1 DEF Told
<1>5. CASE engine.flush
  <2>1. rows' = <<>> /\ gone' = gone \cup Contents(rows) /\ group' = None
    BY <1>2, <1>5
  <2>2. /\ InPlace' /\ Sent' /\ Once' /\ Lost' = {}
        /\ Cardinality(gone') = Cardinality(gone) + Len(rows)
        /\ Cardinality(gone) \in Nat /\ Len(rows) \in Nat
    BY <1>4, <2>1, RowsEmptied
  <2>3. Applying /\ Flushes
    BY <1>2, <1>5 DEF Applying, Flushes
  <2>4. broken = None
    BY <1>1, <2>3 DEF Plan
  <2>5. dropped \in Nat /\ cut \in Nat
    BY <1>1, RowTypes
  <2>6. Counted = dropped
    <3>1. CASE group # None
      BY <3>1 DEF Counted
    <3>2. CASE group = None
      BY <1>1, <2>3, <3>2 DEF Plan
    <3> QED
      BY <3>1, <3>2
  <2>7. Counted' = dropped + Len(rows)
    BY <1>2, <1>3, <1>5, <2>1, <2>2, <2>4, <2>5, SinkAssumption DEF Counted, SinkAssumption
  <2> QED
    BY <1>1, <1>2, <2>2, <2>5, <2>6, <2>7 DEF RowInv, Accounted
<1>6. CASE ~engine.flush
  <2>1. UNCHANGED <<rows, gone, group, dropped>> /\ engine'.carried = engine.carried
    BY <1>2, <1>3, <1>6
  <2>2. InPlace' /\ Sent' /\ Once' /\ Lost' = {}
    BY <1>4, <2>1, RowsKept
  <2>3. Accounted'
    BY <1>1, <1>2, <2>1 DEF Accounted, Counted
  <2> QED
    BY <1>1, <2>2, <2>3 DEF RowInv
<1>7. engine.flush \in BOOLEAN
  BY <1>1, TypeParts DEF EngineTyped, EngineStates
<1> QED
  BY <1>5, <1>6, <1>7

LEMMA RowsStarting ==
    ASSUME RowInv, NEW f \in Flushers, Starting(f)
    PROVE  RowInv'
<1> DEFINE made_anew == Anew /\ Runnable /\ group = None
           fresh == Fresh(engine.last + 1, engine.last + 1, engine.to)
           d == Dismissed(engine.flusher)
           y == [Gone EXCEPT !.at = "timed"]
<1>1. OrderInv /\ OrderInv' /\ TypeInv /\ TypeInv' /\ Accounted /\ Plan /\ Once
  BY OrderStarting DEF RowInv, OrderInv
<1>2. /\ group' = IF made_anew THEN fresh ELSE group
      /\ rows' = IF made_anew THEN <<>> ELSE rows
      /\ dropped' = IF made_anew THEN CountSoFar ELSE dropped
      /\ broken' = IF Anew /\ ~Runnable THEN CountSoFar ELSE broken
      /\ unsure' = (unsure \/ InsertCut(engine.flusher))
      /\ fl' = IF NewFlusher THEN [d EXCEPT ![f] = y] ELSE d
      /\ UNCHANGED <<changes, ending, stored, made, strays, twice, gone, cut, troubles>>
      /\ engine.at \in {"stopping", "starting"} /\ Applying
  BY DEF Starting, Applying
<1>3. engine'.carried = None
  <2>1. engine \in EngineStates
    BY <1>1, TypeParts DEF EngineTyped
  <2> QED
    BY <2>1 DEF Starting, EngineStates
<1>4. Told
  <2>1. FlGood(d) /\ Sends(y) /\ y.at = "timed"
    BY <1>1, DismissedOne, NewFlusherSends, TypeParts DEF EngineTyped, EngineStates
  <2>2. \A g \in Flushers : /\ d[g].at = fl[g].at /\ d[g].job = fl[g].job /\ d[g].batch = fl[g].batch
                            /\ g # engine.flusher => d[g] = fl[g]
    BY <1>1, DismissedEach
  <2> HIDE DEF d, y
  <2>3. \A g \in Flushers : fl'[g] = IF NewFlusher /\ g = f THEN y ELSE d[g]
    BY <1>2, <2>1, GoodOne
  <2>4. ASSUME NEW g \in Flushers, fl'[g].at = "insert"
        PROVE  /\ fl[g].at = "insert" /\ fl'[g].job = fl[g].job /\ fl'[g].batch = fl[g].batch
               /\ fl'[g].aborted => fl[g].aborted \/ unsure'
    <3>1. fl'[g] = d[g]
      BY <2>1, <2>3, <2>4
    <3>2. g = engine.flusher => unsure'
      <4>1. None \notin Flushers
        BY SinkAssumption DEF SinkAssumption
      <4> QED
        BY <1>2, <2>2, <2>4, <3>1, <4>1 DEF InsertCut
    <3> QED
      BY <2>2, <2>4, <3>1, <3>2
  <2> QED
    BY <1>2, <2>4 DEF Told
<1> HIDE DEF d, y
<1>5. CountSoFar = (IF engine.carried # None THEN engine.carried ELSE 0) /\ CountSoFar \in Nat
      /\ None \notin Nat
  BY <1>1, TypeParts, SinkAssumption DEF EngineTyped, EngineStates, CountSoFar, SinkAssumption
<1>6. fresh # None
  <2>1. engine.to \in Configs /\ engine.last + 1 \in Nat /\ None \notin Groups
    BY <1>1, TypeParts, SinkAssumption DEF EngineTyped, EngineStates, SinkAssumption
  <2> QED
    BY <2>1, FreshTyped
<1> HIDE DEF fresh
<1>7. CASE made_anew
  <2>1. rows = <<>> /\ Contents(rows) = {} /\ Len(rows) = 0
    BY <1>1, <1>7, RowTypes, Held
  <2>2. rows' = <<>> /\ gone' = gone \cup Contents(rows)
    BY <1>2, <1>7, <2>1
  <2>3. InPlace' /\ Sent' /\ Once' /\ Lost' = {}
    BY <1>4, <2>2, RowsEmptied
  <2>4. broken = None
    BY <1>1, <1>2, <1>7 DEF Plan
  <2>5. Counted = CountSoFar
    BY <1>5, <1>7, <2>4 DEF Counted
  <2>6. Counted' = CountSoFar
    BY <1>2, <1>6, <1>7 DEF Counted
  <2>7. Accounted'
    BY <1>1, <1>2, <2>5, <2>6 DEF Accounted
  <2> QED
    BY <1>1, <2>3, <2>7 DEF RowInv
<1>8. CASE ~made_anew
  <2>1. UNCHANGED <<rows, gone, group, dropped>>
    BY <1>2, <1>8
  <2>2. InPlace' /\ Sent' /\ Once' /\ Lost' = {}
    BY <1>4, <2>1, RowsKept
  <2>3. Counted' = Counted
    <3>1. CASE group # None
      BY <2>1, <3>1 DEF Counted
    <3>2. CASE group = None /\ ~Anew
      <4>1. engine.carried = None /\ broken' = broken
        BY <1>1, <1>2, <3>2 DEF Plan
      <4> QED
        BY <1>3, <2>1, <3>2, <4>1 DEF Counted
    <3>3. CASE group = None /\ Anew
      <4>1. ~Runnable /\ broken' = CountSoFar /\ broken = None
        BY <1>1, <1>2, <1>8, <3>3 DEF Plan
      <4> QED
        BY <1>5, <2>1, <3>3, <4>1 DEF Counted
    <3> QED
      BY <3>1, <3>2, <3>3
  <2>4. Accounted'
    BY <1>1, <1>2, <2>3 DEF Accounted
  <2> QED
    BY <1>1, <2>2, <2>4 DEF RowInv
<1> QED
  BY <1>7, <1>8

LEMMA RowsShutdownBegins ==
    ASSUME RowInv, ShutdownBegins
    PROVE  RowInv'
<1> DEFINE d == Dismissed(engine.flusher)
<1>1. OrderInv /\ OrderInv' /\ TypeInv /\ TypeInv' /\ Accounted /\ Plan
  BY OrderShutdownBegins DEF RowInv, OrderInv
<1>2. /\ cut' = IF engine.carried = None THEN cut ELSE cut + engine.carried
      /\ unsure' = (unsure \/ InsertCut(engine.flusher))
      /\ fl' = IF serving = None THEN d ELSE [d EXCEPT ![serving].drain = TRUE]
      /\ engine' = [engine EXCEPT !.at = "draining", !.to = applied, !.flush = FALSE, !.waiting = FALSE,
                                  !.carried = None, !.flusher = None]
      /\ UNCHANGED <<queue, stored, made, strays, twice, gone>>
  BY DEF ShutdownBegins
<1>3. engine'.carried = None /\ engine.carried \in Nat \cup {None} /\ None \notin Flushers /\ None \notin Nat
      /\ serving \in Flushers \cup {None}
  <2>1. engine \in EngineStates
    BY <1>1, TypeParts DEF EngineTyped
  <2> QED
    BY <1>1, <1>2, <2>1, TypeParts, SinkAssumption DEF EngineStates, TasksTyped, SinkAssumption
<1>4. Told
  <2>1. FlGood(d)
    BY <1>1, DismissedOne, TypeParts DEF EngineTyped, EngineStates
  <2>2. \A g \in Flushers : /\ d[g].at = fl[g].at /\ d[g].job = fl[g].job /\ d[g].batch = fl[g].batch
                            /\ g # engine.flusher => d[g] = fl[g]
                            /\ Sends(d[g])
    BY <1>1, DismissedEach
  <2> HIDE DEF d
  <2>3. \A g \in Flushers : /\ fl'[g].at = d[g].at /\ fl'[g].job = d[g].job
                            /\ fl'[g].batch = d[g].batch /\ fl'[g].aborted = d[g].aborted
    <3>1. CASE serving = None
      BY <1>2, <3>1
    <3>2. CASE serving # None
      <4> DEFINE y == [d[serving] EXCEPT !.drain = TRUE]
      <4>1. serving \in Flushers
        BY <1>3, <3>2
      <4>2. Sends(y) /\ y.at = d[serving].at /\ y.job = d[serving].job /\ y.batch = d[serving].batch
            /\ y.aborted = d[serving].aborted
        BY <2>2, <4>1, Ordered
      <4>3. fl' = [d EXCEPT ![serving] = y]
        BY <1>2, <2>1, <3>2, <4>1 DEF FlGood
      <4> HIDE DEF y
      <4>4. \A g \in Flushers : fl'[g] = IF g = serving THEN y ELSE d[g]
        BY <2>1, <4>1, <4>2, <4>3, GoodOne
      <4> QED
        BY <4>2, <4>4
    <3> QED
      BY <3>1, <3>2
  <2>4. ASSUME NEW g \in Flushers, fl'[g].at = "insert"
        PROVE  /\ fl[g].at = "insert" /\ fl'[g].job = fl[g].job /\ fl'[g].batch = fl[g].batch
               /\ fl'[g].aborted => fl[g].aborted \/ unsure'
    <3>1. g = engine.flusher => unsure'
      BY <1>2, <1>3, <2>2, <2>3, <2>4 DEF InsertCut
    <3> QED
      BY <2>2, <2>3, <2>4, <3>1
  <2> QED
    BY <1>2, <2>4 DEF Told
<1> HIDE DEF d
<1>5. UNCHANGED <<rows, gone, group, dropped, broken>>
  BY <1>2 DEF queue
<1>6. InPlace' /\ Sent' /\ Once' /\ Lost' = {}
  BY <1>4, <1>5, RowsKept
<1>7. Accounted'
  <2>1. cut \in Nat /\ Counted \in Nat
    BY <1>1, RowTypes
  <2>2. CASE engine.carried = None
    BY <1>1, <1>2, <1>3, <1>5, <2>2 DEF Accounted, Counted
  <2>3. CASE engine.carried # None
    <3>1. group = None /\ broken = None /\ engine.carried \in Nat
      BY <1>1, <1>3, <2>3 DEF Plan
    <3>2. Counted = engine.carried /\ Counted' = 0 /\ cut' = cut + engine.carried
      BY <1>2, <1>3, <1>5, <2>3, <3>1 DEF Counted
    <3> QED
      BY <1>1, <1>5, <2>1, <3>1, <3>2 DEF Accounted
  <2> QED
    BY <2>2, <2>3
<1> QED
  BY <1>1, <1>6, <1>7 DEF RowInv

LEMMA RowsDrainEnds ==
    ASSUME RowInv, DrainEnds
    PROVE  RowInv'
<1>1. OrderInv /\ OrderInv' /\ TypeInv /\ Accounted
  BY OrderDrainEnds DEF RowInv, OrderInv
<1>2. /\ fl' = IF serving = None THEN fl ELSE [fl EXCEPT ![serving].stop = TRUE]
      /\ engine' = [engine EXCEPT !.at = "closing", !.flusher = serving]
      /\ UNCHANGED <<queue, stored, history>>
  BY DEF DrainEnds
<1>3. engine'.carried = engine.carried
  <2>1. engine \in EngineStates
    BY <1>1, TypeParts DEF EngineTyped
  <2> QED
    BY <1>2, <2>1 DEF EngineStates
<1>4. Told
  <2>1. \A g \in Flushers : /\ fl'[g].at = fl[g].at /\ fl'[g].job = fl[g].job /\ fl'[g].batch = fl[g].batch
                            /\ fl'[g].aborted = fl[g].aborted
    BY <1>1, <1>2, StopAskedEach
  <2> QED
    BY <1>2, <2>1 DEF Told, history
<1>5. UNCHANGED <<rows, gone, group, dropped, broken, cut>>
  BY <1>2 DEF queue, history
<1>6. InPlace' /\ Sent' /\ Once' /\ Lost' = {}
  BY <1>4, <1>5, RowsKept
<1>7. Accounted'
  BY <1>1, <1>3, <1>5 DEF Accounted, Counted
<1> QED
  BY <1>1, <1>6, <1>7 DEF RowInv

LEMMA RowsReport ==
    ASSUME RowInv, Report
    PROVE  RowInv'
<1>1. OrderInv /\ OrderInv' /\ TypeInv /\ Accounted /\ Plan
  BY OrderReport DEF RowInv, OrderInv
<1>2. /\ fl' = Dismissed(engine.flusher)
      /\ unsure' = (unsure \/ InsertCut(engine.flusher))
      /\ rows' = <<>> /\ dropped' = dropped + Len(rows) /\ gone' = gone \cup Contents(rows)
      /\ engine' = [engine EXCEPT !.at = "done", !.flusher = None]
      /\ UNCHANGED <<group, broken, stored, made, strays, twice, cut>>
  BY DEF Report, CountedReport
<1>3. engine'.carried = engine.carried
  <2>1. engine \in EngineStates
    BY <1>1, TypeParts DEF EngineTyped
  <2> QED
    BY <1>2, <2>1 DEF EngineStates
<1>4. Told
  <2>1. \A g \in Flushers : /\ fl'[g].at = fl[g].at /\ fl'[g].job = fl[g].job /\ fl'[g].batch = fl[g].batch
                            /\ g # engine.flusher => fl'[g] = fl[g]
    BY <1>1, <1>2, DismissedEach
  <2>2. None \notin Flushers
    BY SinkAssumption DEF SinkAssumption
  <2>3. \A g \in Flushers : fl'[g].at = "insert" /\ g = engine.flusher => unsure'
    BY <1>2, <2>1, <2>2 DEF InsertCut
  <2> QED
    BY <1>2, <2>1, <2>3 DEF Told
<1>5. /\ InPlace' /\ Sent' /\ Once' /\ Lost' = {}
      /\ Cardinality(gone') = Cardinality(gone) + Len(rows)
      /\ Cardinality(gone) \in Nat /\ Len(rows) \in Nat
  BY <1>2, <1>4, RowsEmptied
<1>6. Accounted'
  <2>1. dropped \in Nat /\ cut \in Nat /\ Counted \in Nat
    BY <1>1, RowTypes
  <2>2. Counted' = Counted + Len(rows)
    <3>1. CASE group # None
      BY <1>2, <3>1 DEF Counted
    <3>2. CASE group = None
      <4>1. Len(rows) = 0
        BY <1>1, <3>2, RowTypes, Held
      <4> QED
        BY <1>2, <1>3, <2>1, <3>2, <4>1 DEF Counted
    <3> QED
      BY <3>1, <3>2
  <2> QED
    BY <1>1, <1>2, <1>5, <2>1, <2>2 DEF Accounted
<1> QED
  BY <1>1, <1>5, <1>6 DEF RowInv

LEMMA RowsSample ==
    ASSUME RowInv, Sample \/ LastSample
    PROVE  RowInv'
<1>1. OrderInv /\ OrderInv' /\ TypeInv
  BY OrderSample DEF RowInv, OrderInv
<1>2. CASE Sample
  <2>1. producer \in Producers /\ producer # None /\ Push(producer)
    BY <1>1, <1>2, TypeParts DEF Sample, TasksTyped
  <2>2. group # None /\ producer.q = group.q => producer.table = group.table
    BY <1>1, <2>1 DEF OrderInv, Tabled
  <2> QED
    BY <1>1, <2>1, <2>2, RowsPush
<1>3. CASE LastSample
  <2>1. PICK p \in ending : Push(p)
    BY <1>3 DEF LastSample
  <2>2. p \in Producers
    BY <1>1, TypeParts DEF TasksTyped
  <2>3. group # None /\ p.q = group.q => p.table = group.table
    BY <1>1 DEF OrderInv, Tabled
  <2> QED
    BY <1>1, <2>1, <2>2, <2>3, RowsPush
<1> QED
  BY <1>2, <1>3

LEMMA RowsStart ==
    ASSUME Init
    PROVE  RowInv
<1>1. OrderInv /\ TypeInv
  BY OrderStart DEF OrderInv
<1>2. /\ rows = <<>> /\ dropped = 0 /\ stored = {} /\ made = <<>> /\ strays = {} /\ twice = {} /\ gone = {}
      /\ unsure = FALSE /\ cut = 0
      /\ \A g \in Flushers : fl[g].at # "insert"
      /\ group = [gen |-> 1, q |-> 1, table |-> Initial.table, state |-> "running", ready |-> FALSE]
  BY NewFlusherSends, GoneRests DEF Init
<1>3. Contents(rows) = {} /\ Rising(rows) /\ Numbers = {}
  <2>1. made \in Seq(Tables) /\ Numbers = DOMAIN made
    BY <1>1, RowTypes DEF Numbers
  <2>2. Contents(<<>>) = {} /\ Rising(<<>>)
    BY <1>1, <1>2, RowTypes, Held
  <2>3. DOMAIN <<>> = {}
    OBVIOUS
  <2> QED
    BY <1>2, <2>1, <2>2, <2>3
<1>4. InPlace
  BY <1>2, <1>3 DEF InPlace, RowsInTheirTable
<1>5. Sent /\ Once
  BY <1>2, <1>3 DEF Sent, Once
<1>6. Lost = {}
  BY <1>3 DEF Lost, Numbers
<1>7. Accounted
  <2>1. group # None
    <3>1. None \notin Groups
      BY SinkAssumption DEF SinkAssumption
    <3>2. Initial.table \in Tables
      BY SinkAssumption DEF SinkAssumption
    <3>3. group \in Groups
      BY <1>2, <3>2 DEF Groups
    <3> QED
      BY <3>1, <3>3
  <2> QED
    BY <1>2, <2>1, FS_EmptySet DEF Accounted, Counted
<1> QED
  BY <1>1, <1>4, <1>5, <1>6, <1>7 DEF RowInv

LEMMA RowsStep ==
    ASSUME RowInv, [Next]_vars
    PROVE  RowInv'
<1>1. CASE Sample \/ LastSample
  BY <1>1, RowsSample
<1>2. CASE \E f \in Flushers : FlusherWorks(f) \/ Fails(f)
  BY <1>2, RowsFlusher
<1>3. CASE EngineWorks
  BY <1>3, RowsApplyDiscards, StartsOne, RowsStarting, RowsDrainEnds, RowsReport DEF EngineWorks
<1>4. CASE ShutdownBegins
  BY <1>4, RowsShutdownBegins
<1>5. CASE \E w \in Settings : ApplyBegins(w)
  BY <1>5, RowsApplyBegins
<1>6. CASE UNCHANGED vars
  <2>1. OrderInv' /\ Accounted
    BY <1>6, OrderStep DEF RowInv
  <2>2. UNCHANGED <<rows, gone, group, dropped, broken, engine, fl, made, stored, twice, strays, unsure, cut>>
    BY <1>6 DEF vars, queue, tasks, history
  <2>3. Told
    BY <2>2 DEF Told
  <2>4. InPlace' /\ Sent' /\ Once' /\ Lost' = {}
    BY <2>2, <2>3, RowsKept
  <2>5. Accounted'
    BY <2>1, <2>2 DEF Accounted, Counted
  <2> QED
    BY <2>1, <2>4, <2>5 DEF RowInv
<1> QED
  BY <1>1, <1>2, <1>3, <1>4, <1>5, <1>6 DEF Next

(* A row that was sampled is stored, is still queued or was dropped and    *)
(* counted, whatever overflows or is passed on while an INSERT is under    *)
(* way; and the count says how many, but for what went with a plan that    *)
(* was cut off.                                                            *)
THEOREM NothingEverVanishes == Spec => []NothingVanishes
<1>1. Init => RowInv
  BY RowsStart
<1>2. RowInv /\ [Next]_vars => RowInv'
  BY RowsStep
<1>3. RowInv => NothingVanishes
  BY DEF RowInv, Accounted, NothingVanishes
<1> QED
  BY <1>1, <1>2, <1>3, PTL DEF Spec

(* A row is stored in the table its group had when it was sampled, and, as *)
(* long as no INSERT ended without an answer, once: whatever queues and    *)
(* flushers the settings have handed on.                                   *)
THEOREM EachStoredRight == Spec => []StoredRight
<1>1. Init => RowInv
  BY RowsStart
<1>2. RowInv /\ [Next]_vars => RowInv'
  BY RowsStep
<1>3. RowInv => StoredRight
  BY DEF RowInv, InPlace, Once, StoredRight, SentOnce
<1> QED
  BY <1>1, <1>2, <1>3, PTL DEF Spec
=============================================================================
