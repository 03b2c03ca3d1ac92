-------------------------- MODULE FlyBatches_proofs ---------------------------
(***************************************************************************)
(* Proofs about FlyBatches for any number of workers and any range.        *)
(***************************************************************************)
EXTENDS FlyBatches, TLAPS

(* Arithmetic: the floor of a quotient, and products that keep an order.   *)
LEMMA DivFloor ==
    ASSUME NEW d \in Int, NEW q \in Nat \ {0}
    PROVE  /\ d \div q \in Int
           /\ (d \div q) * q <= d
           /\ d < (d \div q) * q + q
BY SMTT(30)

LEMMA Mono ==
    ASSUME NEW a \in Int, NEW b \in Int, NEW q \in Nat, a <= b
    PROVE  a * q <= b * q
<1>1. PICK c \in Nat : b = a + c
  <2>1. b - a \in Nat /\ b = a + (b - a)
    OBVIOUS
  <2>2. QED BY <2>1
<1>2. b * q = a * q + c * q
  BY <1>1, SMT
<1>3. c * q >= 0
  BY SMT
<1>4. QED BY <1>1, <1>2, <1>3

LEMMA Succ ==
    ASSUME NEW a \in Int, NEW q \in Int
    PROVE  /\ (a - 1) * q \in Int
           /\ a * q \in Int
           /\ (a - 1) * q + q = a * q
BY SMT

LEMMA DivRange ==
    ASSUME NEW d \in Nat, NEW q \in Nat \ {0}
    PROVE  /\ d \div q \in Nat
           /\ d < q => d \div q = 0
           /\ d >= q => d \div q >= 1
<1> DEFINE p == d \div q
<1>1. p \in Int /\ p * q <= d /\ d < p * q + q
  BY DivFloor
<1>2. p >= 0
  <2>1. SUFFICES ASSUME p <= -1 PROVE FALSE
    BY <1>1
  <2>2. p * q <= (-1) * q
    BY <1>1, <2>1, Mono
  <2>3. QED BY <1>1, <2>2
<1>3. d < q => p = 0
  <2>1. SUFFICES ASSUME d < q, p >= 1 PROVE FALSE
    BY <1>1, <1>2
  <2>2. 1 * q <= p * q
    BY <1>1, <2>1, Mono
  <2>3. QED BY <1>1, <2>1, <2>2
<1>4. d >= q => p >= 1
  <2>1. SUFFICES ASSUME d >= q, p <= 0 PROVE FALSE
    BY <1>1
  <2>2. p * q <= 0 * q
    BY <1>1, <2>1, Mono
  <2>3. QED BY <1>1, <2>1, <2>2
<1>5. QED BY <1>1, <1>2, <1>3, <1>4

------------------------------------------------------------------------------
(* The size of a batch and what is left for the last one.                  *)
LEMMA Sizes ==
    ASSUME start \in Int, end \in Int
    PROVE  /\ BatchSize \in Int /\ Rest \in Nat
           /\ Count >= 0 => BatchSize >= 1
           /\ Count < 0 => Rest = 0
           /\ (Count >= 0 /\ Count < NbWorkers) => BatchSize = 1 /\ Rest = 0
           /\ Count >= NbWorkers => end = start + NbWorkers * BatchSize + Rest
<1> DEFINE q == Count \div NbWorkers
<1>0. NbWorkers \in Nat \ {0} /\ Count \in Int
  BY BatchesAssumption DEF Count
<1>1. CASE Count < 0
  <2>1. (-Count) \div NbWorkers \in Nat
    BY <1>0, <1>1, DivRange
  <2>2. CDiv(Count, NbWorkers) = -((-Count) \div NbWorkers) /\ Rest = 0
    BY <1>0, <1>1 DEF CDiv, Rest
  <2>3. QED BY <1>0, <1>1, <2>1, <2>2 DEF BatchSize
<1>2. CASE Count >= 0 /\ Count < NbWorkers
  <2>1. CDiv(Count, NbWorkers) = 0
    BY <1>0, <1>2, DivRange DEF CDiv
  <2>2. BatchSize = 1 /\ Rest = 0
    BY <1>0, <1>2, <2>1 DEF BatchSize, Rest
  <2>3. QED BY <1>0, <1>2, <2>2
<1>3. CASE Count >= NbWorkers
  <2>1. Count \in Nat
    BY <1>0, <1>3
  <2>2. q \in Nat /\ q >= 1
    BY <1>0, <1>3, <2>1, DivRange
  <2>3. q * NbWorkers <= Count
    BY <1>0, DivFloor
  <2>4. CDiv(Count, NbWorkers) = q /\ BatchSize = q
    BY <1>0, <2>1, <2>2 DEF CDiv, BatchSize
  <2>5. Rest = Count - NbWorkers * q
    <3>1. CASE Count > NbWorkers
      BY <3>1, <2>4 DEF Rest, CMod
    <3>2. CASE Count = NbWorkers
      <4>1. q = 1
        <5>1. SUFFICES ASSUME q >= 2 PROVE FALSE
          BY <2>2
        <5>2. 2 * NbWorkers <= q * NbWorkers
          BY <1>0, <2>2, <5>1, Mono
        <5>3. QED BY <1>0, <2>3, <3>2, <5>2
      <4>2. QED BY <1>0, <3>2, <4>1 DEF Rest
    <3>3. QED BY <1>0, <1>3, <3>1, <3>2
  <2>6. NbWorkers * q = q * NbWorkers /\ NbWorkers * q \in Int
    BY <1>0, <2>2, SMT
  <2>7. QED BY <1>0, <1>3, <2>1, <2>2, <2>3, <2>4, <2>5, <2>6 DEF Count
<1>4. QED BY <1>0, <1>1, <1>2, <1>3

(* The batches when the loop of fly_make_batches is over.                  *)
Lo(k)   == start + (k - 1) * BatchSize
Full == /\ DOMAIN batches = 1 .. NbWorkers
        /\ \A k \in 1 .. NbWorkers :
               /\ batches[k].start = Lo(k)
               /\ batches[k].end = Lo(k) + BatchSize + IF k = NbWorkers THEN Rest ELSE 0

(* No two of them overlap, whatever the count.                             *)
LEMMA Disjoint ==
    ASSUME start \in Int, end \in Int, Full,
           NEW k \in DOMAIN batches, NEW l \in DOMAIN batches, k # l
    PROVE  Interval(batches[k]) \cap Interval(batches[l]) = {}
<1>0. NbWorkers \in Nat \ {0} /\ BatchSize \in Int /\ Rest \in Nat /\ Count \in Int
  BY BatchesAssumption, Sizes DEF Count
<1>1. ASSUME NEW i \in 1 .. NbWorkers, NEW j \in 1 .. NbWorkers, i < j
      PROVE  Interval(batches[i]) \cap Interval(batches[j]) = {}
  <2>0. Lo(i) \in Int /\ Lo(j) \in Int
    BY <1>0, Succ DEF Lo
  <2>1. CASE BatchSize >= 1
    <3>1. i * BatchSize <= (j - 1) * BatchSize
      BY <1>0, <1>1, <2>1, Mono
    <3>2. Lo(i) + BatchSize <= Lo(j)
      BY <1>0, <3>1, Succ DEF Lo
    <3>3. batches[i].end <= batches[j].start
      BY <1>0, <1>1, <2>0, <3>2 DEF Full
    <3>4. batches[i].end \in Int /\ batches[j].start \in Int
      BY <1>0, <2>0 DEF Full
    <3>5. QED BY <3>3, <3>4 DEF Interval
  <2>2. CASE BatchSize < 1
    <3>1. Rest = 0
      BY <1>0, <2>2, Sizes
    <3>2. batches[i].end <= batches[i].start
      BY <1>0, <1>1, <2>0, <2>2, <3>1 DEF Full
    <3>3. batches[i].end \in Int /\ batches[i].start \in Int
      BY <1>0, <2>0 DEF Full
    <3>4. Interval(batches[i]) = {}
      BY <3>2, <3>3 DEF Interval
    <3>5. QED BY <3>4
  <2>3. QED BY <1>0, <2>1, <2>2
<1>2. k \in 1 .. NbWorkers /\ l \in 1 .. NbWorkers
  BY DEF Full
<1>3. CASE k < l
  BY <1>1, <1>2, <1>3
<1>4. CASE l < k
  BY <1>1, <1>2, <1>4
<1>5. QED BY <1>0, <1>2, <1>3, <1>4

(* Every index asked for is in one.                                        *)
LEMMA Covered ==
    ASSUME start \in Int, end \in Int, Full, NEW x \in start .. end - 1
    PROVE  \E k \in DOMAIN batches : x \in Interval(batches[k])
<1>0. NbWorkers \in Nat \ {0} /\ BatchSize \in Int /\ Rest \in Nat /\ Count \in Int /\ Count >= 1
  BY BatchesAssumption, Sizes DEF Count
<1>1. CASE Count < NbWorkers
  <2> DEFINE k == x - start + 1
  <2>1. k \in 1 .. NbWorkers /\ BatchSize = 1 /\ Rest = 0
    BY <1>0, <1>1, Sizes DEF Count
  <2>2. batches[k].start = x /\ batches[k].end = x + 1
    <3>1. Lo(k) = x
      BY <2>1 DEF Lo
    <3>2. QED BY <2>1, <3>1 DEF Full
  <2>3. x \in Interval(batches[k])
    BY <2>2 DEF Interval
  <2>4. QED BY <2>1, <2>3 DEF Full
<1>2. CASE Count >= NbWorkers
  <2> DEFINE p == (x - start) \div BatchSize
  <2>1. BatchSize \in Nat \ {0} /\ x - start \in Nat
    BY <1>0, Sizes
  <2>2. /\ p \in Nat
        /\ p * BatchSize <= x - start
        /\ x - start < p * BatchSize + BatchSize
    BY <2>1, DivFloor, DivRange
  <2>3. CASE p < NbWorkers - 1
    <3>1. p + 1 \in 1 .. NbWorkers /\ p + 1 # NbWorkers /\ Lo(p + 1) = start + p * BatchSize
      BY <1>0, <2>2, <2>3 DEF Lo
    <3>2. p * BatchSize \in Int
      BY <2>1, <2>2, SMT
    <3>3. batches[p + 1].start <= x /\ x < batches[p + 1].end
      BY <1>0, <2>1, <2>2, <3>1, <3>2 DEF Full
    <3>4. batches[p + 1].start \in Int /\ batches[p + 1].end \in Int
      BY <1>0, <3>1, <3>2 DEF Full
    <3>5. QED BY <3>1, <3>3, <3>4 DEF Full, Interval
  <2>4. CASE p >= NbWorkers - 1
    <3>1. (NbWorkers - 1) * BatchSize <= p * BatchSize
      BY <1>0, <2>1, <2>2, <2>4, Mono
    <3>2. /\ (NbWorkers - 1) * BatchSize \in Int
          /\ (NbWorkers - 1) * BatchSize + BatchSize = NbWorkers * BatchSize
      BY <1>0, Succ
    <3>3. p * BatchSize \in Int
      BY <2>1, <2>2, SMT
    <3>4. batches[NbWorkers].start = start + (NbWorkers - 1) * BatchSize
      BY <1>0 DEF Full, Lo
    <3>5. batches[NbWorkers].end = end
      BY <1>0, <1>2, <3>2, Sizes DEF Full, Lo
    <3>6. batches[NbWorkers].start <= x /\ batches[NbWorkers].start \in Int
      BY <2>2, <3>1, <3>2, <3>3, <3>4
    <3>7. x \in Interval(batches[NbWorkers])
      BY <3>5, <3>6 DEF Interval
    <3>8. QED BY <1>0, <3>7 DEF Full
  <2>5. QED BY <1>0, <2>2, <2>3, <2>4
<1>3. QED BY <1>0, <1>1, <1>2

(* With enough indices none reaches outside the range.                     *)
LEMMA Within ==
    ASSUME start \in Int, end \in Int, Full, Count >= NbWorkers, NEW k \in DOMAIN batches
    PROVE  Interval(batches[k]) \subseteq start .. end - 1
<1>0. /\ NbWorkers \in Nat \ {0} /\ BatchSize \in Nat \ {0} /\ Rest \in Nat
      /\ end = start + NbWorkers * BatchSize + Rest /\ k \in 1 .. NbWorkers
  BY BatchesAssumption, Sizes DEF Count, Full
<1>1. 0 * BatchSize <= (k - 1) * BatchSize /\ k * BatchSize <= NbWorkers * BatchSize
  BY <1>0, Mono
<1>2. /\ (k - 1) * BatchSize \in Int /\ k * BatchSize \in Int /\ NbWorkers * BatchSize \in Int
      /\ (k - 1) * BatchSize + BatchSize = k * BatchSize
  BY <1>0, Succ
<1> DEFINE lo == (k - 1) * BatchSize
           hi == k * BatchSize
           all == NbWorkers * BatchSize
<1>3. /\ batches[k].start = start + lo
      /\ batches[k].end = start + lo + BatchSize + IF k = NbWorkers THEN Rest ELSE 0
  BY <1>0 DEF Full, Lo
<1>4. /\ lo \in Int /\ hi \in Int /\ all \in Int
      /\ lo + BatchSize = hi /\ 0 <= lo /\ hi <= all
      /\ end = start + all + Rest
  BY <1>0, <1>1, <1>2
<1> HIDE DEF lo, hi, all
<1>5. /\ start <= batches[k].start /\ batches[k].end <= end
      /\ batches[k].start \in Int /\ batches[k].end \in Int
  BY <1>0, <1>3, <1>4
<1>6. QED BY <1>5 DEF Interval

LEMMA FullPartitions ==
    ASSUME start \in Int, end \in Int, Full, Count >= NbWorkers
    PROVE  Partition
BY Disjoint, Covered, Within DEF Partition

------------------------------------------------------------------------------
(* The inductive invariant: where the batches lie at each place of the     *)
(* call, what has been run, and who holds the memory.                      *)
Layout ==
    /\ pc = "batch" => \A k \in 1 .. Len(batches) : batches[k] = BatchAt(k - 1)
    /\ pc \in {"queue", "run"} => Full
    /\ pc = "queue" => \A k \in DOMAIN batches : ~batches[k].execed
    /\ pc = "idle" => batches = <<>>

Executed(x) == \E k \in DOMAIN batches : batches[k].execed /\ x \in Interval(batches[k])

RanOK ==
    /\ pc \in {"batch", "queue"} => DOMAIN ran = {}
    /\ pc = "run" => \A x \in Int : x \in DOMAIN ran <=> Executed(x)
    /\ \A x \in DOMAIN ran : ran[x] = 1
    /\ Count >= NbWorkers => DOMAIN ran \subseteq start .. end - 1

ResultOK ==
    /\ pc \in {"batch", "queue", "run"} => result = "none"
    /\ result = "FLYESUCCESS" => start .. end - 1 \subseteq DOMAIN ran
    /\ result = "FLYENORES" => DOMAIN ran = {}

Memory == allocated = IF pc = "idle" THEN 0 ELSE 1 + 2 * Len(batches)

IInv == TypeOK /\ Layout /\ RanOK /\ ResultOK /\ Memory

LEMMA InitIInv == Init => IInv
BY BatchesAssumption DEF Init, IInv, TypeOK, Layout, RanOK, ResultOK, Memory, NoRuns

LEMMA CreateStep ==
    ASSUME IInv, \/ \E r \in Requests : Create(r)
                 \/ CreateFails
    PROVE  IInv'
<1> USE DEF IInv, TypeOK, Layout, RanOK, ResultOK, Memory, NoRuns
<1>1. ASSUME NEW r \in Requests, Create(r) PROVE IInv'
  <2>1. r[2] \in Int /\ r[3] \in Int
    BY BatchesAssumption
  <2>2. QED BY <1>1, <2>1 DEF Create
<1>2. CASE CreateFails
  BY <1>2 DEF CreateFails
<1>3. QED BY <1>1, <1>2

LEMMA AddBatchStep ==
    ASSUME IInv, AddBatch PROVE IInv'
<1>0. /\ NbWorkers \in Nat \ {0} /\ BatchSize \in Int /\ start \in Int /\ end \in Int
      /\ batches \in Seq(BatchRecords)
  BY BatchesAssumption, Sizes DEF IInv, TypeOK
<1>1. BatchAt(Len(batches)) \in BatchRecords
  <2>1. Len(batches) * BatchSize \in Int
    BY <1>0, Succ
  <2>2. QED BY <1>0, <2>1 DEF BatchAt, BatchRecords
<1>2. TypeOK'
  BY <1>0, <1>1 DEF IInv, TypeOK, AddBatch, MoreBatches
<1>3. \A k \in 1 .. Len(batches') : batches'[k] = BatchAt(k - 1)'
  <2>1. \A k \in Int : BatchAt(k)' = BatchAt(k)
    BY DEF AddBatch, BatchAt, BatchSize, Count, CDiv
  <2>2. \A k \in 1 .. Len(batches) : batches'[k] = batches[k]
    BY <1>0 DEF AddBatch
  <2>3. /\ Len(batches') = Len(batches) + 1
        /\ batches'[Len(batches) + 1] = BatchAt(Len(batches))
    BY <1>0 DEF AddBatch
  <2>4. ASSUME NEW k \in 1 .. Len(batches') PROVE batches'[k] = BatchAt(k - 1)'
    <3>1. CASE k \in 1 .. Len(batches)
      BY <3>1, <2>1, <2>2 DEF IInv, Layout, AddBatch
    <3>2. CASE k = Len(batches) + 1
      <4>1. k - 1 = Len(batches) /\ k - 1 \in Int
        BY <1>0, <3>2
      <4>2. QED BY <4>1, <2>1, <2>3, <3>2
    <3>3. QED BY <1>0, <2>3, <3>1, <3>2
  <2>5. QED BY <2>4
<1>4. Layout'
  BY <1>3 DEF Layout, AddBatch
<1>5. RanOK' /\ ResultOK'
  BY DEF IInv, RanOK, ResultOK, AddBatch, Count
<1>6. Memory'
  BY <1>0 DEF IInv, Memory, AddBatch
<1>7. QED BY <1>2, <1>4, <1>5, <1>6 DEF IInv

LEMMA FailStep ==
    ASSUME IInv, BatchesFail PROVE IInv'
<1>1. Len(batches) \in Nat /\ pc # "idle" /\ DOMAIN ran = {}
  BY DEF IInv, TypeOK, RanOK, BatchesFail
<1>2. allocated' = 1 /\ Memory'
  BY <1>1 DEF IInv, Memory, BatchesFail, BlocksOf
<1>3. TypeOK'
  BY <1>2, BatchesAssumption DEF IInv, TypeOK, BatchesFail
<1>4. Layout' /\ RanOK' /\ ResultOK'
  BY <1>1 DEF IInv, Layout, RanOK, ResultOK, BatchesFail, Count
<1>5. QED BY <1>2, <1>3, <1>4 DEF IInv

LEMMA ExtendStep ==
    ASSUME IInv, ExtendLast PROVE IInv'
<1>0. /\ NbWorkers \in Nat \ {0} /\ BatchSize \in Int /\ Rest \in Nat
      /\ start \in Int /\ end \in Int /\ batches \in Seq(BatchRecords)
      /\ Len(batches) = NbWorkers /\ pc = "batch"
  BY BatchesAssumption, Sizes DEF IInv, TypeOK, ExtendLast
<1>1. \A k \in 1 .. NbWorkers :
          /\ batches[k].start = Lo(k) /\ batches[k].end = Lo(k) + BatchSize
          /\ ~batches[k].execed /\ Lo(k) \in Int
  BY <1>0, Succ DEF IInv, Layout, BatchAt, Lo
<1>2. /\ DOMAIN batches' = 1 .. NbWorkers /\ Len(batches') = NbWorkers
      /\ \A k \in 1 .. NbWorkers :
             batches'[k] = [start |-> batches[k].start,
                            end |-> batches[k].end + (IF k = NbWorkers THEN Rest ELSE 0),
                            execed |-> batches[k].execed]
  <2>1. batches' = [batches EXCEPT ![NbWorkers] = WithRest(@)]
    BY DEF ExtendLast
  <2>2. DOMAIN batches' = 1 .. NbWorkers /\ Len(batches') = NbWorkers
    BY <1>0, <2>1
  <2>3. ASSUME NEW k \in 1 .. NbWorkers
        PROVE  batches'[k] = [start |-> batches[k].start,
                              end |-> batches[k].end + (IF k = NbWorkers THEN Rest ELSE 0),
                              execed |-> batches[k].execed]
    <3>1. batches[k] \in BatchRecords
      BY <1>0
    <3>2. batches[k] = [start |-> batches[k].start, end |-> batches[k].end,
                        execed |-> batches[k].execed] /\ batches[k].end \in Int
      BY <3>1 DEF BatchRecords
    <3>3. CASE k = NbWorkers
      <4>1. batches'[k] = WithRest(batches[k])
        BY <1>0, <2>1, <3>3
      <4>2. QED BY <3>2, <3>3, <4>1 DEF WithRest
    <3>4. CASE k # NbWorkers
      <4>1. batches'[k] = batches[k] /\ batches[k].end + 0 = batches[k].end
        BY <1>0, <2>1, <3>2, <3>4
      <4>2. QED BY <3>2, <3>4, <4>1
    <3>5. QED BY <3>3, <3>4
  <2>4. QED BY <2>2, <2>3
<1>3. batches' \in Seq(BatchRecords)
  <2>1. \A k \in 1 .. NbWorkers : batches'[k] \in BatchRecords
    <3>1. \A k \in 1 .. NbWorkers :
              /\ batches[k].start \in Int /\ batches[k].execed \in BOOLEAN
              /\ batches[k].end + (IF k = NbWorkers THEN Rest ELSE 0) \in Int
      <4>1. \A k \in 1 .. NbWorkers : batches[k] \in BatchRecords
        BY <1>0
      <4>2. QED BY <1>0, <4>1 DEF BatchRecords
    <3>2. QED BY <1>2, <3>1 DEF BatchRecords
  <2>2. QED BY <1>0, <1>2, <2>1 DEF ExtendLast
<1>4. Full'
  <2>1. BatchSize' = BatchSize /\ Rest' = Rest /\ \A k \in 1 .. NbWorkers : Lo(k)' = Lo(k)
    BY DEF ExtendLast, BatchSize, Rest, Count, CDiv, CMod, Lo
  <2>2. \A k \in 1 .. NbWorkers :
            /\ batches'[k].start = Lo(k)
            /\ batches'[k].end = Lo(k) + BatchSize + IF k = NbWorkers THEN Rest ELSE 0
    BY <1>0, <1>1, <1>2
  <2>3. QED BY <1>2, <2>1, <2>2 DEF Full
<1>5. Layout'
  <2>1. \A k \in DOMAIN batches' : ~batches'[k].execed
    BY <1>1, <1>2
  <2>2. QED BY <1>4, <2>1 DEF Layout, ExtendLast
<1>6. TypeOK'
  BY <1>0, <1>2, <1>3 DEF IInv, TypeOK, ExtendLast
<1>7. RanOK' /\ ResultOK' /\ Memory'
  BY <1>0, <1>2 DEF IInv, RanOK, ResultOK, Memory, ExtendLast, Count
<1>8. QED BY <1>5, <1>6, <1>7 DEF IInv

LEMMA QueueStep ==
    ASSUME IInv, Queue PROVE IInv'
<1>1. Full' <=> Full
  BY DEF Queue, Full, Lo, BatchSize, Rest, Count, CDiv, CMod
<1>2. \A x \in Int : x \in DOMAIN ran' <=> Executed(x)'
  BY DEF IInv, Layout, RanOK, Queue, Executed
<1>3. QED BY <1>1, <1>2 DEF Queue, IInv, TypeOK, Layout, RanOK, ResultOK, Memory, Count

(* Running a batch: its indices are new because it overlaps no other.      *)
LEMMA RunStep ==
    ASSUME IInv, NEW k \in DOMAIN batches, RunBatch(k) PROVE IInv'
<1>0. /\ start \in Int /\ end \in Int /\ batches \in Seq(BatchRecords) /\ Full
      /\ pc = "run" /\ pc' = "run" /\ ~batches[k].execed
      /\ \A i \in DOMAIN batches : batches[i] \in BatchRecords
  BY DEF IInv, TypeOK, Layout, RunBatch
<1>1. /\ DOMAIN batches' = DOMAIN batches /\ Len(batches') = Len(batches)
      /\ \A i \in DOMAIN batches :
             /\ batches'[i].start = batches[i].start /\ batches'[i].end = batches[i].end
             /\ batches'[i].execed = (batches[i].execed \/ i = k)
             /\ batches'[i] \in BatchRecords
  <2>1. batches' = [batches EXCEPT ![k] = Claimed(@)]
    BY DEF RunBatch
  <2>2. DOMAIN batches' = DOMAIN batches /\ Len(batches') = Len(batches)
    BY <1>0, <2>1
  <2>3. ASSUME NEW i \in DOMAIN batches
        PROVE  /\ batches'[i].start = batches[i].start /\ batches'[i].end = batches[i].end
               /\ batches'[i].execed = (batches[i].execed \/ i = k)
               /\ batches'[i] \in BatchRecords
    <3>1. batches[i] \in BatchRecords
      BY <1>0
    <3>2. CASE i = k
      <4>1. batches'[i] = Claimed(batches[i])
        BY <2>1, <3>2
      <4>2. QED BY <3>1, <3>2, <4>1 DEF Claimed, BatchRecords
    <3>3. CASE i # k
      <4>1. batches'[i] = batches[i]
        BY <2>1, <3>3
      <4>2. QED BY <1>0, <3>1, <3>3, <4>1 DEF BatchRecords
    <3>4. QED BY <3>2, <3>3
  <2>4. QED BY <2>2, <2>3
<1>2. \A i \in DOMAIN batches : Interval(batches'[i]) = Interval(batches[i])
  BY <1>1 DEF Interval
<1>3. Interval(batches[k]) \cap DOMAIN ran = {}
  <2>1. SUFFICES ASSUME NEW x \in Interval(batches[k]), x \in DOMAIN ran PROVE FALSE
    OBVIOUS
  <2>2. PICK i \in DOMAIN batches : batches[i].execed /\ x \in Interval(batches[i])
    BY <1>0, <2>1 DEF IInv, TypeOK, RanOK, Executed
  <2>3. i # k
    BY <1>0, <2>2
  <2>4. QED BY <1>0, <2>1, <2>2, <2>3, Disjoint
<1>4. /\ DOMAIN ran' = DOMAIN ran \cup Interval(batches[k])
      /\ \A x \in DOMAIN ran' : ran'[x] = 1
  <2>1. ran' = [x \in DOMAIN ran \cup Interval(batches[k]) |->
                  Times(x) + IF x \in Interval(batches[k]) THEN 1 ELSE 0]
    BY DEF RunBatch
  <2>2. ASSUME NEW x \in DOMAIN ran \cup Interval(batches[k])
        PROVE  Times(x) + (IF x \in Interval(batches[k]) THEN 1 ELSE 0) = 1
    BY <1>3 DEF Times, IInv, RanOK
  <2>3. QED BY <2>1, <2>2
<1>5. Interval(batches[k]) \subseteq Int
  BY <1>0 DEF Interval, BatchRecords
<1>6. \A x \in Int : x \in DOMAIN ran' <=> Executed(x)'
  <2>1. \A x \in Int : Executed(x)' <=> Executed(x) \/ x \in Interval(batches[k])
    BY <1>1, <1>2 DEF Executed
  <2>2. QED BY <1>0, <1>4, <2>1 DEF IInv, RanOK
<1>7. RanOK'
  <2>1. Count >= NbWorkers => Interval(batches[k]) \subseteq start .. end - 1
    BY <1>0, Within
  <2>2. QED BY <1>0, <1>4, <1>6, <2>1 DEF IInv, RanOK, RunBatch, Count
<1>8. Full'
  <2>1. BatchSize' = BatchSize /\ Rest' = Rest /\ \A i \in 1 .. NbWorkers : Lo(i)' = Lo(i)
    BY DEF RunBatch, BatchSize, Rest, Count, CDiv, CMod, Lo
  <2>2. QED BY <1>0, <1>1, <2>1 DEF Full
<1>9. TypeOK'
  <2>1. batches' \in Seq(BatchRecords)
    BY <1>0, <1>1 DEF RunBatch
  <2>2. QED BY <2>1, <1>1, <1>4, <1>5 DEF IInv, TypeOK, RunBatch
<1>10. Layout' /\ ResultOK' /\ Memory'
  BY <1>0, <1>1, <1>4, <1>8 DEF IInv, Layout, ResultOK, Memory, RunBatch
<1>11. QED BY <1>7, <1>9, <1>10 DEF IInv

LEMMA ReturnStep ==
    ASSUME IInv, AllRun \/ DestroyJob PROVE IInv'
<1>1. CASE AllRun
  <2>1. start \in Int /\ end \in Int /\ Full
    BY <1>1 DEF IInv, TypeOK, Layout, AllRun
  <2>2. start .. end - 1 \subseteq DOMAIN ran
    <3>1. ASSUME NEW x \in start .. end - 1 PROVE x \in DOMAIN ran
      <4>1. PICK k \in DOMAIN batches : x \in Interval(batches[k])
        BY <2>1, Covered
      <4>2. Executed(x) /\ x \in Int
        BY <1>1, <2>1, <4>1 DEF AllRun, Executed
      <4>3. QED BY <1>1, <4>2 DEF AllRun, IInv, RanOK
    <3>2. QED BY <3>1
  <2>3. QED BY <1>1, <2>2 DEF AllRun, IInv, TypeOK, Layout, RanOK, ResultOK, Memory, Count
<1>2. CASE DestroyJob
  <2>1. Len(batches) \in Nat
    BY DEF IInv, TypeOK
  <2>2. allocated' = 0 /\ Memory'
    BY <1>2, <2>1 DEF IInv, Memory, DestroyJob, BlocksOf
  <2>3. TypeOK'
    BY <1>2, <2>2, BatchesAssumption DEF IInv, TypeOK, DestroyJob
  <2>4. Layout' /\ RanOK' /\ ResultOK'
    BY <1>2 DEF IInv, Layout, RanOK, ResultOK, DestroyJob, Count
  <2>5. QED BY <2>2, <2>3, <2>4 DEF IInv
<1>3. QED BY <1>1, <1>2

THEOREM Invariance == Spec => []IInv
<1>1. IInv /\ [Next]_vars => IInv'
  <2> SUFFICES ASSUME IInv, [Next]_vars PROVE IInv'
    OBVIOUS
  <2>1. CASE Next
    BY <2>1, CreateStep, AddBatchStep, FailStep, ExtendStep, QueueStep, RunStep, ReturnStep
       DEF Next
  <2>2. CASE UNCHANGED vars
    BY <2>2 DEF vars, IInv, TypeOK, Layout, RanOK, ResultOK, Memory, Count, Full, Lo,
       BatchSize, Rest, CDiv, CMod, BatchAt, Executed
  <2>3. QED BY <2>1, <2>2
<1>2. QED BY <1>1, InitIInv, PTL DEF Spec

(* The types, and at most nbworkers batches.                               *)
THEOREM TypeCorrect == Spec => []TypeOK
<1>1. IInv => TypeOK
  BY DEF IInv
<1>2. QED BY <1>1, Invariance, PTL

(* fly_make_batches cuts a range of at least nbworkers indices without a   *)
(* gap or an overlap, for every range and every number of workers.         *)
THEOREM Partitioned == Spec => []RangePartitioned
<1>1. IInv => RangePartitioned
  BY FullPartitions DEF IInv, TypeOK, Layout, RangePartitioned
<1>2. QED BY <1>1, Invariance, PTL

(* A successful parallel loop ran every index asked for exactly once.      *)
THEOREM IndicesRun == Spec => []EveryIndexOnce
<1>1. IInv => EveryIndexOnce
  BY DEF IInv, RanOK, ResultOK, EveryIndexOnce, Times
<1>2. QED BY <1>1, Invariance, PTL

(* It ran no index twice, and none outside the range of a loop with at     *)
(* least nbworkers indices.                                                *)
THEOREM NoneTwice == Spec => []NoIndexTwice
<1>1. IInv => NoIndexTwice
  BY DEF IInv, RanOK, NoIndexTwice
<1>2. QED BY <1>1, Invariance, PTL

(* A failed call ran nothing, and every call gives its memory back,        *)
(* whichever malloc failed.                                                *)
THEOREM CleanFailure == Spec => []FailsCleanly
<1>1. IInv => FailsCleanly
  BY DEF IInv, Layout, ResultOK, Memory, FailsCleanly
<1>2. QED BY <1>1, Invariance, PTL
==============================================================================
