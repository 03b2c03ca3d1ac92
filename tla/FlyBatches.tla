------------------------------ MODULE FlyBatches ------------------------------
(***************************************************************************)
(* How a parallel loop is cut into batches and which indices it runs:      *)
(* fly_create_job_pfor/pfarr, fly_make_batches, the loops of               *)
(* fly_pfptrj_exec/fly_pfarrj_exec and fly_destroy_job, with every malloc  *)
(* on the way allowed to fail.                                             *)
(*                                                                         *)
(* One call at a time, its batches run in any order; that each batch is    *)
(* run once, by one of several threads, is FlySched's affair.  The counts  *)
(* are ints whose difference does not overflow (an assumption of the code).*)
(***************************************************************************)
EXTENDS Integers, Sequences, FiniteSets

CONSTANTS NbWorkers,  \* fly_sched.nbworkers
          Requests    \* the calls made: <<type, start, end>>

ASSUME BatchesAssumption ==
    /\ NbWorkers \in Nat \ {0}
    /\ Requests \subseteq {"pfor", "pfarr"} \X Int \X Int
    /\ \A r \in Requests : r[1] = "pfor" => r[2] = 0

VARIABLES
    pc,           \* where the call is
    start, end,   \* of struct fly_job
    batches,      \* job->batches: start and end of each, and whether it ran
    allocated,    \* blocks malloc has given out and not got back
    ran,          \* how often the function was called with each index
    result        \* what the call returns

vars == <<pc, start, end, batches, allocated, ran, result>>

(* Division and remainder of C: towards zero.                              *)
CDiv(a, b) == IF a >= 0 THEN a \div b ELSE -((-a) \div b)
CMod(a, b) == a - b * CDiv(a, b)

Count    == end - start
Interval(b) == b.start .. b.end - 1
Times(x) == IF x \in DOMAIN ran THEN ran[x] ELSE 0
NoRuns   == [x \in {} |-> 0]

Init ==
    /\ pc = "idle"
    /\ start = 0 /\ end = 0
    /\ batches = <<>> /\ allocated = 0
    /\ ran = NoRuns
    /\ result = "none"

(***************************************************************************)
(* Pieces of the code, each with a deliberately wrong variant beside it.   *)
(***************************************************************************)
BatchSizeRoundedUp == CDiv(Count + NbWorkers - 1, NbWorkers)
BatchSize == IF CDiv(Count, NbWorkers) = 0 THEN 1 ELSE CDiv(Count, NbWorkers)

BatchAtOverlapping(k) == [start |-> start + k * BatchSize,
                          end |-> start + k * BatchSize + BatchSize + 1, execed |-> FALSE]
BatchAt(k) == [start |-> start + k * BatchSize,
               end |-> start + k * BatchSize + BatchSize, execed |-> FALSE]

OneMoreBatch == Len(batches) <= NbWorkers
MoreBatches == Len(batches) < NbWorkers

(* What the last batch gets on top.                                        *)
RestForgotten == 0
Rest == IF Count > NbWorkers THEN CMod(Count, NbWorkers) ELSE 0

WithRest(b) == [b EXCEPT !.end = b.end + Rest]
Claimed(b)  == [b EXCEPT !.execed = TRUE]

(* The blocks given back with n batches: each had a list node.             *)
NodesKept(n) == n
BlocksOf(n) == 2 * n

(***************************************************************************)
(* Making the job                                                          *)
(***************************************************************************)
(* fly_create_job_pfarr refuses an empty range, fly_create_job_pfor none.  *)
Create(r) ==
    /\ pc = "idle"
    /\ r[1] = "pfarr" => r[3] - r[2] > 0
    /\ start' = r[2] /\ end' = r[3]
    /\ allocated' = allocated + 1
    /\ ran' = NoRuns
    /\ result' = "none"
    /\ pc' = "batch"
    /\ UNCHANGED batches

(* The range is refused, or there is no memory for the job.                *)
CreateFails ==
    /\ pc = "idle"
    /\ ran' = NoRuns
    /\ result' = "FLYENORES"
    /\ UNCHANGED <<pc, start, end, batches, allocated>>

(* The loop of fly_make_batches: job_make_batch, then job_add_batch.       *)
AddBatch ==
    /\ pc = "batch" /\ MoreBatches
    /\ batches' = Append(batches, BatchAt(Len(batches)))
    /\ allocated' = allocated + 2
    /\ UNCHANGED <<pc, start, end, ran, result>>

(* A malloc of the loop fails (for the batch, or for its list node and the *)
(* batch is freed), or later the one for the node of the ready list: all   *)
(* batches are freed and the call returns an error.                        *)
BatchesFail ==
    /\ \/ pc = "batch" /\ MoreBatches
       \/ pc = "queue"
    /\ allocated' = allocated - BlocksOf(Len(batches))
    /\ batches' = <<>>
    /\ result' = "FLYENORES"
    /\ pc' = "destroy"
    /\ UNCHANGED <<start, end, ran>>

(* The loop is over: the last batch takes what the division left.          *)
ExtendLast ==
    /\ pc = "batch" /\ Len(batches) = NbWorkers
    /\ batches' = [batches EXCEPT ![NbWorkers] = WithRest(@)]
    /\ pc' = "queue"
    /\ UNCHANGED <<start, end, allocated, ran, result>>

Queue ==
    /\ pc = "queue"
    /\ pc' = "run"
    /\ UNCHANGED <<start, end, batches, allocated, ran, result>>

(***************************************************************************)
(* Running it                                                              *)
(***************************************************************************)
RunBatch(k) ==
    /\ pc = "run" /\ ~batches[k].execed
    /\ batches' = [batches EXCEPT ![k] = Claimed(@)]
    /\ ran' = [x \in DOMAIN ran \cup Interval(batches[k]) |->
                  Times(x) + IF x \in Interval(batches[k]) THEN 1 ELSE 0]
    /\ UNCHANGED <<pc, start, end, allocated, result>>

(* fly_wait_job gets its token.                                            *)
AllRun ==
    /\ pc = "run" /\ \A k \in DOMAIN batches : batches[k].execed
    /\ result' = "FLYESUCCESS"
    /\ pc' = "destroy"
    /\ UNCHANGED <<start, end, batches, allocated, ran>>

DestroyJob ==
    /\ pc = "destroy"
    /\ allocated' = allocated - BlocksOf(Len(batches)) - 1
    /\ batches' = <<>>
    /\ pc' = "idle"
    /\ UNCHANGED <<start, end, ran, result>>

Next == \/ \E r \in Requests : Create(r)
        \/ CreateFails \/ AddBatch \/ BatchesFail \/ ExtendLast \/ Queue
        \/ \E k \in DOMAIN batches : RunBatch(k)
        \/ AllRun \/ DestroyJob

Spec == Init /\ [][Next]_vars

------------------------------------------------------------------------------
BatchRecords == [start : Int, end : Int, execed : BOOLEAN]

(* Every variable keeps its type, a job never has more than nbworkers      *)
(* batches.                                                                *)
TypeOK ==
    /\ pc \in {"idle", "batch", "queue", "run", "destroy"}
    /\ start \in Int /\ end \in Int
    /\ batches \in Seq(BatchRecords) /\ Len(batches) <= NbWorkers
    /\ allocated \in Nat
    /\ DOMAIN ran \subseteq Int
    /\ result \in {"none", "FLYESUCCESS", "FLYENORES"}

(* A call that succeeds has run the function on every index asked for,     *)
(* once.                                                                   *)
EveryIndexOnce ==
    (pc = "idle" /\ result = "FLYESUCCESS") => \A x \in start .. end - 1 : Times(x) = 1

(* With at least as many indices as workers it runs on no other; at no     *)
(* time on any index twice, whatever the count.                            *)
NoIndexTwice ==
    /\ \A x \in DOMAIN ran : ran[x] <= 1
    /\ Count >= NbWorkers => DOMAIN ran \subseteq start .. end - 1

(* A call that fails has run nothing, and no call leaves memory behind.    *)
FailsCleanly ==
    /\ result = "FLYENORES" => DOMAIN ran = {}
    /\ pc = "idle" => allocated = 0 /\ batches = <<>>

(* The batches of a loop of at least nbworkers indices partition its range.*)
Partition ==
    /\ \A x \in start .. end - 1 : \E k \in DOMAIN batches : x \in Interval(batches[k])
    /\ \A k \in DOMAIN batches : Interval(batches[k]) \subseteq start .. end - 1
    /\ \A k, l \in DOMAIN batches :
           k # l => Interval(batches[k]) \cap Interval(batches[l]) = {}

(* What the code runs is cut without a gap, an overlap or an index that    *)
(* nobody asked for.                                                       *)
RangePartitioned == (pc \in {"queue", "run"} /\ Count >= NbWorkers) => Partition

(* "Run func, count number of times".                                      *)
RunsCountTimes ==
    (pc = "idle" /\ result = "FLYESUCCESS" /\ Count >= 0) =>
        Cardinality(DOMAIN ran) = Count
==============================================================================
