----------------------------- MODULE FlyForkJoin ------------------------------
(***************************************************************************)
(* What fly_parallel_for promises its caller: the work of a call is cut    *)
(* into batches, each batch is run by one thread, once, and the call       *)
(* returns only when all of them have been run, or with an error when none *)
(* has.  Which threads, lists and semaphores bring that about is the       *)
(* business of FlySched.                                                   *)
(***************************************************************************)
CONSTANTS Jobs,      \* the parallel loops that may be open together
          Batches    \* the batches each of them is cut into, at least one

VARIABLE batch       \* how far each batch of each loop is

All(status) == [b \in Batches |-> status]

Init == batch = [j \in Jobs |-> All("none")]

Becomes(j, s) == batch' = [batch EXCEPT ![j] = s]

Call(j)      == batch[j] = All("none") /\ Becomes(j, All("todo"))
Start(j, b)  == batch[j][b] = "todo" /\ Becomes(j, [batch[j] EXCEPT ![b] = "running"])
Finish(j, b) == batch[j][b] = "running" /\ Becomes(j, [batch[j] EXCEPT ![b] = "finished"])
Return(j)    == batch[j] = All("finished") /\ Becomes(j, All("none"))

(* Out of memory: the call returns an error, and has run nothing.          *)
Refuse(j)    == batch[j] = All("todo") /\ Becomes(j, All("none"))

Next == \E j \in Jobs :
    /\ batch'[j] # batch[j]
    /\ Call(j) \/ Return(j) \/ Refuse(j) \/ \E b \in Batches : Start(j, b) \/ Finish(j, b)

Spec == Init /\ [][Next]_batch
==============================================================================
