----------------------- MODULE FlySchedPromises_proofs ------------------------
(***************************************************************************)
(* What the scheduler promises those who call it.                          *)
(*                                                                         *)
(* First, the promise of FlyForkJoin: every step of a thread starts a      *)
(* loop, starts or finishes one batch of one loop, ends a loop, or changes *)
(* nothing the caller of fly_parallel_for can tell.                        *)
(*                                                                         *)
(* Second, that no wakeup of the workers is lost: while a listed job has   *)
(* work, the turn of some thread in fly_schedule will come to look for it. *)
(***************************************************************************)
EXTENDS FlySched_proofs

(* How far the batches of a loop are.                                      *)
Row(j) == [b \in Batches |-> Status(j, b)]
Rows   == [j \in Jobs |-> [b \in Batches |-> Status(j, b)]]
All(s) == [b \in Batches |-> s]

LEMMA NoRow ==
    ASSUME NEW j, ~job[j].live \/ IsTask(j)
    PROVE  Row(j) = All("none")
BY DEF Row, All, Status

LEMMA NoRowNext ==
    ASSUME NEW j, ~job'[j].live \/ job'[j].type = "task"
    PROVE  Row(j)' = All("none")
BY DEF Row, All, Status, IsTask

LEMMA SameRow ==
    ASSUME NEW j, job'[j].live = job[j].live, job'[j].type = job[j].type,
           job'[j].execed = job[j].execed, \A b \in Batches : Held(j, b)' <=> Held(j, b)
    PROVE  Row(j)' = Row(j)
<1>1. ASSUME NEW b \in Batches PROVE Status(j, b)' = Status(j, b)
  BY <1>1 DEF Status, IsTask, Unclaimed
<1>2. QED BY <1>1 DEF Row

(* A step that neither claims a batch nor counts one leaves the batches in *)
(* the hands they are in: none can be added, and the count leaves no room  *)
(* for one to disappear.                                                   *)
LEMMA HeldStays ==
    ASSUME Typed, Typed', NEW t \in Threads, Shifted(t), NEW j \in Jobs, JobInv(j), JobInv(j)',
           job[j].live, ~IsTask(j), job'[j].live, job'[j].type = job[j].type,
           job'[j].execed = job[j].execed, job'[j].batches_done = job[j].batches_done
    PROVE  \A b \in Batches : Held(j, b)' <=> Held(j, b)
<1>1. ASSUME NEW u \in Threads, NEW b \in Batches, Holds(u, j, b)' PROVE Holds(u, j, b)
  <2>1. CASE u # t
    BY <1>1, <2>1 DEF Shifted, Holds
  <2>2. CASE u = t
    <3>1. DOMAIN stack'[t] = 1..Len(stack'[t])
      BY LenProperties DEF Typed, StackOK, Stacks
    <3>2. PICK i \in 1..Len(stack'[t]) : stack'[t][i].batch = b /\ stack'[t][i].job = j
      BY <1>1, <2>2, <3>1 DEF Holds
    <3>3. \E k \in 1..Len(stack[t]) : stack'[t][i] = stack[t][k]
      BY <3>2, BatchFacts DEF Shifted, Moved
    <3>4. QED BY <2>2, <3>2, <3>3, HoldsIn DEF Typed
  <2>3. QED BY <2>1, <2>2
<1>2. Holders(j)' \subseteq Holders(j)
  BY <1>1 DEF Holders, Threads
<1>3. IsTask(j)' = FALSE
  BY DEF IsTask
<1>4. /\ job[j].batches_done + Cardinality(Holders(j)) = Cardinality(job[j].execed)
      /\ job'[j].batches_done + Cardinality(Holders(j)') = Cardinality(job'[j].execed)
  BY <1>3 DEF JobInv, AccountFor
<1> DEFINE H == Holders(j)
           G == Holders(j)'
<1>5. IsFiniteSet(H) /\ Cardinality(H) \in Nat
  BY HoldersFinite
<1>6. job[j].batches_done \in Nat
  BY JobTypes DEF Typed
<1>7. G \subseteq H
  BY <1>2
<1>8. job[j].batches_done + Cardinality(H) = job[j].batches_done + Cardinality(G)
  BY <1>4
<1> HIDE DEF H, G
<1>9. Cardinality(G) \in Nat
  BY <1>5, <1>7, FS_Subset, FS_CardinalityType
<1>10. Cardinality(G) = Cardinality(H)
  BY <1>5, <1>6, <1>8, <1>9
<1>11. G = H
  BY <1>5, <1>7, <1>10, FS_Subset
<1>12. Holders(j)' = Holders(j)
  BY <1>11 DEF G, H
<1>13. ASSUME NEW b \in Batches PROVE Held(j, b)' <=> Held(j, b)
  <2>1. \A u \in WThreads : Holds(u, j, b)' <=> Holds(u, j, b)
    <3>1. SUFFICES ASSUME NEW u \in WThreads PROVE Holds(u, j, b)' <=> Holds(u, j, b)
      OBVIOUS
    <3>2. Holds(u, j, b) <=> <<u, b>> \in Holders(j)
      BY DEF Holders
    <3>3. Holds(u, j, b)' <=> <<u, b>> \in Holders(j)'
      BY DEF Holders
    <3>4. QED BY <1>12, <3>2, <3>3
  <2>2. QED BY <2>1 DEF Held
<1>14. QED BY <1>13

LEMMA RowStays ==
    ASSUME Typed, Typed', IInv, IInv', NEW t \in Threads, Shifted(t), NEW j \in Jobs,
           job'[j].live = job[j].live, job'[j].type = job[j].type,
           job[j].live /\ ~IsTask(j) => /\ job'[j].execed = job[j].execed
                                        /\ job'[j].batches_done = job[j].batches_done
    PROVE  Row(j)' = Row(j)
<1>1. CASE job[j].live /\ ~IsTask(j)
  BY <1>1, HeldStays, SameRow DEF IInv
<1>2. CASE ~job[j].live \/ IsTask(j)
  BY <1>2, NoRow, NoRowNext DEF IsTask
<1>3. QED BY <1>1, <1>2

(* What the abstract specification may do to one loop.                     *)
Kept == \A j \in Jobs : Row(j)' = Row(j)
RowStep(m) ==
    /\ \A j \in Jobs : j # m => Row(j)' = Row(j)
    /\ \/ Row(m) = All("none") /\ Row(m)' = All("todo")
       \/ Row(m) \in {All("finished"), All("todo")} /\ Row(m)' = All("none")
       \/ \E b \in Batches :
            \/ Row(m)[b] = "todo" /\ Row(m)' = [Row(m) EXCEPT ![b] = "running"]
            \/ Row(m)[b] = "running" /\ Row(m)' = [Row(m) EXCEPT ![b] = "finished"]

LEMMA CallRow ==
    ASSUME Typed, Typed', IInv, IInv', NEW t \in Threads, Shifted(t), ParallelFor(t)
    PROVE  \E m \in Jobs : RowStep(m)
<1>1. PICK m \in Jobs : Fresh(m) /\ job' = [job EXCEPT ![m] = NewJob("pfor", Head(Top(t).code)[2])]
  BY DEF ParallelFor
<1>2. job \in [Jobs -> JobSet]
  BY DEF Typed, DataOK
<1>3. \A j \in Jobs : j # m => job'[j] = job[j]
  BY <1>1, <1>2
<1>4. \A j \in Jobs : j # m => Row(j)' = Row(j)
  BY <1>3, RowStays
<1>5. Row(m) = All("none")
  BY <1>1, NoRow DEF Fresh
<1>6. job'[m].live /\ job'[m].type = "pfor" /\ job'[m].execed = {}
  BY <1>1, <1>2 DEF NewJob, Freed
<1>7. Row(m)' = All("todo")
  BY <1>6 DEF Row, All, Status, IsTask, Unclaimed
<1>8. QED BY <1>4, <1>5, <1>7 DEF RowStep

LEMMA ReturnRow ==
    ASSUME Typed, Typed', IInv, IInv', NEW t \in Threads, Shifted(t), DestroyJob(t)
    PROVE  Kept \/ \E m \in Jobs : RowStep(m)
<1> SUFFICES ASSUME NEW m, m = MyJob(t) PROVE Kept \/ \E j \in Jobs : RowStep(j)
  OBVIOUS
<1>1. Top(t).pc = "destroy" /\ m \in Jobs /\ Top(t).job = m /\ job[m].live
  BY MyJobIsJob DEF DestroyJob, At, Typed, Idle, MyJob
<1>2. job' = [job EXCEPT ![m] = [Freed EXCEPT !.type = job[m].type]] /\ job \in [Jobs -> JobSet]
  BY DEF DestroyJob, Typed, DataOK
<1>3. /\ \A j \in Jobs : j # m => job'[j] = job[j]
      /\ job'[m].live = FALSE
  BY <1>1, <1>2 DEF Freed
<1>4. \A j \in Jobs : j # m => Row(j)' = Row(j)
  BY <1>3, RowStays
<1>5. Row(m)' = All("none")
  BY <1>3, NoRowNext
<1>6. CASE IsTask(m)
  BY <1>4, <1>5, <1>6, NoRow DEF Kept
<1>7. CASE ~IsTask(m)
  <2>1. JobInv(m) /\ On(m, "destroy")
    BY <1>1, OnTop DEF IInv
  <2>2. Finished(m) \/ Refused(m)
    BY <1>1, <2>1 DEF JobInv, DoneFor
  <2>3. CASE Finished(m)
    <3>1. Cardinality(Holders(m)) = 0
      BY <1>1, <1>7, <2>1, <2>3, LoopDone DEF Finished
    <3>2. Holders(m) = {}
      BY <3>1, HoldersFinite, FS_EmptySet
    <3>3. \A b \in Batches : ~Held(m, b)
      <4>1. SUFFICES ASSUME NEW b \in Batches, NEW u \in WThreads, Holds(u, m, b) PROVE FALSE
        BY DEF Held
      <4>2. <<u, b>> \in Holders(m)
        BY <4>1 DEF Holders
      <4>3. QED BY <3>2, <4>2
    <3>4. Unclaimed(m) = {}
      BY <1>7, <2>3 DEF Finished, HasWork
    <3>5. Row(m) = All("finished")
      BY <1>1, <1>7, <3>3, <3>4 DEF Row, All, Status
    <3>6. QED BY <1>1, <1>4, <1>5, <3>5 DEF RowStep
  <2>4. CASE Refused(m)
    <3>1. Unclaimed(m) = Batches
      BY <2>4 DEF Refused, Quiet, Unclaimed
    <3>2. Row(m) = All("todo")
      BY <1>1, <1>7, <3>1 DEF Row, All, Status
    <3>3. QED BY <1>1, <1>4, <1>5, <3>2 DEF RowStep
  <2>5. QED BY <2>2, <2>3, <2>4
<1>8. QED BY <1>6, <1>7

LEMMA StartRow ==
    ASSUME Typed, Typed', IInv, NEW t \in Threads, ExecBatch(t)
    PROVE  Kept \/ \E m \in Jobs : RowStep(m)
<1> SUFFICES ASSUME NEW m, m = MyJob(t) PROVE Kept \/ \E j \in Jobs : RowStep(j)
  OBVIOUS
<1>1. /\ Top(t).pc = "exec" /\ job[m].live /\ ~IsTask(m) /\ m \in Jobs
      /\ Top(t).job = m /\ Top(t).batch = 0 /\ t \in WThreads /\ t \in Threads
      /\ Top(t) \in FrameSet /\ FrameRight(Top(t)) /\ job \in [Jobs -> JobSet]
  <2>1. Top(t).pc = "exec" /\ job[m].live /\ ~IsTask(m)
    BY DEF ExecBatch, At
  <2>2. t \notin Clients
    BY <2>1, TopFacts DEF Typed, ClientPlaces
  <2>3. QED BY <2>1, <2>2, MyJobIsJob, TopFacts DEF Typed, DataOK, Idle, MyJob, FrameRight, Threads
<1>2. CASE job' = job /\ Become(t, [Top(t) EXCEPT !.pc = "isdone", !.idle = TRUE])
  <2> DEFINE g == [Top(t) EXCEPT !.pc = "isdone", !.idle = TRUE]
  <2>1. g \in FrameSet /\ g.job = m /\ g.batch = 0
    BY <1>1 DEF FrameSet, Places
  <2>2. Become(t, g)
    BY <1>2
  <2> HIDE DEF g
  <2>3. View(t, {g})
    BY <1>1, <2>1, <2>2, BecomeView DEF Typed
  <2>4. ASSUME NEW j \in Jobs, NEW b \in Batches PROVE Held(j, b)' <=> Held(j, b)
    <3>1. \A u \in WThreads : Holds(u, j, b)' <=> Holds(u, j, b)
      BY <1>1, <2>1, <2>3, BatchFacts DEF View, Threads
    <3>2. QED BY <3>1 DEF Held
  <2>5. QED BY <1>2, <2>4, SameRow DEF Kept
<1>3. ASSUME NEW b, b = Min(Unclaimed(m)), Unclaimed(m) # {},
             job' = [job EXCEPT ![m].execed = Claim(@, b)],
             stack' = [stack EXCEPT ![t] = <<UserCode(Body[job[m].fun]),
                             [Top(t) EXCEPT !.pc = "inc", !.batch = b]>> \o Tail(@)]
      PROVE  RowStep(m)
  <2> DEFINE u == UserCode(Body[job[m].fun])
             g == [Top(t) EXCEPT !.pc = "inc", !.batch = b]
  <2>1. b \in Batches /\ b \in Unclaimed(m)
    BY <1>3, LeastUnclaimed
  <2>2. /\ \A j \in Jobs : j # m => job'[j] = job[j]
        /\ job'[m].live = job[m].live /\ job'[m].type = job[m].type
        /\ job'[m].execed = job[m].execed \cup {b}
    BY <1>1, <1>3 DEF JobSet, Claim
  <2>3. g \in FrameSet /\ g.job = m /\ g.batch = b
    BY <1>1, <2>1 DEF FrameSet, Places
  <2>4. u \in FrameSet /\ u.batch = 0
    BY <1>1, JobTypes, UserOf DEF Typed
  <2>5. PushOn(t, u, g)
    BY <1>3 DEF PushOn
  <2> HIDE DEF u, g
  <2>6. \A v \in Threads, j \in Jobs, c \in Batches :
            Holds(v, j, c)' <=> Holds(v, j, c) \/ (v = t /\ j = m /\ c = b)
    BY <1>1, <2>1, <2>3, <2>4, <2>5, Claims
  <2>7. ASSUME NEW j \in Jobs, j # m PROVE Row(j)' = Row(j)
    <3>1. \A c \in Batches : Held(j, c)' <=> Held(j, c)
      BY <2>6, <2>7 DEF Held, Threads
    <3>2. QED BY <2>2, <2>7, <3>1, SameRow
  <2>8. Held(m, b)' /\ \A c \in Batches : c # b => (Held(m, c)' <=> Held(m, c))
    BY <1>1, <2>1, <2>6 DEF Held, Threads
  <2>9. Row(m)[b] = "todo"
    BY <1>1, <2>1 DEF Row, Status
  <2>10. Row(m)' = [Row(m) EXCEPT ![b] = "running"]
    <3>1. Status(m, b)' = "running"
      BY <1>1, <2>2, <2>8 DEF Status, IsTask, Unclaimed
    <3>2. \A c \in Batches : c # b => Status(m, c)' = Status(m, c)
      BY <1>1, <2>2, <2>8 DEF Status, IsTask, Unclaimed
    <3>3. QED BY <3>1, <3>2 DEF Row
  <2>11. QED BY <2>1, <2>7, <2>9, <2>10 DEF RowStep
<1>4. QED BY <1>1, <1>2, <1>3 DEF ExecBatch

LEMMA FinishRow ==
    ASSUME Typed, Typed', IInv, NEW t \in Threads, Increment(t)
    PROVE  \E m \in Jobs : RowStep(m)
<1> SUFFICES ASSUME NEW m, m = MyJob(t), NEW b, b = Top(t).batch PROVE \E j \in Jobs : RowStep(j)
  OBVIOUS
<1> DEFINE g == [Top(t) EXCEPT !.pc = "isdone", !.batch = 0]
<1>1. /\ Top(t).pc = "inc" /\ job[m].live /\ m \in Jobs /\ Top(t).job = m
      /\ t \in WThreads /\ t \in Threads /\ Top(t) \in FrameSet /\ b \in Batches
      /\ job \in [Jobs -> JobSet]
  <2>1. Top(t).pc = "inc" /\ job[m].live
    BY DEF Increment, At
  <2>2. t \notin Clients
    BY <2>1, TopFacts DEF Typed, ClientPlaces
  <2>3. Top(t) \in FrameSet /\ FrameRight(Top(t))
    BY TopFacts DEF Typed
  <2>4. b \in Batches
    BY <2>1, <2>3 DEF FrameSet, FrameRight
  <2>5. QED BY <2>1, <2>2, <2>3, <2>4, MyJobIsJob DEF Typed, DataOK, Idle, MyJob, Threads
<1>2. Become(t, g) /\ job' = [job EXCEPT ![m].batches_done = @ + 1]
  BY DEF Increment
<1>3. /\ \A j \in Jobs : j # m => job'[j] = job[j]
      /\ job'[m].live = job[m].live /\ job'[m].type = job[m].type
      /\ job'[m].execed = job[m].execed
  BY <1>1, <1>2 DEF JobSet
<1>4. g \in FrameSet /\ g.batch = 0
  BY <1>1 DEF FrameSet, Places
<1> HIDE DEF g
<1>5. /\ Holds(t, m, b)
      /\ \A v \in Threads, j \in Jobs, c \in Batches :
            Holds(v, j, c)' <=> Holds(v, j, c) /\ ~(v = t /\ j = m /\ c = b)
  BY <1>1, <1>2, <1>4, GivesUp DEF IInv, Live
<1>6. /\ ~IsTask(m) /\ b \in job[m].execed
      /\ \A u \in WThreads : Holds(u, m, b) => u = t
  BY <1>1, <1>5 DEF IInv, JobInv, ClaimFor
<1>7. ASSUME NEW j \in Jobs, j # m PROVE Row(j)' = Row(j)
  <2>1. \A c \in Batches : Held(j, c)' <=> Held(j, c)
    BY <1>5, <1>7 DEF Held, Threads
  <2>2. QED BY <1>3, <1>7, <2>1, SameRow
<1>8. Held(m, b) /\ ~Held(m, b)' /\ \A c \in Batches : c # b => (Held(m, c)' <=> Held(m, c))
  BY <1>1, <1>5, <1>6 DEF Held, Threads
<1>9. Row(m)[b] = "running"
  BY <1>1, <1>6, <1>8 DEF Row, Status, Unclaimed
<1>10. Row(m)' = [Row(m) EXCEPT ![b] = "finished"]
  <2>1. Status(m, b)' = "finished"
    BY <1>1, <1>3, <1>6, <1>8 DEF Status, IsTask, Unclaimed
  <2>2. \A c \in Batches : c # b => Status(m, c)' = Status(m, c)
    BY <1>1, <1>3, <1>8 DEF Status, IsTask, Unclaimed
  <2>3. QED BY <2>1, <2>2 DEF Row
<1>11. QED BY <1>1, <1>7, <1>9, <1>10 DEF RowStep

(* Every other step: the data of a loop a caller can tell stays as it is.  *)
LEMMA OtherRows ==
    ASSUME Typed, Typed', IInv, IInv', NEW t \in Threads, Shifted(t), Step(t),
           ~ExecBatch(t), ~Increment(t), ~ParallelFor(t), ~DestroyJob(t)
    PROVE  Kept
<1> SUFFICES ASSUME NEW m, m = MyJob(t) PROVE Kept
  OBVIOUS
<1>1. job \in [Jobs -> JobSet]
  BY DEF Typed, DataOK
<1>2. CASE job' = job
  BY <1>2, RowStays DEF Kept
<1>3. ASSUME NEW v, job' = [job EXCEPT ![m].sem = v] PROVE Kept
  <2>1. \A j \in Jobs : /\ job'[j].live = job[j].live /\ job'[j].type = job[j].type
                        /\ job'[j].execed = job[j].execed
                        /\ job'[j].batches_done = job[j].batches_done
    BY <1>1, <1>3 DEF JobSet
  <2>2. QED BY <2>1, RowStays DEF Kept
<1>4. CASE MoveToRunning(t)
  <2>1. CASE IsTask(m) /\ job' = [job EXCEPT ![m].batches_done = NbBatches(m)]
    <3>1. \A j \in Jobs : /\ job'[j].live = job[j].live /\ job'[j].type = job[j].type
                          /\ job'[j].execed = job[j].execed
                          /\ j # m => job'[j].batches_done = job[j].batches_done
      BY <1>1, <2>1 DEF JobSet
    <3>2. QED BY <2>1, <3>1, RowStays DEF Kept
  <2>2. QED BY <1>2, <1>4, <2>1 DEF MoveToRunning
<1>5. CASE PushTask(t)
  <2>1. PICK n \in Jobs : Fresh(n) /\ job' = [job EXCEPT ![n] = NewJob("task", Head(Top(t).code)[2])]
    BY <1>5 DEF PushTask
  <2>2. \A j \in Jobs : j # n => job'[j] = job[j]
    BY <1>1, <2>1
  <2>3. job'[n].type = "task" /\ ~job[n].live
    BY <1>1, <2>1 DEF NewJob, Freed, Fresh
  <2>4. Row(n)' = Row(n)
    BY <2>3, NoRow, NoRowNext
  <2>5. QED BY <2>2, <2>4, RowStays DEF Kept
<1>6. CASE PostJob(t)
  BY <1>3, <1>6 DEF PostJob
<1>7. CASE WaitJob(t)
  BY <1>3, <1>7 DEF WaitJob
<1>8. QED
  BY <1>2, <1>4, <1>5, <1>6, <1>7
     DEF Step, GetReady, GetRunning, Sleep, Notify, ExecTask, FunReturns, CheckDone, RemoveRunning,
         MoveToDone, CreateFails, WaitTask, AddToReady, Help, Collect

LEMMA StepRows ==
    ASSUME Typed, Typed', IInv, IInv', NEW t \in Threads, Step(t)
    PROVE  Kept \/ \E m \in Jobs : RowStep(m)
<1>1. CASE ExecBatch(t)
  BY <1>1, StartRow
<1>2. CASE Increment(t)
  BY <1>2, FinishRow
<1>3. CASE ~ExecBatch(t) /\ ~Increment(t)
  <2>1. Shifted(t)
    BY <1>3, StepShifts
  <2>2. QED BY <1>3, <2>1, CallRow, ReturnRow, OtherRows
<1>4. QED BY <1>1, <1>2, <1>3

LEMMA StutterRows == ASSUME UNCHANGED vars PROVE Kept
<1>1. ASSUME NEW j \in Jobs PROVE Row(j)' = Row(j)
  <2>1. \A b \in Batches : Held(j, b)' <=> Held(j, b)
    BY DEF Held, Holds, vars
  <2>2. QED BY <2>1, SameRow DEF vars
<1>2. QED BY <1>1 DEF Kept

LEMMA RowStepIsNext ==
    ASSUME NEW m \in Jobs, RowStep(m)
    PROVE  [ForkJoin!Next]_Rows
<1>1. Rows = [j \in Jobs |-> Row(j)] /\ Rows' = [j \in Jobs |-> Row(j)']
  BY DEF Rows, Row
<1>2. Rows' = [Rows EXCEPT ![m] = Row(m)'] /\ Rows[m] = Row(m) /\ Rows'[m] = Row(m)'
  BY <1>1 DEF RowStep
<1>3. \A s : ForkJoin!All(s) = All(s)
  BY DEF ForkJoin!All, All
<1>4. \/ ForkJoin!Call(m) \/ ForkJoin!Return(m) \/ ForkJoin!Refuse(m)
      \/ \E b \in Batches : ForkJoin!Start(m, b) \/ ForkJoin!Finish(m, b)
  <2>1. \A s : ForkJoin!Becomes(m, s) <=> Rows' = [Rows EXCEPT ![m] = s]
    BY DEF ForkJoin!Becomes, Rows
  <2>2. /\ ForkJoin!Call(m) <=> Rows[m] = All("none") /\ Rows' = [Rows EXCEPT ![m] = All("todo")]
        /\ ForkJoin!Return(m) <=> Rows[m] = All("finished") /\ Rows' = [Rows EXCEPT ![m] = All("none")]
        /\ ForkJoin!Refuse(m) <=> Rows[m] = All("todo") /\ Rows' = [Rows EXCEPT ![m] = All("none")]
    BY <1>3, <2>1 DEF ForkJoin!Call, ForkJoin!Return, ForkJoin!Refuse, Rows
  <2>3. ASSUME NEW b \in Batches
        PROVE  /\ ForkJoin!Start(m, b) <=>
                    Rows[m][b] = "todo" /\ Rows' = [Rows EXCEPT ![m] = [Rows[m] EXCEPT ![b] = "running"]]
               /\ ForkJoin!Finish(m, b) <=>
                    Rows[m][b] = "running" /\ Rows' = [Rows EXCEPT ![m] = [Rows[m] EXCEPT ![b] = "finished"]]
    BY <2>1 DEF ForkJoin!Start, ForkJoin!Finish, Rows
  <2>4. CASE Row(m) = All("none") /\ Row(m)' = All("todo")
    BY <1>2, <2>2, <2>4
  <2>5. CASE Row(m) \in {All("finished"), All("todo")} /\ Row(m)' = All("none")
    BY <1>2, <2>2, <2>5
  <2>6. ASSUME NEW b \in Batches,
               \/ Row(m)[b] = "todo" /\ Row(m)' = [Row(m) EXCEPT ![b] = "running"]
               \/ Row(m)[b] = "running" /\ Row(m)' = [Row(m) EXCEPT ![b] = "finished"]
        PROVE  ForkJoin!Start(m, b) \/ ForkJoin!Finish(m, b)
    <3>1. CASE Row(m)[b] = "todo" /\ Row(m)' = [Row(m) EXCEPT ![b] = "running"]
      BY <1>2, <2>3, <3>1
    <3>2. CASE Row(m)[b] = "running" /\ Row(m)' = [Row(m) EXCEPT ![b] = "finished"]
      BY <1>2, <2>3, <3>2
    <3>3. QED BY <2>6, <3>1, <3>2
  <2>7. QED BY <2>4, <2>5, <2>6 DEF RowStep
<1>5. CASE Row(m)' = Row(m)
  BY <1>1, <1>5 DEF RowStep
<1>6. CASE Row(m)' # Row(m)
  BY <1>2, <1>4, <1>6 DEF ForkJoin!Next, Rows
<1>7. QED BY <1>5, <1>6

LEMMA RowsStep ==
    ASSUME Typed, Typed', IInv, IInv', [Next]_vars
    PROVE  [ForkJoin!Next]_Rows
<1>1. CASE Kept
  BY <1>1 DEF Kept, Rows, Row
<1>2. CASE \E m \in Jobs : RowStep(m)
  BY <1>2, RowStepIsNext
<1>3. Kept \/ \E m \in Jobs : RowStep(m)
  <2>1. CASE \E t \in Threads : Step(t)
    BY <2>1, StepRows
  <2>2. CASE UNCHANGED vars
    BY <2>2, StutterRows
  <2>3. QED BY <2>1, <2>2 DEF Next, Rest
<1>4. QED BY <1>1, <1>2, <1>3

LEMMA RowsInit == Init => ForkJoin!Init
<1> SUFFICES ASSUME Init PROVE ForkJoin!Init
  OBVIOUS
<1>1. \A j \in Jobs : Row(j) = All("none")
  BY NoRow DEF Init, Freed
<1>2. QED BY <1>1 DEF ForkJoin!Init, ForkJoin!All, All, Row

(* The scheduler implements fork and join, for any number of workers, jobs *)
(* and clients and whatever the functions call: a batch is started by one  *)
(* thread, once, and fly_parallel_for returns when all batches of its loop *)
(* have been finished, or with an error when none has been started.        *)
THEOREM SchedulerForksAndJoins ==
    ASSUME ~Recycle
    PROVE  Spec => ImplementsForkJoin
<1>1. Typed /\ IInv /\ (Typed /\ IInv)' /\ [Next]_vars => [ForkJoin!Next]_Rows
  BY RowsStep
<1>2. Spec => [](Typed /\ IInv)
  BY Invariant
<1>3. QED BY <1>1, <1>2, RowsInit, PTL DEF Spec, ImplementsForkJoin, ForkJoin!Spec, Rows

(* Only memory given out again while a thread still holds its address lets *)
(* fly_parallel_for go on early: with no such reuse and no failed          *)
(* allocation, the thread that takes its loop from the done list or frees  *)
(* it finds every batch claimed and none still running.                    *)
THEOREM NoReturnBeforeAllDone ==
    ASSUME ~Recycle, MaxFailures = 0
    PROVE  Spec => []NoEarlyReturn
<1>1. Typed /\ IInv => NoEarlyReturn
  <2>1. SUFFICES ASSUME Typed, IInv, NEW j \in Loops, Working(j, {"collect", "destroy"})
                 PROVE  job[j].execed = Batches /\ Holders(j) = {}
    BY DEF NoEarlyReturn
  <2>2. j \in Jobs /\ job[j].live /\ ~IsTask(j) /\ JobInv(j)
    BY <2>1 DEF Loops, Live, IInv
  <2>3. On(j, "collect") \/ On(j, "destroy")
    <3>1. Working(j, {"collect", "destroy"}) <=> \E pc \in {"collect", "destroy"} : On(j, pc)
      BY <2>1, OnIsWorking
    <3>2. QED BY <2>1, <3>1
  <2>4. ~Refused(j)
    <3>1. SUFFICES ASSUME Refused(j) PROVE FALSE
      OBVIOUS
    <3>2. HasWork(j)
      BY <2>2, <3>1, BatchFacts DEF Refused, Quiet, HasWork, Unclaimed
    <3>3. failures > 0
      BY <2>2, <3>1, <3>2 DEF JobInv, SeenFor, Refused
    <3>4. failures = 0
      BY <2>1 DEF Typed, DataOK
    <3>5. QED BY <3>3, <3>4
  <2>5. Finished(j)
    BY <2>2, <2>3, <2>4 DEF JobInv, DoneFor
  <2>6. Cardinality(Holders(j)) = 0
    BY <2>1, <2>2, <2>5, LoopDone DEF Finished
  <2>7. Holders(j) = {}
    BY <2>6, HoldersFinite, FS_EmptySet
  <2>8. job[j].execed = Batches
    BY <2>1, <2>2, <2>5, JobTypes DEF Finished, HasWork, Unclaimed, Typed
  <2>9. QED BY <2>7, <2>8
<1>2. QED BY <1>1, Invariant, PTL

------------------------------------------------------------------------------
(* No thread sleeps while there is work.  The turn of a worker's thread is *)
(* its frame in fly_schedule, or in the fly_sched_exec_job called there:   *)
(* all frames above belong to the user's function and to its calls.        *)
Turn(t) == stack[t][IF Len(stack[t]) = 1 THEN 1 ELSE Len(stack[t]) - 1]

LEMMA OneTwoMore == \A n \in Nat \ {0} : (n = 1 \/ n = 2 \/ n > 2) /\ (n < 3 \/ n > 2)
  OBVIOUS

LEMMA TurnFacts ==
    ASSUME StackOK, NEW t \in WThreads
    PROVE  /\ t \in Threads /\ t \notin Clients /\ Len(stack[t]) \in Nat \ {0}
           /\ Turn(t) \in FrameSet /\ FrameRight(Turn(t))
           /\ Len(stack[t]) = 1 => Turn(t) = Top(t) /\ Top(t).pc \in BasePlaces
           /\ Len(stack[t]) = 2 => Turn(t) = Top(t) /\ Top(t).pc \in Executing
           /\ Len(stack[t]) > 2 => /\ Turn(t) = stack[t][Len(stack[t]) - 1]
                                   /\ Turn(t).pc \in {"inc", "isdone"}
           /\ Top(t).pc \in {"ready", "running", "sleep"} => Len(stack[t]) = 1
           /\ Top(t).pc \in Executing => Len(stack[t]) > 1
           /\ Top(t).pc \in {"user", "addready", "help", "wait", "collect", "destroy"} =>
                  Len(stack[t]) > 2
<1> SUFFICES ASSUME NEW s, s = stack[t], NEW n, n = Len(s)
             PROVE  /\ t \in Threads /\ t \notin Clients /\ n \in Nat \ {0}
                    /\ Turn(t) \in FrameSet /\ FrameRight(Turn(t))
                    /\ n = 1 => Turn(t) = Top(t) /\ Top(t).pc \in BasePlaces
                    /\ n = 2 => Turn(t) = Top(t) /\ Top(t).pc \in Executing
                    /\ n > 2 => Turn(t) = s[n - 1] /\ Turn(t).pc \in {"inc", "isdone"}
                    /\ Top(t).pc \in {"ready", "running", "sleep"} => n = 1
                    /\ Top(t).pc \in Executing => n > 1
                    /\ Top(t).pc \in {"user", "addready", "help", "wait", "collect", "destroy"} =>
                           n > 2
  OBVIOUS
<1>1. /\ t \in Threads /\ t \notin Clients
  BY SchedAssumption DEF Threads
<1>2. n \in Nat \ {0} /\ Top(t) = s[1] /\ ShapeOf(t, s) /\ \A i \in 1..n : s[i] \in FrameSet
  <2>1. s \in Seq(FrameSet)
    BY <1>1, TopFacts
  <2>2. \A i \in 1..n : s[i] \in FrameSet
    BY <2>1, ElementOfSeq
  <2>3. QED BY <1>1, <2>2, TopFacts DEF StackOK
<1>3. /\ \A i \in 1..n : FrameRight(s[i])
      /\ \A i \in 1..(n - 1) : Above(s[i], s[i + 1])
      /\ s[n].pc \in BasePlaces
  BY <1>2 DEF ShapeOf, Bottom
<1>4. Turn(t) = s[IF n = 1 THEN 1 ELSE n - 1]
  BY DEF Turn
<1>5. CASE n = 1
  BY <1>1, <1>2, <1>3, <1>4, <1>5 DEF BasePlaces, Executing
<1>6. CASE n = 2
  <2>1. Above(s[1], s[2]) /\ s[2].pc \in BasePlaces /\ s[1] \in FrameSet /\ FrameRight(s[1])
    BY <1>2, <1>3, <1>6
  <2>2. s[1].pc \in Executing
    BY <2>1 DEF Above, BasePlaces
  <2>3. QED BY <1>1, <1>2, <1>4, <1>6, <2>1, <2>2 DEF Executing
<1>7. CASE n > 2
  <2>1. /\ n - 1 \in 1..n /\ n - 1 \in 1..(n - 1) /\ n - 2 \in 1..(n - 1)
        /\ 1 \in 1..(n - 1) /\ (n - 1) + 1 = n /\ (n - 2) + 1 = n - 1
    BY <1>2, <1>7
  <2>2. /\ Above(s[n - 1], s[n]) /\ Above(s[n - 2], s[n - 1]) /\ Above(s[1], s[1 + 1])
        /\ s[n - 1] \in FrameSet /\ FrameRight(s[n - 1])
    BY <1>2, <1>3, <2>1
  <2>3. s[n - 1].pc \in Executing
    BY <1>3, <2>2 DEF Above, BasePlaces
  <2>4. s[n - 1].pc \in {"inc", "isdone"}
    BY <2>2, <2>3 DEF Above, Executing
  <2>5. Top(t).pc \notin {"ready", "running", "sleep"}
    BY <1>2, <2>2 DEF Above, Executing, Called
  <2>6. QED BY <1>1, <1>2, <1>4, <1>7, <2>2, <2>4, <2>5
<1>8. n = 1 \/ n = 2 \/ n > 2
  BY <1>2, OneTwoMore
<1>9. QED BY <1>5, <1>6, <1>7, <1>8

------------------------------------------------------------------------------
(* What a step leaves of a job that is in use.                             *)
Framed(j) == \E f \in Frames : f.job = j
Undone(r) == r.type = "task" \/ Batches \ r.execed # {}
Claiming(t) == ExecBatch(t) /\ Unclaimed(MyJob(t)) # {}

LEMMA JobStays ==
    ASSUME Typed, IInv, ~Recycle, NEW t \in Threads, Step(t), NEW j \in Jobs,
           Framed(j) \/ j \in Live \/ j \in Range(task)
    PROVE  /\ job'[j].type = job[j].type
           /\ Undone(job[j]) => Undone(job'[j]) \/ Claiming(t)
           /\ Undone(job'[j]) => Undone(job[j]) \/ On(j, "destroy")
           /\ runs'[j][1] = 0 => runs[j][1] = 0 \/ On(j, "destroy")
           /\ \/ job'[j].live = job[j].live /\ job'[j].batches_done = job[j].batches_done
              \/ MyJob(t) = j /\ (At(t, "inc") \/ At(t, "destroy"))
              \/ IsTask(j)
<1> SUFFICES ASSUME NEW m, m = MyJob(t)
             PROVE  /\ job'[j].type = job[j].type
                    /\ Undone(job[j]) => Undone(job'[j]) \/ Claiming(t)
                    /\ Undone(job'[j]) => Undone(job[j]) \/ On(j, "destroy")
                    /\ runs'[j][1] = 0 => runs[j][1] = 0 \/ On(j, "destroy")
                    /\ \/ job'[j].live = job[j].live /\ job'[j].batches_done = job[j].batches_done
                       \/ m = j /\ (At(t, "inc") \/ At(t, "destroy"))
                       \/ IsTask(j)
  OBVIOUS
<1>1. /\ job \in [Jobs -> JobSet] /\ job[j] \in JobSet
      /\ runs \in [Jobs -> [Batches -> 0..2]] /\ 1 \in Batches /\ j \in Jobs
  BY BatchFacts DEF Typed, DataOK
<1>2. CASE job' = job /\ runs' = runs
  BY <1>2
<1>r. ASSUME NEW b \in Batches, m \in Jobs, runs' = [runs EXCEPT ![m][b] = Min({@ + 1, 2})]
      PROVE  runs'[j][1] = 0 => runs[j][1] = 0
  <2>0. DataOK
    BY DEF Typed
  <2>1. /\ runs'[m][b] = IF runs[m][b] = 0 THEN 1 ELSE 2
        /\ \A i \in Jobs, c \in Batches : i # m \/ c # b => runs'[i][c] = runs[i][c]
    <3>1. runs'[m][b] = IF runs[m][b] = 0 THEN 1 ELSE 2
      BY <1>r, <2>0, RunsTyped
    <3>2. \A i \in Jobs, c \in Batches : i # m \/ c # b => runs'[i][c] = runs[i][c]
      BY <1>r, <2>0, RunsTyped
    <3>3. QED BY <3>1, <3>2
  <2>2. CASE m = j /\ b = 1
    BY <2>1, <2>2
  <2>3. CASE ~(m = j /\ b = 1)
    BY <1>1, <2>1, <2>3
  <2>4. QED BY <2>2, <2>3
<1>3. ASSUME runs' = runs, NEW v, \/ job' = [job EXCEPT ![m].batches_done = v] /\ (IsTask(m) \/ At(t, "inc"))
                                  \/ job' = [job EXCEPT ![m].sem = v]
      PROVE  /\ job'[j].type = job[j].type /\ job'[j].execed = job[j].execed /\ job'[j].live = job[j].live
             /\ runs'[j] = runs[j]
             /\ job'[j].batches_done # job[j].batches_done => m = j /\ (IsTask(m) \/ At(t, "inc"))
  BY <1>1, <1>3 DEF JobSet
<1>4. CASE MoveToRunning(t)
  <2>1. CASE IsTask(m)
    BY <1>3, <1>4, <2>1 DEF MoveToRunning, Undone
  <2>2. CASE ~IsTask(m)
    BY <1>2, <1>4, <2>2 DEF MoveToRunning
  <2>3. QED BY <2>1, <2>2
<1>5. CASE ExecBatch(t)
  <2>1. CASE job' = job /\ runs' = runs
    BY <1>2, <2>1
  <2>2. CASE Unclaimed(m) # {}
    <3>1. m \in Jobs
      BY <1>5, MyJobIsJob DEF ExecBatch, At, Idle, Typed
    <3>2. PICK b \in Batches : /\ job' = [job EXCEPT ![m].execed = Claim(@, b)]
                               /\ runs' = [runs EXCEPT ![m][b] = Min({@ + 1, 2})]
      BY <1>5, <2>2, LeastUnclaimed DEF ExecBatch
    <3>3. /\ job'[j].type = job[j].type /\ job[j].execed \subseteq job'[j].execed
          /\ job'[j].live = job[j].live /\ job'[j].batches_done = job[j].batches_done
      BY <1>1, <3>2 DEF JobSet, Claim
    <3>4. runs'[j][1] = 0 => runs[j][1] = 0
      BY <1>r, <3>1, <3>2
    <3>5. QED BY <1>5, <2>2, <3>3, <3>4 DEF Undone, Claiming
  <2>3. QED BY <1>5, <2>1, <2>2 DEF ExecBatch
<1>6. CASE ExecTask(t)
  <2>1. m \in Jobs
    BY <1>6, MyJobIsJob DEF ExecTask, At, Idle, Typed
  <2>2. runs' = [runs EXCEPT ![m][1] = Min({@ + 1, 2})] /\ job' = job
    BY <1>6 DEF ExecTask
  <2>3. runs'[j][1] = 0 => runs[j][1] = 0
    BY <1>1, <1>r, <2>1, <2>2
  <2>4. QED BY <2>2, <2>3
<1>7. CASE Increment(t)
  BY <1>3, <1>7 DEF Increment, Undone
<1>8. CASE PostJob(t)
  BY <1>3, <1>8 DEF PostJob, Undone, IsTask
<1>9. CASE WaitJob(t)
  BY <1>3, <1>9 DEF WaitJob, Undone, IsTask
<1>10. CASE DestroyJob(t)
  <2>1. /\ job' = [job EXCEPT ![m] = [Freed EXCEPT !.type = job[m].type]] /\ At(t, "destroy")
        /\ runs' = [runs EXCEPT ![m] = [b \in Batches |-> 0]]
    BY <1>10 DEF DestroyJob
  <2>2. CASE m # j
    BY <1>1, <2>1, <2>2
  <2>3. CASE m = j
    <3>1. On(j, "destroy")
      BY <2>1, <2>3, OnTop DEF At, Typed
    <3>2. job'[j] = [Freed EXCEPT !.type = job[j].type]
      BY <1>1, <2>1, <2>3
    <3>3. job'[j].type = job[j].type /\ job'[j].execed = {}
      BY <3>2 DEF Freed
    <3>4. Undone(job'[j])
      BY <1>1, <3>3 DEF Undone
    <3>5. QED BY <2>1, <2>3, <3>1, <3>3, <3>4
  <2>4. QED BY <2>2, <2>3
<1>11. ASSUME NEW i \in Jobs, NEW v, Fresh(i), job' = [job EXCEPT ![i] = v]
       PROVE  job'[j] = job[j]
  <2>1. i # j
    BY <1>11 DEF Fresh, Framed, Live
  <2>2. QED BY <1>1, <1>11, <2>1
<1>12. CASE ParallelFor(t)
  BY <1>11, <1>12 DEF ParallelFor
<1>13. CASE PushTask(t)
  BY <1>11, <1>13 DEF PushTask
<1>14. QED
  BY <1>2, <1>4, <1>5, <1>6, <1>7, <1>8, <1>9, <1>10, <1>12, <1>13
     DEF Step, GetReady, GetRunning, Sleep, Notify, FunReturns, CheckDone, RemoveRunning,
         MoveToDone, CreateFails, WaitTask, AddToReady, Help, Collect

------------------------------------------------------------------------------
(* What holds of frame i of the n of a thread, given the jobs: who is idle *)
(* is on top, only a loop is listed by the thread that created it, and     *)
(* where no function calls fly_wait_task a worker waits only for a loop    *)
(* that it ran.                                                            *)
Ending        == {"isdone", "unlist", "todone", "post"}
NoWaits(code) == \A i \in 1..Len(code) : code[i][1] # "wait"
BodiesWaitForNone == \A f \in Funs : NoWaits(Body[f])
Awaited(r)    == r.live /\ r.type = "pfor" /\ r.batches_done = Cardinality(Batches)
Good(J, t, f, i, n) ==
    /\ f.idle => i = 1 /\ f.pc \in Ending
    /\ i # 1 /\ f.pc = "isdone" => J[f.job].type = "task"
    /\ i # n /\ f.pc = "move" => J[f.job].type = "pfor"
    /\ t \in WThreads => /\ f.pc = "user" => NoWaits(f.code)
                         /\ f.pc = "wait" => Awaited(J[f.job])
FramesGood == \A t \in Threads : \A i \in 1..Len(stack[t]) :
                  Good(job, t, stack[t][i], i, Len(stack[t]))

(* A loop has one caller, and task->sched_data is a task.                  *)
Owns(t, j) == \E i \in 1..(Len(stack[t]) - 1) : stack[t][i].job = j /\ stack[t][i].pc \in Called
OneOwner   == \A j \in Live : ~IsTask(j) =>
                  \A t, u \in Threads : Owns(t, j) /\ Owns(u, j) => t = u
TasksAreTasks == \A f \in Funs : task[f] # NoJob => IsTask(task[f])

(* The frames a step leaves on the stack of t: new ones, and old ones that *)
(* were under the top.  Code that a turn's function calls leaves the turn. *)
Newcomer(t, f, i, n) ==
    /\ Good(job', t, f, i, n)
    /\ f.pc \in Called /\ i # n =>
           Owns(t, f.job) \/ job'[f.job].type = "task" \/ ~Framed(f.job)
Came(t) ==
    /\ \A u \in Threads : u # t => stack'[u] = stack[u]
    /\ Len(stack[t]) > 2 => Turn(t)' = Turn(t)
    /\ \A i \in 1..Len(stack'[t]) :
           \/ Newcomer(t, stack'[t][i], i, Len(stack'[t]))
           \/ \E k \in 2..Len(stack[t]) :
                 /\ stack'[t][i] = stack[t][k]
                 /\ k = Len(stack[t]) <=> i = Len(stack'[t])

LEMMA FramedBy ==
    ASSUME Typed, NEW u \in Threads, NEW i \in 1..Len(stack[u])
    PROVE  /\ Framed(stack[u][i].job) /\ stack[u][i] \in FrameSet /\ FrameRight(stack[u][i])
           /\ stack[u][i].pc \notin Idle => stack[u][i].job \in Jobs
           /\ stack[u][i].pc = "wait" => i = 1
<1> SUFFICES ASSUME NEW s, s = stack[u], NEW n, n = Len(s)
             PROVE  /\ Framed(s[i].job) /\ s[i] \in FrameSet /\ FrameRight(s[i])
                    /\ s[i].pc \notin Idle => s[i].job \in Jobs
                    /\ s[i].pc = "wait" => i = 1
  OBVIOUS
<1>1. s \in Seq(FrameSet) \ {<<>>} /\ n \in Nat \ {0} /\ ShapeOf(u, s)
  BY TopFacts DEF Typed, StackOK
<1>2. s[i] \in FrameSet
  BY <1>1, ElementOfSeq
<1>3. FrameRight(s[i])
  BY <1>1 DEF ShapeOf
<1>4. Framed(s[i].job)
  <2>1. DOMAIN s = 1..Len(s)
    BY <1>1, LenProperties
  <2>2. s[i] \in FramesOf(u)
    BY <2>1 DEF FramesOf, ToSet
  <2>3. QED BY <2>2 DEF Framed, Frames
<1>5. ASSUME s[i].pc = "wait", i # 1 PROVE FALSE
  <2>1. i - 1 \in 1..(n - 1) /\ (i - 1) + 1 = i
    BY <1>1, <1>5
  <2>2. Above(s[i - 1], s[i])
    BY <1>1, <2>1 DEF ShapeOf
  <2>3. QED BY <1>5, <2>2 DEF Above
<1>6. s[i].pc \notin Idle => s[i].job \in Jobs
  BY <1>2, <1>3 DEF FrameSet, FrameRight
<1>7. QED BY <1>2, <1>3, <1>4, <1>5, <1>6

LEMMA OwnsFramed ==
    ASSUME Typed, NEW u \in Threads, NEW j, Owns(u, j)
    PROVE  Framed(j)
<1>1. PICK i \in 1..(Len(stack[u]) - 1) : stack[u][i].job = j
  BY DEF Owns
<1>2. i \in 1..Len(stack[u])
  BY <1>1, TopFacts DEF Typed
<1>3. QED BY <1>1, <1>2, FramedBy

LEMMA OwnsTop ==
    ASSUME Typed, NEW u \in Threads, Top(u).pc \in Called, Len(stack[u]) > 1
    PROVE  Owns(u, MyJob(u))
<1>1. Len(stack[u]) \in Nat /\ Top(u) = stack[u][1]
  BY TopFacts DEF Typed
<1>2. 1 \in 1..(Len(stack[u]) - 1)
  BY <1>1
<1>3. QED BY <1>1, <1>2 DEF Owns, MyJob

(* A frame that stays on its stack stays good: nobody frees or counts the  *)
(* loop a worker waits for.                                                *)
LEMMA GoodStays ==
    ASSUME Typed, IInv, ~Recycle, FramesGood, OneOwner, NEW t \in Threads, Step(t),
           NEW u \in Threads, NEW i \in 1..Len(stack[u]), u = t => i # 1
    PROVE  Good(job', u, stack[u][i], i, Len(stack[u]))
<1> SUFFICES ASSUME NEW f, f = stack[u][i], NEW m, m = f.job
             PROVE  Good(job', u, f, i, Len(stack[u]))
  OBVIOUS
<1>1. /\ Framed(m) /\ f \in FrameSet /\ FrameRight(f)
      /\ f.pc \notin Idle => m \in Jobs
      /\ f.pc = "wait" => i = 1
  BY FramedBy
<1>2. Good(job, u, f, i, Len(stack[u]))
  BY DEF FramesGood
<1>3. m \in Jobs => job'[m].type = job[m].type
  BY <1>1, JobStays
<1>4. ASSUME u \in WThreads, f.pc = "wait" PROVE Awaited(job'[m])
  <2>1. /\ i = 1 /\ u # t /\ m \in Jobs /\ Awaited(job[m])
        /\ Top(u).pc = "wait" /\ MyJob(u) = m
    BY <1>1, <1>2, <1>4, TopFacts DEF Good, Idle, Typed, MyJob
  <2>2. job[m].live /\ ~IsTask(m) /\ IsDone(m) /\ m \in Live /\ JobInv(m)
    BY <2>1 DEF Awaited, IsTask, IsDone, NbBatches, Live, IInv
  <2>3. ASSUME At(t, "inc"), MyJob(t) = m PROVE FALSE
    <3>1. Top(t).batch # 0 /\ Top(t) \in FrameSet /\ t \notin Clients /\ Top(t) = stack[t][1]
          /\ Len(stack[t]) \in Nat \ {0}
      BY <2>3, TopFacts DEF At, Typed, FrameRight, ClientPlaces
    <3>2. Top(t).batch \in Batches /\ t \in WThreads /\ 1 \in 1..Len(stack[t])
      BY <3>1 DEF FrameSet, Threads
    <3>3. Holds(t, m, Top(t).batch)
      BY <2>3, <3>1, <3>2, HoldsIn DEF Typed, MyJob
    <3>4. <<t, Top(t).batch>> \in Holders(m)
      BY <3>2, <3>3 DEF Holders
    <3>5. IsFiniteSet(Holders(m)) /\ Cardinality(Holders(m)) = 0
      BY <2>1, <2>2, HoldersFinite, LoopDone
    <3>6. QED BY <3>4, <3>5, FS_EmptySet
  <2>4. ASSUME At(t, "destroy"), MyJob(t) = m PROVE FALSE
    <3>1. Owns(t, m)
      BY <2>4, OwnsTop, NotAtBottom DEF At, BasePlaces, Called, Typed
    <3>2. Owns(u, m)
      BY <2>1, OwnsTop, NotAtBottom DEF BasePlaces, Called, Typed
    <3>3. QED BY <2>1, <2>2, <3>1, <3>2 DEF OneOwner
  <2>5. job'[m].live = job[m].live /\ job'[m].batches_done = job[m].batches_done
    BY <1>1, <2>1, <2>2, <2>3, <2>4, JobStays
  <2>6. QED BY <1>3, <2>1, <2>5 DEF Awaited
<1>5. QED BY <1>1, <1>2, <1>3, <1>4 DEF Good, Idle

LEMMA CameGood ==
    ASSUME Typed, Typed', IInv, ~Recycle, FramesGood, OneOwner, NEW t \in Threads, Step(t), Came(t)
    PROVE  FramesGood'
<1>1. SUFFICES ASSUME NEW u \in Threads, NEW i \in 1..Len(stack'[u])
               PROVE  Good(job', u, stack'[u][i], i, Len(stack'[u]))
  BY DEF FramesGood
<1>2. CASE u # t
  BY <1>2, GoodStays DEF Came
<1>3. CASE u = t
  <2>1. CASE Newcomer(t, stack'[t][i], i, Len(stack'[t]))
    BY <1>3, <2>1 DEF Newcomer
  <2>2. ASSUME NEW k \in 2..Len(stack[t]), stack'[t][i] = stack[t][k],
               k = Len(stack[t]) <=> i = Len(stack'[t])
        PROVE  Good(job', u, stack'[u][i], i, Len(stack'[u]))
    <3>1. k \in 1..Len(stack[t]) /\ k # 1
      BY TopFacts DEF Typed
    <3>2. Good(job', t, stack[t][k], k, Len(stack[t]))
      BY <3>1, GoodStays
    <3>3. QED BY <1>3, <2>2, <3>1, <3>2 DEF Good
  <2>3. QED BY <1>3, <2>1, <2>2 DEF Came
<1>4. QED BY <1>2, <1>3

LEMMA CameOwner ==
    ASSUME Typed, Typed', IInv, ~Recycle, OneOwner, NEW t \in Threads, Step(t), Came(t)
    PROVE  OneOwner'
<1>1. ASSUME NEW j, Owns(t, j)'
      PROVE  Owns(t, j) \/ job'[j].type = "task" \/ ~Framed(j)
  <2>1. PICK i \in 1..(Len(stack'[t]) - 1) : stack'[t][i].job = j /\ stack'[t][i].pc \in Called
    BY <1>1 DEF Owns
  <2>2. i \in 1..Len(stack'[t]) /\ i # Len(stack'[t])
    BY <2>1, TopFacts, LenProperties DEF Typed, StackOK, Stacks
  <2>3. CASE Newcomer(t, stack'[t][i], i, Len(stack'[t]))
    BY <2>1, <2>2, <2>3 DEF Newcomer
  <2>4. ASSUME NEW k \in 2..Len(stack[t]), stack'[t][i] = stack[t][k],
               k = Len(stack[t]) <=> i = Len(stack'[t])
        PROVE  Owns(t, j)
    <3>1. k \in 1..(Len(stack[t]) - 1)
      BY <2>2, <2>4, TopFacts DEF Typed
    <3>2. QED BY <2>1, <2>4, <3>1 DEF Owns
  <2>5. QED BY <2>2, <2>3, <2>4 DEF Came
<1>2. ASSUME NEW j, NEW u \in Threads, u # t, Owns(u, j)'
      PROVE  Owns(u, j)
  BY <1>2 DEF Came, Owns
<1>3. SUFFICES ASSUME NEW j \in Jobs, job'[j].live, job'[j].type # "task",
                      NEW u \in Threads, NEW v \in Threads, Owns(u, j)', Owns(v, j)', u # v
               PROVE  FALSE
  BY DEF OneOwner, Live, IsTask
<1>4. Framed(j)
  BY <1>2, <1>3, OwnsFramed
<1>5. Owns(u, j) /\ Owns(v, j)
  BY <1>1, <1>2, <1>3, <1>4
<1>6. j \in Live
  <2>1. j \in Live'
    BY <1>3 DEF Live
  <2>2. QED BY <1>4, <2>1, LiveStep DEF Framed
<1>7. ~IsTask(j)
  BY <1>3, <1>4, JobStays DEF IsTask
<1>8. QED BY <1>3, <1>5, <1>6, <1>7 DEF OneOwner

------------------------------------------------------------------------------
(* The ways in which a stack changes, as far as the turn is concerned.     *)
LEMMA BecomeStack ==
    ASSUME Typed, NEW t \in Threads, NEW f \in FrameSet, Become(t, f)
    PROVE  /\ \A u \in Threads : u # t => stack'[u] = stack[u]
           /\ Len(stack'[t]) = Len(stack[t]) /\ stack'[t][1] = f
           /\ \A i \in 2..Len(stack[t]) : stack'[t][i] = stack[t][i]
           /\ Turn(t)' = IF Len(stack[t]) < 3 THEN f ELSE Turn(t)
<1> DEFINE s == stack[t]
           r == <<f>> \o Tail(s)
<1>1. s \in Seq(FrameSet) \ {<<>>} /\ Len(s) \in Nat \ {0}
  BY TopFacts DEF Typed
<1>2. stack'[t] = r /\ \A u \in Threads : u # t => stack'[u] = stack[u]
  BY DEF Become, Typed, StackOK, Stacks
<1> HIDE DEF s
<1>3. Len(r) = Len(s) /\ r[1] = f /\ \A i \in 2..Len(s) : r[i] = s[i]
  BY <1>1, Replaced
<1> HIDE DEF r
<1>4. Turn(t)' = r[IF Len(r) = 1 THEN 1 ELSE Len(r) - 1]
  BY <1>2 DEF Turn
<1>5. Turn(t) = s[IF Len(s) = 1 THEN 1 ELSE Len(s) - 1]
  BY DEF Turn, s
<1>6. Turn(t)' = IF Len(s) < 3 THEN f ELSE Turn(t)
  BY <1>1, <1>3, <1>4, <1>5
<1>7. QED BY <1>2, <1>3, <1>6 DEF s

LEMMA PushStack ==
    ASSUME Typed, NEW t \in Threads, NEW f \in FrameSet, NEW g \in FrameSet, PushOn(t, f, g)
    PROVE  /\ \A u \in Threads : u # t => stack'[u] = stack[u]
           /\ Len(stack'[t]) = Len(stack[t]) + 1 /\ stack'[t][1] = f /\ stack'[t][2] = g
           /\ \A i \in 3..Len(stack[t]) + 1 : stack'[t][i] = stack[t][i - 1]
           /\ Turn(t)' = IF Len(stack[t]) = 1 THEN f ELSE IF Len(stack[t]) = 2 THEN g ELSE Turn(t)
<1> DEFINE s == stack[t]
           r == <<f, g>> \o Tail(s)
<1>1. s \in Seq(FrameSet) \ {<<>>} /\ Len(s) \in Nat \ {0}
  BY TopFacts DEF Typed
<1>2. stack'[t] = r /\ \A u \in Threads : u # t => stack'[u] = stack[u]
  BY DEF PushOn, Typed, StackOK, Stacks
<1> HIDE DEF s
<1>3. /\ Len(r) = Len(s) + 1 /\ r[1] = f /\ r[2] = g
      /\ \A i \in 3..Len(s) + 1 : r[i] = s[i - 1]
  BY <1>1, Pushed
<1> HIDE DEF r
<1>4. Turn(t)' = r[IF Len(r) = 1 THEN 1 ELSE Len(r) - 1]
  BY <1>2 DEF Turn
<1>5. Turn(t) = s[IF Len(s) = 1 THEN 1 ELSE Len(s) - 1]
  BY DEF Turn, s
<1>6. Turn(t)' = IF Len(s) = 1 THEN f ELSE IF Len(s) = 2 THEN g ELSE Turn(t)
  <2>1. CASE Len(s) = 1
    BY <1>3, <1>4, <2>1
  <2>2. CASE Len(s) = 2
    BY <1>3, <1>4, <2>2
  <2>3. CASE Len(s) > 2
    <3>1. /\ Len(r) # 1 /\ Len(s) # 1 /\ Len(s) # 2 /\ Len(r) - 1 \in 3..Len(s) + 1
          /\ (Len(r) - 1) - 1 = Len(s) - 1
      BY <1>1, <1>3, <2>3
    <3>2. r[Len(r) - 1] = s[Len(s) - 1]
      BY <1>3, <3>1
    <3>3. QED BY <1>4, <1>5, <3>1, <3>2
  <2>4. QED BY <1>1, <2>1, <2>2, <2>3, OneTwoMore
<1>7. QED BY <1>2, <1>3, <1>6 DEF s

LEMMA LeaveStack ==
    ASSUME Typed, NEW t \in Threads, Len(stack[t]) > 1, Leave(t)
    PROVE  /\ \A u \in Threads : u # t => stack'[u] = stack[u]
           /\ Len(stack'[t]) = Len(stack[t]) - 1
           /\ \A i \in 1..Len(stack[t]) - 1 : stack'[t][i] = stack[t][i + 1]
           /\ Len(stack[t]) > 2 => Turn(t)' = Turn(t)
<1> DEFINE s == stack[t]
           r == Tail(s)
<1>1. s \in Seq(FrameSet) /\ Len(s) \in Nat \ {0} /\ Len(s) > 1
  BY TopFacts DEF Typed
<1>2. stack'[t] = r /\ \A u \in Threads : u # t => stack'[u] = stack[u]
  BY DEF Leave, Typed, StackOK, Stacks
<1> HIDE DEF s
<1>3. Len(r) = Len(s) - 1 /\ \A i \in 1..Len(s) - 1 : r[i] = s[i + 1]
  BY <1>1, Popped
<1> HIDE DEF r
<1>4. Turn(t)' = r[IF Len(r) = 1 THEN 1 ELSE Len(r) - 1]
  BY <1>2 DEF Turn
<1>5. Turn(t) = s[IF Len(s) = 1 THEN 1 ELSE Len(s) - 1]
  BY DEF Turn, s
<1>6. ASSUME Len(s) > 2 PROVE Turn(t)' = Turn(t)
  <2>1. /\ Len(r) # 1 /\ Len(s) # 1 /\ Len(r) - 1 \in 1..Len(s) - 1
        /\ (Len(r) - 1) + 1 = Len(s) - 1
    BY <1>1, <1>3, <1>6
  <2>2. r[Len(r) - 1] = s[Len(s) - 1]
    BY <1>3, <2>1
  <2>3. QED BY <1>4, <1>5, <2>1, <2>2
<1>7. QED BY <1>2, <1>3, <1>6 DEF s

LEMMA BecomeCame ==
    ASSUME Typed, NEW t \in Threads, NEW f \in FrameSet, Become(t, f),
           Newcomer(t, f, 1, Len(stack[t]))
    PROVE  Came(t)
<1>1. /\ \A u \in Threads : u # t => stack'[u] = stack[u]
      /\ Len(stack'[t]) = Len(stack[t]) /\ stack'[t][1] = f
      /\ \A i \in 2..Len(stack[t]) : stack'[t][i] = stack[t][i]
      /\ Len(stack[t]) \in Nat \ {0}
  BY BecomeStack, TopFacts DEF Typed
<1>t. Len(stack[t]) > 2 => Turn(t)' = Turn(t)
  BY <1>1, BecomeStack
<1>2. ASSUME NEW i \in 1..Len(stack'[t]), i # 1
      PROVE  \E k \in 2..Len(stack[t]) : /\ stack'[t][i] = stack[t][k]
                                        /\ k = Len(stack[t]) <=> i = Len(stack'[t])
  BY <1>1, <1>2
<1>3. Newcomer(t, stack'[t][1], 1, Len(stack'[t]))
  BY <1>1
<1>4. QED BY <1>1, <1>t, <1>2, <1>3 DEF Came

LEMMA PushCame ==
    ASSUME Typed, NEW t \in Threads, NEW f \in FrameSet, NEW g \in FrameSet, PushOn(t, f, g),
           Newcomer(t, f, 1, Len(stack[t]) + 1), Newcomer(t, g, 2, Len(stack[t]) + 1)
    PROVE  Came(t)
<1>1. /\ \A u \in Threads : u # t => stack'[u] = stack[u]
      /\ Len(stack'[t]) = Len(stack[t]) + 1 /\ stack'[t][1] = f /\ stack'[t][2] = g
      /\ \A i \in 3..Len(stack[t]) + 1 : stack'[t][i] = stack[t][i - 1]
      /\ Len(stack[t]) \in Nat \ {0}
  BY PushStack, TopFacts DEF Typed
<1>t. Len(stack[t]) > 2 => Turn(t)' = Turn(t)
  BY <1>1, PushStack
<1>2. ASSUME NEW i \in 1..Len(stack'[t]), i # 1, i # 2
      PROVE  \E k \in 2..Len(stack[t]) : /\ stack'[t][i] = stack[t][k]
                                        /\ k = Len(stack[t]) <=> i = Len(stack'[t])
  <2>1. /\ i - 1 \in 2..Len(stack[t]) /\ stack'[t][i] = stack[t][i - 1]
        /\ i - 1 = Len(stack[t]) <=> i = Len(stack'[t])
    BY <1>1, <1>2
  <2>2. QED BY <2>1
<1>3. Newcomer(t, stack'[t][1], 1, Len(stack'[t])) /\ Newcomer(t, stack'[t][2], 2, Len(stack'[t]))
  BY <1>1
<1>4. QED BY <1>1, <1>t, <1>2, <1>3 DEF Came

LEMMA LeaveCame ==
    ASSUME Typed, NEW t \in Threads, Len(stack[t]) > 1, Leave(t)
    PROVE  Came(t)
<1>1. /\ \A u \in Threads : u # t => stack'[u] = stack[u]
      /\ Len(stack'[t]) = Len(stack[t]) - 1
      /\ \A i \in 1..Len(stack[t]) - 1 : stack'[t][i] = stack[t][i + 1]
      /\ Len(stack[t]) \in Nat \ {0}
  BY LeaveStack, TopFacts DEF Typed
<1>t. Len(stack[t]) > 2 => Turn(t)' = Turn(t)
  BY LeaveStack
<1>2. ASSUME NEW i \in 1..Len(stack'[t])
      PROVE  \E k \in 2..Len(stack[t]) : /\ stack'[t][i] = stack[t][k]
                                        /\ k = Len(stack[t]) <=> i = Len(stack'[t])
  <2>1. /\ i + 1 \in 2..Len(stack[t]) /\ stack'[t][i] = stack[t][i + 1]
        /\ i + 1 = Len(stack[t]) <=> i = Len(stack'[t])
    BY <1>1, <1>2
  <2>2. QED BY <2>1
<1>3. QED BY <1>1, <1>t, <1>2 DEF Came

(* A thread that goes on to another place with the same job.               *)
LEMMA GoToCame ==
    ASSUME Typed, FramesGood, NEW t \in Threads, NEW m, m = MyJob(t), NEW pc, GoTo(t, pc),
           \/ Top(t).pc \in Ending /\ pc \in Ending
           \/ Top(t).pc \in Called /\ pc \in Called \ {"move"},
           t \in WThreads /\ pc = "wait" => Awaited(job'[m])
    PROVE  /\ Came(t)
           /\ Len(stack[t]) < 3 => /\ Turn(t)'.pc = pc /\ Turn(t)'.job = m
                                   /\ Turn(t)'.idle = Top(t).idle
<1> DEFINE g == [Top(t) EXCEPT !.pc = pc]
<1>1. /\ Top(t) \in FrameSet /\ FrameRight(Top(t)) /\ Top(t) = stack[t][1]
      /\ Len(stack[t]) \in Nat \ {0} /\ Top(t).pc \notin Idle \cup {"inc"}
      /\ pc \in Places \ (Idle \cup {"inc"}) /\ pc \in Places \ Idle /\ pc # "inc" /\ pc \in Places
  BY TopFacts DEF Typed, Ending, Called, Idle, Places
<1>2. Become(t, g)
  BY <1>1, GoToBecomes DEF Typed
<1>3. g \in FrameSet /\ g.pc = pc /\ g.job = m /\ g.idle = Top(t).idle
  BY <1>1, MovedFrame DEF MyJob
<1> HIDE DEF g
<1>4. Good(job, t, Top(t), 1, Len(stack[t]))
  BY <1>1 DEF FramesGood
<1>5. Good(job', t, g, 1, Len(stack[t]))
  <2>1. g.idle => g.pc \in Ending
    BY <1>3, <1>4 DEF Good, Ending, Called
  <2>2. pc # "move" /\ pc # "user"
    BY DEF Ending, Called
  <2>3. QED BY <1>3, <2>1, <2>2 DEF Good
<1>6. g.pc \in Called /\ 1 # Len(stack[t]) => Owns(t, g.job)
  <2>1. SUFFICES ASSUME pc \in Called, 1 # Len(stack[t]) PROVE Owns(t, m)
    BY <1>3
  <2>2. Top(t).pc \in Called
    BY <2>1 DEF Ending, Called
  <2>3. Len(stack[t]) > 1
    BY <1>1, <2>1, OneOrMore
  <2>4. QED BY <2>2, <2>3, OwnsTop
<1>7. Came(t)
  BY <1>2, <1>3, <1>5, <1>6, BecomeCame DEF Newcomer
<1>8. Len(stack[t]) < 3 => Turn(t)' = g
  BY <1>2, <1>3, BecomeStack
<1>9. QED BY <1>3, <1>7, <1>8

LEMMA IdleCame ==
    ASSUME Typed, FramesGood, NEW t \in Threads, NEW pc \in {"ready", "running", "sleep"}, GoTo(t, pc),
           Top(t).pc \in {"ready", "running", "sleep"}
    PROVE  /\ Came(t)
           /\ t \in WThreads => Turn(t)'.pc = pc
<1> DEFINE g == [Top(t) EXCEPT !.pc = pc]
<1>1. /\ Top(t) \in FrameSet /\ FrameRight(Top(t)) /\ Top(t) = stack[t][1]
      /\ Len(stack[t]) \in Nat \ {0} /\ Top(t).pc \in Idle /\ pc \in Idle /\ pc \in Places
  BY TopFacts DEF Typed, Idle, Places
<1>2. Become(t, g)
  BY <1>1, GoToBecomes DEF Typed
<1>3. g \in FrameSet /\ g.pc = pc
  BY <1>1, MovedIdleFrame
<1>4. g.idle = Top(t).idle
  BY <1>1 DEF FrameSet
<1> HIDE DEF g
<1>5. Good(job, t, Top(t), 1, Len(stack[t]))
  BY <1>1 DEF FramesGood
<1>6. Good(job', t, g, 1, Len(stack[t])) /\ g.pc \notin Called
  BY <1>3, <1>4, <1>5 DEF Good, Ending, Called
<1>7. t \in WThreads => Turn(t)'.pc = pc
  <2>1. t \in WThreads => Len(stack[t]) = 1
    BY TurnFacts DEF Typed
  <2>2. QED BY <1>2, <1>3, <2>1, BecomeStack
<1>8. QED BY <1>2, <1>3, <1>6, <1>7, BecomeCame DEF Newcomer

(* Into fly_sched_exec_job.                                                *)
LEMMA ExecCame ==
    ASSUME Typed, FramesGood, NEW t \in Threads, NEW m \in Jobs, NEW f \in FrameSet, Exec(t, m, f),
           \/ f = Frame("schedule", m)
           \/ f = Top(t) /\ Top(t).pc = "help"
    PROVE  /\ Came(t)
           /\ Len(stack[t]) = 1 => Turn(t)' = Frame("exec", m)
<1> DEFINE e == Frame("exec", m)
<1>1. /\ Top(t) \in FrameSet /\ Top(t) = stack[t][1] /\ Len(stack[t]) \in Nat \ {0}
  BY TopFacts DEF Typed
<1>2. e \in FrameSet /\ e.pc = "exec" /\ e.idle = FALSE
  BY JobFrame DEF Places, Idle
<1>3. PushOn(t, e, f)
  BY DEF Exec, PushOn
<1> HIDE DEF e
<1>4. Good(job, t, Top(t), 1, Len(stack[t]))
  BY <1>1 DEF FramesGood
<1>5. Good(job', t, f, 2, Len(stack[t]) + 1) /\ Good(job', t, e, 1, Len(stack[t]) + 1)
  <2>1. f.pc \in {"schedule", "help"} /\ f.idle = FALSE
    <3>1. CASE f = Frame("schedule", m)
      BY <3>1, JobFrame DEF Places, Idle
    <3>2. CASE f = Top(t) /\ Top(t).pc = "help"
      BY <1>1, <1>4, <3>2 DEF Good, Ending, FrameSet
    <3>3. QED BY <3>1, <3>2
  <2>2. QED BY <1>2, <2>1 DEF Good
<1>6. ASSUME f.pc \in Called, 2 # Len(stack[t]) + 1 PROVE Owns(t, f.job)
  <2>1. ASSUME Len(stack[t]) = 1 PROVE FALSE
    <3>1. Len(stack[t]) + 1 = 2
      BY <2>1
    <3>2. QED BY <1>6, <3>1
  <2>2. Len(stack[t]) > 1
    BY <1>1, <2>1, OneOrMore
  <2>3. Frame("schedule", m).pc = "schedule"
    BY DEF Frame
  <2>4. f = Top(t) /\ Top(t).pc \in Called
    BY <1>6, <2>3 DEF Called
  <2>5. Owns(t, MyJob(t))
    BY <2>2, <2>4, OwnsTop
  <2>6. QED BY <2>4, <2>5 DEF MyJob
<1>7. e.pc \notin Called
  BY <1>2 DEF Called
<1>8. Came(t)
  BY <1>2, <1>3, <1>5, <1>6, <1>7, PushCame DEF Newcomer
<1>9. Len(stack[t]) = 1 => Turn(t)' = e
  BY <1>2, <1>3, PushStack
<1>10. QED BY <1>8, <1>9 DEF e

(* A call of the library, from a function that makes more calls.           *)
LEMMA RestWaits ==
    ASSUME Typed, FramesGood, NEW t \in Threads, At(t, "user"), Top(t).code # <<>>,
           NEW i, NEW n
    PROVE  Good(job', t, UserCode(Tail(Top(t).code)), i, n)
<1> DEFINE f == UserCode(Tail(Top(t).code))
<1>1. /\ Top(t) \in FrameSet /\ Top(t) = stack[t][1] /\ Len(stack[t]) \in Nat \ {0}
  BY TopFacts DEF Typed
<1>2. f.pc = "user" /\ f.idle = FALSE /\ f.code = Tail(Top(t).code)
  BY DEF UserCode, Frame
<1> HIDE DEF f
<1>3. Good(job, t, Top(t), 1, Len(stack[t]))
  BY <1>1 DEF FramesGood
<1>4. ASSUME t \in WThreads PROVE NoWaits(f.code)
  <2> SUFFICES ASSUME NEW c, c = Top(t).code PROVE NoWaits(Tail(c))
    BY <1>2
  <2>1. c \in Seq(Calls) /\ c # <<>> /\ NoWaits(c)
    BY <1>1, <1>3, <1>4 DEF FrameSet, Good, At
  <2>2. Len(Tail(c)) = Len(c) - 1 /\ Len(c) \in Nat /\ \A k \in 1..Len(Tail(c)) : Tail(c)[k] = c[k + 1]
    BY <2>1, HeadTailProperties, LenProperties
  <2>3. SUFFICES ASSUME NEW k \in 1..Len(Tail(c)) PROVE Tail(c)[k][1] # "wait"
    BY DEF NoWaits
  <2>4. k + 1 \in 1..Len(c)
    BY <2>2
  <2>5. QED BY <2>1, <2>2, <2>4 DEF NoWaits
<1>5. Good(job', t, f, i, n)
  BY <1>2, <1>4 DEF Good
<1>6. QED BY <1>5 DEF f

LEMMA EnterCame ==
    ASSUME Typed, FramesGood, NEW t \in Threads, At(t, "user"), Top(t).code # <<>>,
           NEW j \in Jobs, NEW pc \in Called, Enter(t, Frame(pc, j)),
           pc = "move" => job'[j].type = "pfor",
           pc = "wait" => t \notin WThreads,
           job'[j].type = "task" \/ ~Framed(j)
    PROVE  Came(t)
<1> DEFINE f == UserCode(Tail(Top(t).code))
           e == Frame(pc, j)
<1>1. f \in FrameSet /\ f.pc = "user"
  BY RestOfCode
<1>2. e \in FrameSet /\ e.pc = pc /\ e.job = j /\ e.idle = FALSE
  <2>1. pc \in Places \ (Idle \cup {"inc"})
    BY DEF Called, Places, Idle
  <2>2. QED BY <2>1, JobFrame
<1>3. PushOn(t, e, f)
  BY DEF Enter, PushOn
<1>4. Good(job', t, f, 2, Len(stack[t]) + 1)
  BY RestWaits
<1> HIDE DEF e, f
<1>5. Good(job', t, e, 1, Len(stack[t]) + 1)
  BY <1>2 DEF Good, Called
<1>6. f.pc \notin Called
  BY <1>1 DEF Called
<1>7. QED BY <1>1, <1>2, <1>3, <1>4, <1>5, <1>6, PushCame DEF Newcomer

LEMMA ReturnCame ==
    ASSUME Typed, FramesGood, NEW t \in Threads, At(t, "user"), Top(t).code # <<>>,
           Become(t, UserCode(Tail(Top(t).code)))
    PROVE  Came(t)
<1> DEFINE f == UserCode(Tail(Top(t).code))
<1>1. f \in FrameSet /\ f.pc = "user" /\ Become(t, f)
  BY RestOfCode
<1>2. Good(job', t, f, 1, Len(stack[t]))
  BY RestWaits
<1> HIDE DEF f
<1>3. QED BY <1>1, <1>2, BecomeCame DEF Newcomer, Called

(* Out of fly_sched_exec_job: back to fly_schedule at the bottom.          *)
LEMMA ExecutedCame ==
    ASSUME Typed, FramesGood, NEW t \in Threads, Top(t).pc \in Executing, Executed(t)
    PROVE  /\ Came(t)
           /\ t \in WThreads /\ Len(stack[t]) = 2 /\ ~Top(t).idle => Turn(t)'.pc = "ready"
           /\ Len(stack[t]) > 2 => Turn(t)' = Turn(t)
<1>1. Len(stack[t]) > 1
  BY NotAtBottom DEF Typed, BasePlaces, Executing
<1>2. CASE Len(stack[t]) = 2 /\ t \in WThreads
  <2> DEFINE f == Frame(IF Top(t).idle THEN "sleep" ELSE "ready", NoJob)
  <2>1. f.pc \in {"sleep", "ready"} /\ f.idle = FALSE /\ (~Top(t).idle => f.pc = "ready")
    BY DEF Frame
  <2>2. stack'[t] = <<f>> /\ \A u \in Threads : u # t => stack'[u] = stack[u]
    BY <1>2 DEF Executed, Typed, StackOK, Stacks
  <2> HIDE DEF f
  <2>3. Len(<<f>>) = 1 /\ <<f>>[1] = f
    OBVIOUS
  <2>4. Newcomer(t, f, 1, 1)
    BY <2>1 DEF Newcomer, Good, Called
  <2>5. Len(stack'[t]) = 1 /\ stack'[t][1] = f
    BY <2>2, <2>3
  <2>6. Came(t)
    BY <1>2, <2>2, <2>4, <2>5 DEF Came
  <2>7. Turn(t)' = f
    BY <2>5 DEF Turn
  <2>8. QED BY <1>2, <2>1, <2>6, <2>7
<1>3. CASE ~(Len(stack[t]) = 2 /\ t \in WThreads)
  <2>1. Leave(t)
    BY <1>3 DEF Executed
  <2>2. QED BY <1>1, <1>3, <2>1, LeaveCame, LeaveStack
<1>4. QED BY <1>2, <1>3

(* Running the function: on top the calls it makes, below the frame that   *)
(* will count the batch or find the task done.                             *)
LEMMA RunCame ==
    ASSUME Typed, FramesGood, BodiesWaitForNone, NEW t \in Threads, At(t, "exec"),
           NEW m \in Jobs, m = MyJob(t), NEW g \in FrameSet, g.job = m, g.idle = Top(t).idle,
           g.pc = "inc" \/ (g.pc = "isdone" /\ job'[m].type = "task"),
           PushOn(t, UserCode(Body[job[m].fun]), g)
    PROVE  Came(t) /\ (Len(stack[t]) = 2 => Turn(t)' = g) /\ ~g.idle
<1> DEFINE u == UserCode(Body[job[m].fun])
<1>1. u \in FrameSet /\ u.pc = "user" /\ u.code = Body[job[m].fun]
  BY JobTypes, UserOf DEF Typed
<1>2. u.idle = FALSE
  BY DEF UserCode, Frame
<1>3. NoWaits(u.code)
  BY <1>1, JobTypes DEF Typed, BodiesWaitForNone
<1>4. PushOn(t, u, g)
  OBVIOUS
<1> HIDE DEF u
<1>5. Good(job, t, Top(t), 1, Len(stack[t]))
  <2>1. 1 \in 1..Len(stack[t]) /\ Top(t) = stack[t][1]
    BY TopFacts DEF Typed
  <2>2. QED BY <2>1 DEF FramesGood
<1>6. ~g.idle
  BY <1>5 DEF Good, At, Ending
<1>7. Newcomer(t, u, 1, Len(stack[t]) + 1) /\ Newcomer(t, g, 2, Len(stack[t]) + 1)
  BY <1>1, <1>2, <1>3, <1>6 DEF Newcomer, Good, Called
<1>8. Came(t)
  BY <1>1, <1>4, <1>7, PushCame
<1>9. Len(stack[t]) = 2 => Turn(t)' = g
  BY <1>1, <1>4, PushStack
<1>10. QED BY <1>6, <1>8, <1>9

LEMMA StepCame ==
    ASSUME Typed, IInv, ~Recycle, BodiesWaitForNone, FramesGood, TasksAreTasks,
           NEW t \in Threads, Step(t)
    PROVE  Came(t)
<1> SUFFICES ASSUME NEW m, m = MyJob(t) PROVE Came(t)
  OBVIOUS
<1>0. /\ Top(t) \in FrameSet /\ FrameRight(Top(t)) /\ Len(stack[t]) \in Nat \ {0}
      /\ Top(t).pc \notin Idle => m \in Jobs
      /\ Top(t).pc \notin BasePlaces /\ (t \in Clients => Top(t).pc # "user") => Len(stack[t]) > 1
      /\ Top(t).job = m /\ Good(job, t, Top(t), 1, Len(stack[t]))
      /\ t \in Clients => t \notin WThreads /\ Top(t).pc \in ClientPlaces
  <2>1. 1 \in 1..Len(stack[t]) /\ Top(t) = stack[t][1]
    BY TopFacts DEF Typed
  <2>2. Good(job, t, Top(t), 1, Len(stack[t]))
    BY <2>1 DEF FramesGood
  <2>3. QED BY <2>2, TopFacts, MyJobIsJob, NotAtBottom, SchedAssumption DEF Typed, MyJob
<1>1. CASE GetReady(t)
  <2>1. CASE ready # <<>> /\ Become(t, Frame("move", Taken))
    <3>1. Taken \in Jobs
      BY <2>1, TakenTypes DEF Typed
    <3>2. /\ Frame("move", Taken) \in FrameSet /\ Frame("move", Taken).idle = FALSE
          /\ Frame("move", Taken).pc = "move"
      BY <3>1, JobFrame DEF Places, Idle
    <3>3. Len(stack[t]) = 1
      <4>1. t \in WThreads /\ Top(t).pc = "ready"
        BY <1>0, <1>1 DEF GetReady, At, ClientPlaces, Threads
      <4>2. QED BY <4>1, TurnFacts DEF Typed
    <3>4. Newcomer(t, Frame("move", Taken), 1, Len(stack[t]))
      BY <3>2, <3>3 DEF Newcomer, Good
    <3>5. QED BY <2>1, <3>2, <3>4, BecomeCame
  <2>2. CASE GoTo(t, "running")
    BY <1>1, <2>2, IdleCame DEF GetReady, At
  <2>3. QED BY <1>1, <2>1, <2>2 DEF GetReady
<1>2. CASE MoveToRunning(t)
  <2>1. Top(t).pc = "move" /\ m \in Jobs
    BY <1>0, <1>2 DEF MoveToRunning, At, Idle
  <2>s. Frame("schedule", m) \in FrameSet
    BY <2>1, JobFrame DEF Places, Idle
  <2>2. CASE IsTask(m)
    BY <1>2, <2>1, <2>s, <2>2, ExecCame DEF MoveToRunning
  <2>3. CASE ~IsTask(m)
    BY <1>2, <2>1, <2>3, GoToCame DEF MoveToRunning, Called
  <2>4. QED BY <2>2, <2>3
<1>3. CASE GetRunning(t)
  <2>1. CASE RunningJob = NoJob
    BY <1>3, <2>1, IdleCame DEF GetRunning, At
  <2>2. CASE RunningJob # NoJob
    <3>1. RunningJob \in Jobs
      BY <2>2, RunningJobListed DEF Typed
    <3>2. Frame("schedule", RunningJob) \in FrameSet
      BY <3>1, JobFrame DEF Places, Idle
    <3>3. QED BY <1>3, <2>2, <3>1, <3>2, ExecCame DEF GetRunning
  <2>3. QED BY <2>1, <2>2
<1>4. CASE Sleep(t)
  BY <1>4, IdleCame DEF Sleep, At
<1>5. CASE Notify(t)
  <2>1. Top(t).pc = "notify" /\ m \in Jobs
    BY <1>0, <1>5 DEF Notify, At, Idle
  <2>2. CASE Exec(t, m, Frame("schedule", m))
    <3>1. Frame("schedule", m) \in FrameSet
      BY <2>1, JobFrame DEF Places, Idle
    <3>2. QED BY <2>1, <2>2, <3>1, ExecCame
  <2>3. CASE GoTo(t, "help")
    BY <2>1, <2>3, GoToCame DEF Called
  <2>4. CASE t \in Clients /\ GoTo(t, "wait")
    BY <1>0, <2>1, <2>4, GoToCame DEF Called
  <2>5. CASE t \in Clients /\ Leave(t)
    <3>1. Len(stack[t]) > 1
      BY <2>1, <2>5, SchedAssumption, TopFacts, OneOrMore DEF Typed, Bottom
    <3>2. QED BY <2>5, <3>1, LeaveCame
  <2>6. QED BY <1>5, <2>2, <2>3, <2>4, <2>5 DEF Notify
<1>6. CASE ExecBatch(t)
  <2>1. Top(t).pc = "exec" /\ m \in Jobs /\ At(t, "exec")
    BY <1>0, <1>6 DEF ExecBatch, At, Idle
  <2>2. CASE Unclaimed(m) # {}
    <3> DEFINE g == [Top(t) EXCEPT !.pc = "inc", !.batch = Min(Unclaimed(m))]
    <3>1. PushOn(t, UserCode(Body[job[m].fun]), g)
      BY <1>6, <2>2 DEF ExecBatch, PushOn
    <3>2. g \in FrameSet /\ g.job = m /\ g.idle = Top(t).idle /\ g.pc = "inc"
      BY <1>0, <2>2, LeastUnclaimed DEF FrameSet, Places
    <3> HIDE DEF g
    <3>3. QED BY <2>1, <3>1, <3>2, RunCame
  <2>3. CASE Become(t, [Top(t) EXCEPT !.pc = "isdone", !.idle = TRUE])
    <3> DEFINE g == [Top(t) EXCEPT !.pc = "isdone", !.idle = TRUE]
    <3>1. Become(t, g)
      BY <2>3
    <3>2. g \in FrameSet /\ g.pc = "isdone"
      BY <1>0 DEF FrameSet, Places
    <3> HIDE DEF g
    <3>3. Newcomer(t, g, 1, Len(stack[t]))
      BY <3>2 DEF Newcomer, Good, Ending, Called
    <3>4. QED BY <3>1, <3>2, <3>3, BecomeCame
  <2>4. QED BY <1>6, <2>2, <2>3 DEF ExecBatch
<1>7. CASE ExecTask(t)
  <2> DEFINE g == [Top(t) EXCEPT !.pc = "isdone"]
  <2>1. Top(t).pc = "exec" /\ m \in Jobs /\ At(t, "exec") /\ IsTask(m) /\ job' = job
    BY <1>0, <1>7 DEF ExecTask, At, Idle
  <2>2. PushOn(t, UserCode(Body[job[m].fun]), g)
    BY <1>7 DEF ExecTask, PushOn
  <2>3. g \in FrameSet /\ g.job = m /\ g.idle = Top(t).idle /\ g.pc = "isdone"
    BY <1>0 DEF FrameSet, Places
  <2> HIDE DEF g
  <2>4. QED BY <2>1, <2>2, <2>3, RunCame DEF IsTask
<1>8. CASE FunReturns(t)
  <2>1. t \notin Clients /\ Top(t).pc = "user" /\ Leave(t)
    BY <1>8, SchedAssumption DEF FunReturns, At
  <2>2. QED BY <1>0, <2>1, LeaveCame DEF BasePlaces
<1>9. CASE Increment(t)
  <2> DEFINE g == [Top(t) EXCEPT !.pc = "isdone", !.batch = 0]
  <2>1. g \in FrameSet /\ g.pc = "isdone" /\ g.idle = Top(t).idle
    BY <1>0 DEF FrameSet, Places
  <2>2. Become(t, g)
    BY <1>9 DEF Increment
  <2> HIDE DEF g
  <2>3. Newcomer(t, g, 1, Len(stack[t]))
    BY <2>1 DEF Newcomer, Good, Ending, Called
  <2>4. QED BY <2>1, <2>2, <2>3, BecomeCame
<1>10. CASE CheckDone(t)
  <2>1. Top(t).pc = "isdone" /\ (GoTo(t, "unlist") \/ Executed(t))
    BY <1>10 DEF CheckDone, At
  <2>2. QED BY <2>1, GoToCame, ExecutedCame DEF Ending, Executing
<1>11. CASE RemoveRunning(t)
  BY <1>11, GoToCame DEF RemoveRunning, Ending, At
<1>12. CASE MoveToDone(t)
  BY <1>12, GoToCame DEF MoveToDone, Ending, At
<1>13. CASE PostJob(t)
  BY <1>13, ExecutedCame DEF PostJob, Executing, At
<1>14. CASE ParallelFor(t)
  <2>1. At(t, "user") /\ Top(t).code # <<>>
    BY <1>14 DEF ParallelFor, Calling
  <2>2. PICK j \in Jobs :
          /\ Fresh(j) /\ job' = [job EXCEPT ![j] = NewJob("pfor", Head(Top(t).code)[2])]
          /\ Enter(t, Frame(IF t \in Clients THEN "addready" ELSE "move", j))
    BY <1>14 DEF ParallelFor
  <2>3. job'[j].type = "pfor" /\ ~Framed(j)
    BY <2>2 DEF Typed, DataOK, NewJob, Freed, Fresh, Framed
  <2>4. \/ Enter(t, Frame("addready", j))
        \/ Enter(t, Frame("move", j))
    BY <2>2
  <2>5. QED BY <2>1, <2>3, <2>4, EnterCame DEF Called
<1>15. CASE PushTask(t)
  <2>1. At(t, "user") /\ Top(t).code # <<>>
    BY <1>15 DEF PushTask, Calling
  <2>2. PICK j \in Jobs :
          /\ Fresh(j) /\ job' = [job EXCEPT ![j] = NewJob("task", Head(Top(t).code)[2])]
          /\ Enter(t, Frame("addready", j))
    BY <1>15 DEF PushTask
  <2>3. ~Framed(j)
    BY <2>2 DEF Fresh, Framed
  <2>4. QED BY <2>1, <2>2, <2>3, EnterCame DEF Called
<1>16. CASE CreateFails(t)
  BY <1>16, ReturnCame DEF CreateFails, Calling
<1>17. CASE WaitTask(t)
  <2>1. At(t, "user") /\ Top(t).code # <<>> /\ Head(Top(t).code)[1] = "wait" /\ job' = job
    BY <1>17 DEF WaitTask, Calling
  <2> SUFFICES ASSUME NEW f, f = Head(Top(t).code)[2], NEW j, j = task[f] PROVE Came(t)
    OBVIOUS
  <2>2. CASE j = NoJob
    <3>1. Become(t, UserCode(Tail(Top(t).code)))
      BY <1>17, <2>2 DEF WaitTask
    <3>2. QED BY <2>1, <3>1, ReturnCame
  <2>3. CASE j # NoJob
    <3>1. f \in Funs
      BY <2>1, CallTypes DEF Typed
    <3>2. j \in Jobs /\ job'[j].type = "task"
      BY <2>1, <2>3, <3>1 DEF Typed, DataOK, TasksAreTasks, IsTask
    <3>3. t \notin WThreads
      <4>1. Top(t).code \in Seq(Calls) /\ Top(t).code # <<>>
        BY <1>0, <2>1 DEF FrameSet
      <4>2. Head(Top(t).code) = Top(t).code[1] /\ 1 \in 1..Len(Top(t).code)
        BY <4>1, EmptySeq, LenProperties
      <4>3. QED BY <1>0, <2>1, <4>2 DEF Good, NoWaits, At
    <3>4. Enter(t, Frame("wait", j))
      BY <1>17, <2>3 DEF WaitTask
    <3>5. QED BY <2>1, <3>2, <3>3, <3>4, EnterCame DEF Called
  <2>4. QED BY <2>2, <2>3
<1>18. CASE AddToReady(t)
  <2>1. Top(t).pc = "addready" /\ (GoTo(t, "notify") \/ GoTo(t, "destroy") \/ Leave(t))
    BY <1>18 DEF AddToReady, At
  <2>2. Len(stack[t]) > 1
    BY <1>0, <2>1 DEF BasePlaces
  <2>3. QED BY <2>1, <2>2, GoToCame, LeaveCame DEF Called
<1>19. CASE Help(t)
  <2>1. Top(t).pc = "help" /\ m \in Jobs /\ job[m].live /\ job' = job
    BY <1>0, <1>19 DEF Help, At, Idle
  <2>2. CASE IsDone(m) /\ GoTo(t, "wait")
    <3>1. On(m, "help") /\ LoopFor(m)
      BY <1>0, <2>1, OnTop DEF IInv, JobInv, Typed
    <3>2. Awaited(job'[m])
      BY <2>1, <2>2, <3>1 DEF LoopFor, Awaited, IsDone, NbBatches, IsTask, Typed, DataOK, JobSet
    <3>3. QED BY <2>1, <2>2, <3>2, GoToCame DEF Called
  <2>3. CASE Exec(t, m, Top(t))
    BY <1>0, <2>1, <2>3, ExecCame
  <2>4. QED BY <1>19, <2>2, <2>3 DEF Help
<1>20. CASE WaitJob(t)
  BY <1>20, GoToCame DEF WaitJob, Called, At
<1>21. CASE Collect(t)
  BY <1>21, GoToCame DEF Collect, Called, At
<1>22. CASE DestroyJob(t)
  <2>1. Len(stack[t]) > 1 /\ Leave(t)
    BY <1>0, <1>22 DEF DestroyJob, At, BasePlaces
  <2>2. QED BY <2>1, LeaveCame
<1>23. QED
  BY <1>1, <1>2, <1>3, <1>4, <1>5, <1>6, <1>7, <1>8, <1>9, <1>10, <1>11, <1>12, <1>13, <1>14,
     <1>15, <1>16, <1>17, <1>18, <1>19, <1>20, <1>21, <1>22 DEF Step

(* task->sched_data: set to a new task, which stays one as long as a task  *)
(* points at it.                                                           *)
LEMMA TasksStep ==
    ASSUME Typed, IInv, ~Recycle, TasksAreTasks, NEW t \in Threads, Step(t)
    PROVE  TasksAreTasks'
<1>1. job \in [Jobs -> JobSet] /\ task \in [Funs -> Jobs \cup {NoJob}]
  BY DEF Typed, DataOK
<1>2. ASSUME NEW f \in Funs, task[f] # NoJob PROVE job'[task[f]].type = "task"
  <2>1. task[f] \in Jobs /\ task[f] \in Range(task)
    BY <1>1, <1>2 DEF Range
  <2>2. job[task[f]].type = "task"
    BY <1>2 DEF TasksAreTasks, IsTask
  <2>3. QED BY <2>1, <2>2, JobStays
<1>3. CASE task' = task
  BY <1>2, <1>3 DEF TasksAreTasks, IsTask
<1>4. CASE PushTask(t)
  <2>1. PICK j \in Jobs :
          /\ job' = [job EXCEPT ![j] = NewJob("task", Head(Top(t).code)[2])]
          /\ task' = [task EXCEPT ![Head(Top(t).code)[2]] = j]
    BY <1>4 DEF PushTask
  <2>2. job'[j].type = "task"
    BY <1>1, <2>1 DEF NewJob, Freed
  <2>3. \A f \in Funs : task'[f] = j \/ task'[f] = task[f]
    BY <1>1, <2>1
  <2>4. QED BY <1>2, <2>2, <2>3 DEF TasksAreTasks, IsTask
<1>5. QED
  BY <1>3, <1>4
     DEF Step, GetReady, MoveToRunning, GetRunning, Sleep, Notify, ExecBatch, ExecTask, FunReturns,
         Increment, CheckDone, RemoveRunning, MoveToDone, PostJob, ParallelFor, CreateFails, WaitTask,
         AddToReady, Help, WaitJob, Collect, DestroyJob

------------------------------------------------------------------------------
(* The thread will go through fly_schedule again before it sleeps: it has  *)
(* a token, or its turn runs, has run or will find something to run.       *)
Found(f) == \/ f.pc = "ready"
            \/ f.pc \in {"move", "notify", "exec"} /\ Undone(job[f.job])
            \/ f.pc \in {"inc"} \cup Ending /\ ~f.idle
WillLook(t) == sem[t] > 0 \/ Found(Turn(t))

ReadyWatched ==
    ready # <<>> => \/ \E t \in WThreads : WillLook(t)
                    \/ \E t \in Clients : At(t, "notify")
RunningWatched ==
    (\E j \in ToSet(running) : HasWork(j)) =>
        \E t \in WThreads : WillLook(t) \/ Turn(t).pc = "running"

(* The thread that lists a task is the one that runs it.                   *)
TaskRunning ==
    \A j \in ToSet(running) : IsTask(j) /\ runs[j][1] = 0 =>
        \E t \in WThreads : Turn(t).pc = "exec" /\ Turn(t).job = j

(* A thread in code the function of its turn calls will be back.           *)
LEMMA DeepLooks ==
    ASSUME Typed, FramesGood, NEW t \in WThreads, Len(stack[t]) > 2
    PROVE  Turn(t).pc \in {"inc", "isdone"} /\ ~Turn(t).idle
<1> SUFFICES ASSUME NEW n, n = Len(stack[t])
             PROVE  Turn(t).pc \in {"inc", "isdone"} /\ ~Turn(t).idle
  OBVIOUS
<1>1. /\ t \in Threads /\ Turn(t) = stack[t][n - 1] /\ Turn(t).pc \in {"inc", "isdone"}
      /\ n \in Nat /\ n > 2
  BY TurnFacts DEF Typed
<1>2. n - 1 \in 1..n /\ n - 1 # 1
  <2>1. \A k \in Nat : k > 2 => k - 1 \in 1..k /\ k - 1 # 1
    OBVIOUS
  <2>2. QED BY <1>1, <2>1
<1>3. Good(job, t, Turn(t), n - 1, n)
  BY <1>1, <1>2 DEF FramesGood
<1>4. ~Turn(t).idle
  BY <1>2, <1>3 DEF Good
<1>5. QED BY <1>1, <1>4

LEMMA DeepStays ==
    ASSUME Typed, FramesGood, NEW t \in WThreads, Len(stack[t]) > 2, Came(t)
    PROVE  WillLook(t)'
<1>1. Turn(t).pc \in {"inc", "isdone"} /\ ~Turn(t).idle /\ Turn(t)' = Turn(t)
  BY DeepLooks DEF Came
<1>2. Turn(t)'.pc \in {"inc", "isdone"} /\ ~Turn(t)'.idle
  BY <1>1
<1>3. QED BY <1>2 DEF WillLook, Found, Ending

(* What every step knows of the frames.                                    *)
Framing == Typed /\ Typed' /\ IInv /\ FramesGood /\ TasksAreTasks /\ ~Recycle /\ BodiesWaitForNone

LEMMA ClaimLooks ==
    ASSUME Framing, NEW t \in Threads, Step(t), Claiming(t)
    PROVE  t \in WThreads /\ WillLook(t)'
<1> SUFFICES ASSUME NEW m, m = MyJob(t) PROVE t \in WThreads /\ WillLook(t)'
  OBVIOUS
<1>1. /\ Typed /\ FramesGood /\ BodiesWaitForNone /\ ExecBatch(t) /\ Unclaimed(m) # {}
      /\ Top(t).pc = "exec" /\ At(t, "exec") /\ Top(t) \in FrameSet
  BY TopFacts DEF Framing, Claiming, ExecBatch, At, Typed
<1>2. t \in WThreads /\ m \in Jobs /\ Top(t).job = m
  BY <1>1, TopFacts, MyJobIsJob DEF ClientPlaces, Threads, Idle, MyJob, Typed
<1>3. CASE Len(stack[t]) > 2
  BY <1>1, <1>2, <1>3, StepCame, DeepStays DEF Framing
<1>4. CASE Len(stack[t]) = 2
  <2> DEFINE g == [Top(t) EXCEPT !.pc = "inc", !.batch = Min(Unclaimed(m))]
  <2>1. PushOn(t, UserCode(Body[job[m].fun]), g)
    BY <1>1 DEF ExecBatch, PushOn
  <2>2. g \in FrameSet /\ g.job = m /\ g.idle = Top(t).idle /\ g.pc = "inc"
    BY <1>1, <1>2, LeastUnclaimed DEF FrameSet, Places
  <2> HIDE DEF g
  <2>3. Turn(t)' = g /\ ~g.idle
    BY <1>1, <1>2, <1>4, <2>1, <2>2, RunCame
  <2>4. Turn(t)'.pc = "inc" /\ ~Turn(t)'.idle
    BY <2>2, <2>3
  <2>5. QED BY <1>2, <2>4 DEF WillLook, Found
<1>5. Len(stack[t]) = 2 \/ Len(stack[t]) > 2
  <2>1. Len(stack[t]) \in Nat \ {0} /\ Len(stack[t]) # 1
    BY <1>1, <1>2, TurnFacts DEF Typed, BasePlaces
  <2>2. QED BY <2>1, OneTwoMore
<1>6. QED BY <1>2, <1>3, <1>4, <1>5

(* A semaphore loses a token only to the thread that sleeps on it.         *)
LEMMA TokensStay ==
    ASSUME Typed, NEW t \in Threads, Step(t), NEW u \in WThreads, sem[u] > 0
    PROVE  sem'[u] > 0 \/ (u = t /\ Sleep(t))
<1>1. sem \in [WThreads -> Nat]
  BY DEF Typed, DataOK
<1>2. CASE sem' = sem
  BY <1>2
<1>3. CASE Sleep(t)
  BY <1>1, <1>3 DEF Sleep
<1>4. CASE Notify(t)
  <2>1. PICK side : sem' = [w \in WThreads |->
            IF w[1] \in Wakes(t) /\ side[w[1]] = w[2] THEN sem[w] + 1 ELSE sem[w]]
    BY <1>4 DEF Notify
  <2>2. sem'[u] = sem[u] + 1 \/ sem'[u] = sem[u]
    BY <2>1
  <2>3. sem[u] \in Nat
    BY <1>1
  <2>4. QED BY <2>2, <2>3
<1>5. QED
  BY <1>2, <1>3, <1>4
     DEF Step, GetReady, MoveToRunning, GetRunning, ExecBatch, ExecTask, FunReturns, Increment,
         CheckDone, RemoveRunning, MoveToDone, PostJob, ParallelFor, PushTask, CreateFails, WaitTask,
         AddToReady, Help, WaitJob, Collect, DestroyJob

LEMMA OthersLook ==
    ASSUME Framing, NEW t \in Threads, Step(t), ~Claiming(t),
           NEW u \in WThreads, u # t, WillLook(u)
    PROVE  WillLook(u)'
<1>1. Turn(u)' = Turn(u)
  <2>1. stack'[u] = stack[u]
    BY StepCame DEF Framing, Came, Threads
  <2>2. QED BY <2>1 DEF Turn
<1>2. CASE sem[u] > 0
  BY <1>2, TokensStay DEF Framing, WillLook
<1>3. CASE Found(Turn(u))
  <2> SUFFICES ASSUME NEW f, f = Turn(u) PROVE WillLook(u)'
    OBVIOUS
  <2>1. ASSUME f.pc \in {"move", "notify", "exec"} PROVE Framed(f.job) /\ f.job \in Jobs
    <3>1. u \in Threads /\ Len(stack[u]) \in Nat \ {0}
      BY TurnFacts DEF Framing, Typed
    <3>2. PICK i \in 1..Len(stack[u]) : f = stack[u][i]
      <4>1. \A n \in Nat \ {0} : (IF n = 1 THEN 1 ELSE n - 1) \in 1..n
        OBVIOUS
      <4>2. QED BY <3>1, <4>1 DEF Turn
    <3>3. f.pc \notin Idle
      BY <2>1 DEF Idle
    <3>4. QED BY <3>1, <3>2, <3>3, FramedBy DEF Framing
  <2>2. f.pc \in {"move", "notify", "exec"} /\ Undone(job[f.job]) => Undone(job'[f.job])
    BY <2>1, JobStays DEF Framing
  <2>3. QED BY <1>1, <1>3, <2>2 DEF WillLook, Found
<1>4. QED BY <1>2, <1>3 DEF WillLook

(* A thread that will look goes on to, or just looked and found no job on  *)
(* the ready list.                                                         *)
LEMMA OwnLooks ==
    ASSUME Framing, NEW t \in WThreads, Step(t), WillLook(t)
    PROVE  WillLook(t)' \/ (ready' = <<>> /\ Turn(t)'.pc = "running")
<1> SUFFICES ASSUME NEW m, m = MyJob(t)
             PROVE  WillLook(t)' \/ (ready' = <<>> /\ Turn(t)'.pc = "running")
  OBVIOUS
<1>0. /\ Typed /\ FramesGood /\ BodiesWaitForNone /\ IInv /\ t \in Threads /\ t \notin Clients
      /\ Top(t) \in FrameSet /\ FrameRight(Top(t)) /\ Top(t).job = m
      /\ Top(t).pc \notin Idle => m \in Jobs /\ JobInv(m)
      /\ Good(job, t, Top(t), 1, Len(stack[t])) /\ Len(stack[t]) \in Nat \ {0}
  <2>1. t \in Threads /\ t \notin Clients /\ Typed /\ FramesGood /\ BodiesWaitForNone /\ IInv
    BY TurnFacts DEF Framing, Typed
  <2>2. 1 \in 1..Len(stack[t]) /\ Top(t) = stack[t][1]
    BY <2>1, TopFacts DEF Typed
  <2>3. Good(job, t, Top(t), 1, Len(stack[t]))
    BY <2>1, <2>2 DEF FramesGood
  <2>4. Top(t).pc \notin Idle => m \in Jobs /\ JobInv(m)
    BY <2>1, MyJobIsJob DEF Typed, IInv
  <2>5. QED BY <2>1, <2>3, <2>4, TopFacts DEF Typed, MyJob
<1>1. CASE sem[t] > 0 /\ ~Sleep(t)
  BY <1>0, <1>1, TokensStay DEF WillLook
<1>2. CASE Sleep(t)
  BY <1>0, <1>2, IdleCame DEF Sleep, At, WillLook, Found
<1>3. CASE Len(stack[t]) > 2
  BY <1>0, <1>3, StepCame, DeepStays DEF Framing
<1>4. CASE Found(Turn(t)) /\ ~(Len(stack[t]) > 2) /\ ~Sleep(t)
  <2>1. /\ Found(Top(t)) /\ Turn(t) = Top(t) /\ Len(stack[t]) < 3
        /\ \/ Top(t).pc \in BasePlaces /\ Len(stack[t]) = 1
           \/ Top(t).pc \in Executing /\ Len(stack[t]) = 2
    <3>1. Len(stack[t]) = 1 \/ Len(stack[t]) = 2
      BY <1>0, <1>4, OneTwoMore
    <3>2. Len(stack[t]) < 3
      BY <1>0, <1>4, OneTwoMore
    <3>3. QED BY <1>0, <1>4, <3>1, <3>2, TurnFacts DEF Typed
  <2>2. CASE GetReady(t)
    <3>1. CASE ready # <<>> /\ Become(t, Frame("move", Taken))
      <4>1. Taken \in Jobs /\ Taken \in ToSet(ready) /\ job' = job
        BY <1>0, <2>2, <3>1, TakenTypes, TakenFrom DEF Typed, DataOK, GetReady, Taken
      <4>2. /\ Frame("move", Taken) \in FrameSet /\ Frame("move", Taken).job = Taken
            /\ Frame("move", Taken).pc = "move"
        BY <4>1, JobFrame DEF Places, Idle
      <4>3. Turn(t)' = Frame("move", Taken)
        BY <1>0, <2>1, <3>1, <4>2, BecomeStack
      <4>4. job[Taken].execed = {}
        BY <1>0, <4>1 DEF IInv, JobInv, ReadyFor, Untaken, Quiet
      <4>5. Undone(job'[Taken])
        BY <4>1, <4>4, BatchFacts DEF Undone
      <4>6. QED BY <4>2, <4>3, <4>5 DEF WillLook, Found
    <3>2. CASE ready = <<>> /\ GoTo(t, "running") /\ ready' = ready
      BY <1>0, <2>2, <3>2, IdleCame DEF GetReady, At
    <3>3. QED BY <2>2, <3>1, <3>2 DEF GetReady
  <2>3. CASE MoveToRunning(t)
    <3>1. Top(t).pc = "move" /\ m \in Jobs /\ Len(stack[t]) = 1 /\ Quiet(m)
      <4>1. Top(t).pc = "move"
        BY <2>3 DEF MoveToRunning, At
      <4>2. m \in Jobs /\ JobInv(m) /\ Hands(t, m)
        BY <1>0, <4>1 DEF Idle, Hands, MyJob
      <4>3. QED BY <1>0, <2>1, <4>1, <4>2 DEF JobInv, ReadyFor, Untaken, Executing
    <3>2. CASE IsTask(m)
      <4>1. Frame("schedule", m) \in FrameSet /\ Exec(t, m, Frame("schedule", m))
        BY <2>3, <3>1, <3>2, JobFrame DEF MoveToRunning, Places, Idle
      <4>2. Turn(t)' = Frame("exec", m)
        BY <1>0, <3>1, <4>1, ExecCame
      <4>3. job'[m].type = "task"
        BY <1>0, <2>3, <3>1, <3>2 DEF MoveToRunning, IsTask, Typed, DataOK, JobSet
      <4>4. Turn(t)'.pc = "exec" /\ Turn(t)'.job = m
        BY <4>2 DEF Frame
      <4>5. QED BY <4>3, <4>4 DEF WillLook, Found, Undone
    <3>3. CASE ~IsTask(m)
      <4>1. GoTo(t, "notify") /\ job' = job
        BY <2>3, <3>3 DEF MoveToRunning
      <4>2. Turn(t)'.pc = "notify" /\ Turn(t)'.job = m
        BY <1>0, <2>1, <3>1, <4>1, GoToCame DEF Called
      <4>3. Undone(job'[m])
        BY <3>1, <4>1, BatchFacts DEF Quiet, Undone
      <4>4. QED BY <4>2, <4>3 DEF WillLook, Found
    <3>4. QED BY <3>2, <3>3
  <2>4. CASE GetRunning(t)
    BY <2>1, <2>4 DEF GetRunning, At, Found, Ending
  <2>5. CASE Notify(t)
    <3>1. Top(t).pc = "notify" /\ m \in Jobs /\ job' = job
      BY <1>0, <2>5 DEF Notify, At, Idle
    <3>2. Len(stack[t]) = 1
      BY <2>1, <3>1 DEF Executing
    <3>3. Exec(t, m, Frame("schedule", m))
      BY <1>0, <2>5, <3>2 DEF Notify, IsBase
    <3>4. Turn(t)' = Frame("exec", m)
      <4>1. Frame("schedule", m) \in FrameSet
        BY <3>1, JobFrame DEF Places, Idle
      <4>2. QED BY <1>0, <3>1, <3>2, <3>3, <4>1, ExecCame
    <3>5. Turn(t)'.pc = "exec" /\ Turn(t)'.job = m
      BY <3>4 DEF Frame
    <3>6. Undone(job'[m])
      BY <1>0, <2>1, <3>1 DEF Found, Ending
    <3>7. QED BY <3>5, <3>6 DEF WillLook, Found
  <2>6. CASE ExecBatch(t)
    <3>1. Top(t).pc = "exec" /\ ~IsTask(m)
      BY <2>6 DEF ExecBatch, At
    <3>2. Unclaimed(m) # {}
      BY <1>0, <2>1, <3>1 DEF Found, Ending, Undone, IsTask, Unclaimed
    <3>3. QED BY <1>0, <2>6, <3>2, ClaimLooks DEF Claiming
  <2>7. CASE ExecTask(t)
    <3> DEFINE g == [Top(t) EXCEPT !.pc = "isdone"]
    <3>1. Top(t).pc = "exec" /\ m \in Jobs /\ At(t, "exec") /\ IsTask(m) /\ job' = job
      BY <1>0, <2>7 DEF ExecTask, At, Idle
    <3>2. PushOn(t, UserCode(Body[job[m].fun]), g)
      BY <2>7 DEF ExecTask, PushOn
    <3>3. g \in FrameSet /\ g.job = m /\ g.idle = Top(t).idle /\ g.pc = "isdone"
      BY <1>0 DEF FrameSet, Places
    <3> HIDE DEF g
    <3>4. Len(stack[t]) = 2
      BY <2>1, <3>1 DEF BasePlaces
    <3>5. Turn(t)' = g /\ ~g.idle
      BY <1>0, <3>1, <3>2, <3>3, <3>4, RunCame DEF IsTask
    <3>6. Turn(t)'.pc = "isdone" /\ ~Turn(t)'.idle
      BY <3>3, <3>5
    <3>7. QED BY <3>6 DEF WillLook, Found, Ending
  <2>8. CASE Increment(t)
    <3> DEFINE g == [Top(t) EXCEPT !.pc = "isdone", !.batch = 0]
    <3>1. g \in FrameSet /\ g.pc = "isdone" /\ g.idle = Top(t).idle /\ Top(t).pc = "inc"
      BY <1>0, <2>8 DEF FrameSet, Places, Increment, At
    <3>2. Become(t, g)
      BY <2>8 DEF Increment
    <3> HIDE DEF g
    <3>3. Turn(t)' = g
      BY <1>0, <2>1, <3>1, <3>2, BecomeStack
    <3>4. Turn(t)'.pc = "isdone" /\ ~Turn(t)'.idle
      BY <1>0, <3>1, <3>3 DEF Good, Ending
    <3>5. QED BY <3>4 DEF WillLook, Found, Ending
  <2>9. ASSUME Top(t).pc \in Ending, NEW pc \in Ending, GoTo(t, pc) PROVE WillLook(t)'
    <3>1. Turn(t)'.pc = pc /\ Turn(t)'.idle = Top(t).idle
      BY <1>0, <2>1, <2>9, GoToCame DEF Ending
    <3>2. ~Top(t).idle
      BY <2>1, <2>9 DEF Found, Ending
    <3>3. Turn(t)'.pc \in Ending /\ ~Turn(t)'.idle
      BY <3>1, <3>2
    <3>4. QED BY <3>3 DEF WillLook, Found
  <2>10. ASSUME Top(t).pc \in Ending, Executed(t) PROVE WillLook(t)'
    <3>1. Top(t).pc \in Executing /\ Len(stack[t]) = 2
      BY <2>1, <2>10 DEF Ending, Executing, BasePlaces
    <3>2. ~Top(t).idle
      BY <2>1, <2>10 DEF Found, Ending
    <3>3. Turn(t)'.pc = "ready"
      BY <1>0, <2>10, <3>1, <3>2, ExecutedCame
    <3>4. QED BY <3>3 DEF WillLook, Found
  <2>11. CASE CheckDone(t)
    <3>1. Top(t).pc \in Ending /\ (GoTo(t, "unlist") \/ Executed(t))
      BY <2>11 DEF CheckDone, At, Ending
    <3>2. QED BY <2>9, <2>10, <3>1 DEF Ending
  <2>12. CASE RemoveRunning(t)
    BY <2>9, <2>12 DEF RemoveRunning, At, Ending
  <2>13. CASE MoveToDone(t)
    BY <2>9, <2>13 DEF MoveToDone, At, Ending
  <2>14. CASE PostJob(t)
    BY <2>10, <2>14 DEF PostJob, At, Ending
  <2>15. Top(t).pc \notin {"user", "addready", "help", "wait", "collect", "destroy"}
    BY <2>1 DEF BasePlaces, Executing
  <2>16. ~FunReturns(t) /\ ~ParallelFor(t) /\ ~PushTask(t) /\ ~CreateFails(t) /\ ~WaitTask(t)
    BY <2>15 DEF FunReturns, ParallelFor, PushTask, CreateFails, WaitTask, Calling, At
  <2>17. ~AddToReady(t) /\ ~Help(t) /\ ~WaitJob(t) /\ ~Collect(t) /\ ~DestroyJob(t)
    BY <2>15 DEF AddToReady, Help, WaitJob, Collect, DestroyJob, At
  <2>18. QED
    BY <1>4, <2>2, <2>3, <2>4, <2>5, <2>6, <2>7, <2>8, <2>11, <2>12, <2>13, <2>14, <2>16, <2>17
       DEF Step
<1>5. QED BY <1>1, <1>2, <1>3, <1>4 DEF WillLook

(* Some thread keeps looking until the ready list is found empty.          *)
LEMMA KeepsLooking ==
    ASSUME Framing, NEW t \in Threads, Step(t), NEW u \in WThreads, WillLook(u)
    PROVE  \/ \E v \in WThreads : WillLook(v)'
           \/ ready' = <<>> /\ t \in WThreads /\ Turn(t)'.pc = "running"
<1>1. CASE u = t
  BY <1>1, OwnLooks
<1>2. CASE u # t /\ Claiming(t)
  BY <1>2, ClaimLooks
<1>3. CASE u # t /\ ~Claiming(t)
  BY <1>3, OthersLook
<1>4. QED BY <1>1, <1>2, <1>3

------------------------------------------------------------------------------
(* Each part of the invariant, one step further.                           *)
LEMMA ListedHas ==
    ASSUME DataOK, NEW j \in ToSet(running)
    PROVE  RunningJob # NoJob
<1> DEFINE open == {i \in DOMAIN running : ~IsDone(running[i])}
<1>1. /\ running \in Seq(Jobs) /\ Len(running) \in Nat /\ DOMAIN running = 1..Len(running)
      /\ running # <<>> /\ NoJob \notin Jobs
  <2>1. running \in Seq(Jobs)
    BY DEF DataOK
  <2>2. Len(running) \in Nat /\ DOMAIN running = 1..Len(running)
    BY <2>1, LenProperties
  <2>3. running # <<>>
    BY <2>2 DEF ToSet
  <2>4. QED BY <2>1, <2>2, <2>3, SchedAssumption
<1>2. CASE open # {}
  <2>1. RunningJob = running[Min(open)]
    BY <1>2 DEF RunningJob
  <2>2. open \in SUBSET Nat
    BY <1>1
  <2>3. Min(open) \in open
    BY <1>2, <2>2, LeastOf
  <2>4. QED BY <1>1, <2>1, <2>3, ElementOfSeq
<1>3. CASE open = {}
  <2>1. RunningJob = Last(running)
    BY <1>1, <1>3 DEF RunningJob
  <2>2. QED BY <1>1, <2>1, TakenFrom
<1>4. QED BY <1>2, <1>3

(* A thread that runs a batch will look for more.                          *)
LEMMA HolderLooks ==
    ASSUME Typed, FramesGood, NEW u \in WThreads, NEW j, NEW b \in Batches, Holds(u, j, b)
    PROVE  WillLook(u) /\ Turn(u).pc # "running"
<1> SUFFICES ASSUME NEW n, n = Len(stack[u]) PROVE WillLook(u) /\ Turn(u).pc # "running"
  OBVIOUS
<1>1. u \in Threads /\ n \in Nat \ {0}
  BY TurnFacts DEF Typed
<1>2. PICK i \in 1..n : stack[u][i].batch = b
  BY <1>1, HoldsIn DEF Typed
<1>3. stack[u][i].pc = "inc" /\ Good(job, u, stack[u][i], i, n)
  <2>1. b # 0
    BY BatchFacts
  <2>2. FrameRight(stack[u][i])
    BY <1>1, <1>2, FramedBy
  <2>3. QED BY <1>1, <1>2, <2>1, <2>2 DEF FrameRight, FramesGood
<1>4. CASE n > 2
  <2>1. Turn(u).pc \in {"inc", "isdone"} /\ ~Turn(u).idle
    BY <1>4, DeepLooks
  <2>2. QED BY <2>1 DEF WillLook, Found, Ending
<1>5. CASE ~(n > 2)
  <2>1. n = 1 \/ n = 2
    BY <1>1, <1>5, OneTwoMore
  <2>2. stack[u][n].pc \in BasePlaces
    BY <1>1 DEF Typed, StackOK, ShapeOf, Bottom
  <2>3. i # n
    BY <1>3, <2>2 DEF BasePlaces
  <2>4. n = 2 /\ i = 1
    <3>1. \A k \in 1..1 : k = 1
      OBVIOUS
    <3>2. \A k \in 1..2 : k = 1 \/ k = 2
      OBVIOUS
    <3>3. QED BY <2>1, <2>3, <3>1, <3>2
  <2>5. Turn(u) = stack[u][1]
    BY <1>1, <2>4, TurnFacts, TopFacts DEF Typed
  <2>6. Turn(u).pc = "inc" /\ ~Turn(u).idle
    BY <1>3, <2>4, <2>5 DEF Good, Ending
  <2>7. QED BY <2>6 DEF WillLook, Found
<1>6. QED BY <1>4, <1>5

(* The ready list.                                                         *)
LEMMA ReadyStep ==
    ASSUME Framing, ReadyWatched, NEW t \in Threads, Step(t)
    PROVE  ReadyWatched'
<1> SUFFICES ASSUME ready' # <<>>
             PROVE  \/ \E u \in WThreads : WillLook(u)'
                    \/ \E u \in Clients : At(u, "notify")'
  BY DEF ReadyWatched
<1>0. Typed /\ Typed' /\ FramesGood /\ Came(t)
  BY StepCame DEF Framing
<1>1. ASSUME NEW u \in WThreads, WillLook(u) PROVE \E v \in WThreads : WillLook(v)'
  BY <1>1, KeepsLooking
<1>2. ASSUME NEW c \in Clients, At(c, "notify"), c # t PROVE At(c, "notify")'
  <2>1. stack'[c] = stack[c]
    BY <1>0, <1>2 DEF Came, Threads
  <2>2. QED BY <1>2, <2>1 DEF At, Top
<1>3. ASSUME t \in Clients, At(t, "notify") PROVE \E u \in WThreads : WillLook(u)'
  <2>1. Notify(t)
    BY <1>3 DEF Step, GetReady, MoveToRunning, GetRunning, Sleep, ExecBatch, ExecTask, FunReturns,
                Increment, CheckDone, RemoveRunning, MoveToDone, PostJob, ParallelFor, PushTask,
                CreateFails, WaitTask, AddToReady, Help, WaitJob, Collect, DestroyJob, Calling, At
  <2>2. PICK side \in [Wakes(t) -> Sides] : sem' = [w \in WThreads |->
            IF w[1] \in Wakes(t) /\ side[w[1]] = w[2] THEN sem[w] + 1 ELSE sem[w]]
    BY <2>1 DEF Notify
  <2>3. Wakes(t) = Workers
    BY <1>3 DEF Wakes
  <2>4. PICK w \in Workers : TRUE
    BY SchedAssumption
  <2>5. <<w, side[w]>> \in WThreads
    BY <2>2, <2>3, <2>4 DEF WThreads
  <2> DEFINE u == <<w, side[w]>>
  <2>6. u[1] = w /\ u[2] = side[w]
    OBVIOUS
  <2> HIDE DEF u
  <2>7. sem'[u] = sem[u] + 1 /\ sem[u] \in Nat
    BY <1>0, <2>2, <2>3, <2>5, <2>6 DEF Typed, DataOK, u
  <2>8. WillLook(u)'
    BY <2>7 DEF WillLook
  <2>9. QED BY <2>5, <2>8 DEF u
<1>4. CASE ready = <<>>
  <2>1. AddToReady(t)
    BY <1>4 DEF Step, GetReady, MoveToRunning, GetRunning, Sleep, Notify, ExecBatch, ExecTask, FunReturns,
                Increment, CheckDone, RemoveRunning, MoveToDone, PostJob, ParallelFor, PushTask,
                CreateFails, WaitTask, Help, WaitJob, Collect, DestroyJob
  <2>2. Top(t).pc = "addready"
    BY <2>1 DEF AddToReady, At
  <2>3. CASE t \in WThreads
    <3>1. Len(stack[t]) > 2
      BY <1>0, <2>2, <2>3, TurnFacts DEF Typed
    <3>2. QED BY <1>0, <2>3, <3>1, DeepStays
  <2>4. CASE t \in Clients
    <3>1. GoTo(t, "notify")
      BY <1>4, <2>1, <2>4 DEF AddToReady
    <3>2. Become(t, [Top(t) EXCEPT !.pc = "notify"])
      BY <1>0, <3>1, GoToBecomes DEF Typed, Places
    <3>3. /\ [Top(t) EXCEPT !.pc = "notify"] \in FrameSet
          /\ [Top(t) EXCEPT !.pc = "notify"].pc = "notify"
      BY <1>0, TopFacts DEF Typed, FrameSet, Places
    <3>4. stack'[t][1].pc = "notify"
      BY <1>0, <3>2, <3>3, BecomeStack
    <3>5. Top(t)' = stack'[t][1]
      BY <1>0, EmptySeq, LenProperties DEF Typed, StackOK, Stacks, Top
    <3>6. At(t, "notify")'
      BY <3>4, <3>5 DEF At
    <3>7. QED BY <2>4, <3>6
  <2>5. QED BY <2>3, <2>4 DEF Threads
<1>5. QED BY <1>1, <1>2, <1>3, <1>4 DEF ReadyWatched

(* Who lists a job on the running list.                                    *)
LEMMA RunningGrows ==
    ASSUME Typed, NEW t \in Threads, Step(t), NEW j \in ToSet(running'), j \notin ToSet(running)
    PROVE  MoveToRunning(t) /\ j = MyJob(t) /\ t \in WThreads /\ Top(t).pc = "move"
<1>1. CASE MoveToRunning(t)
  <2>1. Top(t).pc = "move" /\ MyJob(t) \in Jobs
    BY <1>1, MyJobIsJob DEF MoveToRunning, At, Idle, Typed
  <2>2. t \in WThreads
    BY <2>1, TopFacts DEF ClientPlaces, Threads, Typed
  <2>3. running \in Seq(Jobs)
    BY DEF Typed, DataOK
  <2>4. running' = Append(running, MyJob(t)) \/ running' = running
    BY <1>1 DEF MoveToRunning, ListOrForget
  <2>5. j = MyJob(t)
    <3> SUFFICES ASSUME NEW r, r = running', NEW m \in Jobs, m = MyJob(t) PROVE j = m
      BY <2>1
    <3>1. ToSet(Append(running, m)) = ToSet(running) \cup {m}
      BY <2>3, Appended
    <3>2. QED BY <2>4, <3>1
  <2>6. QED BY <1>1, <2>1, <2>2, <2>5
<1>2. CASE RemoveRunning(t)
  <2>1. running \in Seq(Jobs) /\ running' = RemoveFirst(running, MyJob(t))
    BY <1>2 DEF Typed, DataOK, RemoveRunning, WithoutRunning
  <2>2. QED BY <2>1, RemoveFirstProperties
<1>3. CASE running' = running
  BY <1>3
<1>4. QED
  BY <1>1, <1>2, <1>3
     DEF Step, GetReady, GetRunning, Sleep, Notify, ExecBatch, ExecTask, FunReturns, Increment,
         CheckDone, MoveToDone, PostJob, ParallelFor, PushTask, CreateFails, WaitTask, AddToReady,
         Help, WaitJob, Collect, DestroyJob

(* A job that stays on the running list was as unfinished before.          *)
LEMMA ListedStays ==
    ASSUME Framing, NEW t \in Threads, Step(t), NEW j \in ToSet(running)
    PROVE  /\ j \in Jobs /\ job[j].live /\ JobInv(j)
           /\ IsTask(j)' <=> IsTask(j)
           /\ runs'[j][1] = 0 => runs[j][1] = 0
           /\ HasWork(j)' => HasWork(j)
<1>1. Typed /\ IInv /\ ~Recycle /\ j \in Jobs
  <2>1. Typed /\ IInv /\ ~Recycle
    BY DEF Framing
  <2>2. running \in Seq(Jobs)
    BY <2>1 DEF Typed, DataOK
  <2>3. \A i \in DOMAIN running : running[i] \in Jobs
    BY <2>2, LenProperties, ElementOfSeq
  <2>4. QED BY <2>1, <2>3 DEF ToSet
<1>2. job[j].live /\ ~On(j, "destroy") /\ JobInv(j)
  BY <1>1 DEF IInv, JobInv, RunningFor
<1>3. j \in Live
  BY <1>1, <1>2 DEF Live
<1>4. /\ job'[j].type = job[j].type
      /\ Undone(job'[j]) => Undone(job[j])
      /\ runs'[j][1] = 0 => runs[j][1] = 0
  BY <1>1, <1>2, <1>3, JobStays
<1>5. IsTask(j)' <=> IsTask(j)
  BY <1>4 DEF IsTask
<1>6. HasWork(j)' => HasWork(j)
  BY <1>4 DEF HasWork, IsTask, Unclaimed, Undone
<1>7. QED BY <1>1, <1>2, <1>4, <1>5, <1>6

LEMMA TurnAtTop ==
    ASSUME Typed, NEW t \in WThreads
    PROVE  /\ Turn(t).pc = "running" => Len(stack[t]) = 1 /\ Top(t).pc = "running"
           /\ Turn(t).pc = "exec" => Len(stack[t]) = 2 /\ Top(t) = Turn(t)
           /\ Top(t).pc = "move" => Len(stack[t]) = 1 \/ Len(stack[t]) > 2
           /\ Len(stack[t]) = 1 => Turn(t) = Top(t)
<1> SUFFICES ASSUME NEW n, n = Len(stack[t])
             PROVE  /\ Turn(t).pc = "running" => n = 1 /\ Top(t).pc = "running"
                    /\ Turn(t).pc = "exec" => n = 2 /\ Top(t) = Turn(t)
                    /\ Top(t).pc = "move" => n = 1 \/ n > 2
                    /\ n = 1 => Turn(t) = Top(t)
  OBVIOUS
<1>1. /\ n \in Nat \ {0}
      /\ n = 1 => Turn(t) = Top(t) /\ Top(t).pc \in BasePlaces
      /\ n = 2 => Turn(t) = Top(t) /\ Top(t).pc \in Executing
      /\ n > 2 => Turn(t).pc \in {"inc", "isdone"}
  BY TurnFacts DEF Typed
<1>2. n = 1 \/ n = 2 \/ n > 2
  BY <1>1, OneTwoMore
<1>3. QED BY <1>1, <1>2 DEF BasePlaces, Executing

(* The task on the running list.                                           *)
LEMMA TaskStep ==
    ASSUME Framing, TaskRunning, NEW t \in Threads, Step(t)
    PROVE  TaskRunning'
<1>1. SUFFICES ASSUME NEW j \in ToSet(running'), IsTask(j)', runs'[j][1] = 0
               PROVE  \E u \in WThreads : Turn(u)'.pc = "exec" /\ Turn(u)'.job = j
  BY DEF TaskRunning
<1>2. Typed /\ IInv /\ FramesGood /\ Came(t)
  BY StepCame DEF Framing
<1>3. CASE j \in ToSet(running)
  <2>1. j \in Jobs /\ IsTask(j) /\ runs[j][1] = 0
    BY <1>1, <1>3, ListedStays
  <2>2. PICK u \in WThreads : Turn(u).pc = "exec" /\ Turn(u).job = j
    BY <1>3, <2>1 DEF TaskRunning
  <2>3. CASE u # t
    <3>1. stack'[u] = stack[u]
      BY <1>2, <2>3 DEF Came, Threads
    <3>2. Turn(u)' = Turn(u)
      BY <3>1 DEF Turn
    <3>3. QED BY <2>2, <3>2
  <2>4. CASE u = t
    <3>1. Top(t).pc = "exec" /\ MyJob(t) = j
      BY <1>2, <2>2, <2>4, TurnAtTop DEF MyJob
    <3>2. ExecTask(t)
      BY <2>1, <3>1
         DEF Step, GetReady, MoveToRunning, GetRunning, Sleep, Notify, ExecBatch, FunReturns,
             Increment, CheckDone, RemoveRunning, MoveToDone, PostJob, ParallelFor, PushTask,
             CreateFails, WaitTask, AddToReady, Help, WaitJob, Collect, DestroyJob, Calling, At
    <3>3. runs' = [runs EXCEPT ![j][1] = Min({@ + 1, 2})]
      BY <3>1, <3>2 DEF ExecTask
    <3>4. 1 \in Batches /\ DataOK
      BY <1>2, BatchFacts DEF Typed
    <3>5. runs'[j][1] = IF runs[j][1] = 0 THEN 1 ELSE 2
      BY <2>1, <3>3, <3>4, RunsTyped
    <3>6. QED BY <1>1, <2>1, <3>5
  <2>5. QED BY <2>3, <2>4
<1>4. CASE j \notin ToSet(running)
  <2>1. MoveToRunning(t) /\ j = MyJob(t) /\ t \in WThreads /\ Top(t).pc = "move"
    BY <1>2, <1>4, RunningGrows
  <2>2. /\ j \in Jobs /\ t \in Threads /\ Len(stack[t]) \in Nat \ {0}
        /\ Good(job, t, Top(t), 1, Len(stack[t]))
    <3>1. j \in Jobs /\ Top(t) = stack[t][1] /\ Len(stack[t]) \in Nat \ {0} /\ t \in Threads
      BY <1>2, <2>1, MyJobIsJob, TopFacts DEF Typed, Idle
    <3>2. 1 \in 1..Len(stack[t])
      BY <3>1
    <3>3. Good(job, t, stack[t][1], 1, Len(stack[t]))
      BY <1>2, <3>1, <3>2 DEF FramesGood
    <3>4. QED BY <3>1, <3>3
  <2>3. IsTask(j)
    <3>1. j \in Jobs /\ Framed(j)
      BY <1>2, <2>1, <2>2, FramedBy, TopFacts DEF Typed, MyJob
    <3>2. job'[j].type = job[j].type
      BY <1>2, <3>1, JobStays DEF Framing
    <3>3. QED BY <1>1, <3>2 DEF IsTask
  <2>4. Len(stack[t]) = 1
    BY <2>1, <2>2, <2>3 DEF Good, IsTask, MyJob
  <2>5. Frame("schedule", j) \in FrameSet /\ Exec(t, j, Frame("schedule", j))
    BY <2>1, <2>2, <2>3, JobFrame DEF MoveToRunning, Places, Idle
  <2>6. Turn(t)' = Frame("exec", j)
    BY <1>2, <2>2, <2>4, <2>5, ExecCame
  <2>7. Turn(t)'.pc = "exec" /\ Turn(t)'.job = j
    BY <2>6 DEF Frame
  <2>8. QED BY <2>1, <2>7
<1>5. QED BY <1>3, <1>4

(* A thread that looked at the ready list takes a job with batches left,   *)
(* or leaves it to threads that are running some.                          *)
LEMMA RunningFound ==
    ASSUME Framing, TaskRunning, NEW t \in WThreads, Step(t), Turn(t).pc = "running",
           NEW j \in ToSet(running), HasWork(j)
    PROVE  \E u \in WThreads : WillLook(u)'
<1>1. /\ Typed /\ IInv /\ FramesGood /\ t \in Threads /\ Len(stack[t]) = 1 /\ Top(t).pc = "running"
      /\ GetRunning(t) /\ ~Claiming(t)
  <2>1. /\ Typed /\ IInv /\ FramesGood /\ t \in Threads
        /\ Len(stack[t]) = 1 /\ Top(t).pc = "running"
    BY TurnAtTop DEF Framing, Threads
  <2>2. GetRunning(t) /\ ~ExecBatch(t)
    BY <2>1
       DEF Step, GetReady, MoveToRunning, Sleep, Notify, ExecBatch, ExecTask, FunReturns, Increment,
           CheckDone, RemoveRunning, MoveToDone, PostJob, ParallelFor, PushTask, CreateFails, WaitTask,
           AddToReady, Help, WaitJob, Collect, DestroyJob, Calling, At
  <2>3. QED BY <2>1, <2>2 DEF Claiming
<1>2. ASSUME NEW u \in WThreads, WillLook(u), Turn(u).pc # "running"
      PROVE  \E v \in WThreads : WillLook(v)'
  <2>1. u # t
    BY <1>2
  <2>2. QED BY <1>1, <1>2, <2>1, OthersLook
<1> SUFFICES ASSUME NEW R, R = RunningJob PROVE \E u \in WThreads : WillLook(u)'
  OBVIOUS
<1>3. /\ R # NoJob /\ R \in ToSet(running) /\ R \in Jobs
      /\ ~IsDone(R) \/ \A k \in ToSet(running) : IsDone(k)
  BY <1>1, ListedHas, RunningJobListed DEF Typed
<1>4. job[R].live /\ JobInv(R) /\ job[j].live /\ JobInv(j) /\ j \in Jobs
  BY <1>1, <1>3, ListedStays
<1>5. job' = job /\ Turn(t)' = Frame("exec", R)
  <2>1. Exec(t, R, Frame("schedule", R)) /\ job' = job
    BY <1>1, <1>3 DEF GetRunning
  <2>2. Frame("schedule", R) \in FrameSet
    BY <1>3, JobFrame DEF Places, Idle
  <2>3. QED BY <1>1, <1>3, <2>1, <2>2, ExecCame
<1>6. CASE Undone(job[R])
  <2>1. Turn(t)'.pc = "exec" /\ Turn(t)'.job = R
    BY <1>5 DEF Frame
  <2>2. WillLook(t)'
    BY <1>5, <1>6, <2>1 DEF WillLook, Found
  <2>3. QED BY <2>2
<1>7. CASE ~Undone(job[R]) /\ ~IsDone(R)
  <2>1. ~IsTask(R) /\ job[R].execed = Batches
    BY <1>1, <1>3, <1>7, JobTypes DEF Undone, IsTask, Typed
  <2>2. job[R].batches_done + Cardinality(Holders(R)) = Cardinality(Batches)
    BY <1>4, <2>1 DEF JobInv, AccountFor
  <2>3. job[R].batches_done # Cardinality(Batches) /\ job[R].batches_done \in Nat
    BY <1>1, <1>3, <1>7, <2>1, JobTypes DEF IsDone, NbBatches, Typed
  <2>4. Holders(R) # {}
    <3>1. Cardinality(Holders(R)) # 0
      BY <2>2, <2>3
    <3>2. QED BY <3>1, FS_EmptySet
  <2>5. PICK u \in WThreads, b \in Batches : Holds(u, R, b)
    BY <2>4 DEF Holders
  <2>6. WillLook(u) /\ Turn(u).pc # "running"
    BY <1>1, <2>5, HolderLooks
  <2>7. QED BY <1>2, <2>6
<1>8. CASE IsDone(R)
  <2>1. IsDone(j)
    BY <1>3, <1>8
  <2>2. IsTask(j)
    BY <1>1, <1>4, <2>1, LoopDone DEF Finished
  <2>3. runs[j][1] = 0
    BY <2>2 DEF HasWork
  <2>4. PICK u \in WThreads : Turn(u).pc = "exec" /\ Turn(u).job = j
    BY <2>2, <2>3 DEF TaskRunning
  <2>5. WillLook(u)
    BY <2>2, <2>4 DEF WillLook, Found, Undone, IsTask
  <2>6. QED BY <1>2, <2>4, <2>5
<1>9. QED BY <1>6, <1>7, <1>8

(* The running list.                                                       *)
LEMMA RunningStep ==
    ASSUME Framing, TaskRunning, RunningWatched, NEW t \in Threads, Step(t)
    PROVE  RunningWatched'
<1>1. SUFFICES ASSUME NEW j \in ToSet(running'), HasWork(j)'
               PROVE  \E u \in WThreads : WillLook(u)' \/ Turn(u)'.pc = "running"
  BY DEF RunningWatched
<1>2. Typed /\ IInv /\ FramesGood /\ Came(t)
  BY StepCame DEF Framing
<1>3. ASSUME NEW u \in WThreads, WillLook(u)
      PROVE  \E v \in WThreads : WillLook(v)' \/ Turn(v)'.pc = "running"
  BY <1>3, KeepsLooking
<1>4. CASE j \in ToSet(running)
  <2>1. HasWork(j)
    BY <1>1, <1>4, ListedStays
  <2>2. PICK u \in WThreads : WillLook(u) \/ Turn(u).pc = "running"
    BY <1>4, <2>1 DEF RunningWatched
  <2>3. CASE u # t /\ Turn(u).pc = "running"
    <3>1. stack'[u] = stack[u]
      BY <1>2, <2>3 DEF Came, Threads
    <3>2. Turn(u)' = Turn(u)
      BY <3>1 DEF Turn
    <3>3. QED BY <2>3, <3>2
  <2>4. CASE u = t /\ Turn(u).pc = "running"
    BY <1>4, <2>1, <2>4, RunningFound
  <2>5. QED BY <1>3, <2>2, <2>3, <2>4
<1>5. CASE j \notin ToSet(running)
  <2>1. MoveToRunning(t) /\ j = MyJob(t) /\ t \in WThreads /\ Top(t).pc = "move"
    BY <1>2, <1>5, RunningGrows
  <2>2. WillLook(t)
    <3>1. CASE Len(stack[t]) > 2
      <4>1. Turn(t).pc \in {"inc", "isdone"} /\ ~Turn(t).idle
        BY <1>2, <2>1, <3>1, DeepLooks
      <4>2. QED BY <4>1 DEF WillLook, Found, Ending
    <3>2. CASE Len(stack[t]) = 1
      <4>1. Turn(t).pc = "move" /\ Turn(t).job = j
        BY <1>2, <2>1, <3>2, TurnAtTop DEF MyJob
      <4>2. j \in Jobs /\ Hands(t, j)
        BY <1>2, <2>1, MyJobIsJob DEF Typed, Idle, Hands
      <4>3. Quiet(j)
        BY <1>2, <4>2 DEF IInv, JobInv, ReadyFor, Untaken
      <4>4. Undone(job[j])
        BY <4>3, BatchFacts DEF Quiet, Undone
      <4>5. QED BY <4>1, <4>4 DEF WillLook, Found
    <3>3. QED BY <1>2, <2>1, <3>1, <3>2, TurnAtTop
  <2>3. QED BY <1>3, <2>1, <2>2
<1>6. QED BY <1>4, <1>5

------------------------------------------------------------------------------
(* The invariant.                                                          *)
AwakeInv == /\ ReadyWatched /\ RunningWatched /\ TaskRunning
            /\ FramesGood /\ OneOwner /\ TasksAreTasks

LEMMA InitAwake == Init => AwakeInv
<1> SUFFICES ASSUME Init PROVE AwakeInv
  OBVIOUS
<1>1. ready = <<>> /\ ToSet(running) = {}
  BY DEF Init, ToSet
<1>2. ReadyWatched /\ RunningWatched /\ TaskRunning /\ TasksAreTasks
  BY <1>1 DEF ReadyWatched, RunningWatched, TaskRunning, TasksAreTasks, Init
<1>3. ASSUME NEW t \in Threads
      PROVE  /\ Len(stack[t]) = 1 /\ stack[t][1].idle = FALSE
             /\ stack[t][1].pc = IF t \in WThreads THEN "ready" ELSE "user"
  <2>1. CASE t \in WThreads
    <3>1. stack[t] = <<Frame("ready", NoJob)>>
      BY <2>1 DEF Init
    <3>2. Len(stack[t]) = 1 /\ stack[t][1] = Frame("ready", NoJob)
      BY <3>1
    <3>3. QED BY <2>1, <3>2 DEF Frame
  <2>2. CASE t \notin WThreads
    <3>1. stack[t] = <<UserCode(Program[t])>>
      BY <2>2 DEF Init
    <3>2. Len(stack[t]) = 1 /\ stack[t][1] = UserCode(Program[t])
      BY <3>1
    <3>3. QED BY <2>2, <3>2 DEF UserCode, Frame
  <2>3. QED BY <2>1, <2>2
<1>4. FramesGood
  <2>1. SUFFICES ASSUME NEW t \in Threads, NEW i \in 1..Len(stack[t])
                 PROVE  Good(job, t, stack[t][i], i, Len(stack[t]))
    BY DEF FramesGood
  <2>2. i = 1 /\ Len(stack[t]) = 1
    <3>1. \A k \in 1..1 : k = 1
      OBVIOUS
    <3>2. Len(stack[t]) = 1
      BY <1>3
    <3>3. QED BY <3>1, <3>2
  <2>3. /\ stack[t][i].idle = FALSE
        /\ stack[t][i].pc = IF t \in WThreads THEN "ready" ELSE "user"
    BY <1>3, <2>2
  <2>4. QED BY <2>2, <2>3 DEF Good
<1>5. OneOwner
  <2>1. ASSUME NEW t \in Threads, NEW j PROVE ~Owns(t, j)
    <3>1. 1..(1 - 1) = {}
      OBVIOUS
    <3>2. Len(stack[t]) = 1
      BY <1>3
    <3>3. QED BY <3>1, <3>2 DEF Owns
  <2>2. QED BY <2>1 DEF OneOwner
<1>6. QED BY <1>2, <1>4, <1>5 DEF AwakeInv

LEMMA StutterAwake == ASSUME Typed, AwakeInv, UNCHANGED vars PROVE AwakeInv'
<1> USE DEF vars
<1>1. \A t \in Threads : Top(t)' = Top(t)
  BY DEF Top
<1>2. \A t \in WThreads : Turn(t)' = Turn(t)
  BY DEF Turn
<1>3. \A t \in WThreads : WillLook(t) => WillLook(t)'
  BY <1>2 DEF WillLook, Found
<1>4. ReadyWatched'
  <2>1. \A t \in Clients : At(t, "notify") => At(t, "notify")'
    BY <1>1 DEF At, Threads
  <2>2. QED BY <1>3, <2>1 DEF AwakeInv, ReadyWatched
<1>5. RunningWatched'
  <2>1. \A j : HasWork(j)' <=> HasWork(j)
    BY DEF HasWork, IsTask, Unclaimed
  <2>2. QED BY <1>2, <1>3, <2>1 DEF AwakeInv, RunningWatched
<1>6. TaskRunning'
  BY <1>2 DEF AwakeInv, TaskRunning, IsTask
<1>7. FramesGood' /\ TasksAreTasks'
  BY DEF AwakeInv, FramesGood, TasksAreTasks, IsTask
<1>8. OneOwner'
  BY DEF AwakeInv, OneOwner, Owns, Live, IsTask
<1>9. QED BY <1>4, <1>5, <1>6, <1>7, <1>8 DEF AwakeInv

LEMMA StepAwake ==
    ASSUME Typed, Typed', IInv, AwakeInv, ~Recycle, BodiesWaitForNone, NEW t \in Threads, Step(t)
    PROVE  AwakeInv'
<1>1. Framing /\ OneOwner /\ TasksAreTasks /\ FramesGood
  BY DEF AwakeInv, Framing
<1>2. Came(t)
  BY <1>1, StepCame
<1>3. ReadyWatched'
  BY <1>1, ReadyStep DEF AwakeInv
<1>4. RunningWatched'
  BY <1>1, RunningStep DEF AwakeInv
<1>5. TaskRunning'
  BY <1>1, TaskStep DEF AwakeInv
<1>6. FramesGood'
  BY <1>1, <1>2, CameGood
<1>7. OneOwner'
  BY <1>1, <1>2, CameOwner
<1>8. TasksAreTasks'
  BY <1>1, TasksStep
<1>9. QED BY <1>3, <1>4, <1>5, <1>6, <1>7, <1>8 DEF AwakeInv

LEMMA NextAwake ==
    ASSUME ~Recycle, BodiesWaitForNone
    PROVE  Typed /\ IInv /\ (Typed /\ IInv)' /\ AwakeInv /\ [Next]_vars => AwakeInv'
<1> SUFFICES ASSUME Typed, IInv, Typed', AwakeInv, [Next]_vars PROVE AwakeInv'
  OBVIOUS
<1>1. CASE \E t \in Threads : Step(t)
  BY <1>1, StepAwake
<1>2. CASE UNCHANGED vars
  BY <1>2, StutterAwake
<1>3. QED BY <1>1, <1>2 DEF Next, Rest

(* Where all worker threads are blocked none will look: a worker that      *)
(* waits for its loop waits for a thread that is about to post.            *)
LEMMA BlockedSleeps ==
    ASSUME Typed, IInv, AwakeInv, \A t \in WThreads : Blocked(t), NEW t \in WThreads
    PROVE  ~WillLook(t) /\ Turn(t).pc = "sleep"
<1>1. /\ FramesGood /\ OneOwner /\ t \in Threads /\ t \notin Clients
      /\ Len(stack[t]) \in Nat \ {0} /\ Top(t) = stack[t][1] /\ sem[t] \in Nat
      /\ Top(t).pc \notin Idle => MyJob(t) \in Jobs
  BY TurnFacts, TopFacts, MyJobIsJob DEF AwakeInv, Typed, DataOK
<1>2. CASE At(t, "sleep") /\ sem[t] = 0
  <2>1. Len(stack[t]) = 1 /\ Turn(t) = Top(t) /\ Top(t).pc = "sleep"
    BY <1>1, <1>2, TurnFacts DEF Typed, At
  <2>2. QED BY <1>2, <2>1 DEF WillLook, Found, Ending
<1>3. CASE At(t, "wait") /\ ~Posted(MyJob(t))
  <2> SUFFICES ASSUME NEW j \in Jobs, j = MyJob(t) PROVE FALSE
    BY <1>1, <1>3 DEF At, Idle
  <2>1. Top(t).pc = "wait" /\ job[j].sem = 0 /\ JobInv(j)
    BY <1>3, JobTypes DEF At, Posted, IInv, Typed
  <2>2. Awaited(job[j])
    <3>1. 1 \in 1..Len(stack[t])
      BY <1>1
    <3>2. Good(job, t, stack[t][1], 1, Len(stack[t]))
      BY <1>1, <3>1 DEF FramesGood
    <3>3. QED BY <1>1, <2>1, <3>2 DEF Good, MyJob
  <2>3. job[j].live /\ ~IsTask(j) /\ IsDone(j) /\ j \in Live
    BY <2>2 DEF Awaited, IsTask, IsDone, NbBatches, Live
  <2>4. PICK pc \in Posting : On(j, pc)
    BY <2>1, <2>3 DEF JobInv, PostedFor, Posting
  <2>u. PICK u \in Threads : \E i \in 1..Len(stack[u]) : stack[u][i].job = j /\ stack[u][i].pc = pc
    BY <2>4 DEF On
  <2>5. PICK i \in 1..Len(stack[u]) : stack[u][i].job = j /\ stack[u][i].pc = pc
    BY <2>u
  <2>6. Len(stack[u]) \in Nat \ {0} /\ ShapeOf(u, stack[u]) /\ Top(u) = stack[u][1]
    BY TopFacts DEF Typed, StackOK
  <2>7. Good(job, u, stack[u][i], i, Len(stack[u]))
    BY <1>1 DEF FramesGood
  <2>8. CASE pc \in {"collect", "destroy"}
    <3>1. i \in 1..(Len(stack[u]) - 1)
      <4>1. i # Len(stack[u])
        BY <2>5, <2>6, <2>8 DEF ShapeOf, Bottom, BasePlaces
      <4>2. QED BY <2>6, <4>1
    <3>2. Owns(u, j)
      BY <2>5, <2>8, <3>1 DEF Owns, Called
    <3>3. Owns(t, j)
      BY <1>1, <2>1, OwnsTop, NotAtBottom DEF Typed, BasePlaces, Called
    <3>4. u = t
      BY <1>1, <2>3, <3>2, <3>3 DEF OneOwner
    <3>5. i # 1
      BY <2>1, <2>5, <2>6, <2>8, <3>4
    <3>6. i - 1 \in 1..(Len(stack[u]) - 1) /\ (i - 1) + 1 = i
      BY <2>6, <3>5
    <3>7. Above(stack[u][i - 1], stack[u][i])
      BY <2>6, <3>6 DEF ShapeOf
    <3>8. QED BY <2>5, <2>8, <3>7 DEF Above
  <2>9. CASE pc \in {"exec", "isdone", "unlist", "todone", "post"}
    <3>1. u \notin Clients /\ u \in WThreads
      BY <2>5, <2>6, <2>9 DEF ShapeOf, ClientPlaces, Threads
    <3>2. i = 1
      <4>1. SUFFICES ASSUME i # 1 PROVE FALSE
        OBVIOUS
      <4>2. pc # "isdone"
        BY <2>3, <2>5, <2>7, <4>1 DEF Good, IsTask
      <4>3. i - 1 \in 1..(Len(stack[u]) - 1) /\ (i - 1) + 1 = i
        BY <2>6, <4>1
      <4>4. Above(stack[u][i - 1], stack[u][i])
        BY <2>6, <4>3 DEF ShapeOf
      <4>5. QED BY <2>5, <2>9, <4>2, <4>4 DEF Above
    <3>3. Top(u).pc = pc /\ u \notin Clients
      BY <2>5, <2>6, <3>1, <3>2
    <3>4. ~Blocked(u)
      BY <2>9, <3>3 DEF Blocked, At
    <3>5. QED BY <3>1, <3>4
  <2>10. QED BY <2>8, <2>9 DEF Posting
<1>4. QED BY <1>1, <1>2, <1>3 DEF Blocked

LEMMA ComesFromInv == Typed /\ IInv /\ AwakeInv => SomebodyComes
<1> SUFFICES ASSUME Typed, IInv, AwakeInv, NEW j \in Listed, HasWork(j),
                    \A t \in WThreads : Blocked(t), \A t \in Clients : ~At(t, "notify")
             PROVE  FALSE
  BY DEF SomebodyComes
<1>1. \A t \in WThreads : ~WillLook(t) /\ Turn(t).pc # "running"
  BY BlockedSleeps
<1>2. ready = <<>>
  BY <1>1 DEF AwakeInv, ReadyWatched
<1>3. j \in ToSet(running)
  BY <1>2 DEF Listed, ToSet
<1>4. QED BY <1>1, <1>3 DEF AwakeInv, RunningWatched

(* No wakeup of the workers is lost: where the functions call no           *)
(* fly_wait_task, a job listed with work to do finds a worker thread awake *)
(* or a client about to wake one, however many threads list, run and       *)
(* finish jobs at once and whichever thread of a worker gets the token.    *)
(* A function that waits for a task may put the last thread to sleep.      *)
THEOREM SomebodyAlwaysComes ==
    ASSUME ~Recycle, BodiesWaitForNone
    PROVE  Spec => []SomebodyComes
<1>1. Spec => [](Typed /\ IInv)
  BY Invariant
<1>2. Init => AwakeInv
  BY InitAwake
<1>3. Typed /\ IInv /\ (Typed /\ IInv)' /\ AwakeInv /\ [Next]_vars => AwakeInv'
  BY NextAwake
<1>4. Typed /\ IInv /\ AwakeInv => SomebodyComes
  BY ComesFromInv
<1>5. QED BY <1>1, <1>2, <1>3, <1>4, PTL DEF Spec
==============================================================================
