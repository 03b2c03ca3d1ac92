------------------------------- MODULE FlySched -------------------------------
(***************************************************************************)
(* fly_sched.c with the parts of fly_job.c, fly.c and fly_worker.c it runs *)
(* on: the life of a job from the call that creates it, over the ready and *)
(* running lists, through the threads that execute it, to the waiter that  *)
(* collects and frees it.                                                  *)
(*                                                                         *)
(* Grain: a section under a list lock is one action (FlyMrswlock shows why *)
(* that is sound), so is every other access to memory threads share; each  *)
(* test and the use of its result are separate actions, as in the code.    *)
(*                                                                         *)
(* Threads run to the depth the code does: a thread has a stack of frames, *)
(* and a job's function may itself call fly_parallel_for, fly_push_task    *)
(* and fly_wait_task.                                                      *)
(***************************************************************************)
EXTENDS Integers, FiniteSets, SequencesExt

CONSTANTS
    Workers,   \* fly_sched.workers
    Sides,     \* the two threads of a worker: main and backup
    Clients,   \* threads of the program that call the library
    Jobs,      \* addresses malloc has for struct fly_job (bound)
    Funs,      \* the user's functions; a task is named by its function
    Program,   \* what each client calls, in order
    Body,      \* what a run of each function calls, in order
    Recycle,   \* whether malloc gives out a freed address while a thread
               \* still holds a pointer to it
    MaxFailures,  \* how many allocations may fail (bound)
    NoJob      \* NULL

WThreads == Workers \X Sides
Threads  == WThreads \cup Clients
Batches  == 1..Cardinality(Workers)    \* fly_make_batches(job, nbworkers)
Calls    == {"pfor", "push", "wait"} \X Funs

ASSUME SchedAssumption ==
    /\ IsFiniteSet(Workers) /\ Workers # {} /\ IsFiniteSet(Sides)
    /\ Clients \cap WThreads = {}
    /\ NoJob \notin Jobs /\ Funs # {}
    /\ Recycle \in BOOLEAN /\ MaxFailures \in Nat
    /\ Program \in [Clients -> Seq(Calls)]
    /\ Body \in [Funs -> Seq(Calls)]

VARIABLES
    ready, running, done,   \* the lists of struct fly_sched
    job,                    \* the memory at each address: a struct fly_job
    task,                   \* task->sched_data of each task
    sem,                    \* the semaphore each worker thread sleeps on
    stack,                  \* the frames of each thread, innermost first
    failures,               \* how many allocations have failed
    runs                    \* how often each batch was run (history, up to 2)

vars == <<ready, running, done, job, task, sem, stack, failures, runs>>

(* A frame: where it stands, the job it works on, the calls its code has   *)
(* still to make, the batch it runs (0: none), and shouldsleep.            *)
Frame(pc, j) == [pc |-> pc, job |-> j, code |-> <<>>, batch |-> 0, idle |-> FALSE]
UserCode(code) == [Frame("user", NoJob) EXCEPT !.code = code]

Top(t)       == Head(stack[t])
MyJob(t)     == Top(t).job
At(t, pc)    == Top(t).pc = pc
GoTo(t, pc)  == stack' = [stack EXCEPT ![t][1].pc = pc]
Become(t, f) == stack' = [stack EXCEPT ![t] = <<f>> \o Tail(@)]
Leave(t)     == stack' = [stack EXCEPT ![t] = Tail(@)]
IsBase(t)    == Len(stack[t]) = 1
FramesOf(t)  == ToSet(stack[t])
Frames       == UNION {FramesOf(t) : t \in Threads}

(* A struct fly_job that malloc has not handed out, and one just created.  *)
(* A freed one keeps its type here: fly_push_task and fly_parallel_for     *)
(* know what they created without looking.                                 *)
Freed == [live |-> FALSE, type |-> "pfor", fun |-> CHOOSE f \in Funs : TRUE,
          execed |-> {}, batches_done |-> 0, sem |-> 0]
NewJob(type, f) == [Freed EXCEPT !.live = TRUE, !.type = type, !.fun = f]
IsTask(j)    == job[j].type = "task"
NbBatches(j) == IF IsTask(j) THEN 1 ELSE Cardinality(Batches)
Unclaimed(j) == Batches \ job[j].execed

Init ==
    /\ ready = <<>> /\ running = <<>> /\ done = <<>>
    /\ job = [j \in Jobs |-> Freed]
    /\ task = [f \in Funs |-> NoJob]
    /\ sem = [t \in WThreads |-> 0]
    /\ stack = [t \in Threads |-> IF t \in WThreads THEN <<Frame("ready", NoJob)>>
                                  ELSE <<UserCode(Program[t])>>]
    /\ failures = 0
    /\ runs = [j \in Jobs |-> [b \in Batches |-> 0]]

(***************************************************************************)
(* Pieces of the code, each with deliberately wrong variants beside it:    *)
(* the project's mutation runs put a variant in the place of the original. *)
(***************************************************************************)
(* fly_job_is_done                                                         *)
DoneWhenClaimed(j) == ~IsTask(j) => Unclaimed(j) = {}
DoneOneEarly(j) == job[j].batches_done >= NbBatches(j) - 1
IsDone(j) == job[j].batches_done = NbBatches(j)

(* fly_get_exec_batch: the compare-and-swap that claims the batch.         *)
ClaimUnmarked(execed, b) == execed
Claim(execed, b) == execed \cup {b}

(* fly_sched_remove_running                                                *)
KeptRunning(j) == running
WithoutRunning(j) == RemoveFirst(running, j)

(* The code that lists a job wakes: the workers other than its own.        *)
WakesNobody(t) == {}
Wakes(t) == IF t \in Clients THEN Workers ELSE Workers \ {t[1]}

(* fly_list_tail_remove of the ready list: the job pushed last.            *)
HeadTaken == Head(ready)
Taken == Last(ready)

(* Which threads find the job done and finish it: whoever looks.           *)
IdlersFinish(t) == IsDone(MyJob(t)) /\ Top(t).idle
Finishes(t) == IsDone(MyJob(t))

(* The waiter goes on when it has taken the token of job->sem.             *)
WaitsForNobody(j) == TRUE
Posted(j) == job[j].sem > 0

(* fly_sched_get_running stops at the first job that is not complete; when *)
(* it finds none it returns the last job it looked at.                     *)
RunningJob ==
    LET open == {i \in DOMAIN running : ~IsDone(running[i])}
    IN CASE open # {}      -> running[Min(open)]
         [] running = <<>> -> NoJob
         [] OTHER          -> Last(running)

(* An allocation fails; fly_list_append does so where its result is ignored *)
Fails == failures < MaxFailures /\ failures' = failures + 1
ListOrForget(list, j) ==
    \/ list' = Append(list, j) /\ UNCHANGED failures
    \/ Fails /\ UNCHANGED list

(***************************************************************************)
(* Entering and leaving fly_sched_exec_job                                 *)
(***************************************************************************)
Exec(t, j, f) == stack' = [stack EXCEPT ![t] = <<Frame("exec", j), f>> \o Tail(@)]

(* Back to fly_schedule, which sleeps when there was nothing to do, or to  *)
(* the loop of fly_add_job_and_wait.                                       *)
Executed(t) ==
    IF Len(stack[t]) = 2 /\ t \in WThreads
    THEN stack' = [stack EXCEPT ![t] = <<Frame(IF Top(t).idle THEN "sleep" ELSE "ready", NoJob)>>]
    ELSE Leave(t)

(***************************************************************************)
(* fly_schedule: one turn of a worker thread                               *)
(***************************************************************************)
GetReady(t) ==
    /\ At(t, "ready")
    /\ \/ /\ ready # <<>>
          /\ ready' = Front(ready)
          /\ Become(t, Frame("move", Taken))
       \/ /\ ready = <<>>
          /\ GoTo(t, "running")
          /\ UNCHANGED ready
    /\ UNCHANGED <<running, done, job, task, sem, runs, failures>>

(* fly_sched_move_to_running; a task is marked complete just before, "to   *)
(* prevent other threads to get this job as running".                      *)
MoveToRunning(t) ==
    /\ At(t, "move") /\ job[MyJob(t)].live
    /\ LET j == MyJob(t)
       IN /\ ListOrForget(running, j)
          /\ IF IsTask(j)
             THEN /\ job' = [job EXCEPT ![j].batches_done = NbBatches(j)]
                  /\ Exec(t, j, Frame("schedule", j))
             ELSE GoTo(t, "notify") /\ UNCHANGED job
    /\ UNCHANGED <<ready, done, task, sem, runs>>

GetRunning(t) ==
    /\ At(t, "running") /\ \A j \in ToSet(running) : job[j].live
    /\ IF RunningJob = NoJob THEN GoTo(t, "sleep")
                             ELSE Exec(t, RunningJob, Frame("schedule", RunningJob))
    /\ UNCHANGED <<ready, running, done, job, task, sem, runs, failures>>

Sleep(t) ==
    /\ At(t, "sleep") /\ sem[t] > 0
    /\ sem' = [sem EXCEPT ![t] = @ - 1]
    /\ GoTo(t, "ready")
    /\ UNCHANGED <<ready, running, done, job, task, runs, failures>>

(* fly_worker_work_available for each worker to wake: which of its threads *)
(* gets the token depends on mblocked and bblocked, a guess of the update  *)
(* thread that may be of any age.                                          *)
Notify(t) ==
    /\ At(t, "notify")
    /\ \E side \in [Wakes(t) -> Sides] :
           sem' = [w \in WThreads |->
                      IF w[1] \in Wakes(t) /\ side[w[1]] = w[2] THEN sem[w] + 1 ELSE sem[w]]
    /\ LET j == MyJob(t)
       IN \/ t \in WThreads /\ IsBase(t) /\ Exec(t, j, Frame("schedule", j))
          \/ t \in WThreads /\ ~IsBase(t) /\ GoTo(t, "help")
          \/ t \in Clients /\ ~IsTask(j) /\ GoTo(t, "wait")
          \/ t \in Clients /\ IsTask(j) /\ Leave(t)
    /\ UNCHANGED <<ready, running, done, job, task, runs, failures>>

(***************************************************************************)
(* fly_sched_exec_job                                                      *)
(***************************************************************************)
(* fly_pfptrj_exec, fly_pfarrj_exec: claim the first batch nobody claimed  *)
(* and run the function over it, or find that there is none.               *)
ExecBatch(t) ==
    /\ At(t, "exec") /\ job[MyJob(t)].live /\ ~IsTask(MyJob(t))
    /\ LET j == MyJob(t)
           b == Min(Unclaimed(j))
       IN \/ /\ Unclaimed(j) # {}
             /\ job' = [job EXCEPT ![j].execed = Claim(@, b)]
             /\ runs' = [runs EXCEPT ![j][b] = Min({@ + 1, 2})]
             /\ stack' = [stack EXCEPT ![t] = <<UserCode(Body[job[j].fun]),
                             [Top(t) EXCEPT !.pc = "inc", !.batch = b]>> \o Tail(@)]
          \/ /\ Unclaimed(j) = {}
             /\ Become(t, [Top(t) EXCEPT !.pc = "isdone", !.idle = TRUE])
             /\ UNCHANGED <<job, runs>>
    /\ UNCHANGED <<ready, running, done, task, sem, failures>>

(* fly_taskjob_exec: nothing is claimed.                                   *)
ExecTask(t) ==
    /\ At(t, "exec") /\ job[MyJob(t)].live /\ IsTask(MyJob(t))
    /\ LET j == MyJob(t)
       IN /\ runs' = [runs EXCEPT ![j][1] = Min({@ + 1, 2})]
          /\ stack' = [stack EXCEPT ![t] = <<UserCode(Body[job[j].fun]),
                          [Top(t) EXCEPT !.pc = "isdone"]>> \o Tail(@)]
    /\ UNCHANGED <<ready, running, done, job, task, sem, failures>>

(* The user's function returns.                                            *)
FunReturns(t) ==
    /\ At(t, "user") /\ Top(t).code = <<>> /\ t \in WThreads
    /\ Leave(t)
    /\ UNCHANGED <<ready, running, done, job, task, sem, runs, failures>>

Increment(t) ==
    /\ At(t, "inc") /\ job[MyJob(t)].live
    /\ job' = [job EXCEPT ![MyJob(t)].batches_done = @ + 1]
    /\ Become(t, [Top(t) EXCEPT !.pc = "isdone", !.batch = 0])
    /\ UNCHANGED <<ready, running, done, task, sem, runs, failures>>

CheckDone(t) ==
    /\ At(t, "isdone") /\ job[MyJob(t)].live
    /\ IF Finishes(t) THEN GoTo(t, "unlist") ELSE Executed(t)
    /\ UNCHANGED <<ready, running, done, job, task, sem, runs, failures>>

RemoveRunning(t) ==
    /\ At(t, "unlist")
    /\ running' = WithoutRunning(MyJob(t))
    /\ GoTo(t, "todone")
    /\ UNCHANGED <<ready, done, job, task, sem, runs, failures>>

MoveToDone(t) ==
    /\ At(t, "todone")
    /\ ListOrForget(done, MyJob(t))
    /\ GoTo(t, "post")
    /\ UNCHANGED <<ready, running, job, task, sem, runs>>

PostJob(t) ==
    /\ At(t, "post") /\ job[MyJob(t)].live
    /\ job' = [job EXCEPT ![MyJob(t)].sem = @ + 1]
    /\ Executed(t)
    /\ UNCHANGED <<ready, running, done, task, sem, runs, failures>>

(***************************************************************************)
(* The calls of the library: fly_parallel_for, fly_push_task,              *)
(* fly_wait_task, from a client or from a function a worker runs           *)
(***************************************************************************)
(* The address malloc returns.  Without Recycle it is one no thread has a  *)
(* pointer to, so that every use of a freed job is seen as one.            *)
Fresh(j) ==
    /\ ~job[j].live
    /\ Recycle \/ (j \notin Range(task) /\ \A f \in Frames : f.job # j)

Calling(t, op) ==
    /\ At(t, "user") /\ Top(t).code # <<>>
    /\ Head(Top(t).code)[1] = op

Enter(t, f) ==
    stack' = [stack EXCEPT ![t] = <<f, UserCode(Tail(Top(t).code))>> \o Tail(@)]

(* fly_create_job_pfor and fly_make_batches: nobody else sees the job yet. *)
ParallelFor(t) ==
    /\ Calling(t, "pfor")
    /\ \E j \in Jobs :
           /\ Fresh(j)
           /\ job' = [job EXCEPT ![j] = NewJob("pfor", Head(Top(t).code)[2])]
           /\ Enter(t, Frame(IF t \in Clients THEN "addready" ELSE "move", j))
    /\ UNCHANGED <<ready, running, done, task, sem, runs, failures>>

PushTask(t) ==
    /\ Calling(t, "push")
    /\ \E j \in Jobs :
           /\ Fresh(j)
           /\ job' = [job EXCEPT ![j] = NewJob("task", Head(Top(t).code)[2])]
           /\ task' = [task EXCEPT ![Head(Top(t).code)[2]] = j]
           /\ Enter(t, Frame("addready", j))
    /\ UNCHANGED <<ready, running, done, sem, runs, failures>>

(* No memory for the job or, in a loop, for a batch: the call returns      *)
(* FLYENORES and what it had allocated is freed before anyone saw it.      *)
CreateFails(t) ==
    /\ Calling(t, "pfor") \/ Calling(t, "push")
    /\ Fails
    /\ Become(t, UserCode(Tail(Top(t).code)))
    /\ UNCHANGED <<ready, running, done, job, task, sem, runs>>

(* fly_wait_task: a task never pushed is an error and nothing is done.     *)
WaitTask(t) ==
    /\ Calling(t, "wait")
    /\ LET j == task[Head(Top(t).code)[2]]
       IN IF j = NoJob THEN Become(t, UserCode(Tail(Top(t).code)))
                       ELSE Enter(t, Frame("wait", j))
    /\ UNCHANGED <<ready, running, done, job, task, sem, runs, failures>>

(* fly_sched_add_to_ready; only fly_sched_add_job goes on to wake anybody, *)
(* a task pushed from a worker wakes nobody.  Without memory for the list  *)
(* node the call frees the job and returns FLYENORES; a task goes on       *)
(* pointing at it.                                                         *)
AddToReady(t) ==
    /\ At(t, "addready")
    /\ \/ /\ ready' = Append(ready, MyJob(t))
          /\ IF t \in Clients THEN GoTo(t, "notify") ELSE Leave(t)
          /\ UNCHANGED failures
       \/ Fails /\ GoTo(t, "destroy") /\ UNCHANGED ready
    /\ UNCHANGED <<running, done, job, task, sem, runs>>

(* The loop of fly_add_job_and_wait: a worker runs batches of its own job  *)
(* until it is done (fly_schedule_for_job).                                *)
Help(t) ==
    /\ At(t, "help") /\ job[MyJob(t)].live
    /\ IF IsDone(MyJob(t)) THEN GoTo(t, "wait") ELSE Exec(t, MyJob(t), Top(t))
    /\ UNCHANGED <<ready, running, done, job, task, sem, runs, failures>>

WaitJob(t) ==
    /\ At(t, "wait") /\ job[MyJob(t)].live /\ Posted(MyJob(t))
    /\ job' = [job EXCEPT ![MyJob(t)].sem = @ - 1]
    /\ GoTo(t, "collect")
    /\ UNCHANGED <<ready, running, done, task, sem, runs, failures>>

Collect(t) ==
    /\ At(t, "collect")
    /\ done' = RemoveFirst(done, MyJob(t))
    /\ GoTo(t, "destroy")
    /\ UNCHANGED <<ready, running, job, task, sem, runs, failures>>

DestroyJob(t) ==
    /\ At(t, "destroy") /\ job[MyJob(t)].live
    /\ job' = [job EXCEPT ![MyJob(t)] = [Freed EXCEPT !.type = job[MyJob(t)].type]]
    /\ runs' = [runs EXCEPT ![MyJob(t)] = [b \in Batches |-> 0]]
    /\ Leave(t)
    /\ UNCHANGED <<ready, running, done, task, sem, failures>>

(* The next step of a thread accesses a freed job.  What the build does    *)
(* from there on is anybody's guess, so in the model it stops there.       *)
UsesFreed(t) ==
    \/ At(t, "running") /\ \E j \in ToSet(running) : ~job[j].live
    \/ /\ Top(t).pc \in {"move", "exec", "inc", "isdone", "post", "help", "wait", "destroy"}
       /\ ~job[MyJob(t)].live

Step(t) ==
    \/ GetReady(t) \/ MoveToRunning(t) \/ GetRunning(t) \/ Sleep(t) \/ Notify(t)
    \/ ExecBatch(t) \/ ExecTask(t) \/ FunReturns(t) \/ Increment(t)
    \/ CheckDone(t) \/ RemoveRunning(t) \/ MoveToDone(t) \/ PostJob(t)
    \/ ParallelFor(t) \/ PushTask(t) \/ CreateFails(t) \/ WaitTask(t)
    \/ AddToReady(t) \/ Help(t) \/ WaitJob(t) \/ Collect(t) \/ DestroyJob(t)

(* Every thread sleeps on a semaphore without a token, or has made all its *)
(* calls: nothing happens any more, whether that is right or not.          *)
Blocked(t) == \/ At(t, "sleep") /\ sem[t] = 0
              \/ At(t, "wait") /\ ~Posted(MyJob(t))
              \/ t \in Clients /\ stack[t] = <<UserCode(<<>>)>>
Rest == (\A t \in Threads : Blocked(t) \/ UsesFreed(t)) /\ UNCHANGED vars

Next == (\E t \in Threads : Step(t)) \/ Rest

Spec == Init /\ [][Next]_vars

(* Every thread that can run is eventually scheduled.                      *)
FairSpec == Spec /\ \A t \in Threads : WF_vars(Step(t))

------------------------------------------------------------------------------
(* The places in the stacks of the threads that work on a job.             *)
Places == {"user",                                             \* user code
           "ready", "running", "move", "notify", "schedule", "sleep",
           "exec", "inc", "isdone", "unlist", "todone", "post",
           "addready", "help", "wait", "collect", "destroy"}
Working(j, pcs) == \E f \in Frames : f.job = j /\ f.pc \in pcs

Holds(t, j, b) == \E i \in DOMAIN stack[t] : stack[t][i].batch = b /\ stack[t][i].job = j
Held(j, b)     == \E t \in WThreads : Holds(t, j, b)
Holders(j)     == {h \in WThreads \X Batches : Holds(h[1], j, h[2])}

Listed    == ToSet(ready) \cup ToSet(running)
Live      == {j \in Jobs : job[j].live}
Loops     == {j \in Live : ~IsTask(j)}
HasWork(j) == IF IsTask(j) THEN runs[j][1] = 0 ELSE Unclaimed(j) # {}

FrameSet == [pc : Places, job : Jobs \cup {NoJob}, code : Seq(Calls),
             batch : Batches \cup {0}, idle : BOOLEAN]

(* Every variable keeps its type, and every thread has a frame to run.     *)
TypeOK ==
    /\ ready \in Seq(Jobs) /\ running \in Seq(Jobs) /\ done \in Seq(Jobs)
    /\ job \in [Jobs -> [live : BOOLEAN, type : {"pfor", "task"}, fun : Funs,
                         execed : SUBSET Batches, batches_done : Nat, sem : Nat]]
    /\ task \in [Funs -> Jobs \cup {NoJob}]
    /\ sem \in [WThreads -> Nat]
    /\ stack \in [Threads -> Seq(FrameSet) \ {<<>>}]
    /\ failures \in 0..MaxFailures
    /\ runs \in [Jobs -> [Batches -> 0..2]]

(* A job on the ready or the running list has not been freed, and is there *)
(* once: the waiter frees a job that fly_sched_remove_running has already  *)
(* taken off, whichever of several finishers did it.                       *)
ListedJobsLive ==
    /\ Listed \subseteq Live
    /\ IsInjective(ready \o running)

(* batches_done is exact: a batch claimed is either counted or in the      *)
(* hands of one thread that will count it, however threads interleave.     *)
BatchesAccounted ==
    \A j \in Loops :
        /\ job[j].batches_done + Cardinality(Holders(j)) = Cardinality(job[j].execed)
        /\ \A b \in Batches : runs[j][b] = IF b \in job[j].execed THEN 1 ELSE 0

(* No job is lost: one with work nobody has taken is on a list, or in the  *)
(* hands of the thread about to put it there or to run it itself, also     *)
(* when there was no memory to list it, or its call was refused.           *)
NoJobLost ==
    \A j \in Live : HasWork(j) =>
        \/ j \in Listed
        \/ Working(j, {"addready", "move", "exec"})
        \/ failures > 0 /\ Working(j, {"notify", "help", "destroy"})

(* No lost wakeup of the workers: while a job on a list has work, some     *)
(* worker thread is awake, or a client is about to post for one.           *)
SomebodyComes ==
    (\E j \in Listed \cap Live : HasWork(j)) =>
        \/ \E t \in WThreads : ~Blocked(t)
        \/ \E t \in Clients : At(t, "notify")

(* No lost completion: a job that is done and not yet collected has its    *)
(* token, or a thread on the way to post it.                               *)
CompletionPosted ==
    \A j \in Live : IsDone(j) =>
        \/ job[j].sem > 0
        \/ Working(j, {"collect", "destroy"})
        \/ Working(j, {"exec", "isdone", "unlist", "todone", "post"})

(* Until a freed job is touched, fly_parallel_for keeps the promise of     *)
(* FlyForkJoin, called from a client or from a function a worker runs:     *)
(* every batch once, all of them before the call returns.                  *)
Status(j, b) == IF ~job[j].live \/ IsTask(j) THEN "none"
                ELSE IF b \in Unclaimed(j)   THEN "todo"
                ELSE IF Held(j, b)           THEN "running"
                ELSE "finished"
ForkJoin == INSTANCE FlyForkJoin WITH
    batch <- [j \in Jobs |-> [b \in Batches |-> Status(j, b)]]
ImplementsForkJoin == ForkJoin!Spec

Returned == \A t \in Clients : stack[t] = <<UserCode(<<>>)>>

(* Every call of the library returns: no thread waits for ever for a job   *)
(* whose work is done or that nobody comes to run.                         *)
CallsReturn == <>(Returned \/ \E t \in Threads : UsesFreed(t))

(* "Run task asynchronously": a pushed task is run once, not once per      *)
(* thread that finds it on the running list.                               *)
TaskRunOnce == \A j \in Live : IsTask(j) => runs[j][1] <= 1

(* fly_parallel_for returns when all its work is done, also when malloc    *)
(* reuses the memory of an earlier job.                                    *)
NoEarlyReturn ==
    \A j \in Loops : Working(j, {"collect", "destroy"}) =>
        job[j].execed = Batches /\ Holders(j) = {}
==============================================================================
