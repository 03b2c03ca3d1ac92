----------------------------- MODULE FlyLifecycle -----------------------------
(***************************************************************************)
(* Start and shutdown of the scheduler: fly_sched_init and                 *)
(* fly_sched_uninit with the workers, their two threads each and the       *)
(* update thread, every allocation and every pthread_create on the way     *)
(* allowed to fail.                                                        *)
(*                                                                         *)
(* What a worker thread does in a turn of fly_schedule is only whether it  *)
(* finds a job, sleeps, and wakes others: the jobs are FlySched's affair.  *)
(* The program has collected its jobs before it calls fly_uninit.          *)
(***************************************************************************)
EXTENDS Integers, Sequences

CONSTANTS NbWorkers,  \* fly_sched.nbworkers
          MaxTokens   \* wakeups pending for a thread (bound)

ASSUME LifecycleAssumption == NbWorkers \in Nat \ {0} /\ MaxTokens \in Nat

WThreads  == (1..NbWorkers) \X {"m", "b"}
Main(w)   == <<w, "m">>
Backup(w) == <<w, "b">>
Others(t) == {u \in WThreads : u[1] # t[1]}

VARIABLES
    pc, at,          \* where the program's thread is, and for which thread
    undo,            \* the workers it has still to shut down
    result,          \* what fly_sched_init returned
    locks, workers,  \* the scheduler's locks and its array of workers exist
    initialized,     \* the threads whose attributes and semaphore exist
    tstate, sem,     \* of struct fly_worker_thread
    place,           \* where each worker thread is
    updater,         \* where the update thread is
    threadstate,     \* fly_sched.threadstate
    crashed          \* a thread that was never created was joined

mainVars   == <<pc, at, undo, result, locks, workers, initialized, crashed>>
threadVars == <<tstate, sem, place>>
updVars    == <<updater, threadstate>>
vars       == <<mainVars, threadVars, updVars>>

Init ==
    /\ pc = "down" /\ at = Main(1) /\ undo = <<>> /\ result = "none"
    /\ locks = FALSE /\ workers = FALSE /\ initialized = {} /\ crashed = FALSE
    /\ tstate = [t \in WThreads |-> "IDLE"]
    /\ sem = [t \in WThreads |-> 0]
    /\ place = [t \in WThreads |-> "none"]
    /\ updater = "none" /\ threadstate = "IDLE"

Goes(where, t) == pc' = where /\ at' = t
Unwind(ws)     == pc' = "unwind" /\ at' = at /\ undo' = ws /\ result' = "FLYENORES"

(***************************************************************************)
(* Pieces of the code, each with a deliberately wrong variant beside it.   *)
(***************************************************************************)
(* fly_worker_thread_request_exit: the two things it does, in order.       *)
PostedFirst == <<"post", "exit">>
ExitSteps == <<"exit", "post">>

PostedNever(t) == sem
Posted(t) == [sem EXCEPT ![t] = @ + 1]

(* The workers the loop of fly_sched_workers_uninit goes over, from the    *)
(* count it is given: those before worker w.                               *)
UpTo(w) == [i \in 1..w |-> i]
Before(w) == [i \in 1..w - 1 |-> i]

(* pthread_join returns when the thread has.                               *)
JoinsAtOnce(t) == place[t] # "none"
Joinable(t) == place[t] = "gone"

(* Where fly_sched_uninit begins: with fly_sched_thread_uninit.            *)
UpdaterLeftRunning == "unwind"
FirstStopped == "stop"

(* fly_worker_init takes its main thread back when the backup's init fails. *)
MainKept(t) == initialized
WithoutMain(t) == initialized \ {Main(t[1])}

(***************************************************************************)
(* fly_sched_init                                                          *)
(***************************************************************************)
(* fly_sched_init_locks and _lists, and the array of workers.              *)
AllocWorkers ==
    /\ pc = "down"
    /\ \/ /\ locks' = TRUE /\ workers' = TRUE
          /\ Goes("init", Main(1))
          /\ result' = "none"
       \/ result' = "FLYENORES" /\ UNCHANGED <<pc, at, locks, workers>>
    /\ UNCHANGED <<undo, initialized, crashed, threadVars, updVars>>

(* fly_worker_thread_init, for the main and then the backup thread.        *)
InitThread ==
    /\ pc = "init"
    /\ \/ /\ initialized' = initialized \cup {at}
          /\ IF at[2] = "m" THEN Goes("init", Backup(at[1])) ELSE Goes("create", Main(at[1]))
          /\ UNCHANGED <<undo, result>>
       \/ /\ initialized' = WithoutMain(at)
          /\ Unwind(Before(at[1]))
    /\ tstate' = [tstate EXCEPT ![at] = "IDLE"]
    /\ sem' = [sem EXCEPT ![at] = 0]
    /\ place' = [place EXCEPT ![at] = "none"]
    /\ UNCHANGED <<locks, workers, crashed, updVars>>

(* fly_thread_start; when it fails the worker is shut down like the others *)
(* before it.                                                              *)
CreateThread ==
    /\ pc = "create"
    /\ \/ /\ place' = [place EXCEPT ![at] = "spin"]
          /\ Goes("run", at)
          /\ UNCHANGED <<undo, result>>
       \/ /\ Unwind(<<at[1]>> \o Before(at[1]))
          /\ UNCHANGED place
    /\ UNCHANGED <<locks, workers, initialized, crashed, tstate, sem, updVars>>

SetRunning ==
    /\ pc = "run"
    /\ tstate' = [tstate EXCEPT ![at] = "RUNNING"]
    /\ \/ at[2] = "m" /\ Goes("create", Backup(at[1]))
       \/ at = Backup(NbWorkers) /\ Goes("updater", at)
       \/ at[2] = "b" /\ at[1] < NbWorkers /\ Goes("init", Main(at[1] + 1))
    /\ UNCHANGED <<undo, result, locks, workers, initialized, crashed, sem, place, updVars>>

(* fly_sched_thread_init: the struct, its attributes, the thread; whichever *)
(* fails, what was made is freed again and the workers are shut down.      *)
CreateUpdater ==
    /\ pc = "updater"
    /\ \/ /\ threadstate' = "IDLE" /\ updater' = "begin"
          /\ Goes("await", at)
          /\ UNCHANGED <<undo, result>>
       \/ /\ threadstate' \in {threadstate, "IDLE"}
          /\ Unwind(Before(NbWorkers + 1))
          /\ UNCHANGED updater
    /\ UNCHANGED <<locks, workers, initialized, crashed, threadVars>>

AwaitUpdater ==
    /\ pc = "await" /\ threadstate = "RUNNING"
    /\ result' = "FLYESUCCESS"
    /\ Goes("use", at)
    /\ UNCHANGED <<undo, locks, workers, initialized, crashed, threadVars, updVars>>

(***************************************************************************)
(* fly_sched_uninit, and the end of a fly_sched_init that failed           *)
(***************************************************************************)
Uninit ==
    /\ pc = "use"
    /\ Goes(FirstStopped, at)
    /\ undo' = Before(NbWorkers + 1)
    /\ UNCHANGED <<result, locks, workers, initialized, crashed, threadVars, updVars>>

StopUpdater ==
    /\ pc = "stop"
    /\ threadstate' = "STOPPING"
    /\ Goes("joinupdater", at)
    /\ UNCHANGED <<undo, result, locks, workers, initialized, crashed, threadVars, updater>>

JoinUpdater ==
    /\ pc = "joinupdater" /\ updater = "gone"
    /\ updater' = "none"
    /\ Goes("unwind", at)
    /\ UNCHANGED <<undo, result, locks, workers, initialized, crashed, threadVars, threadstate>>

(* fly_sched_workers_uninit: one worker after the other, then the array    *)
(* and what fly_sched_init made before it.                                 *)
UninitWorkers ==
    /\ pc = "unwind"
    /\ IF undo # <<>>
       THEN Goes(ExitSteps[1], Main(Head(undo))) /\ UNCHANGED <<locks, workers>>
       ELSE Goes("down", Main(1)) /\ locks' = FALSE /\ workers' = FALSE
    /\ UNCHANGED <<undo, result, initialized, crashed, threadVars, updVars>>

(* After one step of fly_worker_thread_request_exit: the other, the backup *)
(* thread, then the two joins.                                             *)
Onward ==
    \/ pc = ExitSteps[1] /\ Goes(ExitSteps[2], at)
    \/ pc = ExitSteps[2] /\ at[2] = "m" /\ Goes(ExitSteps[1], Backup(at[1]))
    \/ pc = ExitSteps[2] /\ at[2] = "b" /\ Goes("join", Main(at[1]))

SetExiting ==
    /\ pc = "exit"
    /\ tstate' = [tstate EXCEPT ![at] = "EXITING"]
    /\ Onward
    /\ UNCHANGED <<undo, result, locks, workers, initialized, crashed, sem, place, updVars>>

PostExit ==
    /\ pc = "post"
    /\ sem' = Posted(at)
    /\ Onward
    /\ UNCHANGED <<undo, result, locks, workers, initialized, crashed, tstate, place, updVars>>

(* fly_worker_wait, and the end of fly_worker_uninit after the second.     *)
JoinThread ==
    /\ pc = "join" /\ Joinable(at)
    /\ IF at[2] = "m"
       THEN Goes("join", Backup(at[1])) /\ UNCHANGED <<undo, initialized>>
       ELSE /\ Goes("unwind", at)
            /\ undo' = Tail(undo)
            /\ initialized' = initialized \ {Main(at[1]), at}
    /\ UNCHANGED <<result, locks, workers, crashed, threadVars, updVars>>

(* pthread_join of a thread that pthread_create did not make: what follows *)
(* is undefined, and the model stops.                                      *)
JoinNothing ==
    /\ pc = "join" /\ place[at] = "none" /\ ~crashed
    /\ crashed' = TRUE
    /\ UNCHANGED <<pc, at, undo, result, locks, workers, initialized, threadVars, updVars>>

Program ==
    \/ InitThread \/ CreateThread \/ SetRunning \/ CreateUpdater \/ AwaitUpdater
    \/ StopUpdater \/ JoinUpdater \/ UninitWorkers \/ SetExiting \/ PostExit
    \/ JoinThread \/ JoinNothing

(***************************************************************************)
(* fly_worker_thread_func                                                  *)
(***************************************************************************)
Moves(t, where) == ~crashed /\ place' = [place EXCEPT ![t] = where]

(* The first loop waits for FLY_WORKER_RUNNING, and for nothing else.      *)
Spin(t) ==
    /\ place[t] = "spin"
    /\ Moves(t, IF tstate[t] = "RUNNING" THEN "test" ELSE "spin")
    /\ UNCHANGED <<mainVars, tstate, sem, updVars>>

(* The second loop: a turn of fly_schedule, which finds a job (there is    *)
(* none before fly_sched_init has returned) or not.                        *)
TurnBegins(t) ==
    /\ place[t] = "test" /\ tstate[t] = "RUNNING"
    /\ \/ Moves(t, "sleep")
       \/ result = "FLYESUCCESS" /\ Moves(t, "work")
    /\ UNCHANGED <<mainVars, tstate, sem, updVars>>

TurnEnds(t) ==
    /\ \/ place[t] = "work" /\ (Moves(t, "test") \/ Moves(t, "sleep")) /\ UNCHANGED sem
       \/ /\ place[t] = "sleep" /\ sem[t] > 0
          /\ Moves(t, "test")
          /\ sem' = [sem EXCEPT ![t] = @ - 1]
    /\ UNCHANGED <<mainVars, tstate, updVars>>

LeavesLoop(t) ==
    /\ place[t] = "test" /\ tstate[t] # "RUNNING"
    /\ Moves(t, "last")
    /\ UNCHANGED <<mainVars, tstate, sem, updVars>>

Finishes(t) ==
    /\ place[t] = "last"
    /\ tstate' = [tstate EXCEPT ![t] = "FINISHED"]
    /\ Moves(t, "gone")
    /\ UNCHANGED <<mainVars, sem, updVars>>

WorkerThread(t) == Spin(t) \/ TurnBegins(t) \/ TurnEnds(t) \/ LeavesLoop(t) \/ Finishes(t)

(* fly_worker_work_available, by the program with a new job or by a worker *)
(* thread that took one.  A post to a semaphore already destroyed has no   *)
(* effect that anybody sees.                                               *)
Wakeup(t) ==
    /\ pc = "use" \/ \E u \in Others(t) : place[u] = "work"
    /\ t \in initialized /\ sem[t] < MaxTokens
    /\ ~crashed
    /\ sem' = [sem EXCEPT ![t] = @ + 1]
    /\ UNCHANGED <<mainVars, tstate, place, updVars>>

(***************************************************************************)
(* fly_sched_thread_func                                                   *)
(***************************************************************************)
Updater ==
    /\ ~crashed
    /\ \/ updater = "begin" /\ threadstate' = "RUNNING" /\ updater' = "test"
       \/ /\ updater = "test" /\ UNCHANGED threadstate
          /\ updater' = IF threadstate = "RUNNING" THEN "update" ELSE "gone"
       \/ updater = "update" /\ updater' = "test" /\ UNCHANGED threadstate
    /\ UNCHANGED <<mainVars, threadVars>>

Crashed == crashed /\ UNCHANGED vars

Next ==
    \/ AllocWorkers \/ Uninit \/ Program \/ Updater \/ Crashed
    \/ \E t \in WThreads : WorkerThread(t) \/ Wakeup(t)

Spec == Init /\ [][Next]_vars

(* Threads are scheduled; when, whether and how often the program starts   *)
(* and stops the library is its own choice.                                *)
FairSpec == /\ Spec /\ WF_vars(Program) /\ WF_vars(Updater)
            /\ \A t \in WThreads : WF_vars(WorkerThread(t))

------------------------------------------------------------------------------
(* Every variable keeps its type.                                          *)
TypeOK ==
    /\ pc \in {"down", "init", "create", "run", "updater", "await", "use",
               "stop", "joinupdater", "unwind", "exit", "post", "join"}
    /\ at \in WThreads /\ undo \in Seq(1..NbWorkers)
    /\ result \in {"none", "FLYESUCCESS", "FLYENORES"}
    /\ locks \in BOOLEAN /\ workers \in BOOLEAN /\ crashed \in BOOLEAN
    /\ initialized \subseteq WThreads
    /\ tstate \in [WThreads -> {"IDLE", "RUNNING", "EXITING", "FINISHED"}]
    /\ sem \in [WThreads -> Nat]
    /\ place \in [WThreads -> {"none", "spin", "test", "work", "sleep", "last", "gone"}]
    /\ updater \in {"none", "begin", "test", "update", "gone"}
    /\ threadstate \in {"IDLE", "RUNNING", "STOPPING"}

(* The update thread looks at the workers only while they all exist.       *)
UpdateSeesWorkers == updater = "update" => workers /\ initialized = WThreads

(* A worker thread that has not returned has its struct, its semaphore     *)
(* and the locks it schedules under, also while a failed start unwinds.    *)
ThreadsHaveMemory ==
    \A t \in WThreads : place[t] \notin {"none", "gone"} => workers /\ locks /\ t \in initialized

(* After fly_sched_uninit, and after a fly_sched_init that failed wherever *)
(* it did, nothing is left: no thread, no struct, no semaphore, no lock.   *)
NothingLeft ==
    pc = "down" =>
        /\ ~locks /\ ~workers /\ initialized = {}
        /\ updater = "none" /\ \A t \in WThreads : place[t] \in {"none", "gone"}

(* A thread asked to exit does not sleep on: it has a token, or gets one.  *)
ExitReachesSleepers ==
    \A t \in WThreads :
        (place[t] = "sleep" /\ tstate[t] = "EXITING") => sem[t] > 0 \/ (pc = "post" /\ at = t)

Spinning == \E t \in WThreads : place[t] = "spin"

(* fly_uninit returns when every worker thread has been seen to run before *)
(* it is called, in whatever state of work or sleep they are.              *)
ShutdownReturns == (pc = "stop" /\ ~Spinning) ~> pc = "down"

(* fly_uninit returns, whenever it is called after fly_simple_init.        *)
UninitReturns == pc = "stop" ~> pc = "down"
==============================================================================
