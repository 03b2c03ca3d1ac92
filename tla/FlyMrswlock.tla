----------------------------- MODULE FlyMrswlock -----------------------------
(***************************************************************************)
(* fly_mrswlock.h: the multiple-readers-single-writer lock that guards the *)
(* scheduler's lists.  Four counters under a mutex (plock) and two         *)
(* semaphores, rsem and wsem, on which readers and writers sleep.          *)
(*                                                                         *)
(* Each section between pthread_mutex_lock and pthread_mutex_unlock is one *)
(* action: the counters are touched nowhere else.  Every semaphore         *)
(* operation happens outside plock and is an action of its own.  The       *)
(* tracking variants fly_mrswlock_rlock/wlock only add writes to the       *)
(* calling thread's own state field around the same calls.                 *)
(***************************************************************************)
EXTENDS Integers, FiniteSets

CONSTANTS Readers,  \* threads that call rlock
          Writers,  \* threads that call wlock (a thread may be both)
          MaxIn,    \* lock->maxin
          SemMax    \* SEM_VALUE_MAX

Threads == Readers \cup Writers

ASSUME LockAssumption ==
    /\ IsFiniteSet(Readers) /\ IsFiniteSet(Writers)
    /\ MaxIn \in Nat \ {0}
    /\ SemMax \in Nat \ {0}

VARIABLES
    nbin, nbrwaiting, nbwwaiting,   \* the counters of struct fly_mrswlock
    rsem, wsem,                     \* the values of its semaphores
    pc,                             \* where each thread is
    waiting, wakewriters            \* the locals of the lock functions

vars == <<nbin, nbrwaiting, nbwwaiting, rsem, wsem, pc, waiting, wakewriters>>

Places == {"idle",                        \* outside the lock
           "rtry", "rpost", "rwait",      \* in rlock: loop head, sem_post, sem_wait
           "wtry", "wwait",               \* in wlock: loop head, sem_wait
           "reading", "writing",          \* inside the lock
           "postw", "postr"}              \* in an unlock, about to sem_post

At(place)      == {t \in Threads : pc[t] = place}
GoTo(t, place) == pc' = [pc EXCEPT ![t] = place]

Init ==
    /\ nbin = 0 /\ nbrwaiting = 0 /\ nbwwaiting = 0
    /\ rsem = 0 /\ wsem = 0
    /\ pc = [t \in Threads |-> "idle"]
    /\ waiting = [t \in Threads |-> FALSE]
    /\ wakewriters = [t \in Threads |-> FALSE]

(* sem_post: at SEM_VALUE_MAX it fails and leaves the value alone; the     *)
(* library ignores its result.                                             *)
Posted(sem) == IF sem < SemMax THEN sem + 1 ELSE sem

(***************************************************************************)
(* Conditions of the code, with deliberately wrong variants beside them:   *)
(* the project's mutation runs put a variant in the place of the original. *)
(***************************************************************************)
RoomForReaderOffByOne == nbin <= MaxIn
RoomForReader == nbin < MaxIn

NoWriterWaitsIgnored == TRUE
NoWriterWaits == nbwwaiting = 0

LockFreeForReadersToo == nbin < MaxIn
LockFree == nbin = 0

RegistersEveryTime(t) == TRUE
Registers(t) == ~waiting[t]

(* The counter after a waiting thread got the lock.                        *)
Unregistered(t, counter) == IF waiting[t] THEN counter - 1 ELSE counter

(* Which semaphore an unlock posts, from the counters it read under plock. *)
WakeReadersOnlyIfNoneElse == IF nbwwaiting > 0 THEN "postw" ELSE "idle"
Wake == CASE nbwwaiting > 0                    -> "postw"
          [] nbwwaiting = 0 /\ nbrwaiting > 0  -> "postr"
          [] OTHER                             -> "idle"

(***************************************************************************)
(* fly_mrswlock_notrack_rlock                                              *)
(***************************************************************************)
RLock(t) ==
    /\ t \in Readers /\ pc[t] = "idle"
    /\ GoTo(t, "rtry")
    /\ UNCHANGED <<nbin, nbrwaiting, nbwwaiting, rsem, wsem, waiting, wakewriters>>

REnter(t) ==
    /\ pc[t] = "rtry" /\ ~wakewriters[t]
    /\ RoomForReader /\ NoWriterWaits
    /\ nbin' = nbin + 1
    /\ nbrwaiting' = Unregistered(t, nbrwaiting)
    /\ waiting' = [waiting EXCEPT ![t] = FALSE]
    /\ GoTo(t, "reading")
    /\ UNCHANGED <<nbwwaiting, rsem, wsem, wakewriters>>

(* There is room but a writer waits: go round once more and wake it.       *)
RYield(t) ==
    /\ pc[t] = "rtry" /\ ~wakewriters[t]
    /\ RoomForReader /\ ~NoWriterWaits
    /\ wakewriters' = [wakewriters EXCEPT ![t] = TRUE]
    /\ UNCHANGED <<nbin, nbrwaiting, nbwwaiting, rsem, wsem, pc, waiting>>

RBlock(t) ==
    /\ pc[t] = "rtry"
    /\ ~RoomForReader \/ wakewriters[t]
    /\ nbrwaiting' = IF Registers(t) THEN nbrwaiting + 1 ELSE nbrwaiting
    /\ waiting' = [waiting EXCEPT ![t] = TRUE]
    /\ wakewriters' = [wakewriters EXCEPT ![t] = FALSE]
    /\ GoTo(t, IF wakewriters[t] THEN "rpost" ELSE "rwait")
    /\ UNCHANGED <<nbin, nbwwaiting, rsem, wsem>>

RPostWriters(t) ==
    /\ pc[t] = "rpost"
    /\ wsem' = Posted(wsem)
    /\ GoTo(t, "rtry")
    /\ UNCHANGED <<nbin, nbrwaiting, nbwwaiting, rsem, waiting, wakewriters>>

RWake(t) ==
    /\ pc[t] = "rwait" /\ rsem > 0
    /\ rsem' = rsem - 1
    /\ GoTo(t, "rtry")
    /\ UNCHANGED <<nbin, nbrwaiting, nbwwaiting, wsem, waiting, wakewriters>>

(***************************************************************************)
(* fly_mrswlock_notrack_wlock                                              *)
(***************************************************************************)
WLock(t) ==
    /\ t \in Writers /\ pc[t] = "idle"
    /\ GoTo(t, "wtry")
    /\ UNCHANGED <<nbin, nbrwaiting, nbwwaiting, rsem, wsem, waiting, wakewriters>>

WEnter(t) ==
    /\ pc[t] = "wtry" /\ LockFree
    /\ nbin' = MaxIn
    /\ nbwwaiting' = Unregistered(t, nbwwaiting)
    /\ waiting' = [waiting EXCEPT ![t] = FALSE]
    /\ GoTo(t, "writing")
    /\ UNCHANGED <<nbrwaiting, rsem, wsem, wakewriters>>

WBlock(t) ==
    /\ pc[t] = "wtry" /\ ~LockFree
    /\ nbwwaiting' = IF Registers(t) THEN nbwwaiting + 1 ELSE nbwwaiting
    /\ waiting' = [waiting EXCEPT ![t] = TRUE]
    /\ GoTo(t, "wwait")
    /\ UNCHANGED <<nbin, nbrwaiting, rsem, wsem, wakewriters>>

WWake(t) ==
    /\ pc[t] = "wwait" /\ wsem > 0
    /\ wsem' = wsem - 1
    /\ GoTo(t, "wtry")
    /\ UNCHANGED <<nbin, nbrwaiting, nbwwaiting, rsem, waiting, wakewriters>>

(***************************************************************************)
(* fly_mrswlock_runlock, fly_mrswlock_wunlock                              *)
(***************************************************************************)
RUnlock(t) ==
    /\ pc[t] = "reading"
    /\ nbin' = nbin - 1
    /\ GoTo(t, Wake)
    /\ UNCHANGED <<nbrwaiting, nbwwaiting, rsem, wsem, waiting, wakewriters>>

WUnlock(t) ==
    /\ pc[t] = "writing"
    /\ nbin' = 0
    /\ GoTo(t, Wake)
    /\ UNCHANGED <<nbrwaiting, nbwwaiting, rsem, wsem, waiting, wakewriters>>

UnlockPost(t) ==
    /\ \/ pc[t] = "postw" /\ wsem' = Posted(wsem) /\ UNCHANGED rsem
       \/ pc[t] = "postr" /\ rsem' = Posted(rsem) /\ UNCHANGED wsem
    /\ GoTo(t, "idle")
    /\ UNCHANGED <<nbin, nbrwaiting, nbwwaiting, waiting, wakewriters>>

(* Everything a thread does on its own once it has called lock or unlock;  *)
(* calling lock is the client's choice.                                    *)
Request(t) == RLock(t) \/ WLock(t)
Step(t) == \/ REnter(t) \/ RYield(t) \/ RBlock(t) \/ RPostWriters(t) \/ RWake(t)
           \/ WEnter(t) \/ WBlock(t) \/ WWake(t)
           \/ RUnlock(t) \/ WUnlock(t) \/ UnlockPost(t)

Next == \E t \in Threads : Request(t) \/ Step(t)

Spec == Init /\ [][Next]_vars

(* A running thread is eventually scheduled, gets plock and gives the lock *)
(* back; a posted semaphore eventually lets a sleeper through.             *)
FairSpec == Spec /\ \A t \in Threads : WF_vars(Step(t))

------------------------------------------------------------------------------
Reading == At("reading")
Writing == At("writing")
WaitingReaders == {t \in Threads : pc[t] \in {"rtry", "rpost", "rwait"} /\ waiting[t]}
WaitingWriters == {t \in Threads : pc[t] \in {"wtry", "wwait"} /\ waiting[t]}

(* Every variable keeps its type; the semaphores stay within range.        *)
TypeOK ==
    /\ nbin \in 0..MaxIn
    /\ nbrwaiting \in Nat /\ nbwwaiting \in Nat
    /\ rsem \in 0..SemMax /\ wsem \in 0..SemMax
    /\ pc \in [Threads -> Places]
    /\ waiting \in [Threads -> BOOLEAN]
    /\ wakewriters \in [Threads -> BOOLEAN]

(* "up to maxin readers at the same time or just one writer": a writer     *)
(* inside is alone, and never more than MaxIn readers are inside.          *)
MutualExclusion ==
    /\ \A t \in Writing : Reading = {} /\ Writing = {t}
    /\ Cardinality(Reading) <= MaxIn

(* The counters of the struct say the truth about the threads: nbin about  *)
(* the holders, the waiting counters about the threads registered as       *)
(* waiting, each counted once however often it went round its loop.        *)
CountersTellTheTruth ==
    /\ nbin = IF Writing # {} THEN MaxIn ELSE Cardinality(Reading)
    /\ nbrwaiting = Cardinality(WaitingReaders)
    /\ nbwwaiting = Cardinality(WaitingWriters)

(* No lost wakeup: while somebody sleeps in rlock or wlock, the lock is    *)
(* held (its holder will look at the counters), or a thread is in a retry  *)
(* loop, or the sleepers of one side have a token or an unlock about to    *)
(* post one.                                                               *)
NoLostWakeup ==
    (nbin = 0 /\ At("rwait") \cup At("wwait") # {}) =>
        \/ At("rtry") \cup At("rpost") \cup At("wtry") # {}
        \/ At("rwait") # {} /\ (rsem > 0 \/ At("postr") # {})
        \/ At("wwait") # {} /\ (wsem > 0 \/ At("postw") # {})

(* The lock implements FlyRWLock: exclusion, capacity, and writers ahead   *)
(* of the readers that come after they are registered.                     *)
RWLock == INSTANCE FlyRWLock WITH readers   <- Reading,
                                  writers   <- Writing,
                                  announced <- WaitingWriters
ImplementsRWLock == RWLock!Spec

(* "To prevent writers starvation": while writers want the lock, one of     *)
(* them gets it, whatever the readers do (which of them is left open:      *)
(* writers may overtake each other).                                       *)
WriterNotStarved ==
    (\E t \in Threads : pc[t] \in {"wtry", "wwait"}) ~> Writing # {}
==============================================================================
