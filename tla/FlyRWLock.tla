------------------------------ MODULE FlyRWLock ------------------------------
(***************************************************************************)
(* What fly_mrswlock promises: at most MaxIn readers or one writer inside, *)
(* and no reader is let in past a writer that has announced that it waits. *)
(* Acquiring and releasing are single steps; the semaphores, the counters  *)
(* and the retry loops of the code are the business of FlyMrswlock.        *)
(***************************************************************************)
EXTENDS Integers, FiniteSets

CONSTANTS Readers,   \* threads that take the lock for reading
          Writers,   \* threads that take the lock for writing
          MaxIn      \* maxin: how many readers may be inside together

VARIABLES readers,   \* the threads inside as readers
          writers,   \* the threads inside as the writer
          announced  \* the writers registered as waiting

vars == <<readers, writers, announced>>

Init == readers = {} /\ writers = {} /\ announced = {}

AcquireRead(t) ==
    /\ t \notin readers
    /\ writers = {} /\ announced = {}
    /\ Cardinality(readers) < MaxIn
    /\ readers' = readers \cup {t}
    /\ UNCHANGED <<writers, announced>>

Announce(t) ==
    /\ t \notin announced
    /\ readers \cup writers # {}
    /\ announced' = announced \cup {t}
    /\ UNCHANGED <<readers, writers>>

AcquireWrite(t) ==
    /\ readers = {} /\ writers = {}
    /\ writers' = {t}
    /\ announced' = announced \ {t}
    /\ UNCHANGED readers

ReleaseRead(t) ==
    /\ t \in readers
    /\ readers' = readers \ {t}
    /\ UNCHANGED <<writers, announced>>

ReleaseWrite(t) ==
    /\ t \in writers
    /\ writers' = writers \ {t}
    /\ UNCHANGED <<readers, announced>>

Next == \/ \E t \in Readers : AcquireRead(t) \/ ReleaseRead(t)
        \/ \E t \in Writers : Announce(t) \/ AcquireWrite(t) \/ ReleaseWrite(t)

Spec == Init /\ [][Next]_vars
==============================================================================
