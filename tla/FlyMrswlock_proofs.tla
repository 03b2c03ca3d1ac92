-------------------------- MODULE FlyMrswlock_proofs --------------------------
(***************************************************************************)
(* Proofs about fly_mrswlock for any finite sets of readers and writers,   *)
(* any capacity and any SEM_VALUE_MAX.                                     *)
(***************************************************************************)
EXTENDS FlyMrswlock, FiniteSetTheorems, TLAPS

InRLoop == {"rtry", "rpost", "rwait"}
InWLoop == {"wtry", "wwait"}

(* What the locals of the lock functions say about where a thread is.      *)
LocalsOK ==
    \A t \in Threads :
        /\ waiting[t] => pc[t] \in InRLoop \cup InWLoop
        /\ pc[t] \in {"rpost", "rwait", "wwait"} => waiting[t]
        /\ pc[t] \in InRLoop \cup {"reading"} => t \in Readers
        /\ pc[t] \in InWLoop \cup {"writing"} => t \in Writers

WriterAlone == \A t \in Writing : Reading = {} /\ Writing = {t}

(* The inductive invariant: NoLostWakeup needs the counters to be exact,   *)
(* the counters need the locals, and exclusion needs nbin.                 *)
IInv == TypeOK /\ LocalsOK /\ WriterAlone /\ CountersTellTheTruth /\ NoLostWakeup

------------------------------------------------------------------------------
LEMMA ThreadsFinite == IsFiniteSet(Threads)
BY LockAssumption, FS_Union DEF Threads

LEMMA SetsFinite ==
    /\ IsFiniteSet(Reading) /\ IsFiniteSet(Writing)
    /\ IsFiniteSet(WaitingReaders) /\ IsFiniteSet(WaitingWriters)
<1>1. /\ Reading \in SUBSET Threads /\ Writing \in SUBSET Threads
      /\ WaitingReaders \in SUBSET Threads /\ WaitingWriters \in SUBSET Threads
  BY DEF Reading, Writing, WaitingReaders, WaitingWriters, At
<1>2. QED BY <1>1, ThreadsFinite, FS_Subset

(* Adding an element to a finite set, or taking one out, moves its         *)
(* cardinality by one.                                                     *)
LEMMA CardinalityMoves ==
    ASSUME NEW S, NEW x, IsFiniteSet(S)
    PROVE  /\ Cardinality(S) \in Nat
           /\ Cardinality(S) = 0 <=> S = {}
           /\ x \notin S => Cardinality(S \cup {x}) = Cardinality(S) + 1
           /\ x \in S => Cardinality(S \ {x}) = Cardinality(S) - 1
           /\ x \in S => Cardinality(S) > 0
<1>1. Cardinality(S) \in Nat
  BY FS_CardinalityType
<1>2. Cardinality(S) = 0 <=> S = {}
  BY FS_EmptySet
<1>3. x \notin S => Cardinality(S \cup {x}) = Cardinality(S) + 1
  BY FS_AddElement
<1>4. x \in S => Cardinality(S \ {x}) = Cardinality(S) - 1
  BY FS_RemoveElement
<1>5. x \in S => Cardinality(S) > 0
  BY <1>1, <1>2
<1>6. QED BY <1>1, <1>2, <1>3, <1>4, <1>5

LEMMA InitIInv == Init => IInv
<1> SUFFICES ASSUME Init PROVE IInv
  OBVIOUS
<1>1. TypeOK /\ LocalsOK /\ WriterAlone /\ NoLostWakeup
  BY LockAssumption DEF Init, TypeOK, LocalsOK, WriterAlone, NoLostWakeup, At,
     Reading, Writing, Places, InRLoop, InWLoop
<1>2. Reading = {} /\ Writing = {} /\ WaitingReaders = {} /\ WaitingWriters = {}
  BY DEF Init, Reading, Writing, WaitingReaders, WaitingWriters, At
<1>3. CountersTellTheTruth
  BY <1>2, FS_EmptySet DEF Init, CountersTellTheTruth
<1>4. QED BY <1>1, <1>3 DEF IInv

------------------------------------------------------------------------------
(* The four sets of threads the counters speak about.                      *)
Sets == <<Reading, Writing, WaitingReaders, WaitingWriters>>

(* How a step of the reader side changes them.                             *)
LEMMA ReaderSteps ==
    ASSUME NEW t \in Threads, IInv
    PROVE  /\ RLock(t) \/ RYield(t) \/ RPostWriters(t) \/ RWake(t) => Sets' = Sets
           /\ REnter(t) => /\ t \notin Reading /\ Reading' = Reading \cup {t}
                           /\ Writing' = Writing
                           /\ WaitingReaders' = WaitingReaders \ {t}
                           /\ t \in WaitingReaders <=> waiting[t]
                           /\ WaitingWriters' = WaitingWriters
           /\ RBlock(t) => /\ Reading' = Reading /\ Writing' = Writing
                           /\ WaitingReaders' = WaitingReaders \cup {t}
                           /\ t \in WaitingReaders <=> waiting[t]
                           /\ WaitingWriters' = WaitingWriters
           /\ RUnlock(t) => /\ t \in Reading /\ Reading' = Reading \ {t}
                            /\ Writing' = Writing
                            /\ WaitingReaders' = WaitingReaders
                            /\ WaitingWriters' = WaitingWriters
<1> USE DEF Reading, Writing, WaitingReaders, WaitingWriters, At, GoTo
<1>0. TypeOK /\ LocalsOK
  BY DEF IInv
<1>1. RLock(t) => Sets' = Sets
  BY <1>0 DEF RLock, Sets, TypeOK, LocalsOK, InRLoop, InWLoop
<1>2. RYield(t) => Sets' = Sets
  BY <1>0 DEF RYield, Sets, TypeOK
<1>3. RPostWriters(t) => Sets' = Sets
  BY <1>0 DEF RPostWriters, Sets, TypeOK
<1>4. RWake(t) => Sets' = Sets
  BY <1>0 DEF RWake, Sets, TypeOK
<1>5. REnter(t) => /\ t \notin Reading /\ Reading' = Reading \cup {t}
                   /\ Writing' = Writing
                   /\ WaitingReaders' = WaitingReaders \ {t}
                   /\ t \in WaitingReaders <=> waiting[t]
                   /\ WaitingWriters' = WaitingWriters
  BY <1>0 DEF REnter, TypeOK
<1>6. RBlock(t) => /\ Reading' = Reading /\ Writing' = Writing
                   /\ WaitingReaders' = WaitingReaders \cup {t}
                   /\ t \in WaitingReaders <=> waiting[t]
                   /\ WaitingWriters' = WaitingWriters
  BY <1>0 DEF RBlock, TypeOK
<1>7. RUnlock(t) => /\ t \in Reading /\ Reading' = Reading \ {t}
                    /\ Writing' = Writing
                    /\ WaitingReaders' = WaitingReaders
                    /\ WaitingWriters' = WaitingWriters
  BY <1>0 DEF RUnlock, Wake, TypeOK
<1>8. QED BY <1>1, <1>2, <1>3, <1>4, <1>5, <1>6, <1>7

(* The same for the writer side and for the posts at the end of an unlock. *)
LEMMA WriterSteps ==
    ASSUME NEW t \in Threads, IInv
    PROVE  /\ WLock(t) \/ WWake(t) \/ UnlockPost(t) => Sets' = Sets
           /\ WEnter(t) => /\ t \notin Writing /\ Writing' = Writing \cup {t}
                           /\ Reading' = Reading
                           /\ WaitingReaders' = WaitingReaders
                           /\ WaitingWriters' = WaitingWriters \ {t}
                           /\ t \in WaitingWriters <=> waiting[t]
           /\ WBlock(t) => /\ Reading' = Reading /\ Writing' = Writing
                           /\ WaitingReaders' = WaitingReaders
                           /\ WaitingWriters' = WaitingWriters \cup {t}
                           /\ t \in WaitingWriters <=> waiting[t]
           /\ WUnlock(t) => /\ t \in Writing /\ Writing' = Writing \ {t}
                            /\ Reading' = Reading
                            /\ WaitingReaders' = WaitingReaders
                            /\ WaitingWriters' = WaitingWriters
<1> USE DEF Reading, Writing, WaitingReaders, WaitingWriters, At, GoTo
<1>0. TypeOK /\ LocalsOK
  BY DEF IInv
<1>1. WLock(t) => Sets' = Sets
  BY <1>0 DEF WLock, Sets, TypeOK, LocalsOK, InRLoop, InWLoop
<1>2. WWake(t) => Sets' = Sets
  BY <1>0 DEF WWake, Sets, TypeOK
<1>3. UnlockPost(t) => Sets' = Sets
  BY <1>0 DEF UnlockPost, Sets, TypeOK, LocalsOK
<1>4. WEnter(t) => /\ t \notin Writing /\ Writing' = Writing \cup {t}
                   /\ Reading' = Reading
                   /\ WaitingReaders' = WaitingReaders
                   /\ WaitingWriters' = WaitingWriters \ {t}
                   /\ t \in WaitingWriters <=> waiting[t]
  BY <1>0 DEF WEnter, TypeOK
<1>5. WBlock(t) => /\ Reading' = Reading /\ Writing' = Writing
                   /\ WaitingReaders' = WaitingReaders
                   /\ WaitingWriters' = WaitingWriters \cup {t}
                   /\ t \in WaitingWriters <=> waiting[t]
  BY <1>0 DEF WBlock, TypeOK
<1>6. WUnlock(t) => /\ t \in Writing /\ Writing' = Writing \ {t}
                    /\ Reading' = Reading
                    /\ WaitingReaders' = WaitingReaders
                    /\ WaitingWriters' = WaitingWriters
  BY <1>0 DEF WUnlock, Wake, TypeOK
<1>7. QED BY <1>1, <1>2, <1>3, <1>4, <1>5, <1>6

------------------------------------------------------------------------------
(* The counters stay exact: each step changes at most one set and moves    *)
(* the matching counter with it.                                           *)
LEMMA CountersStep ==
    ASSUME IInv, NEW t \in Threads, Request(t) \/ Step(t)
    PROVE  CountersTellTheTruth'
<1>0. TypeOK /\ CountersTellTheTruth /\ WriterAlone
  BY DEF IInv
<1>1. CASE \/ RLock(t) \/ RYield(t) \/ RPostWriters(t) \/ RWake(t)
           \/ WLock(t) \/ WWake(t) \/ UnlockPost(t)
  <2>1. Sets' = Sets
    BY <1>1, ReaderSteps, WriterSteps
  <2>2. UNCHANGED <<nbin, nbrwaiting, nbwwaiting>>
    BY <1>1 DEF RLock, RYield, RPostWriters, RWake, WLock, WWake, UnlockPost
  <2>3. QED BY <2>1, <2>2, <1>0 DEF Sets, CountersTellTheTruth
<1>2. CASE REnter(t)
  <2>1. Writing = {}
    BY <1>0, <1>2, LockAssumption DEF TypeOK, CountersTellTheTruth, REnter, RoomForReader
  <2>2. Cardinality(Reading \cup {t}) = Cardinality(Reading) + 1
    BY <1>2, ReaderSteps, SetsFinite, CardinalityMoves
  <2>3. nbrwaiting' = Cardinality(WaitingReaders \ {t})
    <3>1. CASE waiting[t]
      BY <3>1, <1>0, <1>2, ReaderSteps, SetsFinite, CardinalityMoves
         DEF REnter, Unregistered, CountersTellTheTruth
    <3>2. CASE ~waiting[t]
      <4>1. WaitingReaders \ {t} = WaitingReaders
        BY <3>2, <1>2, ReaderSteps
      <4>2. QED BY <4>1, <3>2, <1>0, <1>2 DEF REnter, Unregistered, CountersTellTheTruth
    <3>3. QED BY <3>1, <3>2
  <2>4. QED BY <2>1, <2>2, <2>3, <1>0, <1>2, ReaderSteps
            DEF REnter, CountersTellTheTruth
<1>3. CASE RBlock(t)
  <2>1. nbrwaiting' = Cardinality(WaitingReaders \cup {t})
    <3>1. CASE waiting[t]
      <4>1. WaitingReaders \cup {t} = WaitingReaders
        BY <3>1, <1>3, ReaderSteps
      <4>2. QED BY <4>1, <3>1, <1>0, <1>3 DEF RBlock, Registers, CountersTellTheTruth
    <3>2. CASE ~waiting[t]
      BY <3>2, <1>0, <1>3, ReaderSteps, SetsFinite, CardinalityMoves
         DEF RBlock, Registers, CountersTellTheTruth
    <3>3. QED BY <3>1, <3>2
  <2>2. QED BY <2>1, <1>0, <1>3, ReaderSteps DEF RBlock, CountersTellTheTruth
<1>4. CASE RUnlock(t)
  <2>1. Cardinality(Reading \ {t}) = Cardinality(Reading) - 1
    BY <1>4, ReaderSteps, SetsFinite, CardinalityMoves
  <2>2. Writing = {}
    BY <1>4, <1>0, ReaderSteps DEF WriterAlone
  <2>3. QED BY <2>1, <2>2, <1>0, <1>4, ReaderSteps DEF RUnlock, CountersTellTheTruth
<1>5. CASE WEnter(t)
  <2>1. nbwwaiting' = Cardinality(WaitingWriters \ {t})
    <3>1. CASE waiting[t]
      BY <3>1, <1>0, <1>5, WriterSteps, SetsFinite, CardinalityMoves
         DEF WEnter, Unregistered, CountersTellTheTruth
    <3>2. CASE ~waiting[t]
      <4>1. WaitingWriters \ {t} = WaitingWriters
        BY <3>2, <1>5, WriterSteps
      <4>2. QED BY <4>1, <3>2, <1>0, <1>5 DEF WEnter, Unregistered, CountersTellTheTruth
    <3>3. QED BY <3>1, <3>2
  <2>2. QED BY <2>1, <1>0, <1>5, WriterSteps DEF WEnter, CountersTellTheTruth
<1>6. CASE WBlock(t)
  <2>1. nbwwaiting' = Cardinality(WaitingWriters \cup {t})
    <3>1. CASE waiting[t]
      <4>1. WaitingWriters \cup {t} = WaitingWriters
        BY <3>1, <1>6, WriterSteps
      <4>2. QED BY <4>1, <3>1, <1>0, <1>6 DEF WBlock, Registers, CountersTellTheTruth
    <3>2. CASE ~waiting[t]
      BY <3>2, <1>0, <1>6, WriterSteps, SetsFinite, CardinalityMoves
         DEF WBlock, Registers, CountersTellTheTruth
    <3>3. QED BY <3>1, <3>2
  <2>2. QED BY <2>1, <1>0, <1>6, WriterSteps DEF WBlock, CountersTellTheTruth
<1>7. CASE WUnlock(t)
  <2>1. Writing = {t} /\ Reading = {}
    BY <1>7, <1>0, WriterSteps DEF WriterAlone
  <2>2. Writing' = {} /\ Reading' = {}
    BY <2>1, <1>7, WriterSteps
  <2>3. QED BY <2>2, <1>0, <1>7, WriterSteps, FS_EmptySet DEF WUnlock, CountersTellTheTruth
<1>8. QED BY <1>1, <1>2, <1>3, <1>4, <1>5, <1>6, <1>7 DEF Request, Step

(* A writer gets in only when nbin is 0, a reader only when it is below    *)
(* MaxIn: with exact counters both mean what they should.                  *)
LEMMA WriterAloneStep ==
    ASSUME IInv, NEW t \in Threads, Request(t) \/ Step(t)
    PROVE  WriterAlone'
<1>0. TypeOK /\ CountersTellTheTruth /\ WriterAlone
  BY DEF IInv
<1>1. CASE \/ RLock(t) \/ RYield(t) \/ RPostWriters(t) \/ RWake(t)
           \/ WLock(t) \/ WWake(t) \/ UnlockPost(t)
  BY <1>1, <1>0, ReaderSteps, WriterSteps DEF Sets, WriterAlone
<1>2. CASE REnter(t)
  <2>1. Writing = {}
    BY <1>0, <1>2, LockAssumption DEF TypeOK, CountersTellTheTruth, REnter, RoomForReader
  <2>2. QED BY <2>1, <1>2, ReaderSteps DEF WriterAlone
<1>3. CASE RBlock(t) \/ RUnlock(t) \/ WBlock(t) \/ WUnlock(t)
  BY <1>3, <1>0, ReaderSteps, WriterSteps DEF WriterAlone
<1>4. CASE WEnter(t)
  <2>1. Writing = {} /\ Reading = {}
    BY <1>0, <1>4, LockAssumption, SetsFinite, FS_EmptySet
       DEF CountersTellTheTruth, WEnter, LockFree
  <2>2. QED BY <2>1, <1>4, WriterSteps DEF WriterAlone
<1>5. QED BY <1>1, <1>2, <1>3, <1>4 DEF Request, Step

LEMMA LocalsStep ==
    ASSUME IInv, NEW t \in Threads, Request(t) \/ Step(t)
    PROVE  LocalsOK'
<1>0. TypeOK /\ LocalsOK
  BY DEF IInv
<1> USE <1>0 DEF TypeOK, LocalsOK, InRLoop, InWLoop, GoTo
<1>1. CASE RLock(t) \/ WLock(t)
  BY <1>1 DEF RLock, WLock
<1>2. CASE REnter(t) \/ RYield(t) \/ RBlock(t) \/ RPostWriters(t) \/ RWake(t)
  BY <1>2 DEF REnter, RYield, RBlock, RPostWriters, RWake
<1>3. CASE WEnter(t) \/ WBlock(t) \/ WWake(t)
  BY <1>3 DEF WEnter, WBlock, WWake
<1>4. CASE RUnlock(t) \/ WUnlock(t) \/ UnlockPost(t)
  BY <1>4 DEF RUnlock, WUnlock, UnlockPost, Wake
<1>5. QED BY <1>1, <1>2, <1>3, <1>4 DEF Request, Step

(* Types: the ranges of the counters follow from what they count.          *)
LEMMA TypeStep ==
    ASSUME IInv, NEW t \in Threads, Request(t) \/ Step(t)
    PROVE  TypeOK'
<1>0. TypeOK /\ CountersTellTheTruth /\ WriterAlone
  BY DEF IInv
<1>1. nbrwaiting' \in Nat /\ nbwwaiting' \in Nat
  <2>1. /\ IsFiniteSet(Reading') /\ IsFiniteSet(Writing')
        /\ IsFiniteSet(WaitingReaders') /\ IsFiniteSet(WaitingWriters')
    <3>1. /\ Reading' \in SUBSET Threads /\ Writing' \in SUBSET Threads
          /\ WaitingReaders' \in SUBSET Threads /\ WaitingWriters' \in SUBSET Threads
      BY DEF Reading, Writing, WaitingReaders, WaitingWriters, At
    <3>2. QED BY <3>1, ThreadsFinite, FS_Subset
  <2>2. QED BY <2>1, CountersStep, FS_CardinalityType DEF CountersTellTheTruth
<1>2. nbin' \in 0..MaxIn
  <2>1. CASE RUnlock(t)
    <3>1. Writing = {} /\ Cardinality(Reading) > 0
      BY <2>1, <1>0, ReaderSteps, SetsFinite, CardinalityMoves DEF WriterAlone
    <3>2. nbin > 0
      BY <3>1, <1>0 DEF CountersTellTheTruth
    <3>3. QED BY <3>2, <2>1, <1>0, LockAssumption DEF TypeOK, RUnlock
  <2>2. CASE ~RUnlock(t)
    BY <2>2, <1>0, LockAssumption
       DEF Request, Step, RLock, WLock, REnter, RYield, RBlock, RPostWriters, RWake,
           WEnter, WBlock, WWake, WUnlock, UnlockPost, TypeOK, RoomForReader
  <2>3. QED BY <2>1, <2>2
<1>3. rsem' \in 0..SemMax /\ wsem' \in 0..SemMax
  BY <1>0, LockAssumption
     DEF Request, Step, RLock, WLock, REnter, RYield, RBlock, RPostWriters, RWake,
         WEnter, WBlock, WWake, RUnlock, WUnlock, UnlockPost, TypeOK, Posted
<1>4. pc' \in [Threads -> Places]
  BY <1>0 DEF Request, Step, RLock, WLock, REnter, RYield, RBlock, RPostWriters, RWake,
         WEnter, WBlock, WWake, RUnlock, WUnlock, UnlockPost, TypeOK, GoTo, Places, Wake
<1>5. waiting' \in [Threads -> BOOLEAN] /\ wakewriters' \in [Threads -> BOOLEAN]
  BY <1>0 DEF Request, Step, RLock, WLock, REnter, RYield, RBlock, RPostWriters, RWake,
         WEnter, WBlock, WWake, RUnlock, WUnlock, UnlockPost, TypeOK
<1>6. QED BY <1>1, <1>2, <1>3, <1>4, <1>5 DEF TypeOK

------------------------------------------------------------------------------
Sleeping == At("rwait") \cup At("wwait")

(* The sleepers of one side and what will let one of them through.         *)
Rescued == \/ At("rtry") \cup At("rpost") \cup At("wtry") # {}
           \/ At("rwait") # {} /\ (rsem > 0 \/ At("postr") # {})
           \/ At("wwait") # {} /\ (wsem > 0 \/ At("postw") # {})

(* An unlock finds every sleeper in the counters, and so posts for one of  *)
(* them or leaves a thread in its retry loop.                              *)
LEMMA UnlockRescues ==
    ASSUME IInv, NEW t \in Threads, RUnlock(t) \/ WUnlock(t), Sleeping' # {}
    PROVE  Rescued'
<1>0. TypeOK /\ LocalsOK /\ CountersTellTheTruth
  BY DEF IInv
<1>1. /\ pc[t] \in {"reading", "writing"}
      /\ pc' = [pc EXCEPT ![t] = Wake]
  BY DEF RUnlock, WUnlock, GoTo
<1>2. /\ nbrwaiting > 0 <=> WaitingReaders # {}
      /\ nbwwaiting > 0 <=> WaitingWriters # {}
  BY <1>0, SetsFinite, FS_EmptySet DEF CountersTellTheTruth, TypeOK
<1>3. CASE nbwwaiting > 0
  <2>1. PICK w \in Threads : pc[w] \in {"wtry", "wwait"}
    BY <1>2, <1>3 DEF WaitingWriters
  <2>2. pc'[w] = pc[w] /\ pc'[t] = "postw"
    BY <1>0, <1>1, <1>3, <2>1 DEF TypeOK, Wake
  <2>3. QED BY <2>1, <2>2 DEF Rescued, At
<1>4. CASE nbwwaiting = 0 /\ nbrwaiting > 0
  <2>1. PICK r \in Threads : pc[r] \in {"rtry", "rpost", "rwait"}
    BY <1>2, <1>4 DEF WaitingReaders
  <2>2. pc'[r] = pc[r] /\ pc'[t] = "postr"
    BY <1>0, <1>1, <1>4, <2>1 DEF TypeOK, Wake
  <2>3. QED BY <2>1, <2>2 DEF Rescued, At
<1>5. CASE nbwwaiting = 0 /\ nbrwaiting = 0
  <2>1. PICK s \in Threads : pc'[s] \in {"rwait", "wwait"}
    BY DEF Sleeping, At
  <2>2. pc[s] \in {"rwait", "wwait"}
    BY <2>1, <1>0, <1>1, <1>5 DEF TypeOK, Wake
  <2>3. s \in WaitingReaders \cup WaitingWriters
    BY <2>2, <1>0 DEF LocalsOK, WaitingReaders, WaitingWriters
  <2>4. QED BY <2>3, <1>2, <1>5
<1>6. QED BY <1>0, <1>3, <1>4, <1>5 DEF TypeOK

LEMMA NoLostWakeupStep ==
    ASSUME IInv, NEW t \in Threads, Request(t) \/ Step(t)
    PROVE  NoLostWakeup'
<1>0. TypeOK /\ NoLostWakeup
  BY DEF IInv
<1>1. SUFFICES ASSUME nbin' = 0, Sleeping' # {} PROVE Rescued'
  BY DEF NoLostWakeup, Sleeping, Rescued
<1>2. CASE RLock(t) \/ WLock(t) \/ RYield(t) \/ RPostWriters(t) \/ RWake(t) \/ WWake(t)
  <2>1. pc'[t] \in {"rtry", "wtry"}
    BY <1>0, <1>2 DEF TypeOK, GoTo, RLock, WLock, RYield, RPostWriters, RWake, WWake
  <2>2. QED BY <2>1 DEF Rescued, At
<1>3. CASE REnter(t) \/ WEnter(t) \/ WBlock(t)
  BY <1>0, <1>1, <1>3, LockAssumption DEF TypeOK, REnter, WEnter, WBlock, LockFree
<1>4. CASE RBlock(t)
  <2>1. wakewriters[t]
    BY <1>0, <1>1, <1>4, LockAssumption DEF TypeOK, RBlock, RoomForReader
  <2>2. pc'[t] = "rpost"
    BY <1>0, <1>4, <2>1 DEF TypeOK, RBlock, GoTo
  <2>3. QED BY <2>2 DEF Rescued, At
<1>5. CASE RUnlock(t) \/ WUnlock(t)
  BY <1>1, <1>5, UnlockRescues
<1>6. CASE UnlockPost(t)
  <2>1. \A place \in Places \ {"idle", "postw", "postr"} : At(place)' = At(place)
    BY <1>0, <1>6 DEF TypeOK, UnlockPost, GoTo, At, Places
  <2>2. /\ At("rwait")' = At("rwait") /\ At("wwait")' = At("wwait")
        /\ At("rtry")' = At("rtry") /\ At("rpost")' = At("rpost")
        /\ At("wtry")' = At("wtry")
    BY <2>1 DEF Places
  <2>3. nbin = 0 /\ Sleeping # {}
    BY <1>1, <1>6, <2>2 DEF UnlockPost, Sleeping
  <2>4. Rescued
    BY <2>3, <1>0 DEF NoLostWakeup, Sleeping, Rescued
  <2>5. CASE pc[t] = "postw"
    <3>1. wsem' > 0 /\ rsem' = rsem
      BY <1>0, <1>6, <2>5, LockAssumption DEF TypeOK, UnlockPost, Posted
    <3>2. At("postr")' = At("postr")
      BY <1>0, <1>6, <2>5 DEF TypeOK, UnlockPost, GoTo, At
    <3>3. QED BY <2>2, <2>4, <3>1, <3>2 DEF Rescued
  <2>6. CASE pc[t] = "postr"
    <3>1. rsem' > 0 /\ wsem' = wsem
      BY <1>0, <1>6, <2>6, LockAssumption DEF TypeOK, UnlockPost, Posted
    <3>2. At("postw")' = At("postw")
      BY <1>0, <1>6, <2>6 DEF TypeOK, UnlockPost, GoTo, At
    <3>3. QED BY <2>2, <2>4, <3>1, <3>2 DEF Rescued
  <2>7. QED BY <1>6, <2>5, <2>6 DEF UnlockPost
<1>7. QED BY <1>2, <1>3, <1>4, <1>5, <1>6 DEF Request, Step

------------------------------------------------------------------------------
(* The conjuncts of IInv are those runs check; it is inductive as it is.   *)
THEOREM Invariance == Spec => []IInv
<1>1. Init => IInv
  BY InitIInv
<1>2. IInv /\ [Next]_vars => IInv'
  <2> SUFFICES ASSUME IInv, [Next]_vars PROVE IInv'
    OBVIOUS
  <2>1. CASE Next
    <3>1. PICK t \in Threads : Request(t) \/ Step(t)
      BY <2>1 DEF Next
    <3>2. TypeOK' /\ LocalsOK' /\ WriterAlone' /\ CountersTellTheTruth' /\ NoLostWakeup'
      BY <3>1, TypeStep, LocalsStep, WriterAloneStep, CountersStep, NoLostWakeupStep
    <3>3. QED BY <3>2 DEF IInv
  <2>2. CASE UNCHANGED vars
    BY <2>2 DEF vars, IInv, TypeOK, LocalsOK, WriterAlone, CountersTellTheTruth,
       NoLostWakeup, Reading, Writing, WaitingReaders, WaitingWriters, At
  <2>3. QED BY <2>1, <2>2
<1>3. QED BY <1>1, <1>2, PTL DEF Spec

(* Every variable of the lock keeps its type; in particular nbin never     *)
(* leaves 0..maxin, so no unlock drives it below zero.                     *)
THEOREM TypeCorrect == Spec => []TypeOK
<1>1. IInv => TypeOK
  BY DEF IInv
<1>2. QED BY <1>1, Invariance, PTL

(* A writer inside is alone, and at most maxin readers are inside.         *)
THEOREM Exclusion == Spec => []MutualExclusion
<1>1. IInv => MutualExclusion
  <2> SUFFICES ASSUME IInv PROVE MutualExclusion
    OBVIOUS
  <2>1. \A t \in Writing : Reading = {} /\ Writing = {t}
    BY DEF IInv, WriterAlone
  <2>2. Cardinality(Reading) <= MaxIn
    <3>1. CASE Writing = {}
      BY <3>1, LockAssumption DEF IInv, TypeOK, CountersTellTheTruth
    <3>2. CASE Writing # {}
      BY <3>2, <2>1, FS_EmptySet, LockAssumption
    <3>3. QED BY <3>1, <3>2
  <2>3. QED BY <2>1, <2>2 DEF MutualExclusion
<1>2. QED BY <1>1, Invariance, PTL

(* nbin, nbrwaiting and nbwwaiting are at all times the numbers of threads *)
(* inside and registered as waiting.                                       *)
THEOREM Counters == Spec => []CountersTellTheTruth
<1>1. IInv => CountersTellTheTruth
  BY DEF IInv
<1>2. QED BY <1>1, Invariance, PTL

(* Nobody sleeps on a semaphore of a free lock without a token, a post on  *)
(* its way or a thread in its retry loop, for any number of threads and    *)
(* even if posts are lost at SEM_VALUE_MAX.                                *)
THEOREM Wakeups == Spec => []NoLostWakeup
<1>1. IInv => NoLostWakeup
  BY DEF IInv
<1>2. QED BY <1>1, Invariance, PTL

------------------------------------------------------------------------------
(* A step that gets or gives up the lock is that step of FlyRWLock, a      *)
(* writer's first registration is its announcement, the rest stutters.     *)
LEMMA StepImplements ==
    ASSUME IInv, NEW t \in Threads, Request(t) \/ Step(t)
    PROVE  [RWLock!Next]_(RWLock!vars)
<1> USE DEF RWLock!vars
<1>0. TypeOK /\ LocalsOK /\ CountersTellTheTruth /\ WriterAlone
  BY DEF IInv
<1>1. CASE \/ RLock(t) \/ RYield(t) \/ RPostWriters(t) \/ RWake(t)
           \/ WLock(t) \/ WWake(t) \/ UnlockPost(t)
  BY <1>1, ReaderSteps, WriterSteps DEF Sets
<1>2. CASE RBlock(t)
  BY <1>2, ReaderSteps
<1>3. CASE REnter(t)
  <2>1. Writing = {} /\ Cardinality(Reading) < MaxIn
    BY <1>0, <1>3, LockAssumption DEF TypeOK, CountersTellTheTruth, REnter, RoomForReader
  <2>2. WaitingWriters = {}
    BY <1>0, <1>3, SetsFinite, FS_EmptySet DEF CountersTellTheTruth, REnter, NoWriterWaits
  <2>3. t \in Readers
    BY <1>0, <1>3 DEF LocalsOK, REnter, InRLoop
  <2>4. RWLock!Cardinality(Reading) = Cardinality(Reading)
    BY DEF RWLock!Cardinality, Cardinality
  <2>5. RWLock!AcquireRead(t)
    BY <2>1, <2>2, <2>4, <1>3, ReaderSteps DEF RWLock!AcquireRead
  <2>6. QED BY <2>3, <2>5 DEF RWLock!Next
<1>4. CASE RUnlock(t)
  <2>1. t \in Readers
    BY <1>0, <1>4 DEF LocalsOK, RUnlock
  <2>2. RWLock!ReleaseRead(t)
    BY <1>4, ReaderSteps DEF RWLock!ReleaseRead
  <2>3. QED BY <2>1, <2>2 DEF RWLock!Next
<1>5. CASE WEnter(t)
  <2>1. Writing = {} /\ Reading = {}
    BY <1>0, <1>5, LockAssumption, SetsFinite, FS_EmptySet
       DEF CountersTellTheTruth, WEnter, LockFree
  <2>2. t \in Writers
    BY <1>0, <1>5 DEF LocalsOK, WEnter, InWLoop
  <2>3. RWLock!AcquireWrite(t)
    BY <2>1, <1>5, WriterSteps DEF RWLock!AcquireWrite
  <2>4. QED BY <2>2, <2>3 DEF RWLock!Next
<1>6. CASE WBlock(t)
  <2>1. CASE waiting[t]
    BY <2>1, <1>6, WriterSteps
  <2>2. CASE ~waiting[t]
    <3>1. Reading \cup Writing # {}
      BY <1>0, <1>6, FS_EmptySet DEF CountersTellTheTruth, WBlock, LockFree
    <3>2. t \in Writers
      BY <1>0, <1>6 DEF LocalsOK, WBlock, InWLoop
    <3>3. RWLock!Announce(t)
      BY <3>1, <2>2, <1>6, WriterSteps DEF RWLock!Announce
    <3>4. QED BY <3>2, <3>3 DEF RWLock!Next
  <2>3. QED BY <2>1, <2>2
<1>7. CASE WUnlock(t)
  <2>1. t \in Writers
    BY <1>0, <1>7 DEF LocalsOK, WUnlock
  <2>2. RWLock!ReleaseWrite(t)
    BY <1>7, WriterSteps DEF RWLock!ReleaseWrite
  <2>3. QED BY <2>1, <2>2 DEF RWLock!Next
<1>8. QED BY <1>1, <1>2, <1>3, <1>4, <1>5, <1>6, <1>7 DEF Request, Step

(* fly_mrswlock implements the abstract lock: at most maxin readers or one *)
(* writer, and no reader is let in past a registered writer.               *)
THEOREM Refinement == Spec => ImplementsRWLock
<1>1. Init => RWLock!Init
  BY DEF Init, RWLock!Init, Reading, Writing, WaitingWriters, At
<1>2. IInv /\ [Next]_vars => [RWLock!Next]_(RWLock!vars)
  <2> SUFFICES ASSUME IInv, [Next]_vars PROVE [RWLock!Next]_(RWLock!vars)
    OBVIOUS
  <2>1. CASE Next
    BY <2>1, StepImplements DEF Next
  <2>2. CASE UNCHANGED vars
    BY <2>2 DEF vars, RWLock!vars, Reading, Writing, WaitingWriters, At
  <2>3. QED BY <2>1, <2>2
<1>3. QED BY <1>1, <1>2, Invariance, PTL DEF Spec, ImplementsRWLock, RWLock!Spec
==============================================================================
