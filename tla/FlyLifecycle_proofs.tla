------------------------- MODULE FlyLifecycle_proofs --------------------------
(***************************************************************************)
(* What FlyLifecycle keeps, for any number of workers and wherever         *)
(* starting fails: threads have the memory they use, the update thread     *)
(* sees all workers, an exit request reaches a sleeper, nothing is left.   *)
(***************************************************************************)
EXTENDS FlyLifecycle, SequenceTheorems, TLAPS

LEMMA Threads ==
    /\ \A w \in 1..NbWorkers :
           /\ Main(w) \in WThreads /\ Main(w)[1] = w /\ Main(w)[2] = "m"
           /\ Backup(w) \in WThreads /\ Backup(w)[1] = w /\ Backup(w)[2] = "b"
    /\ \A t \in WThreads :
           /\ t[1] \in 1..NbWorkers /\ t[2] \in {"m", "b"}
           /\ t[2] = "m" => t = Main(t[1])
           /\ t[2] = "b" => t = Backup(t[1])
BY DEF WThreads, Main, Backup

LEMMA Counts ==
    /\ NbWorkers \in Nat \ {0} /\ 1 \in 1..NbWorkers /\ NbWorkers \in 1..NbWorkers
    /\ NbWorkers + 1 \in 1..NbWorkers + 1
BY LifecycleAssumption DEF LifecycleAssumption

(* The list undo of workers to shut down.                                  *)
ListedOnce(ws) == \A k, l \in 1..Len(ws) : ws[k] = ws[l] => k = l
InList(w, ws)  == \E k \in 1..Len(ws) : ws[k] = w

(* The workers before w.                                                   *)
LEMMA ListBefore ==
    ASSUME NEW w \in 1..NbWorkers + 1
    PROVE  /\ Before(w) \in Seq(1..NbWorkers) /\ ListedOnce(Before(w))
           /\ \A v \in 1..NbWorkers : InList(v, Before(w)) <=> v < w
<1>1. /\ Before(w) \in Seq(1..NbWorkers)
      /\ Len(Before(w)) = w - 1 /\ \A k \in 1..w - 1 : Before(w)[k] = k
  BY Counts DEF Before
<1>2. QED BY <1>1, Counts DEF ListedOnce, InList

(* Worker w and those before it.                                           *)
LEMMA ListFrom ==
    ASSUME NEW w \in 1..NbWorkers, NEW ws, ws = <<w>> \o Before(w)
    PROVE  /\ ws \in Seq(1..NbWorkers) /\ ws # <<>> /\ ListedOnce(ws)
           /\ \A v \in 1..NbWorkers : InList(v, ws) <=> v <= w
<1>1. /\ Before(w) \in Seq(1..NbWorkers)
      /\ Len(Before(w)) = w - 1 /\ \A k \in 1..w - 1 : Before(w)[k] = k
  BY Counts DEF Before
<1>2. <<w>> \in Seq(1..NbWorkers) /\ Len(<<w>>) = 1 /\ <<w>>[1] = w
  OBVIOUS
<1>3. ws \in Seq(1..NbWorkers) /\ Len(ws) = w
  BY <1>1, <1>2, ConcatProperties, Counts
<1>4. \A k \in 1..w : ws[k] = IF k = 1 THEN w ELSE k - 1
  BY <1>1, <1>2, ConcatProperties, Counts
<1>5. ListedOnce(ws)
  BY <1>3, <1>4, Counts DEF ListedOnce
<1>6. \A v \in 1..NbWorkers : InList(v, ws) => v <= w
  BY <1>3, <1>4, Counts DEF InList
<1>7. ASSUME NEW v \in 1..NbWorkers, v <= w PROVE InList(v, ws)
  <2>1. CASE v = w
    BY <1>3, <1>4, <2>1, Counts DEF InList
  <2>2. CASE v # w
    <3>1. v + 1 \in 1..Len(ws) /\ ws[v + 1] = v
      BY <1>3, <1>4, <1>7, <2>2, Counts
    <3>2. QED BY <3>1 DEF InList
  <2>3. QED BY <2>1, <2>2
<1>8. QED BY <1>3, <1>5, <1>6, <1>7

(* The rest of a list, when its head is shut down.                         *)
LEMMA ListTail ==
    ASSUME NEW ws \in Seq(1..NbWorkers), ws # <<>>, ListedOnce(ws)
    PROVE  /\ Head(ws) \in 1..NbWorkers /\ Tail(ws) \in Seq(1..NbWorkers)
           /\ ListedOnce(Tail(ws))
           /\ \A v \in 1..NbWorkers : InList(v, Tail(ws)) <=> InList(v, ws) /\ v # Head(ws)
<1>1. /\ Len(ws) \in Nat \ {0} /\ Head(ws) = ws[1] /\ Head(ws) \in 1..NbWorkers
      /\ Tail(ws) \in Seq(1..NbWorkers) /\ Len(Tail(ws)) = Len(ws) - 1
      /\ \A k \in 1..Len(ws) - 1 : Tail(ws)[k] = ws[k + 1]
  <2>1. Len(ws) \in Nat \ {0} /\ Head(ws) = ws[1]
    OBVIOUS
  <2>2. QED BY <2>1, HeadTailProperties
<1>2. ListedOnce(Tail(ws))
  BY <1>1 DEF ListedOnce
<1>3. ASSUME NEW v \in 1..NbWorkers, InList(v, ws), v # Head(ws) PROVE InList(v, Tail(ws))
  <2>1. PICK k \in 1..Len(ws) : ws[k] = v
    BY <1>3 DEF InList
  <2>2. k - 1 \in 1..Len(Tail(ws)) /\ Tail(ws)[k - 1] = v
    BY <1>1, <1>3, <2>1
  <2>3. QED BY <2>2 DEF InList
<1>4. ASSUME NEW v \in 1..NbWorkers, InList(v, Tail(ws)) PROVE InList(v, ws) /\ v # Head(ws)
  <2>1. PICK k \in 1..Len(Tail(ws)) : Tail(ws)[k] = v
    BY <1>4 DEF InList
  <2>2. k + 1 \in 1..Len(ws) /\ ws[k + 1] = v /\ 1 \in 1..Len(ws) /\ k + 1 # 1
    BY <1>1, <2>1
  <2>3. QED BY <1>1, <2>2 DEF InList, ListedOnce
<1>5. QED BY <1>1, <1>2, <1>3, <1>4

------------------------------------------------------------------------------
(* What exists at each place of the program's thread.                      *)
Existing ==
    /\ pc = "down" => ~locks /\ ~workers /\ initialized = {}
    /\ pc # "down" => locks /\ workers
    /\ pc = "init" => \A t \in WThreads :
           t \in initialized <=> t[1] < at[1] \/ (at[2] = "b" /\ t = Main(at[1]))
    /\ pc \in {"create", "run"} => \A t \in WThreads : t \in initialized <=> t[1] <= at[1]
    /\ pc \in {"updater", "await", "use", "stop", "joinupdater"} => initialized = WThreads

(* The workers still to be shut down are those initialized, each once.     *)
Undoing ==
    /\ pc \in {"stop", "joinupdater", "unwind", "exit", "post", "join"} =>
           /\ ListedOnce(undo)
           /\ \A t \in WThreads : t \in initialized <=> InList(t[1], undo)
    /\ pc \in {"exit", "post", "join"} => undo # <<>> /\ at[1] = Head(undo)

(* Which threads may be running.                                           *)
Alive ==
    /\ updater # "none" => pc \in {"await", "use", "stop", "joinupdater"}
    /\ \A t \in WThreads : t \notin initialized => place[t] \in {"none", "gone"}
    /\ (pc = "init" /\ at[2] = "b") => place[Main(at[1])] = "none"
    /\ (pc = "join" /\ at[2] = "b") => place[Main(at[1])] = "gone"

(* A thread that may still go to sleep needs the token as much as one that *)
(* sleeps already.                                                         *)
Tokens ==
    \A t \in WThreads :
        (place[t] \in {"sleep", "work"} /\ tstate[t] = "EXITING") =>
            sem[t] > 0 \/ (pc = "post" /\ at = t)

IInv == TypeOK /\ Existing /\ Undoing /\ Alive /\ Tokens

LEMMA InitIInv == ASSUME Init PROVE IInv
<1>1. TypeOK
  <2>1. at \in WThreads
    BY Threads, Counts DEF Init
  <2>2. undo \in Seq(1..NbWorkers)
    BY DEF Init
  <2>3. QED BY <2>1, <2>2 DEF Init, TypeOK
<1>2. Existing /\ Undoing
  BY DEF Init, Existing, Undoing
<1>3. Alive /\ Tokens
  BY DEF Init, Alive, Tokens
<1>4. QED BY <1>1, <1>2, <1>3 DEF IInv

------------------------------------------------------------------------------
(* fly_sched_init makes what Existing says of the next place; where it     *)
(* fails, the workers listed are exactly those that are initialized.       *)
LEMMA AllocStep == ASSUME IInv, AllocWorkers PROVE IInv'
<1> USE DEF IInv
<1>0. at' \in WThreads /\ (pc' = "init" => at'[2] = "m")
  BY Threads, Counts DEF TypeOK, AllocWorkers, Goes
<1>1. TypeOK'
  BY <1>0 DEF TypeOK, AllocWorkers, Goes, threadVars, updVars
<1>2. Existing'
  BY Threads, Counts DEF TypeOK, Existing, AllocWorkers, Goes
<1>3. Undoing'
  BY DEF Undoing, AllocWorkers, Goes
<1>4. Alive' /\ Tokens'
  BY <1>0 DEF Alive, Tokens, AllocWorkers, Goes, threadVars, updVars
<1>5. QED BY <1>1, <1>2, <1>3, <1>4

LEMMA InitStep == ASSUME IInv, InitThread PROVE IInv'
<1> USE DEF IInv
<1>1. /\ at \in WThreads /\ at[1] \in 1..NbWorkers /\ at[1] \in 1..NbWorkers + 1
      /\ Main(at[1]) \in WThreads /\ Backup(at[1]) \in WThreads /\ at[2] \in {"m", "b"}
      /\ Main(at[1])[2] = "m" /\ Backup(at[1])[1] = at[1]
      /\ at[2] = "m" => at = Main(at[1])
  BY Threads, Counts DEF TypeOK
<1>2. Tokens'
  BY <1>1 DEF TypeOK, Tokens, InitThread, Goes, Unwind, updVars
<1>3. CASE pc' = "unwind"
  <2>1. /\ initialized' = initialized \ {Main(at[1])} /\ undo' = Before(at[1]) /\ at' = at
        /\ result' = "FLYENORES"
    BY <1>3 DEF InitThread, Goes, Unwind, WithoutMain
  <2>2. undo' \in Seq(1..NbWorkers)
    BY <1>1, <2>1, ListBefore
  <2>3. TypeOK'
    BY <1>1, <1>3, <2>1, <2>2 DEF TypeOK, InitThread, updVars
  <2>4. Existing'
    BY <1>3, <2>1 DEF Existing, InitThread
  <2>5. \A t \in WThreads : t \in initialized' <=> t[1] < at[1]
    BY <1>1, <2>1, Threads DEF Existing, InitThread
  <2>6. Undoing'
    BY <1>1, <1>3, <2>1, <2>5, ListBefore, Threads DEF Undoing
  <2>7. Alive'
    BY <1>1, <1>3, <2>1, Threads DEF TypeOK, Alive, InitThread, updVars
  <2>8. QED BY <1>2, <2>3, <2>4, <2>6, <2>7
<1>4. CASE pc' # "unwind"
  <2>1. /\ initialized' = initialized \cup {at} /\ undo' = undo /\ result' = result
        /\ IF at[2] = "m" THEN Goes("init", Backup(at[1])) ELSE Goes("create", Main(at[1]))
    BY <1>4 DEF InitThread, Unwind
  <2>2. TypeOK' /\ Undoing'
    BY <1>1, <2>1 DEF TypeOK, Undoing, InitThread, Goes, updVars
  <2>3. Existing'
    BY <1>1, <2>1, Threads, Counts DEF Existing, InitThread, Goes
  <2>4. Alive'
    BY <1>1, <2>1, Threads DEF TypeOK, Alive, InitThread, Goes, updVars
  <2>5. QED BY <1>2, <2>2, <2>3, <2>4
<1>5. QED BY <1>3, <1>4

LEMMA CreateStep == ASSUME IInv, CreateThread PROVE IInv'
<1> USE DEF IInv
<1>1. at \in WThreads /\ at[1] \in 1..NbWorkers
  BY Threads DEF TypeOK
<1>2. pc = "create" /\ at' = at /\ pc' \in {"run", "unwind"} /\ at \in initialized
  BY <1>1 DEF CreateThread, Goes, Unwind, Existing
<1>3. Existing' /\ Alive' /\ Tokens'
  BY <1>1, <1>2 DEF TypeOK, Existing, Alive, Tokens, CreateThread, updVars
<1>4. CASE pc' = "unwind"
  <2>1. undo' = <<at[1]>> \o Before(at[1]) /\ result' = "FLYENORES" /\ place' = place
    BY <1>4 DEF CreateThread, Goes, Unwind
  <2>2. /\ undo' \in Seq(1..NbWorkers) /\ ListedOnce(undo')
        /\ \A v \in 1..NbWorkers : InList(v, undo') <=> v <= at[1]
    BY <1>1, <2>1, ListFrom
  <2>3. TypeOK'
    BY <1>2, <2>1, <2>2 DEF TypeOK, CreateThread, updVars
  <2>4. Undoing'
    BY <1>1, <1>2, <1>4, <2>2, Threads DEF Undoing, Existing, CreateThread
  <2>5. QED BY <1>3, <2>3, <2>4
<1>5. CASE pc' = "run"
  <2>1. TypeOK' /\ Undoing'
    BY <1>1, <1>2, <1>5 DEF TypeOK, Undoing, CreateThread, Unwind, updVars
  <2>2. QED BY <1>3, <2>1
<1>6. QED BY <1>2, <1>4, <1>5

LEMMA RunStep == ASSUME IInv, SetRunning PROVE IInv'
<1> USE DEF IInv
<1>1. /\ at \in WThreads /\ at[1] \in 1..NbWorkers /\ at[2] \in {"m", "b"}
      /\ Backup(at[1]) \in WThreads
  BY Threads DEF TypeOK
<1>2. pc = "run" /\ \A t \in WThreads : t \in initialized <=> t[1] <= at[1]
  BY DEF SetRunning, Existing
<1>3. CASE at[2] = "m" /\ Goes("create", Backup(at[1]))
  <2>1. TypeOK' /\ Undoing'
    BY <1>1, <1>3 DEF TypeOK, Undoing, SetRunning, Goes, updVars
  <2>2. Existing'
    BY <1>1, <1>2, <1>3, Threads DEF Existing, SetRunning, Goes
  <2>3. Alive' /\ Tokens'
    BY <1>1, <1>2, <1>3 DEF TypeOK, Alive, Tokens, SetRunning, Goes, updVars
  <2>4. QED BY <2>1, <2>2, <2>3
<1>4. CASE at = Backup(NbWorkers) /\ Goes("updater", at)
  <2>1. TypeOK' /\ Undoing'
    BY <1>1, <1>4 DEF TypeOK, Undoing, SetRunning, Goes, updVars
  <2>2. initialized' = WThreads
    <3>1. at[1] = NbWorkers /\ initialized' = initialized /\ initialized \subseteq WThreads
      BY <1>4, Threads, Counts DEF TypeOK, SetRunning
    <3>2. \A t \in WThreads : t \in initialized
      BY <1>2, <3>1, Threads, Counts
    <3>3. QED BY <3>1, <3>2
  <2>3. Existing'
    BY <1>2, <1>4, <2>2 DEF Existing, SetRunning, Goes
  <2>4. Alive' /\ Tokens'
    BY <1>1, <1>2, <1>4 DEF TypeOK, Alive, Tokens, SetRunning, Goes, updVars
  <2>5. QED BY <2>1, <2>3, <2>4
<1>5. CASE at[2] = "b" /\ at[1] < NbWorkers /\ Goes("init", Main(at[1] + 1))
  <2>1. at[1] + 1 \in 1..NbWorkers
    BY <1>1, <1>5, Counts
  <2>2. Main(at[1] + 1) \in WThreads /\ Main(at[1] + 1)[1] = at[1] + 1 /\ Main(at[1] + 1)[2] = "m"
    BY <2>1, Threads
  <2>3. TypeOK' /\ Undoing'
    BY <1>1, <1>5, <2>2 DEF TypeOK, Undoing, SetRunning, Goes, updVars
  <2>4. Existing'
    BY <1>1, <1>2, <1>5, <2>2, Threads, Counts DEF Existing, SetRunning, Goes
  <2>5. Alive' /\ Tokens'
    BY <1>1, <1>2, <1>5, <2>2 DEF TypeOK, Alive, Tokens, SetRunning, Goes, updVars
  <2>6. QED BY <2>3, <2>4, <2>5
<1>6. QED BY <1>3, <1>4, <1>5 DEF SetRunning

(* The update thread is made, awaited, stopped and joined.                 *)
LEMMA UpdaterStep ==
    ASSUME IInv, CreateUpdater \/ AwaitUpdater \/ Uninit \/ StopUpdater \/ JoinUpdater
    PROVE  IInv'
<1> USE DEF IInv
<1>1. /\ Before(NbWorkers + 1) \in Seq(1..NbWorkers) /\ ListedOnce(Before(NbWorkers + 1))
      /\ \A t \in WThreads : InList(t[1], Before(NbWorkers + 1))
  BY ListBefore, Threads, Counts
<1>2. CASE CreateUpdater
  <2>1. TypeOK' /\ Existing'
    BY <1>1, <1>2 DEF TypeOK, Existing, CreateUpdater, Goes, Unwind, threadVars
  <2>2. Undoing'
    BY <1>1, <1>2 DEF Existing, Undoing, CreateUpdater, Goes, Unwind, threadVars
  <2>3. Alive' /\ Tokens'
    BY <1>2 DEF Alive, Tokens, CreateUpdater, Goes, Unwind, threadVars
  <2>4. QED BY <2>1, <2>2, <2>3
<1>3. CASE AwaitUpdater
  BY <1>3 DEF TypeOK, Existing, Undoing, Alive, Tokens, AwaitUpdater, Goes, threadVars, updVars
<1>4. CASE Uninit
  <2>1. TypeOK' /\ Existing'
    BY <1>1, <1>4 DEF TypeOK, Existing, Uninit, Goes, FirstStopped, threadVars, updVars
  <2>2. Undoing'
    BY <1>1, <1>4 DEF Existing, Undoing, Uninit, Goes, FirstStopped
  <2>3. Alive' /\ Tokens'
    BY <1>4 DEF Alive, Tokens, Uninit, Goes, FirstStopped, threadVars, updVars
  <2>4. QED BY <2>1, <2>2, <2>3
<1>5. CASE StopUpdater
  BY <1>5 DEF TypeOK, Existing, Undoing, Alive, Tokens, StopUpdater, Goes, threadVars
<1>6. CASE JoinUpdater
  BY <1>6 DEF TypeOK, Existing, Undoing, Alive, Tokens, JoinUpdater, Goes, threadVars
<1>7. QED BY <1>2, <1>3, <1>4, <1>5, <1>6

(* fly_sched_workers_uninit takes the listed workers one by one.           *)
LEMMA UnwindStep == ASSUME IInv, UninitWorkers PROVE IInv'
<1> USE DEF IInv
<1>1. CASE undo # <<>>
  <2>1. Head(undo) \in 1..NbWorkers /\ undo' = undo
    BY <1>1, ListTail DEF TypeOK, Undoing, UninitWorkers
  <2>2. /\ pc = "unwind" /\ pc' = "exit" /\ at' = Main(Head(undo)) /\ at' \in WThreads
        /\ at'[1] = Head(undo) /\ locks' = locks /\ workers' = workers
    BY <1>1, <2>1, Threads DEF UninitWorkers, Goes, ExitSteps
  <2>3. TypeOK' /\ Existing'
    BY <2>2 DEF TypeOK, Existing, UninitWorkers, threadVars, updVars
  <2>4. Undoing'
    BY <1>1, <2>1, <2>2 DEF Undoing, UninitWorkers
  <2>5. Alive' /\ Tokens'
    BY <2>2 DEF Alive, Tokens, UninitWorkers, threadVars, updVars
  <2>6. QED BY <2>3, <2>4, <2>5
<1>2. CASE undo = <<>>
  <2>1. /\ pc = "unwind" /\ pc' = "down" /\ at' = Main(1) /\ at' \in WThreads
        /\ locks' = FALSE /\ workers' = FALSE
    BY <1>2, Threads, Counts DEF UninitWorkers, Goes
  <2>2. initialized = {}
    BY <1>2, <2>1 DEF TypeOK, Undoing, InList
  <2>3. TypeOK' /\ Existing' /\ Undoing'
    BY <2>1, <2>2 DEF TypeOK, Existing, Undoing, UninitWorkers, threadVars, updVars
  <2>4. Alive' /\ Tokens'
    BY <2>1 DEF Alive, Tokens, UninitWorkers, threadVars, updVars
  <2>5. QED BY <2>3, <2>4
<1>3. QED BY <1>1, <1>2

(* An exit request marks the thread before it posts its semaphore, so the  *)
(* token is there, or coming, for as long as the thread may sleep.         *)
LEMMA ExitStep == ASSUME IInv, SetExiting \/ PostExit PROVE IInv'
<1> USE DEF IInv
<1>1. /\ at \in WThreads /\ at[1] \in 1..NbWorkers /\ at[2] \in {"m", "b"}
      /\ Main(at[1]) \in WThreads /\ Main(at[1])[1] = at[1] /\ Main(at[1])[2] = "m"
      /\ Backup(at[1]) \in WThreads /\ Backup(at[1])[1] = at[1]
  BY Threads DEF TypeOK
<1>2. CASE SetExiting
  <2>1. pc = "exit" /\ pc' = "post" /\ at' = at
    BY <1>2 DEF SetExiting, Onward, Goes, ExitSteps
  <2>2. TypeOK' /\ Existing' /\ Undoing'
    BY <1>1, <1>2, <2>1 DEF TypeOK, Existing, Undoing, SetExiting, updVars
  <2>3. Alive' /\ Tokens'
    BY <1>1, <1>2, <2>1 DEF TypeOK, Alive, Tokens, SetExiting, updVars
  <2>4. QED BY <2>2, <2>3
<1>3. CASE PostExit
  <2>1. /\ pc = "post" /\ pc' \in {"exit", "join"} /\ at'[1] = at[1] /\ at' \in WThreads
        /\ pc' = "join" => at'[2] = "m"
    BY <1>1, <1>3 DEF PostExit, Onward, Goes, ExitSteps
  <2>2. TypeOK' /\ Existing' /\ Undoing'
    BY <1>1, <1>3, <2>1 DEF TypeOK, Existing, Undoing, PostExit, Posted, updVars
  <2>3. Alive' /\ Tokens'
    BY <1>1, <1>3, <2>1 DEF TypeOK, Alive, Tokens, PostExit, Posted, updVars
  <2>4. QED BY <2>2, <2>3
<1>4. QED BY <1>2, <1>3

(* A worker leaves the list when both its threads have returned.           *)
LEMMA JoinStep == ASSUME IInv, JoinThread \/ JoinNothing \/ Crashed PROVE IInv'
<1> USE DEF IInv
<1>1. /\ at \in WThreads /\ at[1] \in 1..NbWorkers /\ at[2] \in {"m", "b"}
      /\ Backup(at[1]) \in WThreads /\ Backup(at[1])[1] = at[1] /\ Backup(at[1])[2] = "b"
      /\ at[2] = "m" => at = Main(at[1])
      /\ at[2] = "b" => at = Backup(at[1])
  BY Threads DEF TypeOK
<1>2. CASE JoinThread /\ at[2] = "m"
  <2>1. /\ pc = "join" /\ pc' = "join" /\ at' = Backup(at[1]) /\ place[at] = "gone"
        /\ UNCHANGED <<undo, initialized, place>>
    BY <1>2 DEF JoinThread, Joinable, Goes, threadVars
  <2>2. TypeOK' /\ Existing' /\ Undoing'
    BY <1>1, <1>2, <2>1 DEF TypeOK, Existing, Undoing, JoinThread, threadVars, updVars
  <2>3. Alive' /\ Tokens'
    BY <1>1, <1>2, <2>1 DEF Alive, Tokens, JoinThread, threadVars, updVars
  <2>4. QED BY <2>2, <2>3
<1>3. CASE JoinThread /\ at[2] = "b"
  <2>1. /\ pc = "join" /\ pc' = "unwind" /\ at' = at /\ place' = place /\ undo' = Tail(undo)
        /\ place[at] = "gone" /\ place[Main(at[1])] = "gone"
        /\ initialized' = initialized \ {Main(at[1]), at}
    BY <1>3 DEF JoinThread, Joinable, Goes, Alive, threadVars
  <2>2. /\ undo \in Seq(1..NbWorkers) /\ undo # <<>> /\ ListedOnce(undo) /\ at[1] = Head(undo)
        /\ \A t \in WThreads : t \in initialized <=> InList(t[1], undo)
    BY <2>1 DEF TypeOK, Undoing
  <2>3. /\ Tail(undo) \in Seq(1..NbWorkers) /\ ListedOnce(Tail(undo))
        /\ \A v \in 1..NbWorkers : InList(v, Tail(undo)) <=> InList(v, undo) /\ v # Head(undo)
    BY <2>2, ListTail
  <2>4. TypeOK' /\ Existing'
    BY <1>3, <2>1, <2>3 DEF TypeOK, Existing, JoinThread, threadVars, updVars
  <2>5. \A t \in WThreads : t \in initialized' <=> t \in initialized /\ t[1] # at[1]
    BY <1>1, <1>3, <2>1, Threads
  <2>6. Undoing'
    BY <2>1, <2>2, <2>3, <2>5, Threads DEF Undoing
  <2>7. Alive' /\ Tokens'
    BY <1>3, <2>1 DEF TypeOK, Alive, Tokens, JoinThread, threadVars, updVars
  <2>8. QED BY <2>4, <2>6, <2>7
<1>4. CASE JoinNothing
  BY <1>4 DEF TypeOK, Existing, Undoing, Alive, Tokens, JoinNothing, threadVars, updVars
<1>5. CASE Crashed
  BY <1>5 DEF TypeOK, Existing, Undoing, Alive, Tokens, Crashed, vars, mainVars, threadVars, updVars
<1>6. QED BY <1>1, <1>2, <1>3, <1>4, <1>5

------------------------------------------------------------------------------
(* The worker threads, those that wake them and the update thread.         *)
LEMMA ThreadStep == ASSUME IInv, NEW t \in WThreads, WorkerThread(t) PROVE IInv'
<1> USE DEF IInv
<1>1. /\ place[t] # "none" /\ place[t] # "gone"
      /\ \A u \in WThreads : u # t => place'[u] = place[u] /\ tstate'[u] = tstate[u] /\ sem'[u] = sem[u]
      /\ UNCHANGED <<mainVars, updVars>>
      /\ place'[t] # "none"
  BY DEF TypeOK, WorkerThread, Spin, TurnBegins, TurnEnds, LeavesLoop, Finishes, Moves
<1>2. TypeOK'
  BY DEF TypeOK, WorkerThread, Spin, TurnBegins, TurnEnds, LeavesLoop, Finishes, Moves,
         mainVars, updVars
<1>3. Existing' /\ Undoing' /\ Alive'
  BY <1>1, Threads DEF TypeOK, Existing, Undoing, Alive, mainVars, updVars
<1>4. (place'[t] \in {"sleep", "work"} /\ tstate'[t] = "EXITING") =>
          place[t] \in {"sleep", "work"} /\ tstate[t] = "EXITING" /\ sem'[t] = sem[t]
  BY DEF TypeOK, WorkerThread, Spin, TurnBegins, TurnEnds, LeavesLoop, Finishes, Moves
<1>5. Tokens'
  BY <1>1, <1>4 DEF Tokens, mainVars
<1>6. QED BY <1>2, <1>3, <1>5

LEMMA WakeupStep == ASSUME IInv, NEW t \in WThreads, Wakeup(t) PROVE IInv'
BY DEF IInv, TypeOK, Existing, Undoing, Alive, Tokens, Wakeup, mainVars, updVars

LEMMA UpdateStep == ASSUME IInv, Updater PROVE IInv'
<1>1. TypeOK' /\ Alive'
  BY DEF IInv, TypeOK, Alive, Updater, mainVars, threadVars
<1>2. Existing' /\ Undoing' /\ Tokens'
  BY DEF IInv, Existing, Undoing, Tokens, Updater, mainVars, threadVars
<1>3. QED BY <1>1, <1>2 DEF IInv

LEMMA StutterStep == ASSUME IInv, UNCHANGED vars PROVE IInv'
BY DEF IInv, TypeOK, Existing, Undoing, Alive, Tokens, vars, mainVars, threadVars, updVars

------------------------------------------------------------------------------
(* IInv holds in every state of every behaviour.                           *)
THEOREM Invariance == Spec => []IInv
<1>1. Init => IInv
  BY InitIInv
<1>2. IInv /\ [Next]_vars => IInv'
  BY AllocStep, InitStep, CreateStep, RunStep, UpdaterStep, UnwindStep, ExitStep, JoinStep,
     ThreadStep, WakeupStep, UpdateStep, StutterStep DEF Next, Program
<1>3. QED BY <1>1, <1>2, PTL DEF Spec

(* The variables of the program's thread, of the worker threads and of the *)
(* update thread keep their types, for any number of workers.              *)
THEOREM TypeCorrect == Spec => []TypeOK
BY Invariance, PTL DEF IInv

(* fly_sched_update runs only while all workers exist: fly_sched_init      *)
(* starts the update thread last, fly_sched_uninit joins it first.         *)
THEOREM UpdateSees == Spec => []UpdateSeesWorkers
<1>1. IInv => UpdateSeesWorkers
  BY DEF IInv, Existing, Alive, UpdateSeesWorkers
<1>2. QED BY <1>1, Invariance, PTL

(* Wherever fly_sched_init fails and whenever fly_sched_uninit is called,  *)
(* a worker thread outlives neither its struct nor the scheduler's locks.  *)
THEOREM HaveMemory == Spec => []ThreadsHaveMemory
<1>1. IInv => ThreadsHaveMemory
  BY DEF IInv, Existing, Alive, ThreadsHaveMemory
<1>2. QED BY <1>1, Invariance, PTL

(* A fly_sched_init that fails gives back all it made, and so does         *)
(* fly_sched_uninit: the next start finds the scheduler as the first did.  *)
THEOREM Nothing == Spec => []NothingLeft
<1>1. IInv => NothingLeft
  BY DEF IInv, Existing, Alive, NothingLeft
<1>2. QED BY <1>1, Invariance, PTL

(* fly_worker_thread_request_exit leaves no thread asleep: its state is    *)
(* set first and the token comes after, whatever wakeups come in between.  *)
THEOREM ExitReaches == Spec => []ExitReachesSleepers
<1>1. IInv => ExitReachesSleepers
  BY DEF IInv, Tokens, ExitReachesSleepers
<1>2. QED BY <1>1, Invariance, PTL
==============================================================================
