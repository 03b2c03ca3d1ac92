--------------------------- MODULE FlySched_proofs ----------------------------
(***************************************************************************)
(* The safety of the scheduler, where malloc gives out no address a thread *)
(* still points to (~Recycle): what a step does to the frames on a job,    *)
(* the inductive invariant, one job at a time, and the theorems.           *)
(***************************************************************************)
EXTENDS FlySchedTypes_proofs

(* What the rest of the proof needs to know of the stacks: the places      *)
(* where some thread works on a job, and the frame each thread is in.      *)
On(j, pc)   == \E t \in Threads : \E i \in 1..Len(stack[t]) :
                   stack[t][i].job = j /\ stack[t][i].pc = pc
Hands(t, j) == MyJob(t) = j /\ Top(t).pc \in {"addready", "move"}
Waking(t, j) == MyJob(t) = j /\ Top(t).pc = "notify"

(* A step of thread t that left its innermost frame and entered the frames *)
(* of New, as far as the proof looks at the stacks.                        *)
Left(t, j, pc) == Top(t).job = j /\ Top(t).pc = pc
View(t, New) ==
    /\ \A u \in Threads : u # t => Top(u)' = Top(u)
    /\ Top(t)' \in New \/ Top(t)'.pc \in {"user", "help", "schedule", "inc", "isdone"}
    /\ \A j \in Jobs, pc \in Places :
        /\ On(j, pc)' => On(j, pc) \/ \E f \in New : f.job = j /\ f.pc = pc
        /\ On(j, pc) => pc = "schedule" \/ Left(t, j, pc) \/ On(j, pc)'
    /\ \A f \in New : On(f.job, f.pc)'
    /\ On(Top(t).job, Top(t).pc)
    /\ \A j \in Jobs, b \in Batches :
        /\ \A u \in Threads : u # t => (Holds(u, j, b)' <=> Holds(u, j, b))
        /\ Holds(t, j, b)' => Holds(t, j, b) \/ \E f \in New : f.job = j /\ f.batch = b
        /\ Holds(t, j, b) => (Top(t).job = j /\ Top(t).batch = b) \/ Holds(t, j, b)'
    /\ \A f \in New : f.batch # 0 => Holds(t, f.job, f.batch)'

LEMMA HoldsIn ==
    ASSUME StackOK, NEW t \in Threads, NEW j, NEW b
    PROVE  Holds(t, j, b) <=> \E i \in 1..Len(stack[t]) : stack[t][i].batch = b /\ stack[t][i].job = j
<1>1. DOMAIN stack[t] = 1..Len(stack[t])
  BY TopFacts, LenProperties
<1>2. QED BY <1>1 DEF Holds

(* The facts of a View follow from where each frame of t comes from.       *)
LEMMA ViewOf ==
    ASSUME StackOK, StackOK', NEW t \in Threads, NEW New,
           \A u \in Threads : u # t => stack'[u] = stack[u],
           \A i \in 1..Len(stack'[t]) : stack'[t][i] \in New \/ \E k \in 1..Len(stack[t]) : stack'[t][i] = stack[t][k],
           \A k \in 1..Len(stack[t]) : \/ stack[t][k] = Top(t) \/ stack[t][k].pc = "schedule"
                                       \/ \E i \in 1..Len(stack'[t]) : stack'[t][i] = stack[t][k],
           \A f \in New : \E i \in 1..Len(stack'[t]) : stack'[t][i] = f,
           stack'[t][1] \in New \/ stack'[t][1].pc \in {"user", "help", "schedule", "inc", "isdone"}
    PROVE  View(t, New) /\ Top(t)' = stack'[t][1]
<1>1. \A u \in Threads : Top(u) = stack[u][1] /\ Len(stack[u]) \in Nat \ {0}
  BY TopFacts
<1>2. \A u \in Threads : Top(u)' = stack'[u][1] /\ Len(stack'[u]) \in Nat \ {0}
  <2>1. SUFFICES ASSUME NEW u \in Threads PROVE Top(u)' = stack'[u][1] /\ Len(stack'[u]) \in Nat \ {0}
    OBVIOUS
  <2>2. stack'[u] \in Seq(FrameSet) \ {<<>>}
    BY DEF StackOK, Stacks
  <2>3. QED BY <2>2, EmptySeq, LenProperties DEF Top
<1>3. ASSUME NEW j \in Jobs, NEW pc \in Places
      PROVE  /\ On(j, pc)' => On(j, pc) \/ \E f \in New : f.job = j /\ f.pc = pc
             /\ On(j, pc) => pc = "schedule" \/ Left(t, j, pc) \/ On(j, pc)'
  <2>1. ASSUME On(j, pc)' PROVE On(j, pc) \/ \E f \in New : f.job = j /\ f.pc = pc
    <3>0. PICK u \in Threads : \E i \in 1..Len(stack'[u]) : stack'[u][i].job = j /\ stack'[u][i].pc = pc
      BY <2>1 DEF On
    <3>1. PICK i \in 1..Len(stack'[u]) : stack'[u][i].job = j /\ stack'[u][i].pc = pc
      BY <3>0
    <3>2. CASE u = t
      BY <3>1, <3>2 DEF On
    <3>3. CASE u # t
      BY <3>1, <3>3 DEF On
    <3>4. QED BY <3>2, <3>3
  <2>2. ASSUME On(j, pc), pc # "schedule", ~Left(t, j, pc) PROVE On(j, pc)'
    <3>0. PICK u \in Threads : \E i \in 1..Len(stack[u]) : stack[u][i].job = j /\ stack[u][i].pc = pc
      BY <2>2 DEF On
    <3>1. PICK i \in 1..Len(stack[u]) : stack[u][i].job = j /\ stack[u][i].pc = pc
      BY <3>0
    <3>2. CASE u = t
      BY <2>2, <3>1, <3>2 DEF On, Left
    <3>3. CASE u # t
      BY <3>1, <3>3 DEF On
    <3>4. QED BY <3>2, <3>3
  <2>3. QED BY <2>1, <2>2
<1>4. \A f \in New : On(f.job, f.pc)'
  BY DEF On
<1>5. On(Top(t).job, Top(t).pc)
  BY <1>1 DEF On
<1>6. \A u \in Threads : \A k \in 1..Len(stack[u]) : stack[u][k].pc = "schedule" => stack[u][k].batch = 0
  BY DEF StackOK, ShapeOf, FrameRight
<1>7. \A j, b : /\ Holds(t, j, b) <=> \E i \in 1..Len(stack[t]) : stack[t][i].batch = b /\ stack[t][i].job = j
                /\ Holds(t, j, b)' <=> \E i \in 1..Len(stack'[t]) : stack'[t][i].batch = b /\ stack'[t][i].job = j
  <2>1. DOMAIN stack'[t] = 1..Len(stack'[t])
    BY LenProperties DEF StackOK, Stacks
  <2>2. QED BY <2>1, HoldsIn DEF Holds
<1>8. ASSUME NEW j \in Jobs, NEW b \in Batches
      PROVE  /\ \A u \in Threads : u # t => (Holds(u, j, b)' <=> Holds(u, j, b))
             /\ Holds(t, j, b)' => Holds(t, j, b) \/ \E f \in New : f.job = j /\ f.batch = b
             /\ Holds(t, j, b) => (Top(t).job = j /\ Top(t).batch = b) \/ Holds(t, j, b)'
  <2>1. \A u \in Threads : u # t => (Holds(u, j, b)' <=> Holds(u, j, b))
    BY DEF Holds
  <2>2. Holds(t, j, b)' => Holds(t, j, b) \/ \E f \in New : f.job = j /\ f.batch = b
    BY <1>7
  <2>3. Holds(t, j, b) => (Top(t).job = j /\ Top(t).batch = b) \/ Holds(t, j, b)'
    BY <1>6, <1>7, BatchFacts
  <2>4. QED BY <2>1, <2>2, <2>3
<1>9. \A f \in New : f.batch # 0 => Holds(t, f.job, f.batch)'
  BY <1>7
<1>10. QED BY <1>1, <1>2, <1>3, <1>4, <1>5, <1>8, <1>9 DEF View

LEMMA BecomeView ==
    ASSUME StackOK, StackOK', NEW t \in Threads, NEW f \in FrameSet, Become(t, f)
    PROVE  View(t, {f}) /\ Top(t)' = f
<1> DEFINE s == stack[t]
           r == <<f>> \o Tail(s)
<1>1. s \in Seq(FrameSet) \ {<<>>} /\ Len(s) \in Nat \ {0} /\ Top(t) = s[1]
  BY TopFacts
<1>2. stack'[t] = r /\ \A u \in Threads : u # t => stack'[u] = stack[u]
  BY DEF Become, StackOK, Stacks
<1> HIDE DEF s
<1>3. Len(r) = Len(s) /\ r[1] = f /\ \A i \in 2..Len(s) : r[i] = s[i]
  BY <1>1, Replaced
<1> HIDE DEF r
<1>4. \A i \in 1..Len(r) : r[i] \in {f} \/ \E k \in 1..Len(s) : r[i] = s[k]
  <2>1. SUFFICES ASSUME NEW i \in 1..Len(r), i # 1 PROVE r[i] = s[i] /\ i \in 1..Len(s)
    BY <1>3
  <2>2. QED BY <1>1, <1>3, <2>1
<1>5. \A k \in 1..Len(s) : s[k] = Top(t) \/ \E i \in 1..Len(r) : r[i] = s[k]
  <2>1. SUFFICES ASSUME NEW k \in 1..Len(s), k # 1 PROVE r[k] = s[k] /\ k \in 1..Len(r)
    BY <1>1
  <2>2. QED BY <1>1, <1>3, <2>1
<1>6. 1 \in 1..Len(r)
  BY <1>1, <1>3
<1>7. s = stack[t]
  BY DEF s
<1>8. QED BY <1>2, <1>3, <1>4, <1>5, <1>6, <1>7, ViewOf

LEMMA PushView ==
    ASSUME StackOK, StackOK', NEW t \in Threads, NEW f \in FrameSet, NEW g \in FrameSet,
           PushOn(t, f, g)
    PROVE  View(t, {f, g}) /\ Top(t)' = f
<1> DEFINE s == stack[t]
           r == <<f, g>> \o Tail(s)
<1>1. s \in Seq(FrameSet) \ {<<>>} /\ Len(s) \in Nat \ {0} /\ Top(t) = s[1]
  BY TopFacts
<1>2. stack'[t] = r /\ \A u \in Threads : u # t => stack'[u] = stack[u]
  BY DEF PushOn, StackOK, Stacks
<1> HIDE DEF s
<1>3. Len(r) = Len(s) + 1 /\ r[1] = f /\ r[2] = g /\ \A i \in 3..Len(s) + 1 : r[i] = s[i - 1]
  BY <1>1, Pushed
<1> HIDE DEF r
<1>4. \A i \in 1..Len(r) : r[i] \in {f, g} \/ \E k \in 1..Len(s) : r[i] = s[k]
  <2>1. SUFFICES ASSUME NEW i \in 1..Len(r), i # 1, i # 2 PROVE r[i] = s[i - 1] /\ i - 1 \in 1..Len(s)
    BY <1>3
  <2>2. QED BY <1>1, <1>3, <2>1
<1>5. \A k \in 1..Len(s) : s[k] = Top(t) \/ \E i \in 1..Len(r) : r[i] = s[k]
  <2>1. SUFFICES ASSUME NEW k \in 1..Len(s), k # 1 PROVE r[k + 1] = s[k] /\ k + 1 \in 1..Len(r)
    BY <1>1
  <2>2. k + 1 \in 3..Len(s) + 1 /\ (k + 1) - 1 = k
    BY <1>1, <2>1
  <2>3. QED BY <1>1, <1>3, <2>2
<1>6. \A x \in {f, g} : \E i \in 1..Len(r) : r[i] = x
  <2>1. 1 \in 1..Len(r) /\ 2 \in 1..Len(r)
    BY <1>1, <1>3
  <2>2. QED BY <1>3, <2>1
<1>7. s = stack[t]
  BY DEF s
<1> DEFINE New == {f, g}
<1>8. r[1] \in New
  BY <1>3
<1> HIDE DEF New
<1>10. /\ \A i \in 1..Len(stack'[t]) : stack'[t][i] \in New \/ \E k \in 1..Len(stack[t]) : stack'[t][i] = stack[t][k]
       /\ \A k \in 1..Len(stack[t]) : \/ stack[t][k] = Top(t) \/ stack[t][k].pc = "schedule"
                                      \/ \E i \in 1..Len(stack'[t]) : stack'[t][i] = stack[t][k]
       /\ \A h \in New : \E i \in 1..Len(stack'[t]) : stack'[t][i] = h
       /\ stack'[t][1] \in New
  BY <1>2, <1>4, <1>5, <1>6, <1>7, <1>8 DEF New
<1>11. View(t, New) /\ Top(t)' = stack'[t][1]
  BY <1>2, <1>10, ViewOf
<1>12. QED BY <1>2, <1>3, <1>11 DEF New

LEMMA LeaveView ==
    ASSUME StackOK, StackOK', NEW t \in Threads, Len(stack[t]) > 1, Leave(t)
    PROVE  View(t, {}) /\ Top(t)' = stack[t][2]
<1> DEFINE s == stack[t]
           r == Tail(s)
<1>1. s \in Seq(FrameSet) /\ Len(s) \in Nat \ {0} /\ Top(t) = s[1] /\ Len(s) > 1
  BY TopFacts
<1>2. stack'[t] = r /\ \A u \in Threads : u # t => stack'[u] = stack[u]
  BY DEF Leave, StackOK, Stacks
<1>3. s[2].pc \in {"user", "help", "schedule", "inc", "isdone"}
  BY <1>1, TopFacts DEF Above
<1> HIDE DEF s
<1>4. Len(r) = Len(s) - 1 /\ \A i \in 1..Len(s) - 1 : r[i] = s[i + 1]
  BY <1>1, Popped
<1> HIDE DEF r
<1>5. \A i \in 1..Len(r) : r[i] \in {} \/ \E k \in 1..Len(s) : r[i] = s[k]
  <2>1. SUFFICES ASSUME NEW i \in 1..Len(r) PROVE r[i] = s[i + 1] /\ i + 1 \in 1..Len(s)
    OBVIOUS
  <2>2. QED BY <1>1, <1>4, <2>1
<1>6. \A k \in 1..Len(s) : s[k] = Top(t) \/ \E i \in 1..Len(r) : r[i] = s[k]
  <2>1. SUFFICES ASSUME NEW k \in 1..Len(s), k # 1 PROVE r[k - 1] = s[k] /\ k - 1 \in 1..Len(r)
    BY <1>1
  <2>2. k - 1 \in 1..(Len(s) - 1) /\ (k - 1) + 1 = k
    BY <1>1, <2>1
  <2>3. QED BY <1>1, <1>4, <2>2
<1>7. r[1] = s[2] /\ r[1].pc \in {"user", "help", "schedule", "inc", "isdone"}
  BY <1>1, <1>3, <1>4
<1>8. s = stack[t]
  BY DEF s
<1>9. \A f \in {} : \E i \in 1..Len(r) : r[i] = f
  OBVIOUS
<1> DEFINE New == {}
<1> HIDE DEF New
<1>10. /\ \A i \in 1..Len(stack'[t]) : stack'[t][i] \in New \/ \E k \in 1..Len(stack[t]) : stack'[t][i] = stack[t][k]
       /\ \A k \in 1..Len(stack[t]) : \/ stack[t][k] = Top(t) \/ stack[t][k].pc = "schedule"
                                      \/ \E i \in 1..Len(stack'[t]) : stack'[t][i] = stack[t][k]
       /\ \A f \in New : \E i \in 1..Len(stack'[t]) : stack'[t][i] = f
       /\ stack'[t][1] \in New \/ stack'[t][1].pc \in {"user", "help", "schedule", "inc", "isdone"}
  BY <1>2, <1>5, <1>6, <1>7, <1>8, <1>9 DEF New
<1>11. View(t, New) /\ Top(t)' = stack'[t][1]
  BY <1>2, <1>10, ViewOf
<1>12. QED BY <1>2, <1>7, <1>8, <1>11 DEF New

LEMMA GoToView ==
    ASSUME StackOK, StackOK', NEW t \in Threads, NEW pc \in Places \ (Idle \cup {"inc"}),
           Top(t).pc \notin Idle \cup {"inc"}, GoTo(t, pc)
    PROVE  LET g == [Top(t) EXCEPT !.pc = pc]
           IN /\ View(t, {g}) /\ Top(t)' = g
              /\ g.pc = pc /\ g.job = MyJob(t) /\ g.batch = 0 /\ g.idle = Top(t).idle
<1> DEFINE g == [Top(t) EXCEPT !.pc = pc]
<1>1. Become(t, g)
  BY GoToBecomes
<1>2. g \in FrameSet /\ g.pc = pc /\ g.job = MyJob(t) /\ g.batch = 0 /\ g.idle = Top(t).idle
  BY TopFacts, MovedFrame DEF MyJob
<1> HIDE DEF g
<1>3. View(t, {g}) /\ Top(t)' = g
  BY <1>1, <1>2, BecomeView
<1>4. QED BY <1>2, <1>3 DEF g

LEMMA GoToIdleView ==
    ASSUME StackOK, StackOK', NEW t \in Threads, NEW pc \in Idle, Top(t).pc \in Idle, GoTo(t, pc)
    PROVE  LET g == [Top(t) EXCEPT !.pc = pc]
           IN View(t, {g}) /\ Top(t)' = g /\ g.pc = pc /\ g.job = NoJob /\ g.batch = 0
<1> DEFINE g == [Top(t) EXCEPT !.pc = pc]
<1>1. Become(t, g)
  BY GoToBecomes DEF Idle, Places
<1>2. g \in FrameSet /\ g.pc = pc /\ g.job = NoJob /\ g.batch = 0
  BY TopFacts, MovedIdleFrame
<1> HIDE DEF g
<1>3. View(t, {g}) /\ Top(t)' = g
  BY <1>1, <1>2, BecomeView
<1>4. QED BY <1>2, <1>3 DEF g

(* Leaving fly_sched_exec_job enters no frame on a job.                    *)
LEMMA ExecutedView ==
    ASSUME StackOK, StackOK', NEW t \in Threads, Top(t).pc \in Executing, Executed(t)
    PROVE  \E New : /\ View(t, New)
                    /\ \A f \in New : f.job = NoJob /\ f.batch = 0
<1>1. Len(stack[t]) > 1 /\ Top(t) = stack[t][1] /\ Above(Top(t), stack[t][2])
  BY NotAtBottom, TopFacts DEF BasePlaces, Executing
<1>2. CASE Len(stack[t]) = 2 /\ t \in WThreads
  <2> DEFINE f == Frame(IF Top(t).idle THEN "sleep" ELSE "ready", NoJob)
  <2>1. f \in FrameSet /\ f.job = NoJob /\ f.batch = 0
    <3>1. /\ Frame("sleep", NoJob) \in FrameSet /\ Frame("sleep", NoJob).job = NoJob
          /\ Frame("sleep", NoJob).batch = 0
      BY FrameOf DEF Places, Idle
    <3>2. /\ Frame("ready", NoJob) \in FrameSet /\ Frame("ready", NoJob).job = NoJob
          /\ Frame("ready", NoJob).batch = 0
      BY FrameOf DEF Places, Idle
    <3>3. f = Frame("sleep", NoJob) \/ f = Frame("ready", NoJob)
      OBVIOUS
    <3> HIDE DEF f
    <3>4. QED BY <3>1, <3>2, <3>3
  <2>2. stack'[t] = <<f>> /\ \A u \in Threads : u # t => stack'[u] = stack[u]
    BY <1>2 DEF Executed, StackOK, Stacks
  <2> HIDE DEF f
  <2>3. Len(<<f>>) = 1 /\ <<f>>[1] = f
    OBVIOUS
  <2>4. stack[t][2].pc = "schedule"
    <3>1. stack[t][2].pc \in BasePlaces
      BY <1>2 DEF StackOK, ShapeOf, Bottom
    <3>2. QED BY <1>1, <3>1 DEF Above, BasePlaces, Executing, Called
  <2>5. \A k \in 1..Len(stack[t]) : stack[t][k] = Top(t) \/ stack[t][k].pc = "schedule"
    <3>1. \A k \in 1..2 : k = 1 \/ k = 2
      OBVIOUS
    <3>2. QED BY <1>1, <1>2, <2>4, <3>1
  <2>6. \A i \in 1..Len(stack'[t]) : stack'[t][i] = f
    BY <2>2, <2>3
  <2>7. 1 \in 1..Len(stack'[t])
    BY <2>2, <2>3
  <2>8. View(t, {f})
    BY <2>2, <2>3, <2>5, <2>6, <2>7, ViewOf
  <2>9. QED BY <2>1, <2>8
<1>3. CASE ~(Len(stack[t]) = 2 /\ t \in WThreads)
  <2>1. View(t, {})
    BY <1>1, <1>3, LeaveView DEF Executed
  <2>2. QED BY <2>1
<1>4. QED BY <1>2, <1>3

------------------------------------------------------------------------------
(* The inductive invariant, for one job.  A job nobody has taken is on the *)
(* ready list or with the one thread about to list it; nothing has been    *)
(* done to it, and other threads stand at most in fly_wait_task or in the  *)
(* wakeups that follow its listing.                                        *)
Untaken(j) == j \in ToSet(ready) \/ \E t \in Threads : Hands(t, j)
Busy       == {"exec", "inc", "isdone", "unlist", "todone", "post", "help", "collect"}
Quiet(j)   ==
    /\ job[j].live /\ job[j].sem = 0 /\ job[j].execed = {} /\ job[j].batches_done = 0
    /\ \A b \in Batches : runs[j][b] = 0
    /\ \A pc \in Busy : ~On(j, pc)
    /\ \A t \in WThreads : ~Waking(t, j)
ReadyFor(j) ==
    /\ Untaken(j) => Quiet(j) /\ ~On(j, "destroy")
    /\ \A t, u \in Threads : Hands(t, j) /\ Hands(u, j) => t = u
    /\ \A t \in Threads : Hands(t, j) => j \notin ToSet(ready)

(* A job on the running list is nobody's to free yet.                      *)
RunningFor(j) ==
    j \in ToSet(running) =>
        /\ job[j].live /\ job[j].sem = 0 /\ ~Untaken(j)
        /\ ~On(j, "todone") /\ ~On(j, "post") /\ ~On(j, "collect") /\ ~On(j, "destroy")

(* A batch is held by one thread, which claimed it, until it is counted.   *)
ClaimFor(j) ==
    job[j].live =>
        /\ \A t \in WThreads, b \in Batches : Holds(t, j, b) => ~IsTask(j) /\ b \in job[j].execed
        /\ \A t, u \in WThreads, b \in Batches : Holds(t, j, b) /\ Holds(u, j, b) => t = u
AccountFor(j) ==
    /\ ~job[j].live => \A b \in Batches : runs[j][b] = 0
    /\ job[j].live /\ ~IsTask(j) =>
        /\ job[j].batches_done + Cardinality(Holders(j)) = Cardinality(job[j].execed)
        /\ \A b \in Batches : runs[j][b] = IF b \in job[j].execed THEN 1 ELSE 0

(* Where the code takes a job to be done it is, and its work has been run; *)
(* a call that could not list its job frees one that nobody has seen.      *)
Finished(j) == IsDone(j) /\ ~HasWork(j)
Refused(j)  == Quiet(j) /\ ~Untaken(j) /\ j \notin ToSet(running)
DoneFor(j)  ==
    job[j].live =>
        /\ IsTask(j) /\ On(j, "isdone") => runs[j][1] # 0
        /\ \/ job[j].sem # 0
           \/ On(j, "unlist") \/ On(j, "todone") \/ On(j, "post") \/ On(j, "collect")
           => Finished(j)
        /\ On(j, "destroy") => Finished(j) \/ Refused(j)

PostedFor(j) ==
    job[j].live /\ IsDone(j) =>
        \/ job[j].sem # 0 \/ On(j, "collect") \/ On(j, "destroy") \/ On(j, "exec")
        \/ On(j, "isdone") \/ On(j, "unlist") \/ On(j, "todone") \/ On(j, "post")

(* With one worker a job has one batch, and the thread that could not list *)
(* the job runs that batch itself.                                         *)
SeenFor(j) ==
    job[j].live /\ HasWork(j) =>
        \/ j \in ToSet(running) \/ Untaken(j)
        \/ /\ failures > 0
           /\ Cardinality(Workers) = 1 =>
                \/ On(j, "exec") \/ On(j, "help") \/ On(j, "destroy")
                \/ \E t \in WThreads : Waking(t, j)

(* Only a loop is helped by the worker that created it.                    *)
LoopFor(j) ==
    job[j].live /\ (On(j, "help") \/ \E t \in WThreads : Waking(t, j)) => ~IsTask(j)

JobInv(j) == /\ ReadyFor(j) /\ RunningFor(j) /\ ClaimFor(j) /\ AccountFor(j)
             /\ DoneFor(j) /\ PostedFor(j) /\ SeenFor(j) /\ LoopFor(j)

(* A thread holds no batch twice.                                          *)
InOne(s, L) == \A i, k \in 1..Len(s) :
    s[i].batch # 0 /\ s[i].job \in L /\ s[k].batch = s[i].batch /\ s[k].job = s[i].job => i = k
HeldInOne == \A t \in Threads : InOne(stack[t], Live)

IInv == /\ \A j \in Jobs : JobInv(j)
        /\ IsInjective(ready) /\ IsInjective(running)
        /\ HeldInOne

------------------------------------------------------------------------------
(* A job the step does not work on.                                        *)
LEMMA OtherJob ==
    ASSUME Typed, NEW t \in Threads, NEW New, View(t, New), NEW j \in Jobs, JobInv(j),
           Top(t).job # j, \A f \in New : f.job # j,
           job'[j] = job[j], runs'[j] = runs[j], failures' >= failures, failures' \in Nat,
           j \in ToSet(ready') <=> j \in ToSet(ready),
           j \in ToSet(running') <=> j \in ToSet(running)
    PROVE  JobInv(j)'
<1>1. \A pc \in Places : pc # "schedule" => (On(j, pc)' <=> On(j, pc))
  BY DEF View, Left
<1>2. ASSUME NEW u \in Threads
      PROVE  (Hands(u, j)' <=> Hands(u, j)) /\ (Waking(u, j)' <=> Waking(u, j))
  BY DEF View, Hands, Waking, MyJob
<1>3. ASSUME NEW u \in Threads, NEW b \in Batches PROVE Holds(u, j, b)' <=> Holds(u, j, b)
  BY DEF View
<1>4. Holders(j)' = Holders(j)
  BY <1>3 DEF Holders, Threads
<1>5. /\ IsTask(j)' = IsTask(j) /\ IsDone(j)' = IsDone(j) /\ HasWork(j)' = HasWork(j)
      /\ Unclaimed(j)' = Unclaimed(j)
  BY DEF IsTask, IsDone, HasWork, NbBatches, Unclaimed
<1>6. Untaken(j)' <=> Untaken(j)
  BY <1>2 DEF Untaken
<1>7. Quiet(j)' <=> Quiet(j)
  BY <1>1, <1>2 DEF Quiet, Busy, Places, Threads
<1>8. ReadyFor(j)'
  BY <1>1, <1>2, <1>6, <1>7 DEF JobInv, ReadyFor, Places
<1>9. RunningFor(j)'
  BY <1>1, <1>6 DEF JobInv, RunningFor, Places
<1>10. ClaimFor(j)'
  BY <1>3, <1>5 DEF JobInv, ClaimFor, Threads
<1>11. AccountFor(j)'
  BY <1>4, <1>5 DEF JobInv, AccountFor
<1>12. DoneFor(j)'
  BY <1>1, <1>5, <1>6, <1>7 DEF JobInv, DoneFor, Finished, Refused, Places
<1>13. PostedFor(j)'
  BY <1>1, <1>5 DEF JobInv, PostedFor, Places
<1>14. SeenFor(j)'
  <2>1. failures \in Nat
    BY SchedAssumption DEF Typed, DataOK
  <2>2. failures > 0 => failures' > 0
    BY <2>1
  <2>3. (\E u \in WThreads : Waking(u, j)') <=> \E u \in WThreads : Waking(u, j)
    BY <1>2 DEF Threads
  <2>4. QED BY <1>1, <1>5, <1>6, <2>2, <2>3 DEF JobInv, SeenFor, Places
<1>15. LoopFor(j)'
  BY <1>1, <1>2, <1>5 DEF JobInv, LoopFor, Places, Threads
<1>16. QED BY <1>8, <1>9, <1>10, <1>11, <1>12, <1>13, <1>14, <1>15 DEF JobInv

(* A step of t on job j leaves the places P and enters the places Q, and   *)
(* no thread claims or counts a batch of j.                                *)
Turns(t, j, P, Q) ==
    /\ \A pc \in Places : /\ On(j, pc)' => On(j, pc) \/ pc \in Q
                          /\ On(j, pc) => pc = "schedule" \/ pc \in P \/ On(j, pc)'
    /\ \A pc \in Q : On(j, pc)'
    /\ \A pc \in P : On(j, pc)
    /\ \A u \in Threads : u # t =>
        (Hands(u, j)' <=> Hands(u, j)) /\ (Waking(u, j)' <=> Waking(u, j))
    /\ Hands(t, j) <=> "addready" \in P \/ "move" \in P
    /\ Hands(t, j)' <=> "addready" \in Q \/ "move" \in Q
    /\ Waking(t, j) <=> "notify" \in P
    /\ Waking(t, j)' <=> "notify" \in Q
    /\ \A u \in Threads, b \in Batches : Holds(u, j, b)' <=> Holds(u, j, b)
    /\ Holders(j)' = Holders(j)

LEMMA TurnsOf ==
    ASSUME Typed, NEW t \in Threads, NEW New, View(t, New), NEW j \in Jobs,
           NEW P, P = IF Top(t).job = j THEN {Top(t).pc} ELSE {},
           NEW Q, Q = {f.pc : f \in {g \in New : g.job = j}},
           Top(t).job = j => Top(t).batch = 0,
           \A f \in New : f.job = j => f.batch = 0,
           \A f \in New : f.job = j /\ f.pc \in {"addready", "move", "notify"} => Top(t)' = f
    PROVE  Turns(t, j, P, Q)
<1>1. \A pc \in Places : On(j, pc)' => On(j, pc) \/ pc \in Q
  BY DEF View
<1>2. \A pc \in Places : On(j, pc) => pc = "schedule" \/ pc \in P \/ On(j, pc)'
  BY DEF View, Left
<1>3. \A pc \in Q : On(j, pc)'
  BY DEF View
<1>4. \A pc \in P : On(j, pc)
  BY DEF View
<1>5. \A u \in Threads : u # t => (Hands(u, j)' <=> Hands(u, j)) /\ (Waking(u, j)' <=> Waking(u, j))
  BY DEF View, Hands, Waking, MyJob
<1>6. /\ Hands(t, j) <=> "addready" \in P \/ "move" \in P
      /\ Waking(t, j) <=> "notify" \in P
  BY DEF Hands, Waking, MyJob
<1>7. /\ Hands(t, j)' <=> "addready" \in Q \/ "move" \in Q
      /\ Waking(t, j)' <=> "notify" \in Q
  <2>1. \A pc \in {"addready", "move", "notify"} :
            (Top(t)'.job = j /\ Top(t)'.pc = pc) <=> pc \in Q
    BY DEF View
  <2>2. QED BY <2>1 DEF Hands, Waking, MyJob
<1>8. ASSUME NEW u \in Threads, NEW b \in Batches PROVE Holds(u, j, b)' <=> Holds(u, j, b)
  BY BatchFacts DEF View
<1>9. Holders(j)' = Holders(j)
  BY <1>8 DEF Holders, Threads
<1>10. QED BY <1>1, <1>2, <1>3, <1>4, <1>5, <1>6, <1>7, <1>8, <1>9 DEF Turns

(* The turn of a thread that goes on to another place with the same job.   *)
LEMMA GoToTurns ==
    ASSUME Typed, Typed', NEW t \in Threads, NEW pc \in Places \ (Idle \cup {"inc"}),
           Top(t).pc \notin Idle \cup {"inc"}, GoTo(t, pc), NEW m, m = MyJob(t)
    PROVE  /\ m \in Jobs /\ Turns(t, m, {Top(t).pc}, {pc})
           /\ \E f : f.job = m /\ f.batch = 0 /\ View(t, {f})
<1> DEFINE g == [Top(t) EXCEPT !.pc = pc]
<1>1. /\ View(t, {g}) /\ Top(t)' = g
      /\ g.pc = pc /\ g.job = m /\ g.batch = 0
  BY GoToView DEF Typed
<1> HIDE DEF g
<1>2. m \in Jobs
  BY MyJobIsJob DEF Typed
<1>3. Top(t).job = m /\ Top(t).batch = 0
  BY TopFacts DEF Typed, FrameRight, MyJob
<1>4. {Top(t).pc} = IF Top(t).job = m THEN {Top(t).pc} ELSE {}
  BY <1>3
<1>5. {pc} = {f.pc : f \in {h \in {g} : h.job = m}}
  BY <1>1
<1>6. Turns(t, m, {Top(t).pc}, {pc})
  BY <1>1, <1>2, <1>3, <1>4, <1>5, TurnsOf
<1>7. QED BY <1>1, <1>2, <1>6

(* The places from which a job that is done is still to be posted, and     *)
(* those from which a job on no list is still worked on.                   *)
Posting == {"exec", "isdone", "unlist", "todone", "post", "collect", "destroy"}
Seeing(t) == {"exec", "help", "destroy"} \cup IF t \in WThreads THEN {"notify"} ELSE {}

(* A step on job m that changes the places of the threads and at most      *)
(* takes m off the running list.                                           *)
LEMMA Pass ==
    ASSUME Typed, NEW t \in Threads, NEW m \in Jobs, JobInv(m),
           NEW P \in SUBSET Places, NEW Q \in SUBSET Places, Turns(t, m, P, Q),
           (P \cup Q) \cap {"addready", "move"} = {}, "notify" \notin Q,
           job'[m] = job[m], runs'[m] = runs[m], failures' >= failures, failures' \in Nat,
           m \in ToSet(ready') <=> m \in ToSet(ready),
           m \in ToSet(running') => m \in ToSet(running),
           Q \cap Busy # {} => ~Untaken(m) /\ ~Refused(m),
           "destroy" \in Q => ~Untaken(m),
           m \in ToSet(running') => Q \cap {"todone", "post", "collect", "destroy"} = {},
           job[m].live /\ IsTask(m) => "help" \notin Q,
           job[m].live /\ IsTask(m) /\ "isdone" \in Q => runs[m][1] # 0,
           job[m].live /\ Q \cap {"unlist", "todone", "post", "collect", "destroy"} # {} => Finished(m),
           job[m].live /\ IsDone(m) => P \cap Posting = {} \/ Q \cap Posting # {} \/ job[m].sem # 0,
           job[m].live /\ HasWork(m) =>
               /\ m \in ToSet(running') <=> m \in ToSet(running)
               /\ P \cap Seeing(t) = {} \/ Q \cap Seeing(t) # {} \/ m \in ToSet(running)
    PROVE  JobInv(m)'
<1>1. /\ IsTask(m)' = IsTask(m) /\ IsDone(m)' = IsDone(m) /\ HasWork(m)' = HasWork(m)
      /\ Finished(m)' = Finished(m)
  BY DEF IsTask, IsDone, HasWork, NbBatches, Unclaimed, Finished
<1>2. \A u \in Threads : Hands(u, m)' <=> Hands(u, m)
  BY DEF Turns
<1>3. Untaken(m)' <=> Untaken(m)
  BY <1>2 DEF Untaken
<1>4. \A pc \in Places : pc \notin Q => (On(m, pc)' => On(m, pc))
  BY DEF Turns
<1>5. \A u \in WThreads : Waking(u, m)' => Waking(u, m)
  BY DEF Turns, Threads
<1>6. Quiet(m) /\ Q \cap Busy = {} => Quiet(m)'
  BY <1>4, <1>5 DEF Quiet, Busy, Places
<1>7. ReadyFor(m)'
  BY <1>2, <1>3, <1>4, <1>6 DEF JobInv, ReadyFor, Places
<1>8. RunningFor(m)'
  BY <1>3, <1>4 DEF JobInv, RunningFor, Places
<1>9. ClaimFor(m)'
  BY <1>1 DEF JobInv, ClaimFor, Turns, Threads
<1>10. AccountFor(m)'
  BY <1>1 DEF JobInv, AccountFor, Turns
<1>11. DoneFor(m)'
  <2>1. Refused(m) => Refused(m)'
    BY <1>3, <1>6 DEF Refused
  <2>2. QED BY <1>1, <1>4, <2>1 DEF JobInv, DoneFor, Places
<1>12. PostedFor(m)'
  <2>1. SUFFICES ASSUME job[m].live, IsDone(m), job[m].sem = 0
                 PROVE  \E pc \in Posting : On(m, pc)'
    BY <1>1 DEF PostedFor, Posting
  <2>2. PICK pc \in Posting : On(m, pc)
    BY <2>1 DEF JobInv, PostedFor, Posting
  <2>3. pc \in Places /\ pc # "schedule"
    BY DEF Posting, Places
  <2>4. CASE pc \in P
    <3>1. PICK q \in Posting : q \in Q
      BY <2>1, <2>4
    <3>2. QED BY <3>1 DEF Turns
  <2>5. CASE pc \notin P
    BY <2>2, <2>3, <2>5 DEF Turns
  <2>6. QED BY <2>4, <2>5
<1>13. SeenFor(m)'
  <2>1. failures \in Nat
    BY SchedAssumption DEF Typed, DataOK
  <2>2. SUFFICES ASSUME job[m].live, HasWork(m), m \notin ToSet(running), ~Untaken(m)
                 PROVE  /\ failures' > 0
                        /\ Cardinality(Workers) = 1 =>
                             \/ On(m, "exec")' \/ On(m, "help")' \/ On(m, "destroy")'
                             \/ \E u \in WThreads : Waking(u, m)'
    BY <1>1, <1>3 DEF SeenFor
  <2>3. failures' > 0
    BY <2>1, <2>2 DEF JobInv, SeenFor
  <2>4. ASSUME Cardinality(Workers) = 1
        PROVE  \/ On(m, "exec")' \/ On(m, "help")' \/ On(m, "destroy")'
               \/ \E u \in WThreads : Waking(u, m)'
    <3>1. P \cap Seeing(t) = {} \/ Q \cap Seeing(t) # {}
      BY <2>2
    <3>2. CASE Q \cap Seeing(t) # {}
      BY <3>2 DEF Turns, Seeing
    <3>3. CASE P \cap Seeing(t) = {}
      <4>1. CASE On(m, "exec") \/ On(m, "help") \/ On(m, "destroy")
        BY <3>3, <4>1 DEF Turns, Seeing, Places
      <4>2. CASE \E u \in WThreads : Waking(u, m)
        BY <3>3, <4>2 DEF Turns, Seeing, Threads
      <4>3. QED BY <2>2, <2>4, <4>1, <4>2 DEF JobInv, SeenFor
    <3>4. QED BY <3>1, <3>2, <3>3
  <2>5. QED BY <2>3, <2>4
<1>14. LoopFor(m)'
  BY <1>1, <1>4, <1>5 DEF JobInv, LoopFor, Places
<1>15. QED BY <1>7, <1>8, <1>9, <1>10, <1>11, <1>12, <1>13, <1>14 DEF JobInv

LEMMA WaitJobInv ==
    ASSUME Typed, Typed', IInv, NEW t \in Threads, WaitJob(t)
    PROVE  \A j \in Jobs : JobInv(j)'
<1> SUFFICES ASSUME NEW m, m = MyJob(t) PROVE \A j \in Jobs : JobInv(j)'
  OBVIOUS
<1>1. Top(t).pc = "wait" /\ GoTo(t, "collect")
  BY DEF WaitJob, At
<1>2. m \in Jobs /\ Turns(t, m, {"wait"}, {"collect"})
  BY <1>1, GoToTurns DEF Places, Idle
<1>3. PICK f : f.job = m /\ View(t, {f})
  BY <1>1, GoToTurns DEF Places, Idle
<1>4. job[m].sem \in Nat /\ job[m].sem # 0 /\ job[m].live
  BY <1>2, JobTypes DEF WaitJob, Posted, Typed
<1>5. /\ job' = [job EXCEPT ![m].sem = @ - 1]
      /\ ready' = ready /\ running' = running /\ runs' = runs /\ failures' = failures
  BY DEF WaitJob
<1>6. job[m] \in JobSet /\ failures \in Nat /\ DOMAIN job = Jobs
  BY <1>2, SchedAssumption DEF Typed, DataOK
<1>7. ASSUME NEW j \in Jobs, j # m PROVE JobInv(j)'
  <2>1. Top(t).job = m
    BY DEF MyJob
  <2>2. QED BY <1>3, <1>5, <1>6, <1>7, <2>1, OtherJob DEF IInv
<1>8. JobInv(m)'
  <2>1. JobInv(m)
    BY <1>2 DEF IInv
  <2>2. /\ job'[m].live = job[m].live /\ job'[m].type = job[m].type
        /\ job'[m].execed = job[m].execed /\ job'[m].batches_done = job[m].batches_done
        /\ job'[m].sem = job[m].sem - 1
    BY <1>2, <1>5, <1>6 DEF JobSet
  <2>3. /\ IsTask(m)' = IsTask(m) /\ IsDone(m)' = IsDone(m) /\ HasWork(m)' = HasWork(m)
    BY <1>5, <2>2 DEF IsTask, IsDone, HasWork, NbBatches, Unclaimed
  <2>4. Finished(m) /\ ~Untaken(m) /\ m \notin ToSet(running)
    BY <1>2, <1>4, <2>1 DEF JobInv, DoneFor, ReadyFor, RunningFor, Quiet
  <2>5. ~Untaken(m)' /\ m \notin ToSet(running')
    BY <1>2, <1>5, <2>4 DEF Turns, Untaken
  <2>6. Finished(m)'
    BY <2>3, <2>4 DEF Finished
  <2>7. ReadyFor(m)'
    BY <1>2, <1>5, <2>1, <2>5 DEF JobInv, ReadyFor, Turns, Untaken
  <2>8. RunningFor(m)'
    BY <2>5 DEF RunningFor
  <2>9. ClaimFor(m)'
    BY <1>2, <2>1, <2>2, <2>3 DEF JobInv, ClaimFor, Turns, Threads
  <2>10. AccountFor(m)'
    BY <1>2, <1>5, <2>1, <2>2, <2>3 DEF JobInv, AccountFor, Turns
  <2>11. DoneFor(m)'
    BY <1>2, <1>5, <2>1, <2>2, <2>3, <2>6 DEF JobInv, DoneFor, Turns, Places
  <2>12. PostedFor(m)'
    BY <1>2 DEF PostedFor, Turns
  <2>13. SeenFor(m)'
    BY <2>6 DEF SeenFor, Finished
  <2>14. LoopFor(m)'
    BY <1>2, <2>1, <2>2, <2>3 DEF JobInv, LoopFor, Turns, Places, Threads
  <2>15. QED BY <2>7, <2>8, <2>9, <2>10, <2>11, <2>12, <2>13, <2>14 DEF JobInv
<1>9. QED BY <1>7, <1>8

(* Finitely many threads hold a batch of a job, and a loop that is done    *)
(* has no batch left to claim.                                             *)
LEMMA HoldersFinite ==
    ASSUME NEW j
    PROVE  IsFiniteSet(Holders(j)) /\ Cardinality(Holders(j)) \in Nat
<1>1. IsFiniteSet(WThreads)
  BY SchedAssumption, FS_Product DEF WThreads
<1>2. IsFiniteSet(WThreads \X Batches)
  BY <1>1, BatchFacts, FS_Product
<1>3. Holders(j) \subseteq WThreads \X Batches
  BY DEF Holders
<1>4. QED BY <1>2, <1>3, FS_Subset, FS_CardinalityType

LEMMA LoopDone ==
    ASSUME Typed, NEW m \in Jobs, JobInv(m), job[m].live, ~IsTask(m), IsDone(m)
    PROVE  Finished(m) /\ Cardinality(Holders(m)) = 0
<1>1. job[m].execed \subseteq Batches /\ job[m].batches_done \in Nat
  BY JobTypes DEF Typed
<1>2. /\ Cardinality(job[m].execed) \in Nat /\ Cardinality(job[m].execed) <= Cardinality(Batches)
      /\ Cardinality(job[m].execed) = Cardinality(Batches) => job[m].execed = Batches
  BY <1>1, BatchFacts, FS_Subset, FS_CardinalityType
<1>3. job[m].batches_done + Cardinality(Holders(m)) = Cardinality(job[m].execed)
  BY DEF JobInv, AccountFor
<1>4. job[m].batches_done = Cardinality(Batches) /\ Cardinality(Batches) \in Nat
  BY BatchFacts DEF IsDone, NbBatches
<1>5. job[m].execed = Batches /\ Cardinality(Holders(m)) = 0
  BY <1>1, <1>2, <1>3, <1>4, HoldersFinite
<1>6. QED BY <1>5 DEF Finished, HasWork, Unclaimed

(* The jobs a step of t on m does not work on.                             *)
LEMMA Others ==
    ASSUME Typed, Typed', IInv, NEW t \in Threads, NEW New, View(t, New), NEW m,
           Top(t).job \in {m, NoJob}, \A f \in New : f.job \in {m, NoJob},
           \A j \in Jobs : j # m =>
               /\ job'[j] = job[j] /\ runs'[j] = runs[j]
               /\ j \in ToSet(ready') <=> j \in ToSet(ready)
               /\ j \in ToSet(running') <=> j \in ToSet(running),
           failures' >= failures
    PROVE  \A j \in Jobs : j # m => JobInv(j)'
<1>1. SUFFICES ASSUME NEW j \in Jobs, j # m PROVE JobInv(j)'
  OBVIOUS
<1>2. Top(t).job # j /\ \A f \in New : f.job # j
  BY <1>1, SchedAssumption
<1>3. failures' \in Nat /\ JobInv(j)
  BY SchedAssumption DEF Typed, DataOK, IInv
<1>4. QED BY <1>1, <1>2, <1>3, OtherJob

LEMMA Listing ==
    ASSUME Typed, NEW m \in Jobs, NEW list \in Seq(Jobs), NEW new,
           \/ new = Append(list, m) /\ failures' = failures
           \/ Fails /\ new = list
    PROVE  /\ failures' >= failures /\ failures' \in Nat
           /\ \/ failures' = failures /\ ToSet(new) = ToSet(list) \cup {m}
              \/ failures' > 0 /\ new = list
           /\ IsInjective(list) /\ m \notin ToSet(list) => IsInjective(new)
           /\ \A j : j # m => (j \in ToSet(new) <=> j \in ToSet(list))
<1>1. failures \in Nat
  BY SchedAssumption DEF Typed, DataOK
<1>2. CASE new = Append(list, m) /\ failures' = failures
  BY <1>1, <1>2, Appended
<1>3. CASE Fails /\ new = list
  BY <1>1, <1>3 DEF Fails
<1>4. QED BY <1>2, <1>3

LEMMA ExecTurns ==
    ASSUME Typed, Typed', NEW t \in Threads, NEW m \in Jobs, NEW f \in FrameSet, Exec(t, m, f),
           f.job = m, f.pc \in {"help", "schedule"}, f.batch = 0, Top(t).batch = 0,
           NEW P, P = IF Top(t).job = m THEN {Top(t).pc} ELSE {}
    PROVE  /\ Turns(t, m, P, {"exec", f.pc})
           /\ \E New : View(t, New) /\ \A g \in New : g.job = m
<1> DEFINE e == Frame("exec", m)
<1>1. e \in FrameSet /\ e.job = m /\ e.pc = "exec" /\ e.batch = 0
  BY JobFrame DEF Places, Idle
<1>2. PushOn(t, e, f)
  BY DEF Exec, PushOn
<1> HIDE DEF e
<1>3. View(t, {e, f})
  BY <1>1, <1>2, PushView DEF Typed
<1>4. {"exec", f.pc} = {g.pc : g \in {h \in {e, f} : h.job = m}}
  BY <1>1
<1>5. Turns(t, m, P, {"exec", f.pc})
  BY <1>1, <1>3, <1>4, TurnsOf
<1>6. QED BY <1>1, <1>3, <1>5

LEMMA NoneTurns ==
    ASSUME Typed, NEW t \in Threads, NEW New, View(t, New), \A f \in New : f.job = NoJob,
           NEW m \in Jobs, m = MyJob(t), Top(t).pc # "inc"
    PROVE  Turns(t, m, {Top(t).pc}, {})
<1>1. Top(t).job = m /\ Top(t).batch = 0
  BY TopFacts DEF Typed, FrameRight, MyJob
<1>2. \A f \in New : f.job # m
  BY SchedAssumption
<1>3. {Top(t).pc} = IF Top(t).job = m THEN {Top(t).pc} ELSE {}
  BY <1>1
<1>4. {} = {f.pc : f \in {g \in New : g.job = m}}
  BY <1>2
<1>5. QED BY <1>1, <1>2, <1>3, <1>4, TurnsOf

LEMMA OnTop ==
    ASSUME Typed, NEW t \in Threads
    PROVE  On(MyJob(t), Top(t).pc)
BY TopFacts DEF Typed, On, MyJob

(* A thread that goes on to another place with the same job.               *)
LEMMA PassGo ==
    ASSUME Typed, Typed', IInv, NEW t \in Threads, NEW m, m = MyJob(t),
           NEW pc \in {"help", "wait", "unlist", "todone", "post", "destroy"},
           Top(t).pc \in (Busy \cup {"notify"}) \ {"inc"}, GoTo(t, pc),
           job' = job, runs' = runs, ready' = ready, failures' >= failures,
           \A j \in Jobs : j # m => (j \in ToSet(running') <=> j \in ToSet(running)),
           m \in ToSet(running') => m \in ToSet(running) /\ pc \in {"help", "wait", "unlist"},
           pc # "wait" => ~Quiet(m),
           job[m].live /\ IsTask(m) => pc # "help",
           job[m].live /\ pc \notin {"help", "wait"} => Finished(m),
           job[m].live /\ IsDone(m) => Top(t).pc \notin Posting \/ pc \in Posting \/ job[m].sem # 0,
           job[m].live /\ HasWork(m) =>
               /\ m \in ToSet(running') <=> m \in ToSet(running)
               /\ Top(t).pc \notin Seeing(t) \/ pc \in Seeing(t) \/ m \in ToSet(running)
    PROVE  \A j \in Jobs : JobInv(j)'
<1>1. m \in Jobs /\ Turns(t, m, {Top(t).pc}, {pc}) /\ \E f : f.job = m /\ f.batch = 0 /\ View(t, {f})
  BY GoToTurns DEF Places, Idle, Busy
<1>2. Top(t).job = m
  BY DEF MyJob
<1>3. \A j \in Jobs : j # m => JobInv(j)'
  BY <1>1, <1>2, Others
<1>4. JobInv(m) /\ failures' \in Nat
  BY <1>1, SchedAssumption DEF IInv, Typed, DataOK
<1>5. pc # "wait" => ~Untaken(m) /\ ~Refused(m)
  BY <1>4 DEF JobInv, ReadyFor, Refused
<1> DEFINE P == {Top(t).pc}
           Q == {pc}
<1>6. /\ P \in SUBSET Places /\ Q \in SUBSET Places /\ "notify" \notin Q
      /\ (P \cup Q) \cap {"addready", "move"} = {}
      /\ "isdone" \notin Q /\ ("help" \in Q <=> pc = "help") /\ ("destroy" \in Q => pc # "wait")
      /\ Q \cap Busy # {} => pc # "wait"
      /\ Q \cap {"todone", "post", "collect", "destroy"} # {} => pc \notin {"help", "wait", "unlist"}
      /\ Q \cap {"unlist", "todone", "post", "collect", "destroy"} # {} => pc \notin {"help", "wait"}
      /\ (P \cap Posting = {} <=> Top(t).pc \notin Posting) /\ (pc \in Posting => Q \cap Posting # {})
      /\ (P \cap Seeing(t) = {} <=> Top(t).pc \notin Seeing(t)) /\ (pc \in Seeing(t) => Q \cap Seeing(t) # {})
  BY DEF Places, Busy
<1> HIDE DEF P, Q
<1>7. Turns(t, m, P, Q)
  BY <1>1 DEF P, Q
<1>8. JobInv(m)'
  BY <1>1, <1>4, <1>5, <1>6, <1>7, Pass
<1>9. QED BY <1>3, <1>8

(* A thread that enters fly_sched_exec_job.                                *)
LEMMA PassExec ==
    ASSUME Typed, Typed', IInv, NEW t \in Threads, NEW m \in Jobs, NEW f \in FrameSet,
           Exec(t, m, f), f.job = m, f.pc \in {"help", "schedule"}, f.batch = 0,
           Top(t).batch = 0, Top(t).job \in {m, NoJob}, Top(t).pc \in {"help", "notify", "running"},
           job' = job, runs' = runs, ready' = ready, running' = running, failures' = failures,
           ~Untaken(m), ~Refused(m), job[m].live /\ f.pc = "help" => ~IsTask(m)
    PROVE  \A j \in Jobs : JobInv(j)'
<1> DEFINE P == IF Top(t).job = m THEN {Top(t).pc} ELSE {}
           Q == {"exec", f.pc}
<1>1. /\ P \in SUBSET Places /\ Q \in SUBSET Places /\ "notify" \notin Q
      /\ (P \cup Q) \cap {"addready", "move"} = {}
      /\ "isdone" \notin Q /\ ("help" \in Q => f.pc = "help") /\ "destroy" \notin Q
      /\ Q \cap {"todone", "post", "collect", "destroy"} = {}
      /\ Q \cap {"unlist", "todone", "post", "collect", "destroy"} = {}
      /\ Q \cap Posting # {} /\ Q \cap Seeing(t) # {}
  BY DEF Places, Seeing, Posting
<1>2. Turns(t, m, P, Q) /\ \E New : View(t, New) /\ \A g \in New : g.job = m
  BY ExecTurns
<1> HIDE DEF P, Q
<1>3. failures' \in Nat /\ failures' >= failures /\ JobInv(m)
  BY SchedAssumption DEF Typed, DataOK, IInv
<1>4. \A j \in Jobs : j # m => JobInv(j)'
  BY <1>2, <1>3, Others
<1>5. JobInv(m)'
  BY <1>1, <1>2, <1>3, Pass
<1>6. QED BY <1>4, <1>5

LEMMA HelpInv ==
    ASSUME Typed, Typed', IInv, NEW t \in Threads, Help(t)
    PROVE  \A j \in Jobs : JobInv(j)'
<1> SUFFICES ASSUME NEW m, m = MyJob(t) PROVE \A j \in Jobs : JobInv(j)'
  OBVIOUS
<1>1. Top(t).pc = "help" /\ job[m].live /\ m \in Jobs /\ Top(t).job = m /\ Top(t).batch = 0
  BY MyJobIsJob, TopFacts DEF Help, At, Typed, Idle, FrameRight, MyJob
<1>2. job' = job /\ ready' = ready /\ running' = running /\ runs' = runs /\ failures' = failures
  BY DEF Help
<1>3. JobInv(m) /\ failures \in Nat
  BY <1>1, SchedAssumption DEF IInv, Typed, DataOK
<1>4. On(m, "help")
  BY <1>1, OnTop
<1>5. ~Quiet(m)
  BY <1>4 DEF Quiet, Busy
<1>6. ~IsTask(m) /\ ~Untaken(m) /\ ~Refused(m)
  BY <1>1, <1>3, <1>4, <1>5 DEF JobInv, LoopFor, ReadyFor, Refused
<1>7. CASE IsDone(m)
  <2>1. GoTo(t, "wait")
    BY <1>7 DEF Help
  <2>2. ~HasWork(m)
    BY <1>1, <1>3, <1>6, <1>7, LoopDone DEF Finished
  <2>3. QED BY <1>1, <1>2, <1>3, <1>6, <2>1, <2>2, PassGo DEF Busy, Posting
<1>8. CASE ~IsDone(m)
  <2>1. Exec(t, m, Top(t)) /\ Top(t) \in FrameSet
    BY <1>8, TopFacts DEF Help, Typed
  <2>2. QED BY <1>1, <1>2, <1>6, <2>1, PassExec
<1>9. QED BY <1>7, <1>8

LEMMA NotifyInv ==
    ASSUME Typed, Typed', IInv, NEW t \in Threads, Notify(t)
    PROVE  \A j \in Jobs : JobInv(j)'
<1> SUFFICES ASSUME NEW m, m = MyJob(t) PROVE \A j \in Jobs : JobInv(j)'
  OBVIOUS
<1>1. Top(t).pc = "notify" /\ m \in Jobs /\ Top(t).job = m /\ Top(t).batch = 0
  BY MyJobIsJob, TopFacts DEF Notify, At, Typed, Idle, FrameRight, MyJob
<1>2. job' = job /\ ready' = ready /\ running' = running /\ runs' = runs /\ failures' = failures
  BY DEF Notify
<1>3. JobInv(m) /\ failures \in Nat
  BY <1>1, SchedAssumption DEF IInv, Typed, DataOK
<1>4. ASSUME t \in WThreads
      PROVE  ~Quiet(m) /\ ~Untaken(m) /\ ~Refused(m) /\ (job[m].live => ~IsTask(m))
  <2>1. Waking(t, m)
    BY <1>1 DEF Waking, MyJob
  <2>2. ~Quiet(m)
    BY <1>4, <2>1 DEF Quiet
  <2>3. QED BY <1>3, <1>4, <2>1, <2>2 DEF JobInv, ReadyFor, Refused, LoopFor
<1>5. CASE t \in WThreads /\ Exec(t, m, Frame("schedule", m))
  <2>1. Frame("schedule", m) \in FrameSet /\ Frame("schedule", m).job = m
        /\ Frame("schedule", m).pc = "schedule" /\ Frame("schedule", m).batch = 0
    BY <1>1, JobFrame DEF Places, Idle
  <2>2. QED BY <1>1, <1>2, <1>4, <1>5, <2>1, PassExec
<1>6. CASE t \in WThreads /\ GoTo(t, "help")
  BY <1>1, <1>2, <1>3, <1>4, <1>6, PassGo DEF Busy, Posting, Seeing
<1>7. CASE t \in Clients /\ GoTo(t, "wait")
  <2>1. Top(t).pc \notin Seeing(t)
    BY <1>1, <1>7, SchedAssumption DEF Seeing
  <2>2. QED BY <1>1, <1>2, <1>3, <1>7, <2>1, PassGo DEF Busy, Posting
<1>8. CASE t \in Clients /\ Leave(t)
  <2>1. Len(stack[t]) > 1
    BY <1>1, <1>8, SchedAssumption, TopFacts, OneOrMore DEF Typed, Bottom
  <2>2. View(t, {})
    BY <1>8, <2>1, LeaveView DEF Typed
  <2>3. \A j \in Jobs : j # m => JobInv(j)'
    BY <1>1, <1>2, <1>3, <2>2, Others
  <2> DEFINE P == {Top(t).pc}
             Q == {}
  <2>4. Turns(t, m, P, Q)
    BY <1>1, <2>2, NoneTurns
  <2>5. /\ P \in SUBSET Places /\ Q \in SUBSET Places
        /\ (P \cup Q) \cap {"addready", "move"} = {}
        /\ P \cap Posting = {} /\ P \cap Seeing(t) = {}
    BY <1>1, <1>8, SchedAssumption DEF Places, Posting, Seeing
  <2>6. \A S : Q \cap S = {}
    OBVIOUS
  <2>7. \A x : x \notin Q
    OBVIOUS
  <2> HIDE DEF P, Q
  <2>8. failures' >= failures /\ failures' \in Nat
    BY <1>2, <1>3
  <2>9. JobInv(m)'
    BY <1>1, <1>2, <1>3, <2>4, <2>5, <2>6, <2>7, <2>8, Pass
  <2>10. QED BY <2>3, <2>9
<1>9. QED BY <1>5, <1>6, <1>7, <1>8 DEF Notify

LEMMA CheckDoneInv ==
    ASSUME Typed, Typed', IInv, NEW t \in Threads, CheckDone(t)
    PROVE  \A j \in Jobs : JobInv(j)'
<1> SUFFICES ASSUME NEW m, m = MyJob(t) PROVE \A j \in Jobs : JobInv(j)'
  OBVIOUS
<1>1. Top(t).pc = "isdone" /\ job[m].live /\ m \in Jobs /\ Top(t).job = m
  BY MyJobIsJob DEF CheckDone, At, Typed, Idle, MyJob
<1>2. job' = job /\ ready' = ready /\ running' = running /\ runs' = runs /\ failures' = failures
  BY DEF CheckDone
<1>3. JobInv(m) /\ failures \in Nat /\ failures' \in Nat /\ failures' >= failures
  BY <1>1, <1>2, SchedAssumption DEF IInv, Typed, DataOK
<1>4. On(m, "isdone")
  BY <1>1, OnTop
<1>5. CASE IsDone(m)
  <2>1. GoTo(t, "unlist")
    BY <1>5 DEF CheckDone, Finishes
  <2>2. ~Quiet(m)
    BY <1>4 DEF Quiet, Busy
  <2>3. Finished(m)
    <3>1. CASE IsTask(m)
      BY <1>1, <1>3, <1>4, <1>5, <3>1 DEF JobInv, DoneFor, Finished, HasWork
    <3>2. CASE ~IsTask(m)
      BY <1>1, <1>3, <1>5, <3>2, LoopDone
    <3>3. QED BY <3>1, <3>2
  <2>4. QED BY <1>1, <1>2, <1>3, <2>1, <2>2, <2>3, PassGo DEF Busy, Posting, Finished
<1>6. CASE ~IsDone(m)
  <2>1. Executed(t)
    BY <1>6 DEF CheckDone, Finishes
  <2>2. PICK New : View(t, New) /\ \A f \in New : f.job = NoJob /\ f.batch = 0
    BY <1>1, <2>1, ExecutedView DEF Executing, Typed
  <2>3. \A j \in Jobs : j # m => JobInv(j)'
    BY <1>1, <1>2, <1>3, <2>2, Others
  <2> DEFINE P == {Top(t).pc}
             Q == {}
  <2>4. Turns(t, m, P, Q)
    BY <1>1, <2>2, NoneTurns
  <2>5. /\ P \in SUBSET Places /\ Q \in SUBSET Places
        /\ (P \cup Q) \cap {"addready", "move"} = {} /\ P \cap Seeing(t) = {}
    BY <1>1 DEF Places, Seeing
  <2>6. \A S : Q \cap S = {}
    OBVIOUS
  <2>7. \A x : x \notin Q
    OBVIOUS
  <2> HIDE DEF P, Q
  <2>8. JobInv(m)'
    BY <1>1, <1>2, <1>3, <1>6, <2>4, <2>5, <2>6, <2>7, Pass
  <2>9. QED BY <2>3, <2>8
<1>7. QED BY <1>5, <1>6

LEMMA RemoveRunningInv ==
    ASSUME Typed, Typed', IInv, NEW t \in Threads, RemoveRunning(t)
    PROVE  \A j \in Jobs : JobInv(j)'
<1> SUFFICES ASSUME NEW m, m = MyJob(t) PROVE \A j \in Jobs : JobInv(j)'
  OBVIOUS
<1>1. Top(t).pc = "unlist" /\ m \in Jobs /\ GoTo(t, "todone")
  BY MyJobIsJob DEF RemoveRunning, At, Typed, Idle
<1>2. job' = job /\ ready' = ready /\ runs' = runs /\ failures' = failures
  BY DEF RemoveRunning
<1>3. JobInv(m) /\ failures \in Nat /\ running \in Seq(Jobs) /\ IsInjective(running)
  BY <1>1, SchedAssumption DEF IInv, Typed, DataOK
<1>4. On(m, "unlist")
  BY <1>1, OnTop
<1>5. ~Quiet(m) /\ (job[m].live => Finished(m))
  BY <1>3, <1>4 DEF Quiet, Busy, JobInv, DoneFor
<1>6. running' = RemoveFirst(running, m)
  BY DEF RemoveRunning, WithoutRunning
<1>7. m \notin ToSet(running') /\ \A j : j # m => (j \in ToSet(running') <=> j \in ToSet(running))
  BY <1>3, <1>6, RemoveFirstProperties
<1>8. QED BY <1>1, <1>2, <1>3, <1>5, <1>7, PassGo DEF Busy, Posting, Finished

LEMMA MoveToDoneInv ==
    ASSUME Typed, Typed', IInv, NEW t \in Threads, MoveToDone(t)
    PROVE  \A j \in Jobs : JobInv(j)'
<1> SUFFICES ASSUME NEW m, m = MyJob(t) PROVE \A j \in Jobs : JobInv(j)'
  OBVIOUS
<1>1. Top(t).pc = "todone" /\ m \in Jobs /\ GoTo(t, "post")
  BY MyJobIsJob DEF MoveToDone, At, Typed, Idle
<1>2. job' = job /\ ready' = ready /\ running' = running /\ runs' = runs
  BY DEF MoveToDone
<1>3. JobInv(m) /\ failures' >= failures
  BY <1>1, Listing DEF IInv, MoveToDone, ListOrForget, Typed, DataOK
<1>4. On(m, "todone")
  BY <1>1, OnTop
<1>5. ~Quiet(m) /\ m \notin ToSet(running) /\ (job[m].live => Finished(m))
  BY <1>3, <1>4 DEF Quiet, Busy, JobInv, DoneFor, RunningFor
<1>6. QED BY <1>1, <1>2, <1>3, <1>5, PassGo DEF Busy, Posting, Finished

LEMMA CollectInv ==
    ASSUME Typed, Typed', IInv, NEW t \in Threads, Collect(t)
    PROVE  \A j \in Jobs : JobInv(j)'
<1> SUFFICES ASSUME NEW m, m = MyJob(t) PROVE \A j \in Jobs : JobInv(j)'
  OBVIOUS
<1>1. Top(t).pc = "collect" /\ m \in Jobs /\ GoTo(t, "destroy")
  BY MyJobIsJob DEF Collect, At, Typed, Idle
<1>2. job' = job /\ ready' = ready /\ running' = running /\ runs' = runs /\ failures' = failures
  BY DEF Collect
<1>3. JobInv(m) /\ failures \in Nat
  BY <1>1, SchedAssumption DEF IInv, Typed, DataOK
<1>4. On(m, "collect")
  BY <1>1, OnTop
<1>5. ~Quiet(m) /\ m \notin ToSet(running) /\ (job[m].live => Finished(m))
  BY <1>3, <1>4 DEF Quiet, Busy, JobInv, DoneFor, RunningFor
<1>6. QED BY <1>1, <1>2, <1>3, <1>5, PassGo DEF Busy, Posting, Finished

(* Steps that neither work on a job nor begin to.                          *)
LEMMA NoJobInv ==
    ASSUME Typed, Typed', IInv, NEW t \in Threads, NEW New, View(t, New),
           Top(t).job = NoJob, \A f \in New : f.job = NoJob,
           job' = job, ready' = ready, running' = running, runs' = runs, failures' >= failures
    PROVE  \A j \in Jobs : JobInv(j)'
<1>1. \A j \in Jobs : j # NoJob => JobInv(j)'
  BY Others
<1>2. QED BY <1>1, SchedAssumption

LEMMA GetRunningInv ==
    ASSUME Typed, Typed', IInv, NEW t \in Threads, GetRunning(t)
    PROVE  \A j \in Jobs : JobInv(j)'
<1>1. Top(t).pc = "running" /\ Top(t).job = NoJob /\ Top(t).batch = 0
  BY TopFacts DEF GetRunning, At, Typed, FrameRight, Idle
<1>2. job' = job /\ ready' = ready /\ running' = running /\ runs' = runs /\ failures' = failures
  BY DEF GetRunning
<1>3. CASE RunningJob = NoJob
  <2>1. GoTo(t, "sleep")
    BY <1>3 DEF GetRunning
  <2>2. \E g : View(t, {g}) /\ g.job = NoJob
    BY <1>1, <2>1, GoToIdleView DEF Idle, Typed
  <2>3. failures' >= failures
    BY <1>2, SchedAssumption DEF Typed, DataOK
  <2>4. QED BY <1>1, <1>2, <2>2, <2>3, NoJobInv
<1>4. CASE RunningJob # NoJob
  <2> SUFFICES ASSUME NEW m, m = RunningJob PROVE \A j \in Jobs : JobInv(j)'
    OBVIOUS
  <2>1. Exec(t, m, Frame("schedule", m))
    BY <1>4 DEF GetRunning
  <2>2. m \in Jobs /\ m \in ToSet(running) /\ JobInv(m)
    BY <1>4, RunningJobListed DEF Typed, IInv
  <2>3. ~Untaken(m) /\ ~Refused(m)
    BY <2>2 DEF JobInv, RunningFor, Refused
  <2>4. Frame("schedule", m) \in FrameSet /\ Frame("schedule", m).job = m
        /\ Frame("schedule", m).pc = "schedule" /\ Frame("schedule", m).batch = 0
    BY <2>2, JobFrame DEF Places, Idle
  <2>5. QED BY <1>1, <1>2, <2>1, <2>2, <2>3, <2>4, PassExec
<1>5. QED BY <1>3, <1>4

LEMMA SleepInv ==
    ASSUME Typed, Typed', IInv, NEW t \in Threads, Sleep(t)
    PROVE  \A j \in Jobs : JobInv(j)'
<1>1. Top(t).pc = "sleep" /\ Top(t).job = NoJob /\ GoTo(t, "ready")
  BY TopFacts DEF Sleep, At, Typed, FrameRight, Idle
<1>2. job' = job /\ ready' = ready /\ running' = running /\ runs' = runs /\ failures' >= failures
  BY SchedAssumption DEF Sleep, Typed, DataOK
<1>3. \E g : View(t, {g}) /\ g.job = NoJob
  BY <1>1, GoToIdleView DEF Idle, Typed
<1>4. QED BY <1>1, <1>2, <1>3, NoJobInv

LEMMA FunReturnsInv ==
    ASSUME Typed, Typed', IInv, NEW t \in Threads, FunReturns(t)
    PROVE  \A j \in Jobs : JobInv(j)'
<1>1. Top(t).pc = "user" /\ Top(t).job = NoJob /\ Leave(t)
  BY TopFacts DEF FunReturns, At, Typed, FrameRight, Idle
<1>2. job' = job /\ ready' = ready /\ running' = running /\ runs' = runs /\ failures' >= failures
  BY SchedAssumption DEF FunReturns, Typed, DataOK
<1>3. t \notin Clients
  BY SchedAssumption DEF FunReturns
<1>4. Len(stack[t]) > 1
  BY <1>1, <1>3, NotAtBottom DEF Typed, BasePlaces
<1>5. View(t, {})
  BY <1>1, <1>4, LeaveView DEF Typed
<1>6. QED BY <1>1, <1>2, <1>5, NoJobInv

(* The code a thread still has to run once it has made a call.             *)
LEMMA RestOfCode ==
    ASSUME Typed, NEW t \in Threads, At(t, "user"), Top(t).code # <<>>
    PROVE  LET f == UserCode(Tail(Top(t).code))
           IN f \in FrameSet /\ f.job = NoJob /\ f.batch = 0 /\ f.pc = "user"
<1>1. Tail(Top(t).code) \in Seq(Calls)
  <2>1. Top(t).code \in Seq(Calls) /\ Top(t).code # <<>>
    BY TopFacts DEF Typed, FrameSet
  <2>2. QED BY <2>1, HeadTailProperties
<1>2. QED BY <1>1, UserOf

LEMMA CreateFailsInv ==
    ASSUME Typed, Typed', IInv, NEW t \in Threads, CreateFails(t)
    PROVE  \A j \in Jobs : JobInv(j)'
<1> DEFINE f == UserCode(Tail(Top(t).code))
<1>1. At(t, "user") /\ Top(t).code # <<>> /\ Become(t, f)
  BY DEF CreateFails, Calling
<1>2. f \in FrameSet /\ f.job = NoJob
  BY <1>1, RestOfCode
<1> HIDE DEF f
<1>3. job' = job /\ ready' = ready /\ running' = running /\ runs' = runs /\ failures' >= failures
  BY SchedAssumption DEF CreateFails, Fails, Typed, DataOK
<1>4. View(t, {f})
  BY <1>1, <1>2, BecomeView DEF Typed
<1>5. Top(t).job = NoJob
  BY <1>1, TopFacts DEF At, Typed, FrameRight, Idle
<1>6. QED BY <1>2, <1>3, <1>4, <1>5, NoJobInv

(* A call of the library that works on m.                                  *)
LEMMA EnterTurns ==
    ASSUME Typed, Typed', NEW t \in Threads, At(t, "user"), Top(t).code # <<>>,
           NEW m \in Jobs, NEW pc \in Called, Enter(t, Frame(pc, m))
    PROVE  /\ Turns(t, m, {}, {pc})
           /\ \E New : View(t, New) /\ \A f \in New : f.job \in {m, NoJob}
           /\ Top(t).job = NoJob
<1> DEFINE f == UserCode(Tail(Top(t).code))
           e == Frame(pc, m)
<1>1. f \in FrameSet /\ f.job = NoJob /\ f.batch = 0
  BY RestOfCode
<1>2. e \in FrameSet /\ e.job = m /\ e.pc = pc /\ e.batch = 0
  <2>1. pc \in Places \ (Idle \cup {"inc"})
    BY DEF Called, Places, Idle
  <2>2. QED BY <2>1, JobFrame
<1>3. PushOn(t, e, f)
  BY DEF Enter, PushOn
<1> HIDE DEF e, f
<1>4. View(t, {e, f}) /\ Top(t)' = e
  BY <1>1, <1>2, <1>3, PushView DEF Typed
<1>5. Top(t).job = NoJob
  BY TopFacts DEF At, Typed, FrameRight, Idle
<1>6. m # NoJob
  BY SchedAssumption
<1>7. {pc} = {g.pc : g \in {h \in {e, f} : h.job = m}}
  BY <1>1, <1>2, <1>6
<1>8. {} = IF Top(t).job = m THEN {Top(t).pc} ELSE {}
  BY <1>5, <1>6
<1>9. Turns(t, m, {}, {pc})
  BY <1>1, <1>2, <1>4, <1>5, <1>6, <1>7, <1>8, TurnsOf
<1>10. QED BY <1>1, <1>2, <1>4, <1>5, <1>9

LEMMA WaitTaskInv ==
    ASSUME Typed, Typed', IInv, NEW t \in Threads, WaitTask(t)
    PROVE  \A j \in Jobs : JobInv(j)'
<1> SUFFICES ASSUME NEW m, m = task[Head(Top(t).code)[2]] PROVE \A j \in Jobs : JobInv(j)'
  OBVIOUS
<1>1. At(t, "user") /\ Top(t).code # <<>>
  BY DEF WaitTask, Calling
<1>2. job' = job /\ ready' = ready /\ running' = running /\ runs' = runs
      /\ failures' >= failures /\ failures' \in Nat
  BY SchedAssumption DEF WaitTask, Typed, DataOK
<1>3. Top(t).job = NoJob
  BY <1>1, TopFacts DEF At, Typed, FrameRight, Idle
<1>4. CASE m = NoJob
  <2> DEFINE f == UserCode(Tail(Top(t).code))
  <2>1. f \in FrameSet /\ f.job = NoJob
    BY <1>1, RestOfCode
  <2>2. Become(t, f)
    BY <1>4 DEF WaitTask
  <2> HIDE DEF f
  <2>3. View(t, {f})
    BY <2>1, <2>2, BecomeView DEF Typed
  <2>4. QED BY <1>2, <1>3, <2>1, <2>3, NoJobInv
<1>5. CASE m # NoJob
  <2>1. m \in Jobs
    BY <1>1, <1>5, CallTypes DEF Typed, DataOK
  <2>2. Enter(t, Frame("wait", m))
    BY <1>5 DEF WaitTask
  <2>3. /\ Turns(t, m, {}, {"wait"})
        /\ \E New : View(t, New) /\ \A f \in New : f.job \in {m, NoJob}
    BY <1>1, <2>1, <2>2, EnterTurns DEF Called
  <2>4. \A j \in Jobs : j # m => JobInv(j)'
    BY <1>2, <1>3, <2>3, Others
  <2>5. JobInv(m)
    BY <2>1 DEF IInv
  <2> DEFINE P == {}
             Q == {"wait"}
  <2>6. /\ Q \in SUBSET Places /\ P \in SUBSET Places /\ (P \cup Q) \cap {"addready", "move"} = {}
        /\ "notify" \notin Q /\ "destroy" \notin Q /\ "help" \notin Q /\ "isdone" \notin Q
        /\ Q \cap Busy = {} /\ P \cap Posting = {} /\ P \cap Seeing(t) = {}
        /\ Q \cap {"todone", "post", "collect", "destroy"} = {}
        /\ Q \cap {"unlist", "todone", "post", "collect", "destroy"} = {}
    BY DEF Places, Busy
  <2> HIDE DEF P, Q
  <2>7. Turns(t, m, P, Q)
    BY <2>3 DEF P, Q
  <2>8. JobInv(m)'
    BY <1>2, <2>1, <2>5, <2>6, <2>7, Pass
  <2>9. QED BY <2>4, <2>8
<1>6. QED BY <1>4, <1>5

(* Running the function of a task.                                         *)
LEMMA ExecTaskInv ==
    ASSUME Typed, Typed', IInv, NEW t \in Threads, ExecTask(t)
    PROVE  \A j \in Jobs : JobInv(j)'
<1> SUFFICES ASSUME NEW m, m = MyJob(t) PROVE \A j \in Jobs : JobInv(j)'
  OBVIOUS
<1> DEFINE u == UserCode(Body[job[m].fun])
           g == [Top(t) EXCEPT !.pc = "isdone"]
<1>1. Top(t).pc = "exec" /\ job[m].live /\ IsTask(m) /\ m \in Jobs /\ Top(t).job = m /\ Top(t).batch = 0
  BY MyJobIsJob, TopFacts DEF ExecTask, At, Typed, Idle, MyJob, FrameRight
<1>2. job' = job /\ ready' = ready /\ running' = running /\ failures' >= failures
  BY SchedAssumption DEF ExecTask, Typed, DataOK
<1>3. runs' = [runs EXCEPT ![m][1] = Min({@ + 1, 2})] /\ PushOn(t, u, g)
  BY DEF ExecTask, PushOn
<1>4. /\ runs'[m][1] # 0
      /\ \A j \in Jobs : j # m => runs'[j] = runs[j]
  <2>1. 1 \in Batches /\ DataOK
    BY BatchFacts DEF Typed
  <2>2. runs'[m][1] = IF runs[m][1] = 0 THEN 1 ELSE 2
    BY <1>1, <1>3, <2>1, RunsTyped
  <2>3. \A j \in Jobs : j # m => runs'[j] = runs[j]
    BY <1>3, <2>1 DEF DataOK
  <2>4. QED BY <2>2, <2>3
<1>5. u \in FrameSet /\ u.job = NoJob /\ u.batch = 0
  BY <1>1, JobTypes, UserOf DEF Typed
<1>6. g \in FrameSet /\ g.job = m /\ g.batch = 0 /\ g.pc = "isdone"
  <2>1. Top(t) \in FrameSet /\ FrameRight(Top(t))
    BY TopFacts DEF Typed
  <2>2. QED BY <1>1, <2>1, MovedFrame DEF Places, Idle
<1> HIDE DEF u, g
<1>7. View(t, {u, g})
  BY <1>3, <1>5, <1>6, PushView DEF Typed
<1>8. \A j \in Jobs : j # m => JobInv(j)'
  BY <1>1, <1>2, <1>4, <1>5, <1>6, <1>7, Others
<1>9. Turns(t, m, {"exec"}, {"isdone"})
  <2>1. m # NoJob
    BY <1>1, SchedAssumption
  <2>2. {"isdone"} = {h.pc : h \in {f \in {u, g} : f.job = m}}
    BY <1>5, <1>6, <2>1
  <2>3. {"exec"} = IF Top(t).job = m THEN {Top(t).pc} ELSE {}
    BY <1>1
  <2>4. QED BY <1>1, <1>5, <1>6, <1>7, <2>1, <2>2, <2>3, TurnsOf
<1>10. JobInv(m)'
  <2>1. JobInv(m) /\ On(m, "exec")
    BY <1>1, OnTop DEF IInv
  <2>2. ~Quiet(m)
    BY <2>1 DEF Quiet, Busy
  <2>3. ~Untaken(m) /\ ~Refused(m)
    BY <2>1, <2>2 DEF JobInv, ReadyFor, Refused
  <2>4. IsTask(m)' /\ IsDone(m)' = IsDone(m) /\ ~HasWork(m)'
    BY <1>1, <1>2, <1>4 DEF IsTask, IsDone, HasWork, NbBatches
  <2>5. ~Untaken(m)'
    BY <1>2, <1>9, <2>3 DEF Turns, Untaken
  <2>6. ReadyFor(m)'
    BY <1>2, <1>9, <2>1, <2>5 DEF JobInv, ReadyFor, Turns, Untaken
  <2>7. RunningFor(m)'
    BY <1>2, <1>9, <2>1, <2>5 DEF JobInv, RunningFor, Turns, Places
  <2>8. ClaimFor(m)'
    BY <1>2, <1>9, <2>1, <2>4 DEF JobInv, ClaimFor, Turns, Threads, IsTask
  <2>9. AccountFor(m)'
    BY <1>1, <1>2, <2>4 DEF AccountFor
  <2>10. DoneFor(m)'
    <3>1. Finished(m) => Finished(m)'
      BY <2>4 DEF Finished
    <3>2. QED BY <1>2, <1>4, <1>9, <2>1, <2>3, <3>1 DEF JobInv, DoneFor, Turns, Places
  <2>11. PostedFor(m)'
    BY <1>9 DEF PostedFor, Turns
  <2>12. SeenFor(m)'
    BY <2>4 DEF SeenFor
  <2>13. LoopFor(m)'
    BY <1>2, <1>9, <2>1, <2>4 DEF JobInv, LoopFor, Turns, Places, Threads, IsTask
  <2>14. QED BY <2>6, <2>7, <2>8, <2>9, <2>10, <2>11, <2>12, <2>13 DEF JobInv
<1>11. QED BY <1>8, <1>10

LEMMA PostJobInv ==
    ASSUME Typed, Typed', IInv, NEW t \in Threads, PostJob(t)
    PROVE  \A j \in Jobs : JobInv(j)'
<1> SUFFICES ASSUME NEW m, m = MyJob(t) PROVE \A j \in Jobs : JobInv(j)'
  OBVIOUS
<1>1. Top(t).pc = "post" /\ job[m].live /\ m \in Jobs /\ Top(t).job = m /\ Executed(t)
  BY MyJobIsJob DEF PostJob, At, Typed, Idle, MyJob
<1>2. ready' = ready /\ running' = running /\ runs' = runs /\ failures' >= failures
  BY SchedAssumption DEF PostJob, Typed, DataOK
<1>3. /\ \A j \in Jobs : j # m => job'[j] = job[j]
      /\ job'[m].live = job[m].live /\ job'[m].type = job[m].type
      /\ job'[m].execed = job[m].execed /\ job'[m].batches_done = job[m].batches_done
      /\ job'[m].sem = job[m].sem + 1
  BY <1>1 DEF PostJob, Typed, DataOK, JobSet
<1>4. PICK New : View(t, New) /\ \A f \in New : f.job = NoJob /\ f.batch = 0
  BY <1>1, ExecutedView DEF Executing, Typed
<1>5. \A j \in Jobs : j # m => JobInv(j)'
  BY <1>1, <1>2, <1>3, <1>4, Others
<1>6. Turns(t, m, {"post"}, {})
  BY <1>1, <1>4, NoneTurns
<1>7. JobInv(m)'
  <2>1. JobInv(m) /\ On(m, "post") /\ job[m].sem \in Nat
    BY <1>1, OnTop, JobTypes DEF IInv, Typed
  <2>2. ~Quiet(m)
    BY <2>1 DEF Quiet, Busy
  <2>3. ~Untaken(m) /\ ~Refused(m) /\ m \notin ToSet(running) /\ Finished(m)
    BY <1>1, <2>1, <2>2 DEF JobInv, ReadyFor, RunningFor, DoneFor, Refused
  <2>4. IsTask(m)' = IsTask(m) /\ HasWork(m)' = HasWork(m) /\ Finished(m)'
    BY <1>2, <1>3, <2>3 DEF IsTask, IsDone, HasWork, NbBatches, Unclaimed, Finished
  <2>5. ~Untaken(m)'
    BY <1>2, <1>6, <2>3 DEF Turns, Untaken
  <2>6. ReadyFor(m)'
    BY <1>2, <1>6, <2>1, <2>5 DEF JobInv, ReadyFor, Turns, Untaken
  <2>7. RunningFor(m)'
    BY <1>2, <2>3 DEF RunningFor
  <2>8. ClaimFor(m)'
    BY <1>3, <1>6, <2>1, <2>4 DEF JobInv, ClaimFor, Turns, Threads
  <2>9. AccountFor(m)'
    BY <1>2, <1>3, <1>6, <2>1, <2>4 DEF JobInv, AccountFor, Turns
  <2>10. DoneFor(m)'
    BY <1>2, <1>3, <1>6, <2>1, <2>4 DEF JobInv, DoneFor, Turns, Places
  <2>11. PostedFor(m)'
    BY <1>3, <2>1 DEF PostedFor
  <2>12. SeenFor(m)'
    BY <2>4 DEF SeenFor, Finished
  <2>13. LoopFor(m)'
    BY <1>3, <1>6, <2>1, <2>4 DEF JobInv, LoopFor, Turns, Places, Threads
  <2>14. QED BY <2>6, <2>7, <2>8, <2>9, <2>10, <2>11, <2>12, <2>13 DEF JobInv
<1>8. QED BY <1>5, <1>7

LEMMA DestroyJobInv ==
    ASSUME Typed, Typed', IInv, NEW t \in Threads, DestroyJob(t)
    PROVE  \A j \in Jobs : JobInv(j)'
<1> SUFFICES ASSUME NEW m, m = MyJob(t) PROVE \A j \in Jobs : JobInv(j)'
  OBVIOUS
<1>1. Top(t).pc = "destroy" /\ m \in Jobs /\ Top(t).job = m /\ Leave(t)
  BY MyJobIsJob DEF DestroyJob, At, Typed, Idle, MyJob
<1>2. ready' = ready /\ running' = running /\ failures' >= failures
  BY SchedAssumption DEF DestroyJob, Typed, DataOK
<1>3. /\ job' = [job EXCEPT ![m] = [Freed EXCEPT !.type = job[m].type]]
      /\ runs' = [runs EXCEPT ![m] = [b \in Batches |-> 0]]
  BY DEF DestroyJob
<1>4. /\ \A j \in Jobs : j # m => job'[j] = job[j] /\ runs'[j] = runs[j]
      /\ job'[m].live = FALSE /\ \A b \in Batches : runs'[m][b] = 0
  <2>1. \A j \in Jobs : j # m => job'[j] = job[j] /\ runs'[j] = runs[j]
    BY <1>3 DEF Typed, DataOK
  <2>2. job'[m] = [Freed EXCEPT !.type = job[m].type] /\ runs'[m] = [b \in Batches |-> 0]
    BY <1>1, <1>3 DEF Typed, DataOK
  <2>3. QED BY <2>1, <2>2 DEF Freed
<1>5. View(t, {})
  <2>1. Len(stack[t]) > 1
    BY <1>1, NotAtBottom DEF Typed, BasePlaces
  <2>2. QED BY <1>1, <2>1, LeaveView DEF Typed
<1>6. \A j \in Jobs : j # m => JobInv(j)'
  BY <1>1, <1>2, <1>4, <1>5, Others
<1>7. Turns(t, m, {"destroy"}, {})
  BY <1>1, <1>5, NoneTurns
<1>8. JobInv(m)'
  <2>1. JobInv(m) /\ On(m, "destroy")
    BY <1>1, OnTop DEF IInv
  <2>2. ~Untaken(m) /\ m \notin ToSet(running)
    BY <2>1 DEF JobInv, ReadyFor, RunningFor
  <2>3. ~Untaken(m)'
    BY <1>2, <1>7, <2>2 DEF Turns, Untaken
  <2>4. ReadyFor(m)'
    BY <1>2, <1>7, <2>1, <2>3 DEF JobInv, ReadyFor, Turns, Untaken
  <2>5. QED BY <1>2, <1>4, <2>2, <2>4
            DEF JobInv, RunningFor, ClaimFor, AccountFor, DoneFor, PostedFor, SeenFor, LoopFor
<1>9. QED BY <1>6, <1>8

(* Taking a job from the ready list: the thread now holds it in its hand.  *)
LEMMA GetReadyInv ==
    ASSUME Typed, Typed', IInv, NEW t \in Threads, GetReady(t)
    PROVE  \A j \in Jobs : JobInv(j)'
<1>1. Top(t).pc = "ready" /\ Top(t).job = NoJob /\ Top(t).batch = 0
  BY TopFacts DEF GetReady, At, Typed, FrameRight, Idle
<1>2. job' = job /\ running' = running /\ runs' = runs /\ failures' >= failures /\ failures' = failures
  BY SchedAssumption DEF GetReady, Typed, DataOK
<1>3. CASE ready' = ready /\ GoTo(t, "running")
  <2>1. \E g : View(t, {g}) /\ g.job = NoJob
    BY <1>1, <1>3, GoToIdleView DEF Idle, Typed
  <2>2. QED BY <1>1, <1>2, <1>3, <2>1, NoJobInv
<1>4. CASE ready # <<>> /\ ready' = Front(ready) /\ Become(t, Frame("move", Taken))
  <2> SUFFICES ASSUME NEW m, m = Taken PROVE \A j \in Jobs : JobInv(j)'
    OBVIOUS
  <2> DEFINE f == Frame("move", m)
  <2>1. /\ m \in Jobs /\ m \in ToSet(ready) /\ m \notin ToSet(ready')
        /\ \A j \in Jobs : j # m => (j \in ToSet(ready') <=> j \in ToSet(ready))
    BY <1>4, TakenFrom DEF Taken, Typed, DataOK, IInv
  <2>2. f \in FrameSet /\ f.job = m /\ f.pc = "move" /\ f.batch = 0
    BY <2>1, JobFrame DEF Places, Idle
  <2>3. Become(t, f)
    BY <1>4
  <2> HIDE DEF f
  <2>4. View(t, {f}) /\ Top(t)' = f
    BY <2>2, <2>3, BecomeView DEF Typed
  <2>5. \A j \in Jobs : j # m => JobInv(j)'
    BY <1>1, <1>2, <2>1, <2>2, <2>4, Others
  <2>6. Turns(t, m, {}, {"move"})
    <3>1. m # NoJob
      BY <2>1, SchedAssumption
    <3>2. {"move"} = {g.pc : g \in {h \in {f} : h.job = m}}
      BY <2>2
    <3>3. {} = IF Top(t).job = m THEN {Top(t).pc} ELSE {}
      BY <1>1, <3>1
    <3>4. QED BY <1>1, <2>1, <2>2, <2>4, <3>1, <3>2, <3>3, TurnsOf
  <2>7. JobInv(m)'
    <3>1. JobInv(m)
      BY <2>1 DEF IInv
    <3>2. Quiet(m) /\ ~On(m, "destroy") /\ \A u \in Threads : ~Hands(u, m)
      BY <2>1, <3>1 DEF JobInv, ReadyFor, Untaken
    <3>3. m \notin ToSet(running)
      BY <2>1, <3>1 DEF JobInv, RunningFor, Untaken
    <3>4. /\ IsTask(m)' = IsTask(m) /\ IsDone(m)' = IsDone(m) /\ HasWork(m)' = HasWork(m)
          /\ Finished(m)' = Finished(m)
      BY <1>2 DEF IsTask, IsDone, HasWork, NbBatches, Unclaimed, Finished
    <3>5. \A pc \in Places : pc # "move" => (On(m, pc)' => On(m, pc))
      BY <2>6 DEF Turns
    <3>6. \A u \in WThreads : ~Waking(u, m)'
      BY <2>6, <3>2 DEF Turns, Quiet, Threads
    <3>7. Quiet(m)'
      BY <1>2, <3>2, <3>5, <3>6 DEF Quiet, Busy, Places
    <3>8. \A u \in Threads : Hands(u, m)' <=> u = t
      BY <2>6, <3>2 DEF Turns
    <3>9. ReadyFor(m)'
      BY <2>1, <3>2, <3>5, <3>7, <3>8 DEF ReadyFor, Places
    <3>10. RunningFor(m)'
      BY <1>2, <3>3 DEF RunningFor
    <3>11. ClaimFor(m)'
      BY <1>2, <2>6, <3>1, <3>4 DEF JobInv, ClaimFor, Turns, Threads
    <3>12. AccountFor(m)'
      BY <1>2, <2>6, <3>1, <3>4 DEF JobInv, AccountFor, Turns
    <3>13. DoneFor(m)'
      BY <1>2, <3>1, <3>2, <3>4, <3>5 DEF JobInv, DoneFor, Places, Quiet, Busy
    <3>14. PostedFor(m)'
      <4>1. ~IsDone(m)'
        BY <2>1, <3>2, <3>4, JobTypes DEF IsDone, Quiet, Typed
      <4>2. QED BY <4>1 DEF PostedFor
    <3>15. SeenFor(m)'
      BY <3>8 DEF SeenFor, Untaken
    <3>16. LoopFor(m)'
      BY <3>2, <3>5, <3>6 DEF LoopFor, Quiet, Busy, Places
    <3>17. QED BY <3>9, <3>10, <3>11, <3>12, <3>13, <3>14, <3>15, <3>16 DEF JobInv
  <2>8. QED BY <2>5, <2>7
<1>5. QED BY <1>3, <1>4 DEF GetReady

(* Listing a job that was in the hand of this thread.                      *)
LEMMA AddToReadyInv ==
    ASSUME Typed, Typed', IInv, NEW t \in Threads, AddToReady(t)
    PROVE  \A j \in Jobs : JobInv(j)'
<1> SUFFICES ASSUME NEW m, m = MyJob(t) PROVE \A j \in Jobs : JobInv(j)'
  OBVIOUS
<1>1. Top(t).pc = "addready" /\ m \in Jobs /\ Top(t).job = m
  BY MyJobIsJob DEF AddToReady, At, Typed, Idle, MyJob
<1>2. job' = job /\ running' = running /\ runs' = runs
  BY DEF AddToReady
<1>3. failures \in Nat /\ JobInv(m) /\ Hands(t, m) /\ Untaken(m)
  BY <1>1, SchedAssumption DEF IInv, Typed, DataOK, Hands, Untaken
<1>4. /\ Quiet(m) /\ ~On(m, "destroy") /\ m \notin ToSet(ready) /\ m \notin ToSet(running)
      /\ \A u \in Threads : Hands(u, m) => u = t
  BY <1>3 DEF JobInv, ReadyFor, RunningFor
<1>5. /\ IsTask(m)' = IsTask(m) /\ HasWork(m)' = HasWork(m) /\ ~IsDone(m)' /\ job[m].live
  <2>1. ~IsDone(m) /\ job[m].live
    BY <1>1, <1>4, JobTypes DEF IsDone, Quiet, Typed
  <2>2. QED BY <1>2, <2>1 DEF IsTask, IsDone, HasWork, NbBatches, Unclaimed
(* What follows once the thread no longer holds the job in its hand. *)
<1>6. ASSUME NEW Q, Turns(t, m, {"addready"}, Q), Q \in SUBSET {"notify", "destroy"},
             "notify" \in Q => t \notin WThreads
      PROVE  /\ \A u \in Threads : ~Hands(u, m)'
             /\ Quiet(m)' /\ ClaimFor(m)' /\ AccountFor(m)' /\ RunningFor(m)'
             /\ PostedFor(m)' /\ LoopFor(m)'
             /\ "destroy" \notin Q => ~On(m, "destroy")' /\ DoneFor(m)'
             /\ ~Untaken(m)' => DoneFor(m)'
  <2>1. \A u \in Threads : ~Hands(u, m)'
    BY <1>4, <1>6 DEF Turns
  <2>2. \A pc \in Places : pc \notin Q => (On(m, pc)' => On(m, pc))
    BY <1>6 DEF Turns
  <2>3. \A u \in WThreads : ~Waking(u, m)'
    BY <1>4, <1>6 DEF Turns, Quiet, Threads
  <2>4. Quiet(m)'
    BY <1>2, <1>4, <1>6, <2>2, <2>3 DEF Quiet, Busy, Places
  <2>5. ClaimFor(m)'
    BY <1>2, <1>3, <1>5, <1>6 DEF JobInv, ClaimFor, Turns, Threads
  <2>6. AccountFor(m)'
    BY <1>2, <1>3, <1>5, <1>6 DEF JobInv, AccountFor, Turns
  <2>7. RunningFor(m)' /\ PostedFor(m)'
    BY <1>2, <1>4, <1>5 DEF RunningFor, PostedFor
  <2>8. LoopFor(m)'
    BY <2>3, <2>4 DEF LoopFor, Quiet, Busy
  <2>9. "destroy" \notin Q => ~On(m, "destroy")'
    BY <1>4, <2>2 DEF Places
  <2>10. ~On(m, "destroy")' \/ ~Untaken(m)' => DoneFor(m)'
    BY <1>2, <1>4, <2>4 DEF DoneFor, Quiet, Busy, Refused
  <2>11. QED BY <2>1, <2>4, <2>5, <2>6, <2>7, <2>8, <2>9, <2>10
<1>7. CASE ready' = Append(ready, m) /\ failures' = failures
  <2>1. /\ m \in ToSet(ready') /\ failures' >= failures
        /\ \A j \in Jobs : j # m => (j \in ToSet(ready') <=> j \in ToSet(ready))
    BY <1>1, <1>3, <1>7, Appended DEF Typed, DataOK
  <2>2. \E Q : /\ Turns(t, m, {"addready"}, Q) /\ Q \in SUBSET {"notify"}
               /\ "notify" \in Q => t \notin WThreads
               /\ \E New : View(t, New) /\ \A f \in New : f.job = m
    <3>1. CASE t \in Clients /\ GoTo(t, "notify")
      <4>1. Turns(t, m, {"addready"}, {"notify"}) /\ \E f : f.job = m /\ View(t, {f})
        BY <1>1, <3>1, GoToTurns DEF Places, Idle
      <4>2. t \notin WThreads
        BY <3>1, SchedAssumption
      <4>3. (\E New : View(t, New) /\ \A f \in New : f.job = m) /\ {"notify"} \in SUBSET {"notify"}
        BY <4>1
      <4>4. QED BY <4>1, <4>2, <4>3
    <3>2. CASE Leave(t)
      <4>1. Len(stack[t]) > 1
        BY <1>1, NotAtBottom DEF Typed, BasePlaces
      <4>2. View(t, {})
        BY <3>2, <4>1, LeaveView DEF Typed
      <4>3. Turns(t, m, {"addready"}, {})
        BY <1>1, <4>2, NoneTurns
      <4>4. QED BY <4>2, <4>3
    <3>3. ready' # ready
      BY <1>4, <2>1
    <3>4. QED BY <1>7, <3>1, <3>2, <3>3 DEF AddToReady
  <2>3. PICK Q : /\ Turns(t, m, {"addready"}, Q) /\ Q \in SUBSET {"notify"}
                 /\ "notify" \in Q => t \notin WThreads
                 /\ \E New : View(t, New) /\ \A f \in New : f.job = m
    BY <2>2
  <2>4. \A j \in Jobs : j # m => JobInv(j)'
    BY <1>1, <1>2, <2>1, <2>3, Others
  <2>5. "destroy" \notin Q /\ Q \in SUBSET {"notify", "destroy"}
    BY <2>3
  <2>6. ReadyFor(m)' /\ SeenFor(m)'
    BY <1>6, <2>1, <2>3, <2>5 DEF ReadyFor, SeenFor, Untaken
  <2>7. JobInv(m)'
    BY <1>6, <2>3, <2>5, <2>6 DEF JobInv
  <2>8. QED BY <2>4, <2>7
<1>8. CASE Fails /\ GoTo(t, "destroy") /\ ready' = ready
  <2>1. Turns(t, m, {"addready"}, {"destroy"}) /\ \E f : f.job = m /\ View(t, {f})
    BY <1>1, <1>8, GoToTurns DEF Places, Idle
  <2>2. failures' > 0 /\ failures' >= failures
    BY <1>3, <1>8 DEF Fails
  <2>3. \A j \in Jobs : j # m => JobInv(j)'
    BY <1>1, <1>2, <1>8, <2>1, <2>2, Others
  <2>4. ~Untaken(m)'
    BY <1>4, <1>6, <1>8, <2>1 DEF Untaken
  <2>5. On(m, "destroy")'
    BY <2>1 DEF Turns
  <2>6. ReadyFor(m)' /\ SeenFor(m)'
    BY <1>6, <2>1, <2>2, <2>4, <2>5 DEF ReadyFor, SeenFor
  <2>7. JobInv(m)'
    BY <1>6, <2>1, <2>4, <2>6 DEF JobInv
  <2>8. QED BY <2>3, <2>7
<1>9. QED BY <1>7, <1>8 DEF AddToReady

(* Listing a job that was in the hand of this worker as running.           *)
LEMMA MoveToRunningInv ==
    ASSUME Typed, Typed', IInv, NEW t \in Threads, MoveToRunning(t)
    PROVE  \A j \in Jobs : JobInv(j)'
<1> SUFFICES ASSUME NEW m, m = MyJob(t) PROVE \A j \in Jobs : JobInv(j)'
  OBVIOUS
<1>1. Top(t).pc = "move" /\ m \in Jobs /\ Top(t).job = m /\ Top(t).batch = 0 /\ t \in WThreads
  <2>1. Top(t).pc = "move"
    BY DEF MoveToRunning, At
  <2>2. t \notin Clients
    BY <2>1, TopFacts DEF Typed, ClientPlaces
  <2>3. QED BY <2>1, <2>2, MyJobIsJob, TopFacts DEF Typed, Idle, MyJob, FrameRight, Threads
<1>2. ready' = ready /\ runs' = runs /\ ListOrForget(running, m)
  BY DEF MoveToRunning
<1>3. /\ failures' >= failures
      /\ m \in ToSet(running') \/ failures' > 0
      /\ \A j \in Jobs : j # m => (j \in ToSet(running') <=> j \in ToSet(running))
  <2>1. running \in Seq(Jobs)
    BY DEF Typed, DataOK
  <2>2. \/ running' = Append(running, m) /\ failures' = failures
        \/ Fails /\ running' = running
    BY <1>2 DEF ListOrForget
  <2>3. QED BY <1>1, <2>1, <2>2, Listing
<1>4. JobInv(m) /\ Hands(t, m) /\ Untaken(m)
  BY <1>1 DEF IInv, Hands, Untaken, MyJob
<1>5. /\ Quiet(m) /\ ~On(m, "destroy") /\ m \notin ToSet(ready)
      /\ \A u \in Threads : Hands(u, m) => u = t
  BY <1>4 DEF JobInv, ReadyFor
<1>6. /\ \A j \in Jobs : j # m => job'[j] = job[j]
      /\ job'[m].live = job[m].live /\ job'[m].type = job[m].type
      /\ job'[m].execed = job[m].execed /\ job'[m].sem = job[m].sem
      /\ job'[m].batches_done = IF IsTask(m) THEN 1 ELSE 0
  <2>1. CASE IsTask(m)
    <3>1. job' = [job EXCEPT ![m].batches_done = 1]
      BY <2>1 DEF MoveToRunning, NbBatches
    <3>2. QED BY <1>1, <2>1, <3>1 DEF Typed, DataOK, JobSet
  <2>2. CASE ~IsTask(m)
    BY <1>5, <2>2 DEF MoveToRunning, Quiet
  <2>3. QED BY <2>1, <2>2
<1>7. /\ IsTask(m)' = IsTask(m) /\ HasWork(m)' = HasWork(m) /\ HasWork(m)
      /\ ~IsTask(m) => ~IsDone(m)'
  <2>1. IsTask(m)' = IsTask(m) /\ HasWork(m)' = HasWork(m)
    BY <1>2, <1>6 DEF IsTask, HasWork, Unclaimed
  <2>2. HasWork(m)
    BY <1>5, BatchFacts DEF HasWork, Unclaimed, Quiet
  <2>3. ~IsTask(m) => ~IsDone(m)'
    BY <1>6, <2>1, BatchFacts DEF IsDone, NbBatches, IsTask
  <2>4. QED BY <2>1, <2>2, <2>3
<1>8. ASSUME NEW Q, Turns(t, m, {"move"}, Q),
             IF IsTask(m) THEN Q = {"exec", "schedule"} ELSE Q = {"notify"}
      PROVE  JobInv(m)'
  <2>1. \A u \in Threads : ~Hands(u, m)'
    BY <1>5, <1>8 DEF Turns
  <2>2. ~Untaken(m)'
    BY <1>2, <1>5, <2>1 DEF Untaken
  <2>3. \A pc \in Busy \cup {"destroy"} : pc # "exec" => ~On(m, pc)'
    BY <1>5, <1>8 DEF Turns, Quiet, Busy, Places
  <2>4. /\ IsTask(m) => On(m, "exec")' /\ \A u \in WThreads : ~Waking(u, m)'
        /\ ~IsTask(m) => Waking(t, m)'
    BY <1>5, <1>8 DEF Turns, Quiet, Threads
  <2>5. ReadyFor(m)'
    BY <2>1, <2>2 DEF ReadyFor
  <2>6. RunningFor(m)'
    BY <1>5, <1>6, <2>2, <2>3 DEF RunningFor, Quiet, Busy
  <2>7. ClaimFor(m)'
    BY <1>4, <1>6, <1>7, <1>8 DEF JobInv, ClaimFor, Turns, Threads
  <2>8. AccountFor(m)'
    BY <1>2, <1>4, <1>5, <1>6, <1>7, <1>8 DEF JobInv, AccountFor, Turns, Quiet
  <2>9. DoneFor(m)'
    BY <1>5, <1>6, <2>3 DEF DoneFor, Quiet, Busy
  <2>10. PostedFor(m)'
    BY <1>7, <2>4 DEF PostedFor
  <2>11. SeenFor(m)'
    BY <1>1, <1>3, <2>4 DEF SeenFor
  <2>12. LoopFor(m)'
    BY <1>7, <2>3, <2>4 DEF LoopFor, Busy
  <2>13. QED BY <2>5, <2>6, <2>7, <2>8, <2>9, <2>10, <2>11, <2>12 DEF JobInv
<1>9. CASE IsTask(m)
  <2>1. Exec(t, m, Frame("schedule", m))
    BY <1>9 DEF MoveToRunning
  <2>2. Frame("schedule", m) \in FrameSet /\ Frame("schedule", m).job = m
        /\ Frame("schedule", m).pc = "schedule" /\ Frame("schedule", m).batch = 0
    BY <1>1, JobFrame DEF Places, Idle
  <2>3. /\ Turns(t, m, {"move"}, {"exec", "schedule"})
        /\ \E New : View(t, New) /\ \A g \in New : g.job = m
    BY <1>1, <2>1, <2>2, ExecTurns
  <2>4. \A j \in Jobs : j # m => JobInv(j)'
    BY <1>1, <1>2, <1>3, <1>6, <2>3, Others
  <2>5. QED BY <1>8, <1>9, <2>3, <2>4
<1>10. CASE ~IsTask(m)
  <2>1. GoTo(t, "notify")
    BY <1>10 DEF MoveToRunning
  <2>2. Turns(t, m, {"move"}, {"notify"}) /\ \E f : f.job = m /\ View(t, {f})
    BY <1>1, <2>1, GoToTurns DEF Places, Idle
  <2>3. \A j \in Jobs : j # m => JobInv(j)'
    BY <1>1, <1>2, <1>3, <1>6, <2>2, Others
  <2>4. QED BY <1>8, <1>10, <2>2, <2>3
<1>11. QED BY <1>9, <1>10

(* A job just created, at an address no thread points to.                  *)
LEMMA FreshOn ==
    ASSUME Typed, NEW j, \A f \in Frames : f.job # j
    PROVE  /\ \A pc : ~On(j, pc)
           /\ \A t \in Threads : \A b : ~Holds(t, j, b)
           /\ \A t \in Threads : ~Hands(t, j) /\ ~Waking(t, j)
<1>1. \A t \in Threads : \A i \in 1..Len(stack[t]) : stack[t][i].job # j
  <2>1. SUFFICES ASSUME NEW t \in Threads, NEW i \in 1..Len(stack[t]) PROVE stack[t][i].job # j
    OBVIOUS
  <2>2. DOMAIN stack[t] = 1..Len(stack[t])
    BY TopFacts, LenProperties DEF Typed
  <2>3. stack[t][i] \in FramesOf(t)
    BY <2>2 DEF FramesOf, ToSet
  <2>4. QED BY <2>3 DEF Frames
<1>2. \A pc : ~On(j, pc)
  BY <1>1 DEF On
<1>3. \A t \in Threads : \A b : ~Holds(t, j, b)
  BY <1>1, HoldsIn DEF Typed
<1>4. \A t \in Threads : Top(t).job # j
  BY <1>1, TopFacts DEF Typed
<1>5. QED BY <1>2, <1>3, <1>4 DEF Hands, Waking, MyJob

LEMMA CreatedInv ==
    ASSUME Typed, Typed', IInv, ~Recycle, NEW t \in Threads, At(t, "user"), Top(t).code # <<>>,
           NEW m \in Jobs, Fresh(m), NEW type \in {"pfor", "task"}, NEW fun \in Funs,
           job' = [job EXCEPT ![m] = NewJob(type, fun)],
           NEW pc \in {"addready", "move"}, Enter(t, Frame(pc, m)),
           ready' = ready, running' = running, runs' = runs, failures' = failures
    PROVE  \A j \in Jobs : JobInv(j)'
<1>1. ~job[m].live /\ JobInv(m) /\ \A f \in Frames : f.job # m
  BY DEF Fresh, IInv
<1>2. /\ \A p : ~On(m, p)
      /\ \A u \in Threads : \A b : ~Holds(u, m, b)
      /\ \A u \in Threads : ~Hands(u, m) /\ ~Waking(u, m)
  BY <1>1, FreshOn
<1>3. /\ Turns(t, m, {}, {pc})
      /\ \E New : View(t, New) /\ \A f \in New : f.job \in {m, NoJob}
      /\ Top(t).job = NoJob
  BY EnterTurns DEF Called
<1>4. /\ \A j \in Jobs : j # m => job'[j] = job[j]
      /\ job'[m] = NewJob(type, fun)
  BY DEF Typed, DataOK
<1>5. /\ job'[m].live /\ job'[m].execed = {} /\ job'[m].batches_done = 0 /\ job'[m].sem = 0
      /\ job'[m].type = type
  <2>1. \A f : LET r == [live |-> FALSE, type |-> "pfor", fun |-> f,
                         execed |-> {}, batches_done |-> 0, sem |-> 0]
                   n == [r EXCEPT !.live = TRUE, !.type = type, !.fun = fun]
               IN n.live /\ n.execed = {} /\ n.batches_done = 0 /\ n.sem = 0 /\ n.type = type
    OBVIOUS
  <2> DEFINE n == NewJob(type, fun)
  <2>2. n.live /\ n.execed = {} /\ n.batches_done = 0 /\ n.sem = 0 /\ n.type = type
    BY <2>1 DEF NewJob, Freed
  <2> HIDE DEF n
  <2>3. QED BY <1>4, <2>2 DEF n
<1>6. m \notin ToSet(ready) /\ m \notin ToSet(running)
  BY <1>1 DEF JobInv, ReadyFor, RunningFor, Untaken, Quiet
<1>7. failures' >= failures
  BY SchedAssumption DEF Typed, DataOK
<1>8. \A j \in Jobs : j # m => JobInv(j)'
  BY <1>3, <1>4, <1>7, Others
<1>9. \A b \in Batches : runs'[m][b] = 0
  BY <1>1 DEF JobInv, AccountFor
<1>10. JobInv(m)'
  <2>1. \A p \in Places : p # pc => ~On(m, p)'
    BY <1>2, <1>3 DEF Turns
  <2>2. \A u \in Threads : (Hands(u, m)' <=> u = t) /\ ~Waking(u, m)'
    BY <1>2, <1>3 DEF Turns
  <2>3. \A u \in Threads, b \in Batches : ~Holds(u, m, b)'
    BY <1>2, <1>3 DEF Turns
  <2>4. Quiet(m)'
    BY <1>5, <1>9, <2>1, <2>2 DEF Quiet, Busy, Places, Threads
  <2>5. ReadyFor(m)'
    BY <1>6, <2>1, <2>2, <2>4 DEF ReadyFor, Places
  <2>6. RunningFor(m)' /\ ClaimFor(m)'
    BY <1>6, <2>3 DEF RunningFor, ClaimFor, Threads
  <2>7. AccountFor(m)'
    <3>1. Holders(m)' = {}
      BY <2>3 DEF Holders, Threads
    <3>2. Cardinality(Holders(m)') = 0 /\ Cardinality(job'[m].execed) = 0
      BY <1>5, <3>1, FS_EmptySet
    <3>3. QED BY <1>5, <1>9, <3>2 DEF AccountFor
  <2>8. DoneFor(m)'
    BY <1>5, <2>1 DEF DoneFor, Places
  <2>9. PostedFor(m)'
    <3>1. ~IsDone(m)'
      BY <1>5, BatchFacts DEF IsDone, NbBatches
    <3>2. QED BY <3>1 DEF PostedFor
  <2>10. SeenFor(m)'
    BY <2>2 DEF SeenFor, Untaken
  <2>11. LoopFor(m)'
    BY <2>1, <2>2 DEF LoopFor, Places, Threads
  <2>12. QED BY <2>5, <2>6, <2>7, <2>8, <2>9, <2>10, <2>11 DEF JobInv
<1>11. QED BY <1>8, <1>10

LEMMA ParallelForInv ==
    ASSUME Typed, Typed', IInv, ~Recycle, NEW t \in Threads, ParallelFor(t)
    PROVE  \A j \in Jobs : JobInv(j)'
<1>1. At(t, "user") /\ Top(t).code # <<>>
  BY DEF ParallelFor, Calling
<1>2. PICK m \in Jobs : /\ Fresh(m)
                        /\ job' = [job EXCEPT ![m] = NewJob("pfor", Head(Top(t).code)[2])]
                        /\ Enter(t, Frame(IF t \in Clients THEN "addready" ELSE "move", m))
  BY DEF ParallelFor
<1>3. Head(Top(t).code)[2] \in Funs
  BY <1>1, CallTypes DEF Typed
<1>4. ready' = ready /\ running' = running /\ runs' = runs /\ failures' = failures
  BY DEF ParallelFor
<1> DEFINE pc == IF t \in Clients THEN "addready" ELSE "move"
<1>5. pc \in {"addready", "move"} /\ Enter(t, Frame(pc, m))
  BY <1>2
<1> HIDE DEF pc
<1>6. QED BY <1>1, <1>2, <1>3, <1>4, <1>5, CreatedInv

LEMMA PushTaskInv ==
    ASSUME Typed, Typed', IInv, ~Recycle, NEW t \in Threads, PushTask(t)
    PROVE  \A j \in Jobs : JobInv(j)'
<1>1. At(t, "user") /\ Top(t).code # <<>>
  BY DEF PushTask, Calling
<1>2. PICK m \in Jobs : /\ Fresh(m)
                        /\ job' = [job EXCEPT ![m] = NewJob("task", Head(Top(t).code)[2])]
                        /\ Enter(t, Frame("addready", m))
  BY DEF PushTask
<1>3. Head(Top(t).code)[2] \in Funs
  BY <1>1, CallTypes DEF Typed
<1>4. ready' = ready /\ running' = running /\ runs' = runs /\ failures' = failures
  BY DEF PushTask
<1>5. QED BY <1>1, <1>2, <1>3, <1>4, CreatedInv

(* A thread that claims a batch, and one that gives up the batch it held.  *)
LEMMA Claims ==
    ASSUME Typed, Typed', NEW t \in Threads, NEW m \in Jobs, NEW b \in Batches,
           Top(t).batch = 0, NEW u \in FrameSet, NEW g \in FrameSet,
           u.batch = 0, g.job = m, g.batch = b, PushOn(t, u, g)
    PROVE  \A v \in Threads, j \in Jobs, c \in Batches :
               Holds(v, j, c)' <=> Holds(v, j, c) \/ (v = t /\ j = m /\ c = b)
<1>1. View(t, {u, g})
  BY PushView DEF Typed
<1>2. SUFFICES ASSUME NEW v \in Threads, NEW j \in Jobs, NEW c \in Batches
               PROVE  Holds(v, j, c)' <=> Holds(v, j, c) \/ (v = t /\ j = m /\ c = b)
  OBVIOUS
<1>3. b # 0 /\ c # 0
  BY BatchFacts
<1>4. Holds(t, m, b)'
  BY <1>1, <1>3 DEF View
<1>5. QED BY <1>1, <1>3, <1>4 DEF View

LEMMA GivesUp ==
    ASSUME Typed, Typed', HeldInOne, NEW t \in Threads, NEW m \in Live, NEW b \in Batches,
           Top(t).job = m, Top(t).batch = b, NEW g \in FrameSet, g.batch = 0, Become(t, g)
    PROVE  /\ Holds(t, m, b)
           /\ \A v \in Threads, j \in Jobs, c \in Batches :
                Holds(v, j, c)' <=> Holds(v, j, c) /\ ~(v = t /\ j = m /\ c = b)
<1>1. View(t, {g})
  BY BecomeView DEF Typed
<1>2. b # 0 /\ Top(t) = stack[t][1]
  BY BatchFacts, TopFacts DEF Typed
<1>3. Holds(t, m, b)
  <2>1. 1 \in 1..Len(stack[t])
    BY TopFacts DEF Typed
  <2>2. QED BY <1>2, <2>1, HoldsIn DEF Typed
<1>4. ~Holds(t, m, b)'
  <2> DEFINE s == stack[t]
             r == <<g>> \o Tail(s)
  <2>1. s \in Seq(FrameSet) \ {<<>>} /\ Len(s) \in Nat \ {0}
    BY TopFacts DEF Typed
  <2>2. stack'[t] = r
    BY DEF Become, Typed, StackOK, Stacks
  <2>3. InOne(s, Live)
    BY DEF HeldInOne
  <2>4. s[1].batch = b /\ s[1].job = m
    BY <1>2
  <2> HIDE DEF s
  <2>5. Len(r) = Len(s) /\ r[1] = g /\ \A i \in 2..Len(s) : r[i] = s[i]
    BY <2>1, Replaced
  <2>6. DOMAIN stack'[t] = 1..Len(stack'[t])
    BY LenProperties DEF Typed, StackOK, Stacks
  <2> HIDE DEF r
  <2>7. SUFFICES ASSUME NEW i \in 1..Len(r), r[i].batch = b, r[i].job = m PROVE FALSE
    BY <2>2, <2>6 DEF Holds
  <2>8. i # 1
    BY <1>2, <2>5, <2>7
  <2>9. i \in 1..Len(s) /\ r[i] = s[i] /\ 1 \in 1..Len(s)
    BY <2>1, <2>5, <2>7, <2>8
  <2>10. s[1].batch # 0 /\ s[1].job \in Live /\ s[i].batch = s[1].batch /\ s[i].job = s[1].job
    BY <1>2, <2>4, <2>7, <2>9
  <2>11. QED BY <2>3, <2>8, <2>9, <2>10 DEF InOne
<1>5. ASSUME NEW v \in Threads, NEW j \in Jobs, NEW c \in Batches
      PROVE  Holds(v, j, c)' <=> Holds(v, j, c) /\ ~(v = t /\ j = m /\ c = b)
  <2>1. c # 0
    BY BatchFacts
  <2>2. QED BY <1>1, <1>4, <2>1 DEF View
<1>6. QED BY <1>3, <1>5

(* Claiming the first batch nobody claimed, or finding that there is none. *)
LEMMA ExecBatchInv ==
    ASSUME Typed, Typed', IInv, NEW t \in Threads, ExecBatch(t)
    PROVE  \A j \in Jobs : JobInv(j)'
<1> SUFFICES ASSUME NEW m, m = MyJob(t) PROVE \A j \in Jobs : JobInv(j)'
  OBVIOUS
<1>1. /\ Top(t).pc = "exec" /\ job[m].live /\ ~IsTask(m) /\ m \in Jobs
      /\ Top(t).job = m /\ Top(t).batch = 0 /\ t \in WThreads
      /\ Top(t) \in FrameSet /\ FrameRight(Top(t))
  <2>1. Top(t).pc = "exec" /\ job[m].live /\ ~IsTask(m)
    BY DEF ExecBatch, At
  <2>2. t \notin Clients
    BY <2>1, TopFacts DEF Typed, ClientPlaces
  <2>3. QED BY <2>1, <2>2, MyJobIsJob, TopFacts DEF Typed, Idle, MyJob, FrameRight, Threads
<1>2. ready' = ready /\ running' = running /\ failures' >= failures /\ failures' \in Nat
  BY SchedAssumption DEF ExecBatch, Typed, DataOK
<1>3. JobInv(m) /\ On(m, "exec") /\ m # NoJob
  BY <1>1, OnTop, SchedAssumption DEF IInv
<1>4. ~Quiet(m)
  BY <1>3 DEF Quiet, Busy
<1>5. ~Untaken(m) /\ ~Refused(m)
  BY <1>3, <1>4 DEF JobInv, ReadyFor, Refused
<1>6. CASE /\ Unclaimed(m) = {} /\ job' = job /\ runs' = runs
           /\ Become(t, [Top(t) EXCEPT !.pc = "isdone", !.idle = TRUE])
  <2> DEFINE g == [Top(t) EXCEPT !.pc = "isdone", !.idle = TRUE]
  <2>1. g \in FrameSet /\ g.job = m /\ g.pc = "isdone" /\ g.batch = 0
    BY <1>1 DEF FrameSet, Places
  <2>2. Become(t, g)
    BY <1>6
  <2> HIDE DEF g
  <2>3. View(t, {g}) /\ Top(t)' = g
    BY <2>1, <2>2, BecomeView DEF Typed
  <2>4. \A j \in Jobs : j # m => JobInv(j)'
    BY <1>1, <1>2, <1>6, <2>1, <2>3, Others
  <2> DEFINE P == {"exec"}
             Q == {"isdone"}
  <2>5. Turns(t, m, P, Q)
    <3>1. Q = {f.pc : f \in {h \in {g} : h.job = m}}
      BY <2>1
    <3>2. P = IF Top(t).job = m THEN {Top(t).pc} ELSE {}
      BY <1>1
    <3>3. QED BY <1>1, <2>1, <2>3, <3>1, <3>2, TurnsOf
  <2>6. /\ P \in SUBSET Places /\ Q \in SUBSET Places /\ "notify" \notin Q
        /\ (P \cup Q) \cap {"addready", "move"} = {} /\ "destroy" \notin Q /\ "help" \notin Q
        /\ Q \cap {"todone", "post", "collect", "destroy"} = {}
        /\ Q \cap {"unlist", "todone", "post", "collect", "destroy"} = {}
        /\ Q \cap Posting # {}
    BY DEF Places, Posting
  <2> HIDE DEF P, Q
  <2>7. ~HasWork(m)
    BY <1>1, <1>6 DEF HasWork
  <2>8. JobInv(m)'
    BY <1>1, <1>2, <1>3, <1>5, <1>6, <2>5, <2>6, <2>7, Pass
  <2>9. QED BY <2>4, <2>8
<1>7. ASSUME NEW b, b = Min(Unclaimed(m)), Unclaimed(m) # {},
             job' = [job EXCEPT ![m].execed = Claim(@, b)],
             runs' = [runs EXCEPT ![m][b] = Min({@ + 1, 2})],
             stack' = [stack EXCEPT ![t] = <<UserCode(Body[job[m].fun]),
                             [Top(t) EXCEPT !.pc = "inc", !.batch = b]>> \o Tail(@)]
      PROVE  \A j \in Jobs : JobInv(j)'
  <2> DEFINE u == UserCode(Body[job[m].fun])
             g == [Top(t) EXCEPT !.pc = "inc", !.batch = b]
  <2>1. b \in Batches /\ b \notin job[m].execed /\ b # 0
    BY <1>7, LeastUnclaimed, BatchFacts DEF Unclaimed
  <2>2. /\ \A j \in Jobs : j # m => job'[j] = job[j] /\ runs'[j] = runs[j]
        /\ job'[m].live = job[m].live /\ job'[m].type = job[m].type
        /\ job'[m].execed = job[m].execed \cup {b} /\ job'[m].sem = job[m].sem
        /\ job'[m].batches_done = job[m].batches_done
        /\ \A c \in Batches : runs'[m][c] = IF c \in job'[m].execed THEN 1 ELSE 0
    <3>1. /\ \A j \in Jobs : j # m => job'[j] = job[j] /\ runs'[j] = runs[j]
          /\ job'[m].live = job[m].live /\ job'[m].type = job[m].type
          /\ job'[m].execed = job[m].execed \cup {b} /\ job'[m].sem = job[m].sem
          /\ job'[m].batches_done = job[m].batches_done
      BY <1>1, <1>7 DEF Typed, DataOK, JobSet, Claim
    <3>2. \A c \in Batches : runs[m][c] = IF c \in job[m].execed THEN 1 ELSE 0
      BY <1>1, <1>3 DEF JobInv, AccountFor
    <3>3. /\ runs'[m][b] = IF runs[m][b] = 0 THEN 1 ELSE 2
          /\ \A c \in Batches : c # b => runs'[m][c] = runs[m][c]
      <4>1. DataOK /\ m \in Jobs /\ b \in Batches
            /\ runs' = [runs EXCEPT ![m][b] = Min({@ + 1, 2})]
        BY <1>1, <1>7, <2>1 DEF Typed
      <4>2. runs'[m][b] = IF runs[m][b] = 0 THEN 1 ELSE 2
        BY <4>1, RunsTyped
      <4>3. runs[m] \in [Batches -> 0..2] /\ DOMAIN runs = Jobs
        BY <4>1, JobTypes DEF DataOK
      <4>4. \A c \in Batches : c # b => runs'[m][c] = runs[m][c]
        BY <4>1, <4>3
      <4>5. QED BY <4>2, <4>4
    <3>4. QED BY <2>1, <3>1, <3>2, <3>3
  <2>3. u \in FrameSet /\ u.job = NoJob /\ u.batch = 0 /\ u.pc = "user"
    BY <1>1, JobTypes, UserOf DEF Typed
  <2>4. g \in FrameSet /\ g.job = m /\ g.batch = b /\ g.pc = "inc"
    BY <1>1, <2>1 DEF FrameSet, Places
  <2>5. PushOn(t, u, g)
    BY <1>7 DEF PushOn
  <2> HIDE DEF u, g
  <2>6. View(t, {u, g}) /\ Top(t)' = u
    BY <2>3, <2>4, <2>5, PushView DEF Typed
  <2>7. \A j \in Jobs : j # m => JobInv(j)'
    BY <1>1, <1>2, <2>2, <2>3, <2>4, <2>6, Others
  <2>8. /\ \A pc \in Places : /\ On(m, pc)' => On(m, pc) \/ pc = "inc"
                              /\ On(m, pc) => pc = "schedule" \/ pc = "exec" \/ On(m, pc)'
        /\ On(m, "inc")'
        /\ \A v \in Threads : (Hands(v, m)' <=> Hands(v, m)) /\ (Waking(v, m)' <=> Waking(v, m))
    <3>1. \A pc \in Places : /\ On(m, pc)' => On(m, pc) \/ pc = "inc"
                             /\ On(m, pc) => pc = "schedule" \/ pc = "exec" \/ On(m, pc)'
      BY <1>1, <1>3, <2>3, <2>4, <2>6 DEF View, Left
    <3>2. On(m, "inc")'
      BY <2>4, <2>6 DEF View
    <3>3. \A v \in Threads : (Hands(v, m)' <=> Hands(v, m)) /\ (Waking(v, m)' <=> Waking(v, m))
      BY <1>1, <2>3, <2>6 DEF View, Hands, Waking, MyJob
    <3>4. QED BY <3>1, <3>2, <3>3
  <2>9. \A v \in Threads, c \in Batches : Holds(v, m, c)' <=> Holds(v, m, c) \/ (v = t /\ c = b)
    BY <1>1, <2>1, <2>3, <2>4, <2>5, Claims
  <2>10. \A v \in Threads : ~Holds(v, m, b)
    <3>1. \A v \in WThreads : ~Holds(v, m, b)
      BY <1>1, <1>3, <2>1 DEF JobInv, ClaimFor
    <3>2. ASSUME NEW v \in Clients PROVE ~Holds(v, m, b)
      <4>1. SUFFICES ASSUME NEW i \in 1..Len(stack[v]), stack[v][i].batch = b PROVE FALSE
        BY HoldsIn DEF Typed, Threads
      <4>2. stack[v][i].pc = "inc" /\ stack[v][i].pc \in ClientPlaces
        BY <2>1, <4>1 DEF Typed, StackOK, ShapeOf, FrameRight, Threads
      <4>3. QED BY <4>2 DEF ClientPlaces
    <3>3. QED BY <3>1, <3>2 DEF Threads
  <2>11. Cardinality(Holders(m)') = Cardinality(Holders(m)) + 1
    <3>1. Holders(m)' = Holders(m) \cup {<<t, b>>}
      BY <1>1, <2>1, <2>9 DEF Holders, Threads
    <3>2. <<t, b>> \notin Holders(m)
      BY <1>1, <2>10 DEF Holders, Threads
    <3>3. QED BY <3>1, <3>2, HoldersFinite, FS_AddElement
  <2>12. /\ Cardinality(job'[m].execed) = Cardinality(job[m].execed) + 1
         /\ Cardinality(job'[m].execed) \in Nat
         /\ Cardinality(job'[m].execed) <= Cardinality(Batches)
    <3>1. job[m].execed \subseteq Batches /\ job'[m].execed \subseteq Batches
      BY <1>1, <2>1, <2>2, JobTypes DEF Typed
    <3>2. IsFiniteSet(job[m].execed) /\ IsFiniteSet(job'[m].execed)
      BY <3>1, BatchFacts, FS_Subset
    <3>3. Cardinality(job[m].execed \cup {b}) = Cardinality(job[m].execed) + 1
      BY <2>1, <3>2, FS_AddElement
    <3>4. Cardinality(job'[m].execed) \in Nat
      BY <3>2, FS_CardinalityType
    <3>5. Cardinality(job'[m].execed) <= Cardinality(Batches)
      BY <3>1, BatchFacts, FS_Subset
    <3>6. QED BY <2>2, <3>3, <3>4, <3>5
  <2>13. job[m].batches_done + Cardinality(Holders(m)) = Cardinality(job[m].execed)
    BY <1>1, <1>3 DEF JobInv, AccountFor
  <2>14. job[m].batches_done \in Nat /\ Cardinality(Holders(m)) \in Nat
         /\ Cardinality(job[m].execed) \in Nat
    <3>1. job[m].execed \subseteq Batches
      BY <1>1, JobTypes DEF Typed
    <3>2. QED BY <1>1, <3>1, JobTypes, HoldersFinite, BatchFacts, FS_Subset, FS_CardinalityType DEF Typed
  <2>15. ~IsTask(m)' /\ ~IsDone(m) /\ ~IsDone(m)' /\ (HasWork(m)' => HasWork(m))
    <3>1. ~IsTask(m)'
      BY <1>1, <2>2 DEF IsTask
    <3>2. job[m].batches_done # Cardinality(Batches)
      BY <2>12, <2>13, <2>14, BatchFacts
    <3>3. ~IsDone(m) /\ ~IsDone(m)'
      BY <1>1, <2>2, <3>1, <3>2 DEF IsDone, NbBatches
    <3>4. HasWork(m)
      BY <1>1, <1>7 DEF HasWork
    <3>5. QED BY <3>1, <3>3, <3>4
  <2>16. ~Untaken(m)'
    BY <1>2, <1>5, <2>8 DEF Untaken
  <2>17. ReadyFor(m)'
    BY <1>2, <1>3, <2>8, <2>16 DEF JobInv, ReadyFor
  <2>18. RunningFor(m)'
    BY <1>2, <1>3, <2>2, <2>8, <2>16 DEF JobInv, RunningFor, Places
  <2>19. ClaimFor(m)'
    BY <1>1, <1>3, <2>2, <2>9, <2>10, <2>15 DEF JobInv, ClaimFor, Threads
  <2>20. AccountFor(m)'
    <3>1. job'[m].batches_done + Cardinality(Holders(m)') = Cardinality(job'[m].execed)
      BY <2>2, <2>11, <2>12, <2>13, <2>14
    <3>2. QED BY <1>1, <2>2, <3>1 DEF AccountFor
  <2>21. DoneFor(m)'
    <3>1. ~Finished(m)
      BY <2>15 DEF Finished
    <3>2. QED BY <1>1, <1>3, <1>5, <2>2, <2>8, <2>15, <3>1 DEF JobInv, DoneFor, Places
  <2>22. PostedFor(m)'
    BY <2>15 DEF PostedFor
  <2>23. SeenFor(m)'
    <3>1. CASE Cardinality(Workers) = 1
      <4>1. Batches = {1}
        BY <3>1, BatchFacts
      <4>2. Unclaimed(m)' = {}
        BY <2>1, <2>2, <4>1 DEF Unclaimed
      <4>3. QED BY <2>15, <4>2 DEF SeenFor, HasWork
    <3>2. CASE Cardinality(Workers) # 1
      <4>1. job[m].live /\ HasWork(m) => m \in ToSet(running) \/ failures > 0
        BY <1>3, <1>5 DEF JobInv, SeenFor
      <4>2. failures \in Nat
        BY SchedAssumption DEF Typed, DataOK
      <4>3. failures > 0 => failures' > 0
        BY <1>2, <4>2
      <4>4. QED BY <1>1, <1>2, <2>15, <3>2, <4>1, <4>3 DEF SeenFor
    <3>3. QED BY <3>1, <3>2
  <2>24. LoopFor(m)'
    BY <2>15 DEF LoopFor
  <2>25. JobInv(m)'
    BY <2>17, <2>18, <2>19, <2>20, <2>21, <2>22, <2>23, <2>24 DEF JobInv
  <2>26. QED BY <2>7, <2>25
<1>8. QED
  <2>1. CASE Unclaimed(m) # {}
    BY <1>7, <2>1 DEF ExecBatch
  <2>2. CASE Unclaimed(m) = {}
    BY <1>6, <2>2 DEF ExecBatch
  <2>3. QED BY <2>1, <2>2

(* Counting the batch this thread claimed, which it holds no more.         *)
LEMMA IncrementInv ==
    ASSUME Typed, Typed', IInv, NEW t \in Threads, Increment(t)
    PROVE  \A j \in Jobs : JobInv(j)'
<1> SUFFICES ASSUME NEW m, m = MyJob(t), NEW b, b = Top(t).batch
             PROVE  \A j \in Jobs : JobInv(j)'
  OBVIOUS
<1> DEFINE g == [Top(t) EXCEPT !.pc = "isdone", !.batch = 0]
<1>1. /\ Top(t).pc = "inc" /\ job[m].live /\ m \in Jobs
      /\ Top(t).job = m /\ t \in WThreads /\ Top(t) = stack[t][1]
      /\ Top(t) \in FrameSet /\ b \in Batches /\ b # 0
  <2>1. Top(t).pc = "inc" /\ job[m].live
    BY DEF Increment, At
  <2>2. t \notin Clients
    BY <2>1, TopFacts DEF Typed, ClientPlaces
  <2>3. Top(t) \in FrameSet /\ FrameRight(Top(t)) /\ Top(t) = stack[t][1]
    BY TopFacts DEF Typed
  <2>4. b \in Batches /\ b # 0
    BY <2>1, <2>3 DEF FrameSet, FrameRight
  <2>5. QED BY <2>1, <2>2, <2>3, <2>4, MyJobIsJob DEF Typed, Idle, MyJob, Threads
<1>2. ready' = ready /\ running' = running /\ runs' = runs
      /\ failures' >= failures /\ failures' \in Nat /\ Become(t, g)
  BY SchedAssumption DEF Increment, Typed, DataOK
<1>3. /\ \A j \in Jobs : j # m => job'[j] = job[j]
      /\ job'[m].live = job[m].live /\ job'[m].type = job[m].type
      /\ job'[m].execed = job[m].execed /\ job'[m].sem = job[m].sem
      /\ job'[m].batches_done = job[m].batches_done + 1
  BY <1>1 DEF Increment, Typed, DataOK, JobSet
<1>4. g \in FrameSet /\ g.job = m /\ g.pc = "isdone" /\ g.batch = 0
  BY <1>1 DEF FrameSet, Places
<1> HIDE DEF g
<1>5. View(t, {g}) /\ Top(t)' = g
  BY <1>2, <1>4, BecomeView DEF Typed
<1>6. \A j \in Jobs : j # m => JobInv(j)'
  BY <1>1, <1>2, <1>3, <1>4, <1>5, Others
<1>7. JobInv(m) /\ On(m, "inc") /\ m # NoJob
  BY <1>1, OnTop, SchedAssumption DEF IInv
<1>8. ~Quiet(m)
  BY <1>7 DEF Quiet, Busy
<1>9. ~Untaken(m) /\ ~Refused(m)
  BY <1>7, <1>8 DEF JobInv, ReadyFor, Refused
<1>10. /\ \A pc \in Places : /\ On(m, pc)' => On(m, pc) \/ pc = "isdone"
                             /\ On(m, pc) => pc = "schedule" \/ pc = "inc" \/ On(m, pc)'
       /\ On(m, "isdone")'
       /\ \A v \in Threads : (Hands(v, m)' <=> Hands(v, m)) /\ (Waking(v, m)' <=> Waking(v, m))
  <2>1. \A pc \in Places : /\ On(m, pc)' => On(m, pc) \/ pc = "isdone"
                           /\ On(m, pc) => pc = "schedule" \/ pc = "inc" \/ On(m, pc)'
    BY <1>1, <1>4, <1>5 DEF View, Left
  <2>2. On(m, "isdone")'
    BY <1>4, <1>5 DEF View
  <2>3. \A v \in Threads : (Hands(v, m)' <=> Hands(v, m)) /\ (Waking(v, m)' <=> Waking(v, m))
    BY <1>1, <1>4, <1>5 DEF View, Hands, Waking, MyJob
  <2>4. QED BY <2>1, <2>2, <2>3
<1>11. m \in Live /\ HeldInOne
  BY <1>1 DEF Live, IInv
<1>12. Holds(t, m, b)
  BY <1>1, <1>2, <1>4, <1>11, GivesUp
<1>13. \A v \in Threads, c \in Batches : Holds(v, m, c)' <=> Holds(v, m, c) /\ ~(v = t /\ c = b)
  BY <1>1, <1>2, <1>4, <1>11, GivesUp
<1>14. ~IsTask(m) /\ b \in job[m].execed
  BY <1>1, <1>7, <1>12 DEF JobInv, ClaimFor
<1>15. Cardinality(Holders(m)') = Cardinality(Holders(m)) - 1
  <2>1. Holders(m)' = Holders(m) \ {<<t, b>>}
    BY <1>13 DEF Holders, Threads
  <2>2. <<t, b>> \in Holders(m)
    BY <1>1, <1>12 DEF Holders
  <2>3. QED BY <2>1, <2>2, HoldersFinite, FS_RemoveElement
<1>16. /\ job[m].batches_done + Cardinality(Holders(m)) = Cardinality(job[m].execed)
       /\ job[m].batches_done \in Nat /\ Cardinality(Holders(m)) \in Nat
       /\ Cardinality(Holders(m)') \in Nat /\ Cardinality(job[m].execed) \in Nat
       /\ Cardinality(job[m].execed) <= Cardinality(Batches)
  <2>1. job[m].execed \subseteq Batches /\ job[m].batches_done \in Nat
    BY <1>1, JobTypes DEF Typed
  <2>2. job[m].batches_done + Cardinality(Holders(m)) = Cardinality(job[m].execed)
    BY <1>1, <1>7, <1>14 DEF JobInv, AccountFor
  <2>3. Cardinality(job[m].execed) \in Nat /\ Cardinality(job[m].execed) <= Cardinality(Batches)
    BY <2>1, BatchFacts, FS_Subset, FS_CardinalityType
  <2>4. IsFiniteSet(Holders(m)')
    <3>1. Holders(m)' = Holders(m) \ {<<t, b>>}
      BY <1>13 DEF Holders, Threads
    <3>2. IsFiniteSet(Holders(m) \ {<<t, b>>})
      BY HoldersFinite, FS_RemoveElement
    <3>3. QED BY <3>1, <3>2
  <2>5. Cardinality(Holders(m)') \in Nat
    BY <2>4, FS_CardinalityType
  <2>6. QED BY <2>1, <2>2, <2>3, <2>5, HoldersFinite
<1>17. ~IsDone(m)
  <2>1. job[m].batches_done # Cardinality(Batches)
    BY <1>15, <1>16, BatchFacts
  <2>2. QED BY <1>14, <2>1 DEF IsDone, NbBatches
<1>18. ~IsTask(m)' /\ HasWork(m)' = HasWork(m) /\ ~Finished(m)
  BY <1>2, <1>3, <1>14, <1>17 DEF IsTask, HasWork, Unclaimed, Finished
<1>19. JobInv(m)'
  <2>1. ~Untaken(m)'
    BY <1>2, <1>9, <1>10 DEF Untaken
  <2>2. ReadyFor(m)'
    BY <1>2, <1>7, <1>10, <2>1 DEF JobInv, ReadyFor
  <2>3. RunningFor(m)'
    BY <1>2, <1>3, <1>7, <1>10, <2>1 DEF JobInv, RunningFor, Places
  <2>4. ClaimFor(m)'
    BY <1>3, <1>7, <1>13, <1>18 DEF JobInv, ClaimFor, Threads
  <2>5. AccountFor(m)'
    <3>1. job'[m].batches_done + Cardinality(Holders(m)') = Cardinality(job'[m].execed)
      BY <1>3, <1>15, <1>16
    <3>2. \A c \in Batches : runs'[m][c] = IF c \in job'[m].execed THEN 1 ELSE 0
      BY <1>1, <1>2, <1>3, <1>7, <1>14 DEF JobInv, AccountFor
    <3>3. QED BY <1>1, <1>3, <3>1, <3>2 DEF AccountFor
  <2>6. DoneFor(m)'
    BY <1>1, <1>3, <1>7, <1>9, <1>10, <1>18 DEF JobInv, DoneFor, Places
  <2>7. PostedFor(m)'
    BY <1>10 DEF PostedFor
  <2>8. SeenFor(m)'
    <3>1. failures > 0 => failures' > 0
      BY <1>2, SchedAssumption DEF Typed, DataOK
    <3>2. (\E v \in WThreads : Waking(v, m)) => \E v \in WThreads : Waking(v, m)'
      BY <1>10 DEF Threads
    <3>3. QED BY <1>2, <1>3, <1>7, <1>9, <1>10, <1>18, <3>1, <3>2 DEF JobInv, SeenFor, Places
  <2>9. LoopFor(m)'
    BY <1>18 DEF LoopFor
  <2>10. QED BY <2>2, <2>3, <2>4, <2>5, <2>6, <2>7, <2>8, <2>9 DEF JobInv
<1>20. QED BY <1>6, <1>19

------------------------------------------------------------------------------
(* No step but a claim adds a frame with a batch: the ones there are only  *)
(* move up or down their stack.                                            *)
Moved(s, r, d) == \A i \in 1..Len(r) :
    r[i].batch # 0 => i + d \in 1..Len(s) /\ r[i] = s[i + d]
Shifted(t) ==
    /\ \A u \in Threads : u # t => stack'[u] = stack[u]
    /\ \E d \in Int : Moved(stack[t], stack'[t], d)

LEMMA InOneMoved ==
    ASSUME NEW s, NEW r, NEW d \in Int, NEW L, Len(r) \in Nat, InOne(s, L), Moved(s, r, d)
    PROVE  InOne(r, L)
<1>1. SUFFICES ASSUME NEW i \in 1..Len(r), NEW k \in 1..Len(r),
                      r[i].batch # 0, r[i].job \in L, r[k].batch = r[i].batch, r[k].job = r[i].job
               PROVE  i = k
  BY DEF InOne
<1>2. /\ i + d \in 1..Len(s) /\ r[i] = s[i + d]
      /\ k + d \in 1..Len(s) /\ r[k] = s[k + d]
  BY <1>1 DEF Moved
<1>3. i + d = k + d
  BY <1>1, <1>2 DEF InOne
<1>4. QED BY <1>3

LEMMA BecomeShifts ==
    ASSUME Typed, NEW t \in Threads, NEW f \in FrameSet, f.batch = 0, Become(t, f)
    PROVE  Shifted(t)
<1> DEFINE s == stack[t]
           r == <<f>> \o Tail(s)
<1>1. s \in Seq(FrameSet) \ {<<>>} /\ Len(s) \in Nat \ {0}
  BY TopFacts DEF Typed
<1>2. stack'[t] = r /\ \A u \in Threads : u # t => stack'[u] = stack[u]
  BY DEF Become, Typed, StackOK, Stacks
<1> HIDE DEF s
<1>3. Len(r) = Len(s) /\ r[1] = f /\ \A i \in 2..Len(s) : r[i] = s[i]
  BY <1>1, Replaced
<1> HIDE DEF r
<1>4. Moved(s, r, 0)
  <2>1. SUFFICES ASSUME NEW i \in 1..Len(r), r[i].batch # 0 PROVE i + 0 \in 1..Len(s) /\ r[i] = s[i + 0]
    BY DEF Moved
  <2>2. i # 1
    BY <1>3, <2>1
  <2>3. i \in 2..Len(s) /\ i + 0 = i
    BY <1>1, <1>3, <2>1, <2>2
  <2>4. QED BY <1>3, <2>3
<1>5. QED BY <1>2, <1>4 DEF Shifted, s

LEMMA PushShifts ==
    ASSUME Typed, NEW t \in Threads, NEW f \in FrameSet, NEW g \in FrameSet,
           f.batch = 0, g.batch = 0, PushOn(t, f, g)
    PROVE  Shifted(t)
<1> DEFINE s == stack[t]
           r == <<f, g>> \o Tail(s)
<1>1. s \in Seq(FrameSet) \ {<<>>} /\ Len(s) \in Nat \ {0}
  BY TopFacts DEF Typed
<1>2. stack'[t] = r /\ \A u \in Threads : u # t => stack'[u] = stack[u]
  BY DEF PushOn, Typed, StackOK, Stacks
<1> HIDE DEF s
<1>3. Len(r) = Len(s) + 1 /\ r[1] = f /\ r[2] = g /\ \A i \in 3..Len(s) + 1 : r[i] = s[i - 1]
  BY <1>1, Pushed
<1> HIDE DEF r
<1>4. Moved(s, r, -1)
  <2>1. SUFFICES ASSUME NEW i \in 1..Len(r), r[i].batch # 0
                 PROVE  i + (-1) \in 1..Len(s) /\ r[i] = s[i + (-1)]
    BY DEF Moved
  <2>2. i # 1 /\ i # 2
    BY <1>3, <2>1
  <2>3. i \in 3..Len(s) + 1 /\ i + (-1) = i - 1
    BY <1>1, <1>3, <2>1, <2>2
  <2>4. QED BY <1>1, <1>3, <2>3
<1>5. QED BY <1>2, <1>4 DEF Shifted, s

LEMMA LeaveShifts ==
    ASSUME Typed, NEW t \in Threads, Len(stack[t]) > 1, Leave(t)
    PROVE  Shifted(t)
<1> DEFINE s == stack[t]
           r == Tail(s)
<1>1. s \in Seq(FrameSet) /\ Len(s) \in Nat /\ Len(s) > 1
  BY TopFacts DEF Typed
<1>2. stack'[t] = r /\ \A u \in Threads : u # t => stack'[u] = stack[u]
  BY DEF Leave, Typed, StackOK, Stacks
<1> HIDE DEF s
<1>3. Len(r) = Len(s) - 1 /\ \A i \in 1..Len(s) - 1 : r[i] = s[i + 1]
  BY <1>1, Popped
<1> HIDE DEF r
<1>4. Moved(s, r, 1)
  BY <1>1, <1>3 DEF Moved
<1>5. QED BY <1>2, <1>4 DEF Shifted, s

LEMMA GoToShifts ==
    ASSUME Typed, NEW t \in Threads, NEW pc \in Places, Top(t).pc # "inc", GoTo(t, pc)
    PROVE  Shifted(t)
<1> DEFINE f == [Top(t) EXCEPT !.pc = pc]
<1>1. Become(t, f)
  BY GoToBecomes DEF Typed
<1>2. f \in FrameSet /\ f.batch = 0
  BY TopFacts DEF Typed, FrameRight, FrameSet
<1> HIDE DEF f
<1>3. QED BY <1>1, <1>2, BecomeShifts

LEMMA ExecutedShifts ==
    ASSUME Typed, NEW t \in Threads, Top(t).pc \in Executing, Executed(t)
    PROVE  Shifted(t)
<1>1. Len(stack[t]) > 1
  BY NotAtBottom DEF Typed, BasePlaces, Executing
<1>2. CASE Len(stack[t]) = 2 /\ t \in WThreads
  <2> DEFINE f == Frame(IF Top(t).idle THEN "sleep" ELSE "ready", NoJob)
  <2>1. f.batch = 0
    BY DEF Frame
  <2>2. stack'[t] = <<f>> /\ \A u \in Threads : u # t => stack'[u] = stack[u]
    BY <1>2 DEF Executed, Typed, StackOK, Stacks
  <2> HIDE DEF f
  <2>3. Len(<<f>>) = 1 /\ <<f>>[1] = f
    OBVIOUS
  <2>4. \A i \in 1..Len(stack'[t]) : stack'[t][i].batch = 0
    BY <2>1, <2>2, <2>3
  <2>5. Moved(stack[t], stack'[t], 0)
    BY <2>4 DEF Moved
  <2>6. QED BY <2>2, <2>5 DEF Shifted
<1>3. CASE ~(Len(stack[t]) = 2 /\ t \in WThreads)
  BY <1>1, <1>3, LeaveShifts DEF Executed
<1>4. QED BY <1>2, <1>3

LEMMA ExecShifts ==
    ASSUME Typed, NEW t \in Threads, NEW m \in Jobs, NEW f \in FrameSet, f.batch = 0, Exec(t, m, f)
    PROVE  Shifted(t)
<1>1. Frame("exec", m) \in FrameSet /\ Frame("exec", m).batch = 0
  BY JobFrame DEF Places, Idle
<1>2. PushOn(t, Frame("exec", m), f)
  BY DEF Exec, PushOn
<1>3. QED BY <1>1, <1>2, PushShifts

LEMMA ScheduleShifts ==
    ASSUME Typed, NEW t \in Threads, NEW m \in Jobs, Exec(t, m, Frame("schedule", m))
    PROVE  Shifted(t)
<1>1. Frame("schedule", m) \in FrameSet /\ Frame("schedule", m).batch = 0
  BY JobFrame DEF Places, Idle
<1>2. QED BY <1>1, ExecShifts

LEMMA EnterShifts ==
    ASSUME Typed, NEW t \in Threads, At(t, "user"), Top(t).code # <<>>,
           NEW m \in Jobs, NEW pc \in Called, Enter(t, Frame(pc, m))
    PROVE  Shifted(t)
<1> DEFINE f == UserCode(Tail(Top(t).code))
           e == Frame(pc, m)
<1>1. f \in FrameSet /\ f.batch = 0
  BY RestOfCode
<1>2. e \in FrameSet /\ e.batch = 0
  <2>1. pc \in Places \ (Idle \cup {"inc"})
    BY DEF Called, Places, Idle
  <2>2. QED BY <2>1, JobFrame
<1>3. PushOn(t, e, f)
  BY DEF Enter, PushOn
<1> HIDE DEF e, f
<1>4. QED BY <1>1, <1>2, <1>3, PushShifts

LEMMA StepShifts ==
    ASSUME Typed, NEW t \in Threads, Step(t), ~ExecBatch(t)
    PROVE  Shifted(t)
<1> SUFFICES ASSUME NEW m, m = MyJob(t) PROVE Shifted(t)
  OBVIOUS
<1>0. /\ Top(t) \in FrameSet /\ FrameRight(Top(t)) /\ Len(stack[t]) \in Nat \ {0}
      /\ Top(t).pc \notin Idle => m \in Jobs
      /\ Top(t).pc \notin BasePlaces /\ (t \in Clients => Top(t).pc # "user") => Len(stack[t]) > 1
  BY TopFacts, MyJobIsJob, NotAtBottom DEF Typed
<1>1. CASE GetReady(t)
  <2>1. CASE ready # <<>> /\ Become(t, Frame("move", Taken))
    <3>1. Taken \in Jobs
      BY <2>1, TakenTypes DEF Typed
    <3>2. Frame("move", Taken) \in FrameSet /\ Frame("move", Taken).batch = 0
      BY <3>1, JobFrame DEF Places, Idle
    <3>3. QED BY <2>1, <3>2, BecomeShifts
  <2>2. CASE GoTo(t, "running")
    BY <1>1, <2>2, GoToShifts DEF Places, GetReady, At
  <2>3. QED BY <1>1, <2>1, <2>2 DEF GetReady
<1>2. CASE MoveToRunning(t)
  <2>1. Top(t).pc = "move" /\ m \in Jobs
    BY <1>0, <1>2 DEF MoveToRunning, At, Idle
  <2>2. CASE IsTask(m)
    BY <1>2, <2>1, <2>2, ScheduleShifts DEF MoveToRunning
  <2>3. CASE ~IsTask(m)
    BY <1>2, <2>1, <2>3, GoToShifts DEF MoveToRunning, Places
  <2>4. QED BY <2>2, <2>3
<1>3. CASE GetRunning(t)
  <2>1. CASE RunningJob = NoJob
    BY <1>3, <2>1, GoToShifts DEF GetRunning, Places, At
  <2>2. CASE RunningJob # NoJob
    <3>1. RunningJob \in Jobs
      BY <2>2, RunningJobListed DEF Typed
    <3>2. QED BY <1>3, <2>2, <3>1, ScheduleShifts DEF GetRunning
  <2>3. QED BY <2>1, <2>2
<1>4. CASE Sleep(t)
  BY <1>4, GoToShifts DEF Sleep, Places, At
<1>5. CASE Notify(t)
  <2>1. Top(t).pc = "notify" /\ m \in Jobs
    BY <1>0, <1>5 DEF Notify, At, Idle
  <2>2. CASE Exec(t, m, Frame("schedule", m))
    BY <2>1, <2>2, ScheduleShifts
  <2>3. CASE GoTo(t, "help") \/ GoTo(t, "wait")
    BY <2>1, <2>3, GoToShifts DEF Places
  <2>4. CASE t \in Clients /\ Leave(t)
    <3>1. Len(stack[t]) > 1
      BY <2>1, <2>4, SchedAssumption, TopFacts, OneOrMore DEF Typed, Bottom
    <3>2. QED BY <2>4, <3>1, LeaveShifts
  <2>5. QED BY <1>5, <2>2, <2>3, <2>4 DEF Notify
<1>6. CASE ExecTask(t)
  <2> DEFINE u == UserCode(Body[job[m].fun])
             g == [Top(t) EXCEPT !.pc = "isdone"]
  <2>1. Top(t).pc = "exec" /\ m \in Jobs /\ PushOn(t, u, g)
    BY <1>0, <1>6 DEF ExecTask, At, Idle, PushOn
  <2>2. u \in FrameSet /\ u.batch = 0
    BY <2>1, JobTypes, UserOf DEF Typed
  <2>3. g \in FrameSet /\ g.batch = 0
    BY <1>0, <2>1, MovedFrame DEF Places, Idle
  <2> HIDE DEF u, g
  <2>4. QED BY <2>1, <2>2, <2>3, PushShifts
<1>7. CASE FunReturns(t)
  <2>1. t \notin Clients /\ Top(t).pc = "user" /\ Leave(t)
    BY <1>7, SchedAssumption DEF FunReturns, At
  <2>2. QED BY <1>0, <2>1, LeaveShifts DEF BasePlaces
<1>8. CASE Increment(t)
  <2> DEFINE g == [Top(t) EXCEPT !.pc = "isdone", !.batch = 0]
  <2>1. g \in FrameSet /\ g.batch = 0
    BY <1>0 DEF FrameSet, Places
  <2>2. Become(t, g)
    BY <1>8 DEF Increment
  <2> HIDE DEF g
  <2>3. QED BY <2>1, <2>2, BecomeShifts
<1>9. CASE CheckDone(t)
  <2>1. Top(t).pc = "isdone" /\ (GoTo(t, "unlist") \/ Executed(t))
    BY <1>9 DEF CheckDone, At
  <2>2. QED BY <2>1, GoToShifts, ExecutedShifts DEF Places, Executing
<1>10. CASE RemoveRunning(t)
  BY <1>10, GoToShifts DEF RemoveRunning, Places, At
<1>11. CASE MoveToDone(t)
  BY <1>11, GoToShifts DEF MoveToDone, Places, At
<1>12. CASE PostJob(t)
  BY <1>12, ExecutedShifts DEF PostJob, Executing, At
<1>13. CASE ParallelFor(t)
  <2>1. At(t, "user") /\ Top(t).code # <<>>
    BY <1>13 DEF ParallelFor, Calling
  <2>2. PICK j \in Jobs : Enter(t, Frame(IF t \in Clients THEN "addready" ELSE "move", j))
    BY <1>13 DEF ParallelFor
  <2>3. \/ Enter(t, Frame("addready", j))
        \/ Enter(t, Frame("move", j))
    BY <2>2
  <2>4. QED BY <2>1, <2>3, EnterShifts DEF Called
<1>14. CASE PushTask(t)
  <2>1. At(t, "user") /\ Top(t).code # <<>>
    BY <1>14 DEF PushTask, Calling
  <2>2. PICK j \in Jobs : Enter(t, Frame("addready", j))
    BY <1>14 DEF PushTask
  <2>3. QED BY <2>1, <2>2, EnterShifts DEF Called
<1>15. CASE CreateFails(t)
  <2>1. At(t, "user") /\ Top(t).code # <<>> /\ Become(t, UserCode(Tail(Top(t).code)))
    BY <1>15 DEF CreateFails, Calling
  <2>2. QED BY <2>1, RestOfCode, BecomeShifts
<1>16. CASE WaitTask(t)
  <2>1. At(t, "user") /\ Top(t).code # <<>>
    BY <1>16 DEF WaitTask, Calling
  <2> SUFFICES ASSUME NEW j, j = task[Head(Top(t).code)[2]] PROVE Shifted(t)
    OBVIOUS
  <2>2. CASE j = NoJob
    <3>1. Become(t, UserCode(Tail(Top(t).code)))
      BY <1>16, <2>2 DEF WaitTask
    <3>2. QED BY <2>1, <3>1, RestOfCode, BecomeShifts
  <2>3. CASE j # NoJob
    <3>1. j \in Jobs
      BY <2>1, <2>3, CallTypes DEF Typed, DataOK
    <3>2. Enter(t, Frame("wait", j))
      BY <1>16, <2>3 DEF WaitTask
    <3>3. QED BY <2>1, <3>1, <3>2, EnterShifts DEF Called
  <2>4. QED BY <2>2, <2>3
<1>17. CASE AddToReady(t)
  <2>1. Top(t).pc = "addready" /\ (GoTo(t, "notify") \/ GoTo(t, "destroy") \/ Leave(t))
    BY <1>17 DEF AddToReady, At
  <2>2. CASE GoTo(t, "notify") \/ GoTo(t, "destroy")
    BY <2>1, <2>2, GoToShifts DEF Places
  <2>3. CASE Leave(t)
    BY <1>0, <2>1, <2>3, LeaveShifts DEF BasePlaces
  <2>4. QED BY <2>1, <2>2, <2>3
<1>18. CASE Help(t)
  <2>1. Top(t).pc = "help" /\ m \in Jobs /\ Top(t).batch = 0
    BY <1>0, <1>18 DEF Help, At, Idle, FrameRight
  <2>2. CASE GoTo(t, "wait")
    BY <2>1, <2>2, GoToShifts DEF Places
  <2>3. CASE Exec(t, m, Top(t))
    BY <1>0, <2>1, <2>3, ExecShifts
  <2>4. QED BY <1>18, <2>2, <2>3 DEF Help
<1>19. CASE WaitJob(t)
  BY <1>19, GoToShifts DEF WaitJob, Places, At
<1>20. CASE Collect(t)
  BY <1>20, GoToShifts DEF Collect, Places, At
<1>21. CASE DestroyJob(t)
  <2>1. Top(t).pc = "destroy" /\ Leave(t)
    BY <1>21 DEF DestroyJob, At
  <2>2. QED BY <1>0, <2>1, LeaveShifts DEF BasePlaces
<1>22. QED BY <1>1, <1>2, <1>3, <1>4, <1>5, <1>6, <1>7, <1>8, <1>9, <1>10, <1>11, <1>12,
              <1>13, <1>14, <1>15, <1>16, <1>17, <1>18, <1>19, <1>20, <1>21 DEF Step

(* A job comes to life only at an address no frame points to.              *)
LEMMA LiveStep ==
    ASSUME Typed, ~Recycle, NEW t \in Threads, Step(t)
    PROVE  \A j \in Live' : j \in Live \/ \A f \in Frames : f.job # j
<1> SUFFICES ASSUME NEW m, m = MyJob(t), NEW j \in Jobs, job'[j].live, ~job[j].live
             PROVE  \A f \in Frames : f.job # j
  BY DEF Live
<1>1. job \in [Jobs -> JobSet]
  BY DEF Typed, DataOK
<1>2. ASSUME NEW v, \/ job' = [job EXCEPT ![m].batches_done = v]
                    \/ job' = [job EXCEPT ![m].execed = v]
                    \/ job' = [job EXCEPT ![m].sem = v]
      PROVE  FALSE
  BY <1>1, <1>2 DEF JobSet
<1>3. job' # job
  OBVIOUS
<1>4. CASE MoveToRunning(t)
  BY <1>2, <1>3, <1>4 DEF MoveToRunning
<1>5. CASE ExecBatch(t)
  <2>1. CASE job' = job
    BY <1>3, <2>1
  <2>2. CASE job' = [job EXCEPT ![m].execed = Claim(@, Min(Unclaimed(m)))]
    BY <1>2, <2>2
  <2>3. QED BY <1>5, <2>1, <2>2 DEF ExecBatch
<1>6. CASE Increment(t)
  BY <1>2, <1>6 DEF Increment
<1>7. CASE PostJob(t)
  BY <1>2, <1>7 DEF PostJob
<1>8. CASE WaitJob(t)
  BY <1>2, <1>8 DEF WaitJob
<1>9. CASE DestroyJob(t)
  <2>1. job' = [job EXCEPT ![m] = [Freed EXCEPT !.type = job[m].type]]
    BY <1>9 DEF DestroyJob
  <2>2. [Freed EXCEPT !.type = job[m].type].live = FALSE
    BY DEF Freed
  <2>3. QED BY <1>1, <2>1, <2>2
<1>10. ASSUME NEW i \in Jobs, NEW v, Fresh(i), job' = [job EXCEPT ![i] = v]
       PROVE  \A f \in Frames : f.job # j
  BY <1>1, <1>10 DEF Fresh
<1>11. CASE ParallelFor(t)
  BY <1>10, <1>11 DEF ParallelFor
<1>12. CASE PushTask(t)
  BY <1>10, <1>12 DEF PushTask
<1>13. QED
  BY <1>3, <1>4, <1>5, <1>6, <1>7, <1>8, <1>9, <1>11, <1>12
     DEF Step, GetReady, GetRunning, Sleep, Notify, ExecTask, FunReturns, CheckDone, RemoveRunning,
         MoveToDone, CreateFails, WaitTask, AddToReady, Help, Collect

LEMMA HeldStep ==
    ASSUME Typed, Typed', IInv, ~Recycle, NEW t \in Threads, Step(t)
    PROVE  HeldInOne'
<1>1. \A u \in Threads : Len(stack'[u]) \in Nat
  BY LenProperties DEF Typed, StackOK, Stacks
<1>2. /\ \A u \in Threads : u # t => stack'[u] = stack[u]
      /\ InOne(stack'[t], Live)
      /\ \A i \in 1..Len(stack'[t]) : stack'[t][i].batch # 0 =>
            stack'[t][i].job \in Live \/ \E k \in 1..Len(stack[t]) : stack'[t][i] = stack[t][k]
  <2>1. CASE Shifted(t)
    <3>1. PICK d \in Int : Moved(stack[t], stack'[t], d)
      BY <2>1 DEF Shifted
    <3>2. InOne(stack'[t], Live)
      <4>1. InOne(stack[t], Live)
        BY DEF IInv, HeldInOne
      <4>2. QED BY <1>1, <3>1, <4>1, InOneMoved
    <3>3. \A i \in 1..Len(stack'[t]) : stack'[t][i].batch # 0 =>
              \E k \in 1..Len(stack[t]) : stack'[t][i] = stack[t][k]
      BY <3>1 DEF Moved
    <3>4. QED BY <2>1, <3>2, <3>3 DEF Shifted
  <2>2. CASE ExecBatch(t)
    <3> SUFFICES ASSUME NEW m, m = MyJob(t), NEW b, b = Min(Unclaimed(m))
                 PROVE  /\ \A u \in Threads : u # t => stack'[u] = stack[u]
                        /\ InOne(stack'[t], Live)
                        /\ \A i \in 1..Len(stack'[t]) : stack'[t][i].batch # 0 =>
                             \/ stack'[t][i].job \in Live
                             \/ \E k \in 1..Len(stack[t]) : stack'[t][i] = stack[t][k]
      OBVIOUS
    <3>1. /\ Top(t).pc = "exec" /\ job[m].live /\ ~IsTask(m) /\ m \in Jobs
          /\ Top(t).job = m /\ Top(t) \in FrameSet /\ t \in WThreads
      <4>1. Top(t).pc = "exec" /\ job[m].live /\ ~IsTask(m)
        BY <2>2 DEF ExecBatch, At
      <4>2. t \notin Clients
        BY <4>1, TopFacts DEF Typed, ClientPlaces
      <4>3. QED BY <4>1, <4>2, MyJobIsJob, TopFacts DEF Typed, Idle, MyJob, Threads
    <3>2. CASE Unclaimed(m) = {}
      <4> DEFINE g == [Top(t) EXCEPT !.pc = "isdone", !.idle = TRUE]
      <4>1. g \in FrameSet /\ g.batch = 0
        <5>1. Top(t).batch = 0
          BY <3>1, TopFacts DEF Typed, FrameRight
        <5>2. QED BY <3>1, <5>1 DEF FrameSet, Places
      <4>2. Become(t, g)
        BY <2>2, <3>2 DEF ExecBatch
      <4> HIDE DEF g
      <4>3. Shifted(t)
        BY <4>1, <4>2, BecomeShifts
      <4>4. QED BY <2>1, <4>3
    <3>3. CASE Unclaimed(m) # {}
      <4> DEFINE u == UserCode(Body[job[m].fun])
                 g == [Top(t) EXCEPT !.pc = "inc", !.batch = b]
                 s == stack[t]
                 r == <<u, g>> \o Tail(s)
      <4>1. b \in Batches /\ b \notin job[m].execed /\ b # 0
        BY <3>3, LeastUnclaimed, BatchFacts DEF Unclaimed
      <4>2. u \in FrameSet /\ u.batch = 0
        BY <3>1, JobTypes, UserOf DEF Typed
      <4>3. g \in FrameSet /\ g.batch = b /\ g.job = m
        BY <3>1, <4>1 DEF FrameSet, Places
      <4>4. stack' = [stack EXCEPT ![t] = <<u, g>> \o Tail(@)]
        BY <2>2, <3>3 DEF ExecBatch
      <4>5. stack'[t] = r /\ \A v \in Threads : v # t => stack'[v] = stack[v]
        BY <4>4 DEF Typed, StackOK, Stacks
      <4>6. s \in Seq(FrameSet) \ {<<>>} /\ Len(s) \in Nat \ {0}
        BY TopFacts DEF Typed
      <4>7. \A k \in 1..Len(s) : ~(s[k].batch = b /\ s[k].job = m)
        <5>1. ~Holds(t, m, b)
          BY <3>1, <4>1 DEF IInv, JobInv, ClaimFor
        <5>2. QED BY <5>1, HoldsIn DEF Typed
      <4>8. InOne(s, Live)
        BY DEF IInv, HeldInOne
      <4>9. s = stack[t]
        OBVIOUS
      <4> HIDE DEF u, g, s
      <4>10. Len(r) = Len(s) + 1 /\ r[1] = u /\ r[2] = g /\ \A i \in 3..Len(s) + 1 : r[i] = s[i - 1]
        BY <4>2, <4>3, <4>6, Pushed
      <4> HIDE DEF r
      <4>11. \A i \in 1..Len(r) : r[i].batch # 0 =>
                 \/ i = 2
                 \/ i - 1 \in 1..Len(s) /\ r[i] = s[i - 1]
        <5>1. SUFFICES ASSUME NEW i \in 1..Len(r), r[i].batch # 0, i # 2
                       PROVE  i - 1 \in 1..Len(s) /\ r[i] = s[i - 1]
          OBVIOUS
        <5>2. i # 1
          BY <4>2, <4>10, <5>1
        <5>3. i \in 3..Len(s) + 1
          BY <4>6, <4>10, <5>1, <5>2
        <5>4. QED BY <4>6, <4>10, <5>3
      <4>12. InOne(r, Live)
        <5>1. SUFFICES ASSUME NEW i \in 1..Len(r), NEW k \in 1..Len(r),
                              r[i].batch # 0, r[i].job \in Live, r[k].batch = r[i].batch, r[k].job = r[i].job
                       PROVE  i = k
          BY DEF InOne
        <5>2. CASE i = 2 /\ k = 2
          BY <5>2
        <5>3. CASE i = 2 /\ k # 2
          BY <4>3, <4>7, <4>10, <4>11, <5>1, <5>3
        <5>4. CASE i # 2 /\ k = 2
          BY <4>3, <4>7, <4>10, <4>11, <5>1, <5>4
        <5>5. CASE i # 2 /\ k # 2
          <6>1. /\ i - 1 \in 1..Len(s) /\ r[i] = s[i - 1]
                /\ k - 1 \in 1..Len(s) /\ r[k] = s[k - 1]
            BY <4>11, <5>1, <5>5
          <6>2. i - 1 = k - 1
            BY <4>8, <5>1, <6>1 DEF InOne
          <6>3. QED BY <6>2
        <5>6. QED BY <5>2, <5>3, <5>4, <5>5
      <4>13. \A i \in 1..Len(r) : r[i].batch # 0 =>
                 r[i].job \in Live \/ \E k \in 1..Len(s) : r[i] = s[k]
        BY <3>1, <4>3, <4>10, <4>11 DEF Live
      <4>14. QED BY <4>5, <4>9, <4>12, <4>13
    <3>4. QED BY <3>2, <3>3
  <2>3. QED BY <2>1, <2>2, StepShifts
<1>3. \A j \in Live' : j \in Live \/ \A f \in Frames : f.job # j
  BY LiveStep
<1>4. \A u \in Threads : \A k \in 1..Len(stack[u]) : stack[u][k] \in Frames
  <2>1. SUFFICES ASSUME NEW u \in Threads, NEW k \in 1..Len(stack[u]) PROVE stack[u][k] \in Frames
    OBVIOUS
  <2>2. DOMAIN stack[u] = 1..Len(stack[u])
    BY TopFacts, LenProperties DEF Typed
  <2>3. stack[u][k] \in FramesOf(u)
    BY <2>2 DEF FramesOf, ToSet
  <2>4. QED BY <2>3 DEF Frames
<1>5. ASSUME NEW u \in Threads PROVE InOne(stack'[u], Live')
  <2>1. InOne(stack'[u], Live)
    BY <1>2 DEF IInv, HeldInOne
  <2>2. \A i \in 1..Len(stack'[u]) : stack'[u][i].batch # 0 /\ stack'[u][i].job \in Live'
            => stack'[u][i].job \in Live
    <3>1. SUFFICES ASSUME NEW i \in 1..Len(stack'[u]), stack'[u][i].batch # 0,
                          stack'[u][i].job \in Live'
                   PROVE  stack'[u][i].job \in Live
      OBVIOUS
    <3>2. stack'[u][i].job \in Live \/ stack'[u][i] \in Frames
      BY <1>2, <1>4, <3>1
    <3>3. QED BY <1>3, <3>1, <3>2
  <2>3. QED BY <2>1, <2>2 DEF InOne
<1>6. QED BY <1>5 DEF HeldInOne

------------------------------------------------------------------------------
(* No job is listed twice.                                                 *)
LEMMA ListsStep ==
    ASSUME Typed, IInv, NEW t \in Threads, Step(t)
    PROVE  IsInjective(ready') /\ IsInjective(running')
<1> SUFFICES ASSUME NEW m, m = MyJob(t) PROVE IsInjective(ready') /\ IsInjective(running')
  OBVIOUS
<1>1. /\ IsInjective(ready) /\ IsInjective(running)
      /\ ready \in Seq(Jobs) /\ running \in Seq(Jobs)
  BY DEF IInv, Typed, DataOK
<1>2. ASSUME Hands(t, m) PROVE m \in Jobs /\ m \notin ToSet(ready) /\ m \notin ToSet(running)
  <2>1. m \in Jobs
    BY <1>2, MyJobIsJob DEF Typed, Hands, Idle
  <2>2. JobInv(m) /\ Untaken(m)
    BY <1>2, <2>1 DEF IInv, Untaken
  <2>3. QED BY <1>2, <2>1, <2>2 DEF JobInv, ReadyFor, RunningFor
<1>3. CASE GetReady(t)
  BY <1>1, <1>3, TakenFrom DEF GetReady
<1>4. CASE AddToReady(t)
  <2>1. Hands(t, m)
    BY <1>4 DEF AddToReady, Hands, At, MyJob
  <2>2. ready' = Append(ready, m) \/ ready' = ready
    BY <1>4 DEF AddToReady
  <2>3. running' = running
    BY <1>4 DEF AddToReady
  <2>4. IsInjective(Append(ready, m))
    BY <1>1, <1>2, <2>1, Appended
  <2>5. QED BY <1>1, <2>2, <2>3, <2>4
<1>5. CASE MoveToRunning(t)
  <2>1. Hands(t, m)
    BY <1>5 DEF MoveToRunning, Hands, At, MyJob
  <2>2. running' = Append(running, m) \/ running' = running
    BY <1>5 DEF MoveToRunning, ListOrForget
  <2>3. ready' = ready
    BY <1>5 DEF MoveToRunning
  <2>4. IsInjective(Append(running, m))
    BY <1>1, <1>2, <2>1, Appended
  <2>5. QED BY <1>1, <2>2, <2>3, <2>4
<1>6. CASE RemoveRunning(t)
  BY <1>1, <1>6, RemoveFirstProperties DEF RemoveRunning, WithoutRunning
<1>7. CASE ready' = ready /\ running' = running
  BY <1>1, <1>7
<1>8. QED
  BY <1>3, <1>4, <1>5, <1>6, <1>7
     DEF Step, GetRunning, Sleep, Notify, ExecBatch, ExecTask, FunReturns, Increment, CheckDone,
         MoveToDone, PostJob, ParallelFor, PushTask, CreateFails, WaitTask, Help, WaitJob,
         Collect, DestroyJob

LEMMA StepInv ==
    ASSUME Typed, IInv, ~Recycle, NEW t \in Threads, Step(t)
    PROVE  IInv'
<1>1. Typed'
  BY StepTypes
<1>2. \A j \in Jobs : JobInv(j)'
  BY <1>1, GetReadyInv, MoveToRunningInv, GetRunningInv, SleepInv, NotifyInv, ExecBatchInv,
     ExecTaskInv, FunReturnsInv, IncrementInv, CheckDoneInv, RemoveRunningInv, MoveToDoneInv,
     PostJobInv, ParallelForInv, PushTaskInv, CreateFailsInv, WaitTaskInv, AddToReadyInv,
     HelpInv, WaitJobInv, CollectInv, DestroyJobInv DEF Step
<1>3. IsInjective(ready') /\ IsInjective(running')
  BY ListsStep
<1>4. HeldInOne'
  BY <1>1, HeldStep
<1>5. QED BY <1>2, <1>3, <1>4 DEF IInv

LEMMA InitInv == Init => IInv
<1> SUFFICES ASSUME Init PROVE IInv
  OBVIOUS
<1>1. \A t \in Threads : Len(stack[t]) = 1 /\ stack[t][1].job = NoJob /\ stack[t][1].batch = 0
  <2>1. SUFFICES ASSUME NEW t \in Threads
                 PROVE  Len(stack[t]) = 1 /\ stack[t][1].job = NoJob /\ stack[t][1].batch = 0
    OBVIOUS
  <2>2. CASE t \in WThreads
    BY <2>2 DEF Init, Frame
  <2>3. CASE t \notin WThreads
    <3>1. stack[t] = <<UserCode(Program[t])>>
      BY <2>3 DEF Init
    <3>2. Len(stack[t]) = 1 /\ stack[t][1] = UserCode(Program[t])
      BY <3>1
    <3>3. t \in Clients
      BY <2>3 DEF Threads
    <3>4. QED BY <3>2, <3>3, UserOf, SchedAssumption
  <2>4. QED BY <2>2, <2>3
<1>2. Typed
  BY InitTypes
<1>3. ready = <<>> /\ running = <<>> /\ ToSet(<<>>) = {} /\ IsInjective(<<>>)
  BY DEF Init, ToSet, IsInjective
<1>4. ASSUME NEW j \in Jobs PROVE JobInv(j)
  <2>1. ~job[j].live /\ \A b \in Batches : runs[j][b] = 0
    BY DEF Init, Freed
  <2>2. \A t \in Threads : ~Hands(t, j)
    <3>1. \A t \in Threads : Top(t).job # j
      BY <1>1, <1>2, TopFacts, SchedAssumption DEF Typed
    <3>2. QED BY <3>1 DEF Hands, MyJob
  <2>3. ~Untaken(j) /\ j \notin ToSet(running) /\ j \notin ToSet(ready)
    BY <1>3, <2>2 DEF Untaken
  <2>4. QED BY <2>1, <2>2, <2>3
            DEF JobInv, ReadyFor, RunningFor, ClaimFor, AccountFor, DoneFor, PostedFor, SeenFor, LoopFor
<1>5. HeldInOne
  <2>1. SUFFICES ASSUME NEW t \in Threads, NEW i \in 1..Len(stack[t]), stack[t][i].batch # 0
                 PROVE  FALSE
    BY DEF HeldInOne, InOne
  <2>2. i = 1
    BY <1>1, <2>1
  <2>3. QED BY <1>1, <2>1, <2>2
<1>6. QED BY <1>3, <1>4, <1>5 DEF IInv

LEMMA StutterInv == ASSUME Typed, IInv, UNCHANGED vars PROVE IInv'
<1> USE DEF vars
<1>1. \A j \in Jobs, pc \in Places : On(j, pc)' <=> On(j, pc)
  BY DEF On
<1>2. \A t \in Threads : Top(t)' = Top(t)
  BY DEF Top
<1>3. \A t \in Threads : \A j \in Jobs : (Hands(t, j)' <=> Hands(t, j)) /\ (Waking(t, j)' <=> Waking(t, j))
  BY <1>2 DEF Hands, Waking, MyJob
<1>4. \A t \in Threads : \A j, b : Holds(t, j, b)' <=> Holds(t, j, b)
  BY DEF Holds
<1>5. ASSUME NEW j \in Jobs PROVE JobInv(j)'
  <2>1. /\ IsTask(j)' = IsTask(j) /\ IsDone(j)' = IsDone(j) /\ HasWork(j)' = HasWork(j)
    BY DEF IsTask, IsDone, HasWork, NbBatches, Unclaimed
  <2>2. Holders(j)' = Holders(j)
    BY DEF Holders, Holds
  <2>3. Untaken(j)' <=> Untaken(j)
    BY <1>3 DEF Untaken
  <2>4. Quiet(j)' <=> Quiet(j)
    BY <1>1, <1>3 DEF Quiet, Busy, Places, Threads
  <2>5. ReadyFor(j)' /\ RunningFor(j)'
    BY <1>1, <1>3, <1>5, <2>3, <2>4 DEF IInv, JobInv, ReadyFor, RunningFor, Places
  <2>6. ClaimFor(j)' /\ AccountFor(j)'
    BY <1>4, <1>5, <2>1, <2>2 DEF IInv, JobInv, ClaimFor, AccountFor, Threads
  <2>7. DoneFor(j)' /\ PostedFor(j)'
    BY <1>1, <1>5, <2>1, <2>3, <2>4 DEF IInv, JobInv, DoneFor, PostedFor, Finished, Refused, Places
  <2>8. SeenFor(j)' /\ LoopFor(j)'
    BY <1>1, <1>3, <1>5, <2>1, <2>3 DEF IInv, JobInv, SeenFor, LoopFor, Places, Threads
  <2>9. QED BY <2>5, <2>6, <2>7, <2>8 DEF JobInv
<1>6. HeldInOne'
  BY DEF IInv, HeldInOne, Live
<1>7. IsInjective(ready') /\ IsInjective(running')
  BY DEF IInv
<1>8. QED BY <1>5, <1>6, <1>7 DEF IInv

LEMMA NextInv ==
    ASSUME ~Recycle
    PROVE  Typed /\ IInv /\ [Next]_vars => (Typed /\ IInv)'
<1> SUFFICES ASSUME Typed, IInv, [Next]_vars PROVE Typed' /\ IInv'
  OBVIOUS
<1>1. Typed'
  BY NextTypes
<1>2. CASE \E t \in Threads : Step(t)
  BY <1>1, <1>2, StepInv
<1>3. CASE UNCHANGED vars
  BY <1>1, <1>3, StutterInv
<1>4. QED BY <1>2, <1>3 DEF Next, Rest

LEMMA Invariant ==
    ASSUME ~Recycle
    PROVE  Spec => [](Typed /\ IInv)
<1>1. Init => Typed /\ IInv
  BY InitTypes, InitInv
<1>2. Typed /\ IInv /\ [Next]_vars => (Typed /\ IInv)'
  BY NextInv
<1>3. QED BY <1>1, <1>2, PTL DEF Spec

------------------------------------------------------------------------------
(* What the invariant says of the properties that are model-checked.       *)
LEMMA OnIsWorking ==
    ASSUME Typed, NEW j, NEW pcs
    PROVE  Working(j, pcs) <=> \E pc \in pcs : On(j, pc)
<1>1. \A t \in Threads : FramesOf(t) = {stack[t][i] : i \in 1..Len(stack[t])}
  <2>1. SUFFICES ASSUME NEW t \in Threads PROVE FramesOf(t) = {stack[t][i] : i \in 1..Len(stack[t])}
    OBVIOUS
  <2>2. DOMAIN stack[t] = 1..Len(stack[t])
    BY TopFacts, LenProperties DEF Typed
  <2>3. QED BY <2>2 DEF FramesOf, ToSet
<1>2. ASSUME Working(j, pcs) PROVE \E pc \in pcs : On(j, pc)
  <2>1. PICK f \in Frames : f.job = j /\ f.pc \in pcs
    BY <1>2 DEF Working
  <2>2. PICK t \in Threads : f \in FramesOf(t)
    BY <2>1 DEF Frames
  <2>3. \E i \in 1..Len(stack[t]) : f = stack[t][i]
    BY <1>1, <2>2
  <2>4. On(j, f.pc)
    BY <2>1, <2>3 DEF On
  <2>5. QED BY <2>1, <2>4
<1>3. ASSUME NEW pc \in pcs, On(j, pc) PROVE Working(j, pcs)
  <2>0. PICK t \in Threads : \E i \in 1..Len(stack[t]) : stack[t][i].job = j /\ stack[t][i].pc = pc
    BY <1>3 DEF On
  <2>1. PICK i \in 1..Len(stack[t]) : stack[t][i].job = j /\ stack[t][i].pc = pc
    BY <2>0
  <2>2. stack[t][i] \in FramesOf(t)
    BY <1>1
  <2>3. stack[t][i] \in Frames
    BY <2>2 DEF Frames
  <2>4. QED BY <2>1, <2>3 DEF Working
<1>4. QED BY <1>2, <1>3

LEMMA ListedFromInv == Typed /\ IInv => ListedJobsLive
<1> SUFFICES ASSUME Typed, IInv PROVE ListedJobsLive
  OBVIOUS
<1>1. ready \in Seq(Jobs) /\ running \in Seq(Jobs) /\ IsInjective(ready) /\ IsInjective(running)
  BY DEF Typed, DataOK, IInv
<1>2. ToSet(ready) \subseteq Jobs /\ ToSet(running) \subseteq Jobs
  BY <1>1 DEF ToSet
<1>3. Listed \subseteq Live
  BY <1>2 DEF IInv, JobInv, ReadyFor, RunningFor, Untaken, Quiet, Listed, Live
<1>4. ToSet(ready) \cap ToSet(running) = {}
  BY <1>2 DEF IInv, JobInv, RunningFor, Untaken
<1>5. IsInjective(ready \o running)
  <2> DEFINE s == ready \o running
  <2>1. /\ Len(ready) \in Nat /\ Len(running) \in Nat
        /\ DOMAIN ready = 1..Len(ready) /\ DOMAIN running = 1..Len(running)
        /\ DOMAIN s = 1..Len(ready) + Len(running)
        /\ \A i \in 1..Len(ready) + Len(running) :
              s[i] = IF i <= Len(ready) THEN ready[i] ELSE running[i - Len(ready)]
    BY <1>1, LenProperties, ConcatProperties
  <2> HIDE DEF s
  <2>2. \A i \in 1..Len(ready), k \in 1..Len(running) : ready[i] # running[k]
    BY <1>4, <2>1 DEF ToSet
  <2>3. /\ \A i, k \in 1..Len(ready) : ready[i] = ready[k] => i = k
        /\ \A i, k \in 1..Len(running) : running[i] = running[k] => i = k
    BY <1>1, <2>1 DEF IsInjective
  <2>4. SUFFICES ASSUME NEW i \in 1..Len(ready) + Len(running), NEW k \in 1..Len(ready) + Len(running),
                        s[i] = s[k]
                 PROVE  i = k
    BY <2>1 DEF IsInjective, s
  <2>5. CASE i <= Len(ready) /\ k <= Len(ready)
    BY <2>1, <2>3, <2>4, <2>5
  <2>6. CASE i > Len(ready) /\ k > Len(ready)
    <3>1. i - Len(ready) \in 1..Len(running) /\ k - Len(ready) \in 1..Len(running)
      BY <2>1, <2>6
    <3>2. running[i - Len(ready)] = running[k - Len(ready)]
      BY <2>1, <2>4, <2>6
    <3>3. i - Len(ready) = k - Len(ready)
      BY <2>3, <3>1, <3>2
    <3>4. QED BY <2>1, <3>3
  <2>7. CASE i <= Len(ready) /\ k > Len(ready)
    <3>1. i \in 1..Len(ready) /\ k - Len(ready) \in 1..Len(running)
      BY <2>1, <2>7
    <3>2. ready[i] = running[k - Len(ready)]
      BY <2>1, <2>4, <2>7
    <3>3. QED BY <2>2, <3>1, <3>2
  <2>8. CASE i > Len(ready) /\ k <= Len(ready)
    <3>1. k \in 1..Len(ready) /\ i - Len(ready) \in 1..Len(running)
      BY <2>1, <2>8
    <3>2. ready[k] = running[i - Len(ready)]
      BY <2>1, <2>4, <2>8
    <3>3. QED BY <2>2, <3>1, <3>2
  <2>9. QED BY <2>1, <2>5, <2>6, <2>7, <2>8
<1>6. QED BY <1>3, <1>5 DEF ListedJobsLive

LEMMA AccountedFromInv == Typed /\ IInv => BatchesAccounted
BY DEF IInv, JobInv, AccountFor, BatchesAccounted, Loops, Live

LEMMA PostedFromInv == Typed /\ IInv => CompletionPosted
<1> SUFFICES ASSUME Typed, IInv, NEW j \in Live, IsDone(j), ~(job[j].sem > 0)
             PROVE  \/ Working(j, {"collect", "destroy"})
                    \/ Working(j, {"exec", "isdone", "unlist", "todone", "post"})
  BY DEF CompletionPosted
<1>1. j \in Jobs /\ job[j].live /\ job[j].sem = 0
  BY JobTypes DEF Live, Typed
<1>2. \/ On(j, "collect") \/ On(j, "destroy") \/ On(j, "exec")
      \/ On(j, "isdone") \/ On(j, "unlist") \/ On(j, "todone") \/ On(j, "post")
  BY <1>1 DEF IInv, JobInv, PostedFor
<1>3. /\ Working(j, {"collect", "destroy"}) <=> \E pc \in {"collect", "destroy"} : On(j, pc)
      /\ Working(j, {"exec", "isdone", "unlist", "todone", "post"})
           <=> \E pc \in {"exec", "isdone", "unlist", "todone", "post"} : On(j, pc)
  BY OnIsWorking
<1>4. QED BY <1>2, <1>3

LEMMA SeenFromInv ==
    Typed /\ IInv /\ (failures = 0 \/ Cardinality(Workers) = 1) => NoJobLost
<1> SUFFICES ASSUME Typed, IInv, failures = 0 \/ Cardinality(Workers) = 1,
                    NEW j \in Live, HasWork(j), j \notin Listed
             PROVE  \/ Working(j, {"addready", "move", "exec"})
                    \/ failures > 0 /\ Working(j, {"notify", "help", "destroy"})
  BY DEF NoJobLost
<1>1. j \in Jobs /\ job[j].live /\ j \notin ToSet(ready) /\ j \notin ToSet(running)
  BY DEF Live, Listed
<1>2. /\ Working(j, {"addready", "move", "exec"}) <=> \E pc \in {"addready", "move", "exec"} : On(j, pc)
      /\ Working(j, {"notify", "help", "destroy"}) <=> \E pc \in {"notify", "help", "destroy"} : On(j, pc)
  BY OnIsWorking
<1>3. \A t \in Threads : On(MyJob(t), Top(t).pc)
  BY OnTop
<1>4. CASE Untaken(j)
  BY <1>1, <1>2, <1>3, <1>4 DEF Untaken, Hands
<1>5. CASE ~Untaken(j)
  <2>1. /\ failures > 0
        /\ Cardinality(Workers) = 1 =>
             \/ On(j, "exec") \/ On(j, "help") \/ On(j, "destroy")
             \/ \E t \in WThreads : Waking(t, j)
    BY <1>1, <1>5 DEF IInv, JobInv, SeenFor
  <2>2. Cardinality(Workers) = 1
    BY <2>1
  <2>3. (\E t \in WThreads : Waking(t, j)) => On(j, "notify")
    BY <1>3 DEF Waking, Threads
  <2>4. QED BY <1>2, <2>1, <2>2, <2>3
<1>6. QED BY <1>4, <1>5

(* batches_done is exact, for any number of workers, jobs and nested       *)
(* calls: every batch claimed is counted or in the hands of one thread,    *)
(* and each batch claimed has been run exactly once.  The code has no lock *)
(* around the claim and the count.                                         *)
THEOREM BatchesAlwaysAccounted ==
    ASSUME ~Recycle
    PROVE  Spec => []BatchesAccounted
BY Invariant, AccountedFromInv, PTL

(* Whichever of several finishers takes a job off the running list and     *)
(* whenever its waiter frees it, the lists of the scheduler hold no freed  *)
(* job, and none twice.                                                    *)
THEOREM ListedJobsAlwaysLive ==
    ASSUME ~Recycle
    PROVE  Spec => []ListedJobsLive
BY Invariant, ListedFromInv, PTL

(* No completion is lost: a job that is done and not collected has its     *)
(* token or a thread on the way to post it, also where the thread that     *)
(* counted the last batch is not the one that finds the job done.          *)
THEOREM CompletionAlwaysPosted ==
    ASSUME ~Recycle
    PROVE  Spec => []CompletionPosted
BY Invariant, PostedFromInv, PTL

(* No job is lost, whatever functions call and however threads interleave: *)
(* one with work nobody has taken is on a list or with a thread about to   *)
(* list it or to run it.  Where an allocation may fail this is so with one *)
(* worker only, whose thread that could not list the job runs all of it:   *)
(* with more, it runs one batch and forgets the rest.                      *)
THEOREM NoJobEverLost ==
    ASSUME ~Recycle, MaxFailures = 0 \/ Cardinality(Workers) = 1
    PROVE  Spec => []NoJobLost
<1>1. Typed => failures = 0 \/ Cardinality(Workers) = 1
  BY SchedAssumption DEF Typed, DataOK
<1>2. Typed /\ IInv => NoJobLost
  BY <1>1, SeenFromInv
<1>3. QED BY <1>2, Invariant, PTL
====
