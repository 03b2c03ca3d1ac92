------------------------- MODULE FlyBlockDetect_proofs ------------------------
(***************************************************************************)
(* The guess that a thread is blocked, proved: what the update thread and  *)
(* the thread itself may do to thread->state between each other's loads    *)
(* and stores without losing the mark or passing on an old verdict.        *)
(***************************************************************************)
EXTENDS FlyBlockDetect, TLAPS

Waiting(t) == at[t] \in {"waiting", "woken"}

(* The copy of the state a look works with has the mark too, as long as    *)
(* the thread has not written since the look began.                        *)
CopyRight ==
    look.step # "load" /\ ~disturbed[Me] => ("SLEEP" \in look.state <=> Waiting(Me))

(* Where the bits of the kernel's verdict come from: this look's read.     *)
Asleep == look.letter \in {"S", "D"}
BitsOfThisLook ==
    /\ look.step \in {"mask", "reload", "read"} => ~LooksAsleep(look.state)
    /\ look.step \in {"reload", "read", "store"} => ~LooksAsleep(state[Me])
    /\ look.step \in {"store", "judge", "verdict"} /\ LooksAsleep(look.state) => Asleep
    /\ look.step = "judge" /\ LooksAsleep(state[Me]) => Asleep
    /\ look.step = "verdict" => look.verdict = IsClientBlock(look.state)
    /\ look.step \in {"load", "mask", "reload", "read"} => look.letter = "none"

(* A file is read only once it is open, and a thread opens it once.        *)
FileRight ==
    /\ \A t \in Threads : at[t] \in {"born", "opening"} => file[t] = "none"
    /\ look.step = "read" /\ look.fd => file[Me] # "none"
    /\ Asleep => file[Me] = "read"
    /\ \A t \in Threads : blocked[t] => file[t] = "read"

(* A thread the first read found asleep was blocked, or still waits.       *)
FoundRight ==
    Asleep /\ look.first /\ ~disturbed[Me] => look.was \/ Waiting(Me)

IInv == TypeOK /\ MarkRight /\ CopyRight /\ BitsOfThisLook /\ FileRight /\ FoundRight

LookSet == [thread : Threads, letter : Letters \cup {"none"}, state : SUBSET Bits,
            step : {"load", "mask", "reload", "read", "store", "judge", "verdict"},
            fd : BOOLEAN, first : BOOLEAN, was : BOOLEAN, verdict : BOOLEAN]

(* A thread's own write: no bit of the kernel's, and the mark as given.    *)
LEMMA WriteInv ==
    ASSUME IInv, NEW t \in Threads, NEW bits \in {{"RUNNING"}, {"SLEEP"}}, Writes(t, bits),
           NEW from, NEW to \in {"opening", "waiting", "running"}, Moves(t, from, to),
           to = "waiting" <=> bits = {"SLEEP"}, to = "opening" => from = "born",
           UNCHANGED <<file, blocked, look>>
    PROVE  IInv'
<1>1. /\ state' = [state EXCEPT ![t] = bits] /\ disturbed' = [disturbed EXCEPT ![t] = Looking(t)]
      /\ at' = [at EXCEPT ![t] = to] /\ at[t] = from /\ look \in LookSet
      /\ file' = file /\ blocked' = blocked /\ look' = look
  BY DEF Writes, Moves, IInv, TypeOK, LookSet
<1>2. /\ bits \in SUBSET Bits /\ ~LooksAsleep(bits) /\ ("SLEEP" \in bits <=> to = "waiting")
  BY DEF Bits, OSBits, LooksAsleep
<1>3. Looking(t) \in BOOLEAN
  BY DEF Looking
<1>4. TypeOK'
  BY <1>1, <1>2, <1>3 DEF IInv, TypeOK
<1>5. MarkRight'
  BY <1>1, <1>2 DEF IInv, TypeOK, MarkRight
<1>6. Me \in Threads /\ Me' = Me
  BY <1>1 DEF LookSet, Me
<1>7. CopyRight'
  <2>1. CASE Me = t
    <3>1. look.step # "load" => disturbed'[Me]
      BY <1>1, <2>1 DEF Looking, Me, IInv, TypeOK
    <3>2. QED BY <1>1, <1>6, <3>1 DEF CopyRight
  <2>2. CASE Me # t
    BY <1>1, <1>6, <2>2 DEF IInv, TypeOK, CopyRight, Waiting
  <2>3. QED BY <2>1, <2>2
<1>8. BitsOfThisLook'
  <2>1. LooksAsleep(state'[Me]) => LooksAsleep(state[Me])
    BY <1>1, <1>2, <1>6 DEF IInv, TypeOK
  <2>2. QED BY <1>1, <1>6, <2>1 DEF IInv, BitsOfThisLook, Asleep, LooksAsleep, IsClientBlock
<1>9. FileRight'
  BY <1>1, <1>6 DEF IInv, TypeOK, FileRight, Asleep
<1>10. FoundRight'
  <2>1. CASE Me = t
    <3>1. Asleep => look.step # "load"
      BY DEF IInv, BitsOfThisLook, Asleep
    <3>2. Asleep => disturbed'[Me]
      BY <1>1, <2>1, <3>1 DEF Looking, Me, IInv, TypeOK
    <3>3. QED BY <1>1, <1>6, <3>2 DEF FoundRight, Asleep
  <2>2. CASE Me # t
    BY <1>1, <1>6, <2>2 DEF IInv, TypeOK, FoundRight, Waiting, Asleep
  <2>3. QED BY <2>1, <2>2
<1>11. QED BY <1>4, <1>5, <1>7, <1>8, <1>9, <1>10 DEF IInv

(* A thread that goes on without writing its state keeps or gets no mark.  *)
LEMMA MoveInv ==
    ASSUME IInv, NEW t \in Threads, NEW from, NEW to, Moves(t, from, to),
           \/ from = "waiting" /\ to = "woken"
           \/ {from, to} = {"running", "blocked"}
           \/ from = "opening" /\ to = "running",
           NEW f \in {"none", "opened"},
           file' = IF from = "opening" THEN [file EXCEPT ![t] = f] ELSE file,
           UNCHANGED <<state, blocked, look, disturbed>>
    PROVE  IInv'
<1>1. /\ at' = [at EXCEPT ![t] = to] /\ at[t] = from /\ look \in LookSet
      /\ state' = state /\ disturbed' = disturbed /\ blocked' = blocked /\ look' = look
      /\ Me \in Threads /\ Me' = Me
  BY DEF Moves, IInv, TypeOK, LookSet, Me
<1>2. /\ from \in {"waiting", "woken"} <=> to \in {"waiting", "woken"}
      /\ to \in {"woken", "running", "blocked"}
  OBVIOUS
<1>3. \A u \in Threads : Waiting(u)' <=> Waiting(u)
  BY <1>1, <1>2 DEF IInv, TypeOK, Waiting
<1>4. \A u \in Threads : file[u] # "none" => file'[u] = file[u]
  BY <1>1 DEF IInv, TypeOK, FileRight
<1>5. TypeOK'
  BY <1>1, <1>2 DEF IInv, TypeOK
<1>6. MarkRight' /\ CopyRight' /\ FoundRight'
  BY <1>1, <1>3 DEF IInv, MarkRight, CopyRight, FoundRight, Waiting, Asleep
<1>7. BitsOfThisLook'
  BY <1>1 DEF IInv, BitsOfThisLook, Asleep, LooksAsleep, IsClientBlock
<1>8. FileRight'
  BY <1>1, <1>2, <1>4 DEF IInv, TypeOK, FileRight, Asleep
<1>9. QED BY <1>5, <1>6, <1>7, <1>8 DEF IInv

LEMMA OwnInv == ASSUME IInv, NEW t \in Threads, Own(t) PROVE IInv'
<1>1. CASE Begin(t)
  BY <1>1, WriteInv DEF Begin
<1>2. CASE Open(t)
  BY <1>2, MoveInv DEF Open
<1>3. CASE MarkSleep(t)
  BY <1>3, WriteInv DEF MarkSleep
<1>4. CASE Granted(t)
  BY <1>4, MoveInv DEF Granted
<1>5. CASE Unmark(t)
  BY <1>5, WriteInv DEF Unmark, AfterWait
<1>6. CASE Block(t)
  <2>1. "blocked" # "opening" /\ {"blocked", "running"} = {"running", "blocked"}
    OBVIOUS
  <2>2. CASE Moves(t, "running", "blocked")
    BY <1>6, <2>2, MoveInv DEF Block
  <2>3. CASE Moves(t, "blocked", "running")
    BY <1>6, <2>1, <2>3, MoveInv DEF Block
  <2>4. QED BY <1>6, <2>2, <2>3 DEF Block
<1>7. QED BY <1>1, <1>2, <1>3, <1>4, <1>5, <1>6 DEF Own

(* The update thread.  A store puts back a copy that still has the mark    *)
(* right, or a write of the thread overlapped the look.                    *)
LEMMA LookTypes ==
    ASSUME IInv
    PROVE  look \in LookSet /\ Me \in Threads /\ Me = look.thread
BY DEF IInv, TypeOK, LookSet, Me

LEMMA LoadInv == ASSUME IInv, Load PROVE IInv'
<1> DEFINE bits == Masked(state[Me])
<1>1. /\ look.step = "load" /\ look' = [look EXCEPT !.step = "mask", !.state = bits]
      /\ UNCHANGED <<state, file, blocked, at, disturbed>>
  BY DEF Load, Step
<1>2. /\ bits \in SUBSET Bits /\ bits \cap OSBits = {} /\ ~LooksAsleep(bits)
      /\ "SLEEP" \in bits <=> "SLEEP" \in state[Me]
  BY LookTypes DEF IInv, TypeOK, Masked, LooksAsleep, OSBits
<1> HIDE DEF bits
<1>3. look' \in LookSet /\ look'.step = "mask" /\ look'.state = bits /\ Me' = Me
      /\ look'.letter = look.letter /\ look'.first = look.first /\ look'.was = look.was
  BY <1>1, <1>2, LookTypes DEF LookSet, Me
<1>4. TypeOK'
  BY <1>1, <1>2, <1>3 DEF IInv, TypeOK, LookSet
<1>5. MarkRight' /\ CopyRight'
  BY <1>1, <1>2, <1>3, LookTypes DEF IInv, MarkRight, CopyRight, Waiting
<1>6. BitsOfThisLook'
  BY <1>1, <1>2, <1>3 DEF IInv, BitsOfThisLook, LooksAsleep
<1>7. FileRight' /\ FoundRight'
  BY <1>1, <1>3 DEF IInv, FileRight, FoundRight, Asleep, Waiting
<1>8. QED BY <1>4, <1>5, <1>6, <1>7 DEF IInv

LEMMA StoreMaskedInv == ASSUME IInv, StoreMasked PROVE IInv'
<1>1. /\ look.step = "mask" /\ look' = [look EXCEPT !.step = "reload"]
      /\ state' = [state EXCEPT ![Me] = look.state]
      /\ UNCHANGED <<file, blocked, at, disturbed>>
  BY DEF StoreMasked, Step
<1>2. look' \in LookSet /\ look'.step = "reload" /\ look'.state = look.state /\ Me' = Me
      /\ look'.letter = look.letter /\ look'.first = look.first /\ look'.was = look.was
  BY <1>1, LookTypes DEF LookSet, Me
<1>3. /\ state' \in [Threads -> SUBSET Bits] /\ state'[Me] = look.state
      /\ \A t \in Threads : t # Me => state'[t] = state[t]
  BY <1>1, LookTypes DEF IInv, TypeOK, LookSet
<1>4. TypeOK'
  BY <1>1, <1>2, <1>3 DEF IInv, TypeOK, LookSet
<1>5. MarkRight' /\ CopyRight'
  BY <1>1, <1>2, <1>3, LookTypes DEF IInv, MarkRight, CopyRight, Waiting
<1>6. BitsOfThisLook'
  BY <1>1, <1>2, <1>3 DEF IInv, BitsOfThisLook, LooksAsleep
<1>7. FileRight' /\ FoundRight'
  BY <1>1, <1>2 DEF IInv, FileRight, FoundRight, Asleep, Waiting
<1>8. QED BY <1>4, <1>5, <1>6, <1>7 DEF IInv

LEMMA ReloadInv == ASSUME IInv, Reload PROVE IInv'
<1>1. PICK bits \in {look.state, state[Me]} :
        look' = [look EXCEPT !.step = "read", !.state = bits, !.fd = file[Me] # "none"]
  BY DEF Reload
<1>2. look.step = "reload" /\ UNCHANGED <<state, file, blocked, at, disturbed>>
  BY DEF Reload, Step
<1>3. look' \in LookSet /\ look'.step = "read" /\ look'.state = bits /\ Me' = Me
      /\ look'.fd = (file[Me] # "none")
      /\ look'.letter = look.letter /\ look'.first = look.first /\ look'.was = look.was
  BY <1>1, LookTypes DEF LookSet, Me, IInv, TypeOK
<1>4. TypeOK'
  BY <1>2, <1>3 DEF IInv, TypeOK, LookSet
<1>5. MarkRight' /\ CopyRight'
  BY <1>1, <1>2, <1>3, LookTypes DEF IInv, MarkRight, CopyRight, Waiting
<1>6. BitsOfThisLook'
  BY <1>1, <1>2, <1>3 DEF IInv, BitsOfThisLook, LooksAsleep
<1>7. FileRight' /\ FoundRight'
  BY <1>2, <1>3 DEF IInv, FileRight, FoundRight, Asleep, Waiting
<1>8. QED BY <1>4, <1>5, <1>6, <1>7 DEF IInv

LEMMA ReadInv == ASSUME IInv, Read PROVE IInv'
<1>1. look.step = "read" /\ UNCHANGED <<state, blocked, at, disturbed>>
  BY DEF Read, Step
<1>2. CASE look' = [look EXCEPT !.step = "store"] /\ file' = file
  <2>1. look' \in LookSet /\ look'.step = "store" /\ look'.state = look.state /\ Me' = Me
        /\ look'.letter = look.letter /\ look'.first = look.first /\ look'.was = look.was
    BY <1>2, LookTypes DEF LookSet, Me
  <2>2. TypeOK'
    BY <1>1, <1>2, <2>1 DEF IInv, TypeOK, LookSet
  <2>3. MarkRight' /\ CopyRight' /\ BitsOfThisLook'
    BY <1>1, <2>1, LookTypes DEF IInv, MarkRight, CopyRight, Waiting, BitsOfThisLook, LooksAsleep
  <2>4. FileRight' /\ FoundRight'
    BY <1>1, <1>2, <2>1 DEF IInv, FileRight, FoundRight, Asleep, Waiting
  <2>5. QED BY <2>2, <2>3, <2>4 DEF IInv
<1>3. ASSUME look.fd,
             NEW letter \in IF file[Me] = "opened" THEN TrueLetters(Me) ELSE Letters,
             look' = [look EXCEPT !.step = "store", !.letter = letter,
                                  !.state = @ \cup BitOf(letter),
                                  !.first = file[Me] = "opened", !.was = at[Me] = "blocked"],
             file' = [file EXCEPT ![Me] = "read"]
      PROVE  IInv'
  <2>1. letter \in Letters /\ (file[Me] = "opened" => letter \in TrueLetters(Me))
    <3>1. TrueLetters(Me) \subseteq Letters
      BY DEF TrueLetters, Letters
    <3>2. QED BY <3>1
  <2>2. /\ BitOf(letter) \subseteq OSBits \cup {"RUNNING"}
        /\ LooksAsleep(BitOf(letter)) <=> letter \in {"S", "D"}
    BY <2>1 DEF BitOf, Letters, OSBits, LooksAsleep
  <2>3. /\ look.state \cup BitOf(letter) \in SUBSET Bits
        /\ "SLEEP" \in look.state \cup BitOf(letter) <=> "SLEEP" \in look.state
        /\ LooksAsleep(look.state \cup BitOf(letter)) <=>
             LooksAsleep(look.state) \/ letter \in {"S", "D"}
    BY <2>2, LookTypes DEF LookSet, Bits, OSBits, LooksAsleep
  <2>4. look' \in LookSet /\ look'.step = "store" /\ look'.state = look.state \cup BitOf(letter)
        /\ look'.letter = letter /\ look'.first = (file[Me] = "opened")
        /\ look'.was = (at[Me] = "blocked") /\ Me' = Me
    BY <1>3, <2>1, <2>3, LookTypes DEF LookSet, Me
  <2>5. /\ file' \in [Threads -> {"none", "opened", "read"}] /\ file'[Me] = "read"
        /\ \A t \in Threads : t # Me => file'[t] = file[t]
    BY <1>3, LookTypes DEF IInv, TypeOK
  <2>6. TypeOK'
    BY <1>1, <2>4, <2>5 DEF IInv, TypeOK, LookSet
  <2>7. MarkRight' /\ CopyRight'
    BY <1>1, <2>3, <2>4, LookTypes DEF IInv, MarkRight, CopyRight, Waiting
  <2>8. BitsOfThisLook'
    BY <1>1, <2>3, <2>4 DEF IInv, BitsOfThisLook, LooksAsleep, Asleep
  <2>9. FileRight'
    BY <1>1, <1>3, <2>4, <2>5, LookTypes DEF IInv, FileRight, Asleep
  <2>10. FoundRight'
    <3>1. SUFFICES ASSUME letter \in {"S", "D"}, file[Me] = "opened", at[Me] # "blocked"
                   PROVE  Waiting(Me)
      BY <1>1, <2>4 DEF FoundRight, Asleep, Waiting
    <3>2. at[Me] = "waiting"
      BY <2>1, <3>1 DEF TrueLetters
    <3>3. QED BY <3>2 DEF Waiting
  <2>11. QED BY <2>6, <2>7, <2>8, <2>9, <2>10 DEF IInv
<1>4. QED BY <1>2, <1>3 DEF Read

LEMMA StoreInv == ASSUME IInv, Store PROVE IInv'
<1>1. /\ look.step = "store" /\ look' = [look EXCEPT !.step = "judge"]
      /\ state' = [state EXCEPT ![Me] = look.state]
      /\ UNCHANGED <<file, blocked, at, disturbed>>
  BY DEF Store, Step
<1>2. look' \in LookSet /\ look'.step = "judge" /\ look'.state = look.state /\ Me' = Me
      /\ look'.letter = look.letter /\ look'.first = look.first /\ look'.was = look.was
  BY <1>1, LookTypes DEF LookSet, Me
<1>3. /\ state' \in [Threads -> SUBSET Bits] /\ state'[Me] = look.state
      /\ \A t \in Threads : t # Me => state'[t] = state[t]
  BY <1>1, LookTypes DEF IInv, TypeOK, LookSet
<1>4. TypeOK'
  BY <1>1, <1>2, <1>3 DEF IInv, TypeOK, LookSet
<1>5. MarkRight' /\ CopyRight'
  BY <1>1, <1>2, <1>3, LookTypes DEF IInv, MarkRight, CopyRight, Waiting
<1>6. BitsOfThisLook'
  BY <1>1, <1>2, <1>3 DEF IInv, BitsOfThisLook, LooksAsleep, Asleep
<1>7. FileRight' /\ FoundRight'
  BY <1>1, <1>2 DEF IInv, FileRight, FoundRight, Asleep, Waiting
<1>8. QED BY <1>4, <1>5, <1>6, <1>7 DEF IInv

LEMMA JudgeInv == ASSUME IInv, Judge PROVE IInv'
<1>1. PICK bits \in {look.state, state[Me]} :
        look' = [look EXCEPT !.step = "verdict", !.state = bits, !.verdict = IsClientBlock(bits)]
  BY DEF Judge
<1>2. look.step = "judge" /\ UNCHANGED <<state, file, blocked, at, disturbed>>
  BY DEF Judge, Step
<1>3. IsClientBlock(bits) \in BOOLEAN
  BY DEF IsClientBlock, LooksAsleep
<1>4. look' \in LookSet /\ look'.step = "verdict" /\ look'.state = bits /\ Me' = Me
      /\ look'.verdict = IsClientBlock(bits)
      /\ look'.letter = look.letter /\ look'.first = look.first /\ look'.was = look.was
  BY <1>1, <1>3, LookTypes DEF LookSet, Me, IInv, TypeOK
<1>5. TypeOK'
  BY <1>2, <1>4 DEF IInv, TypeOK, LookSet
<1>6. MarkRight' /\ CopyRight'
  BY <1>1, <1>2, <1>4, LookTypes DEF IInv, MarkRight, CopyRight, Waiting
<1>7. BitsOfThisLook'
  <2>1. LooksAsleep(bits) => Asleep
    BY <1>1, <1>2 DEF IInv, BitsOfThisLook
  <2>2. IsClientBlock(look'.state) = IsClientBlock(bits) /\ (LooksAsleep(look'.state) <=> LooksAsleep(bits))
    BY <1>4
  <2>3. QED BY <1>4, <2>1, <2>2 DEF BitsOfThisLook, Asleep, LooksAsleep, IsClientBlock
<1>8. FileRight' /\ FoundRight'
  BY <1>2, <1>4 DEF IInv, FileRight, FoundRight, Asleep, Waiting
<1>9. QED BY <1>5, <1>6, <1>7, <1>8 DEF IInv

LEMMA ConcludeInv == ASSUME IInv, Conclude PROVE IInv'
<1>1. /\ look.step = "verdict" /\ blocked' = [blocked EXCEPT ![Me] = look.verdict]
      /\ look' = LookAt(IF Me = Main THEN Backup ELSE Main)
      /\ UNCHANGED <<state, file, at, disturbed>>
  BY DEF Conclude, Step
<1>2. look' \in LookSet /\ look'.step = "load" /\ look'.letter = "none" /\ look'.state = {}
  BY <1>1 DEF LookAt, LookSet, Threads
<1>3. look.verdict => file[Me] = "read"
  BY <1>1 DEF IInv, BitsOfThisLook, FileRight, IsClientBlock
<1>4. blocked' \in [Threads -> BOOLEAN]
  BY <1>1, LookTypes DEF IInv, TypeOK, LookSet
<1>5. TypeOK'
  BY <1>1, <1>2, <1>4 DEF IInv, TypeOK, LookSet
<1>6. MarkRight' /\ CopyRight' /\ BitsOfThisLook' /\ FoundRight'
  BY <1>1, <1>2 DEF IInv, MarkRight, CopyRight, BitsOfThisLook, FoundRight, Asleep
<1>7. FileRight'
  BY <1>1, <1>2, <1>3, LookTypes DEF IInv, TypeOK, FileRight, Asleep
<1>8. QED BY <1>5, <1>6, <1>7 DEF IInv

LEMMA InitInv == Init => IInv
<1> SUFFICES ASSUME Init PROVE IInv
  OBVIOUS
<1>1. look \in LookSet /\ look.step = "load" /\ look.letter = "none" /\ look.state = {}
  BY DEF Init, LookAt, LookSet, Threads
<1>2. TypeOK
  BY <1>1 DEF Init, TypeOK, LookSet, Bits
<1>3. QED BY <1>1, <1>2
          DEF Init, IInv, MarkRight, CopyRight, BitsOfThisLook, FileRight, FoundRight, Asleep

LEMMA StutterInv == ASSUME IInv, UNCHANGED vars PROVE IInv'
<1> USE DEF vars
<1>1. TypeOK' /\ MarkRight'
  BY DEF IInv, TypeOK, MarkRight
<1>2. CopyRight' /\ FoundRight' /\ FileRight'
  BY DEF IInv, CopyRight, FoundRight, FileRight, Asleep, Waiting, Me
<1>3. BitsOfThisLook'
  BY DEF IInv, BitsOfThisLook, Asleep, LooksAsleep, IsClientBlock, Me
<1>4. QED BY <1>1, <1>2, <1>3 DEF IInv

LEMMA NextInv == IInv /\ [Next]_vars => IInv'
<1> SUFFICES ASSUME IInv, [Next]_vars PROVE IInv'
  OBVIOUS
<1>1. CASE \E t \in Threads : Own(t)
  BY <1>1, OwnInv
<1>2. CASE Look
  BY <1>2, LoadInv, StoreMaskedInv, ReloadInv, ReadInv, StoreInv, JudgeInv, ConcludeInv DEF Look
<1>3. CASE UNCHANGED vars
  BY <1>3, StutterInv
<1>4. QED BY <1>1, <1>2, <1>3 DEF Next

LEMMA Invariant == Spec => []IInv
BY InitInv, NextInv, PTL DEF Spec

(* Every variable of the block detection keeps its type, and the copy of   *)
(* the state a look starts from has none of the bits the kernel gives.     *)
THEOREM TypeCorrect == Spec => []TypeOK
<1>1. IInv => TypeOK
  BY DEF IInv
<1>2. QED BY <1>1, Invariant, PTL

(* The mark survives any number of looks: unless a look overlapped the     *)
(* thread's last write, SLEEP is set exactly while the thread waits.       *)
THEOREM MarkAlwaysRight == Spec => []MarkRight
<1>1. IInv => MarkRight
  BY DEF IInv
<1>2. QED BY <1>1, Invariant, PTL

(* A thread is taken for blocked only when the look under way found it     *)
(* asleep, though the bits of an earlier look stay in its state meanwhile, *)
(* and never before its file was read.                                     *)
THEOREM VerdictAlwaysOfThisLook == Spec => []VerdictOfThisLook
<1>1. IInv => VerdictOfThisLook
  BY DEF IInv, VerdictOfThisLook, BitsOfThisLook, FileRight, IsClientBlock, Asleep
<1>2. QED BY <1>1, Invariant, PTL

(* While the file tells the truth and no write is overlapped, a thread     *)
(* taken for blocked was blocked and not waiting for work.                 *)
THEOREM FirstLookAlwaysTrue == Spec => []FirstLookTrue
<1>1. IInv => FirstLookTrue
  BY DEF IInv, FirstLookTrue, BitsOfThisLook, CopyRight, FoundRight, IsClientBlock
<1>2. QED BY <1>1, Invariant, PTL
====
