---------------------------- MODULE FlyBlockDetect ----------------------------
(***************************************************************************)
(* How the library guesses that user code blocks a thread of a worker, so  *)
(* that it wakes the worker's other thread: fly_thread.c and               *)
(* fly_worker_update, for one worker.  What a guess is used for, and that  *)
(* it does not matter for safety, is in FlySched (Notify).                 *)
(*                                                                         *)
(* A thread marks itself in thread->state when it waits for work or for a  *)
(* lock of the library (fly_sem_wait, fly_mrswlock_rlock, _wlock).  The    *)
(* update thread reads what the kernel says of the thread and merges it    *)
(* into the same field, with loads and stores that nothing orders against  *)
(* the thread's own.                                                       *)
(***************************************************************************)
EXTENDS Naturals, FiniteSets

CONSTANTS Main, Backup  \* the threads of the worker

Threads == {Main, Backup}

VARIABLES
    state,      \* thread->state of each thread, as the set of its bits
    at,         \* what each thread is doing
    file,       \* its /proc file: not opened (thread->fd is -1), opened, read
    blocked,    \* mblocked and bblocked
    look,       \* the update thread: the thread it looks at, and how far it is
    disturbed   \* a look overlapped the last write the thread made to its
                \* state (history)

vars == <<state, at, file, blocked, look, disturbed>>

(* FLY_THREAD_CLEAR_OS_BITS_MASK is 7, the bits a thread sets of itself.   *)
OSBits == {"CLIENT_RUNNING", "CLIENT_ISLEEP", "CLIENT_USLEEP", "TRAPPED"}
Bits   == {"IDLE", "RUNNING", "SLEEP"} \cup OSBits

(* A look: its step, the value of the state it works with, whether it got  *)
(* a valid fd, the letter it found, whether that came from the first read  *)
(* of the file and whether the thread was blocked at that moment (both     *)
(* history), and its verdict.                                              *)
LookAt(t) == [thread |-> t, step |-> "load", state |-> {}, fd |-> FALSE,
              letter |-> "none", first |-> FALSE, was |-> FALSE, verdict |-> FALSE]

Init ==
    /\ state = [t \in Threads |-> {"IDLE"}]
    /\ at = [t \in Threads |-> "born"]
    /\ file = [t \in Threads |-> "none"]
    /\ blocked = [t \in Threads |-> FALSE]
    /\ look = LookAt(Main)
    /\ disturbed = [t \in Threads |-> FALSE]

(***************************************************************************)
(* A thread of the worker                                                  *)
(***************************************************************************)
Looking(t) == look.thread = t /\ look.step # "load"
Writes(t, bits) ==
    /\ state' = [state EXCEPT ![t] = bits]
    /\ disturbed' = [disturbed EXCEPT ![t] = Looking(t)]
Moves(t, from, to) == at[t] = from /\ at' = [at EXCEPT ![t] = to]

(* fly_thread_wrap_func                                                    *)
Begin(t) ==
    /\ Moves(t, "born", "opening")
    /\ Writes(t, {"RUNNING"})
    /\ UNCHANGED <<file, blocked, look>>

Open(t) ==
    /\ Moves(t, "opening", "running")
    /\ \E f \in {"none", "opened"} : file' = [file EXCEPT ![t] = f]
    /\ UNCHANGED <<state, blocked, look, disturbed>>

(* fly_sem_wait, fly_mrswlock_rlock and _wlock: before and after the wait. *)
MarkSleep(t) ==
    /\ Moves(t, "running", "waiting")
    /\ Writes(t, {"SLEEP"})
    /\ UNCHANGED <<file, blocked, look>>

Granted(t) ==
    /\ Moves(t, "waiting", "woken")
    /\ UNCHANGED <<state, file, blocked, look, disturbed>>

AfterWaitAsleep == {"SLEEP"}
AfterWait == {"RUNNING"}
Unmark(t) ==
    /\ Moves(t, "woken", "running")
    /\ Writes(t, AfterWait)
    /\ UNCHANGED <<file, blocked, look>>

(* The thread sleeps in the kernel without a mark: in the user's function, *)
(* or in a wait of the library that is not tracked.                        *)
Block(t) ==
    /\ Moves(t, "running", "blocked") \/ Moves(t, "blocked", "running")
    /\ UNCHANGED <<state, file, blocked, look, disturbed>>

(***************************************************************************)
(* The update thread: fly_worker_update, over and over                     *)
(***************************************************************************)
MaskedRunning(bits) == bits \cap {"IDLE", "RUNNING"}
Unmasked(bits) == bits
Masked(bits) == bits \ OSBits

Step(step) == look.step = step /\ UNCHANGED <<at, disturbed>>
Me == look.thread

(* thread->state &= FLY_THREAD_CLEAR_OS_BITS_MASK                          *)
Load ==
    /\ Step("load")
    /\ look' = [look EXCEPT !.step = "mask", !.state = Masked(state[Me])]
    /\ UNCHANGED <<state, file, blocked>>

StoreMasked ==
    /\ Step("mask")
    /\ state' = [state EXCEPT ![Me] = look.state]
    /\ look' = [look EXCEPT !.step = "reload"]
    /\ UNCHANGED <<file, blocked>>

(* The arguments of get_thread_state: the fd, and the state, which the     *)
(* compiler may load again or take from what it has just stored.           *)
Reload ==
    /\ Step("reload")
    /\ \E bits \in {look.state, state[Me]} :
           look' = [look EXCEPT !.step = "read", !.state = bits, !.fd = file[Me] # "none"]
    /\ UNCHANGED <<state, file, blocked>>

(* What the kernel says of a thread when the file is read first.  The file *)
(* is never rewound: a later read finds other lines of it or its end, and  *)
(* the letter is whatever is there or was on the stack before.             *)
Letters == {"D", "R", "S", "T", "other"}
TrueLetters(t) ==
    CASE at[t] = "blocked" -> {"D", "S", "T"}
      [] at[t] = "waiting" -> {"R", "S", "T"}
      [] OTHER             -> {"R", "T"}

BitOf(letter) ==
    CASE letter = "D" -> {"CLIENT_USLEEP"}
      [] letter = "S" -> {"CLIENT_ISLEEP"}
      [] letter = "R" -> {"RUNNING"}
      [] letter = "T" -> {"TRAPPED"}
      [] OTHER        -> {}

(* get_thread_state: a read that fails leaves the expected state.          *)
Read ==
    /\ Step("read")
    /\ \/ /\ ~look.fd
          /\ look' = [look EXCEPT !.step = "store"]
          /\ UNCHANGED file
       \/ /\ look.fd
          /\ \E letter \in IF file[Me] = "opened" THEN TrueLetters(Me) ELSE Letters :
                 look' = [look EXCEPT !.step = "store", !.letter = letter,
                                      !.state = @ \cup BitOf(letter),
                                      !.first = file[Me] = "opened",
                                      !.was = at[Me] = "blocked"]
          /\ file' = [file EXCEPT ![Me] = "read"]
    /\ UNCHANGED <<state, blocked>>

(* fly_thread_is_client_block                                              *)
LooksAsleep(bits) == bits \cap {"CLIENT_ISLEEP", "CLIENT_USLEEP"} # {}
IsClientBlock(bits) == LooksAsleep(bits) /\ "SLEEP" \notin bits

Store ==
    /\ Step("store")
    /\ state' = [state EXCEPT ![Me] = look.state]
    /\ look' = [look EXCEPT !.step = "judge"]
    /\ UNCHANGED <<file, blocked>>

(* The value fly_thread_get_state returns, loaded again or not, and the    *)
(* test of it.                                                             *)
Judge ==
    /\ Step("judge")
    /\ \E bits \in {look.state, state[Me]} :
           look' = [look EXCEPT !.step = "verdict", !.state = bits,
                                !.verdict = IsClientBlock(bits)]
    /\ UNCHANGED <<state, file, blocked>>

Conclude ==
    /\ Step("verdict")
    /\ blocked' = [blocked EXCEPT ![Me] = look.verdict]
    /\ look' = LookAt(IF Me = Main THEN Backup ELSE Main)
    /\ UNCHANGED <<state, file>>

Look == Load \/ StoreMasked \/ Reload \/ Read \/ Store \/ Judge \/ Conclude

Own(t) == Begin(t) \/ Open(t) \/ MarkSleep(t) \/ Granted(t) \/ Unmark(t) \/ Block(t)

Next == (\E t \in Threads : Own(t)) \/ Look

Spec == Init /\ [][Next]_vars

------------------------------------------------------------------------------
TypeOK ==
    /\ state \in [Threads -> SUBSET Bits]
    /\ at \in [Threads -> {"born", "opening", "running", "waiting", "woken", "blocked"}]
    /\ file \in [Threads -> {"none", "opened", "read"}]
    /\ blocked \in [Threads -> BOOLEAN]
    /\ look \in [thread : Threads, letter : Letters \cup {"none"}, state : SUBSET Bits,
                 step : {"load", "mask", "reload", "read", "store", "judge", "verdict"},
                 fd : BOOLEAN, first : BOOLEAN, was : BOOLEAN, verdict : BOOLEAN]
    /\ look.step \in {"load", "mask"} => look.state \cap OSBits = {}
    /\ disturbed \in [Threads -> BOOLEAN]

(* The mark is lost only one way: unless a look overlapped the thread's    *)
(* last write, SLEEP is set exactly while the thread waits for work or for *)
(* a lock, however many looks have been made since.                        *)
MarkRight ==
    \A t \in Threads : ~disturbed[t] =>
        ("SLEEP" \in state[t] <=> at[t] \in {"waiting", "woken"})

(* A verdict rests on its own look: a thread is taken for blocked only if  *)
(* this look found it asleep, never on what an earlier look left behind,   *)
(* and not before its file could be read.                                  *)
VerdictOfThisLook ==
    /\ look.step = "verdict" /\ look.verdict => look.letter \in {"S", "D"}
    /\ \A t \in Threads : blocked[t] => file[t] = "read"

(* As long as the file tells the truth, which it does once, and no write   *)
(* of the thread is overlapped, a thread taken for blocked was blocked, in *)
(* user code or an untracked wait, and not merely waiting for work.        *)
FirstLookTrue ==
    look.step = "verdict" /\ look.verdict /\ look.first /\ ~disturbed[Me] => look.was
==============================================================================
