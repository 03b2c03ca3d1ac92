----------------------------- MODULE FlyMemdebug ------------------------------
(***************************************************************************)
(* fly_memdebug.h with fly_default_malloc and fly_default_free of fly.c:   *)
(* in debug builds a table records each block between the malloc that      *)
(* hands it out and the free that takes it back, and fly_uninit prints it. *)
(*                                                                         *)
(* The calls of malloc and free and the two sections under fly_mem_lock    *)
(* are one action each: other threads come in between.  Sizes of blocks    *)
(* are left out, they stand in an array parallel to that of the pointers.  *)
(***************************************************************************)
EXTENDS Naturals, FiniteSets, SequencesExt

CONSTANTS
    Threads,
    Blocks,     \* the addresses malloc can hand out (bound)
    Null,
    Stray,      \* the garbage in memory that is no block's address
    StartSize,  \* FLY_MEM_START_ARR_SIZE
    MaxSize     \* realloc has no room for a longer table (bound)

ASSUME MemAssumption ==
    /\ IsFiniteSet(Blocks) /\ Null \notin Blocks /\ Stray \notin Blocks
    /\ Null # Stray
    /\ StartSize \in Nat \ {0} /\ MaxSize \in Nat

VARIABLES
    used,       \* the blocks malloc has handed out
    table,      \* fly_mem_ptrs[0 .. fly_mem_array_size - 1]
    overrun,    \* fly_mem_array_size exceeds the memory behind fly_mem_ptrs
    call        \* what each thread has still to do in fly_malloc or fly_free,
                \* and the block the call returns or was given

memvars == <<used, table, overrun, call>>

Garbage == Blocks \cup {Null, Stray}
NoCall  == [ptr |-> Null, todo |-> <<>>]

MemInit ==
    /\ used = {}
    /\ table = [i \in 1..StartSize |-> Null]
    /\ overrun = FALSE
    /\ call = [t \in Threads |-> NoCall]

Doing(t, step)  == ~overrun /\ call[t].todo # <<>> /\ Head(call[t].todo) = step
Finished(t)     == ~overrun /\ call[t].todo = <<>>
Then(t, p)      == call' = [call EXCEPT ![t] = [ptr |-> p, todo |-> Tail(@.todo)]]

(* fly_default_malloc; fly_default_free, with the order reversed before it *)
Allocating  == <<"malloc", "record">>
FreedFirst  == <<"free", "forget">>
Freeing     == <<"forget", "free">>

(* fly_mem_count_alloc_try_add from index i on: the first empty entry.     *)
EmptyFrom(tab, i) == {k \in i..Len(tab) : tab[k] = Null}
TryAdd(tab, i, p) ==
    LET empty == EmptyFrom(tab, i)
    IN IF empty = {} THEN tab ELSE [tab EXCEPT ![Min(empty)] = p]

(* The entries fly_mem_count_free clears: the first that holds p.          *)
NotTheLast(tab, p) == {i \in 1..(Len(tab) - 1) : tab[i] = p}
Holding(tab, p)    == {i \in DOMAIN tab : tab[i] = p}

(* Entering the call fly_malloc(size), fly_free(p) of thread t.            *)
StartMalloc(t)  == call' = [call EXCEPT ![t] = [ptr |-> Null, todo |-> Allocating]]
StartFree(t, p) == call' = [call EXCEPT ![t] = [ptr |-> p, todo |-> Freeing]]

Malloc(t) ==
    /\ Doing(t, "malloc")
    /\ \/ \E p \in Blocks \ used : used' = used \cup {p} /\ Then(t, p)
       \/ Then(t, Null) /\ UNCHANGED used
    /\ UNCHANGED <<table, overrun>>

(* fly_mem_count_alloc: nothing is recorded of a NULL.                     *)
Record(t) ==
    /\ Doing(t, "record")
    /\ \/ call[t].ptr = Null
       \/ EmptyFrom(table, 1) # {}
    /\ table' = IF call[t].ptr = Null THEN table ELSE TryAdd(table, 1, call[t].ptr)
    /\ Then(t, call[t].ptr)
    /\ UNCHANGED <<used, overrun>>

(* The table is full and doubled.  realloc leaves anything in the new      *)
(* half, so an entry there may look used, and a block go unrecorded.       *)
Grow(t) ==
    /\ Doing(t, "record") /\ call[t].ptr # Null
    /\ EmptyFrom(table, 1) = {} /\ 2 * Len(table) <= MaxSize
    /\ \E new \in [1..Len(table) -> Garbage] :
           table' = TryAdd(table \o new, Len(table) + 1, call[t].ptr)
    /\ Then(t, call[t].ptr)
    /\ UNCHANGED <<used, overrun>>

(* When realloc fails the old array stays and its size is doubled all the  *)
(* same: the next access is out of bounds, and the model stops.            *)
GrowFails(t) ==
    /\ Doing(t, "record") /\ call[t].ptr # Null
    /\ EmptyFrom(table, 1) = {}
    /\ overrun' = TRUE
    /\ UNCHANGED <<used, table, call>>

(* fly_mem_count_free                                                      *)
Forget(t) ==
    /\ Doing(t, "forget")
    /\ LET found == Holding(table, call[t].ptr)
       IN table' = IF found = {} THEN table ELSE [table EXCEPT ![Min(found)] = Null]
    /\ Then(t, call[t].ptr)
    /\ UNCHANGED <<used, overrun>>

Free(t) ==
    /\ Doing(t, "free")
    /\ used' = used \ {call[t].ptr}
    /\ Then(t, call[t].ptr)
    /\ UNCHANGED <<table, overrun>>

MemStep(t) == Malloc(t) \/ Record(t) \/ Grow(t) \/ GrowFails(t) \/ Forget(t) \/ Free(t)

------------------------------------------------------------------------------
MemTypeOK ==
    /\ used \in SUBSET Blocks
    /\ table \in Seq(Garbage) /\ Len(table) \in StartSize..(StartSize + MaxSize)
    /\ overrun \in BOOLEAN
    /\ call \in [Threads -> [ptr : Blocks \cup {Null},
                             todo : UNION {{SubSeq(s, k, 2) : k \in 1..3} : s \in {Allocating, Freeing}}]]

(* The blocks that are, by the calls made so far, to be in the table.      *)
Counted == used \ {call[t].ptr : t \in {u \in Threads : call[u].todo \in {<<"record">>, <<"free">>}}}

(* The table tells the truth: an entry of its first part holds a block in  *)
(* use, no block is there twice, and until the table has grown it holds    *)
(* all of them.  What is in the second part may be anything.               *)
RecordsTrue ==
    LET first == {i \in 1..StartSize : table[i] # Null}
    IN /\ \A i \in first : table[i] \in Counted
       /\ \A i, k \in first : table[i] = table[k] => i = k
       /\ Len(table) = StartSize => Counted \subseteq {table[i] : i \in first}
==============================================================================
