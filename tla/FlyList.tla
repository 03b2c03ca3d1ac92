------------------------------- MODULE FlyList --------------------------------
(***************************************************************************)
(* fly_list.h as the scheduler uses it: lists of nodes linked both ways,   *)
(* each under the write lock of its list (FlyMrswlock: one holder), their  *)
(* nodes from fly_malloc and back to fly_free, which the lists share; and  *)
(* fly_sched_uninit_lists, which empties them when the threads are gone.   *)
(*                                                                         *)
(* A node has one thread at a time that links or unlinks it, so what is    *)
(* done between two calls of the allocator is one action.                  *)
(***************************************************************************)
EXTENDS FlyMemdebug

CONSTANTS Lists,    \* ready_jobs, running_jobs, done_jobs
          Els,      \* jobs
          NoOp

VARIABLES
    ends,       \* the struct fly_list of each list: next is its head, prev its tail
    node,       \* the struct fly_list at each block
    op,         \* the operation each thread is in, and how far it is
    phase       \* "up", "draining" once fly_sched_uninit_lists runs, "down"

ASSUME ListAssumption ==
    NoOp \notin ({"append", "remove"} \X Lists \X Els) \cup ({"tail_remove"} \X Lists)

listvars == <<ends, node, op, phase>>
vars == <<used, table, overrun, call, ends, node, op, phase>>

Ops  == ({"append", "remove"} \X Lists \X Els) \cup ({"tail_remove"} \X Lists)
Idle == [op |-> NoOp, at |-> "called"]
Unused == [next |-> Null, prev |-> Null, el |-> Null]

Init ==
    /\ MemInit
    /\ ends = [l \in Lists |-> [next |-> Null, prev |-> Null]]
    /\ node = [b \in Blocks |-> Unused]
    /\ op = [t \in Threads |-> Idle]
    /\ phase = "up"

(* The nodes of a list in the order of the next pointers, as every loop of *)
(* fly_list.h meets them; one more than there are blocks shows a cycle.    *)
After == [b \in Blocks \cup {Null} |-> IF b = Null THEN Null ELSE node[b].next]
Nodes(l) ==
    LET walk[k \in 1..(Cardinality(Blocks) + 1)] ==
            IF k = 1 THEN ends[l].next ELSE After[walk[k - 1]]
    IN [k \in 1..Cardinality({i \in DOMAIN walk : walk[i] # Null}) |-> walk[k]]

(* fly_list_get: where the first node that holds el is, 0 if none does.    *)
Get(l, el) == SelectInSeq(Nodes(l), LAMBDA n : node[n].el = el)

(***************************************************************************)
(* fly_list_append_node and fly_list_remove_node, after variants that      *)
(* forget a pointer.                                                       *)
(***************************************************************************)
LinkedUnset(tail, el)  == [next |-> Null, prev |-> tail, el |-> Stray]
LinkedOneWay(tail, el) == [next |-> Null, prev |-> Null, el |-> el]
LinkedAfter(tail, el)  == [next |-> Null, prev |-> tail, el |-> el]

LinkNode(l, n, el) ==
    LET tail == ends[l].prev
    IN /\ ends' = [ends EXCEPT ![l].prev = n,
                               ![l].next = IF tail = Null THEN n ELSE @]
       /\ node' = [b \in Blocks |->
                      IF b = n THEN LinkedAfter(tail, el)
                      ELSE [node[b] EXCEPT !.next = IF b = tail THEN n ELSE @]]

EndsKeepTail(l, n)  == [ends[l] EXCEPT !.next = IF @ = n THEN node[n].next ELSE @]
EndsWithout(l, n)   == [next |-> IF ends[l].next = n THEN node[n].next ELSE ends[l].next,
                        prev |-> IF ends[l].prev = n THEN node[n].prev ELSE ends[l].prev]
ForwardOnly(b, n)   == IF b = node[n].prev THEN [node[b] EXCEPT !.next = node[n].next] ELSE node[b]
NodeWithout(b, n)   ==
    [node[b] EXCEPT !.next = IF b = node[n].prev THEN node[n].next ELSE @,
                    !.prev = IF b = node[n].next THEN node[n].prev ELSE @]

(* What n itself holds is not read any more before n is freed.            *)
RemoveNode(l, n) ==
    /\ ends' = [ends EXCEPT ![l] = EndsWithout(l, n)]
    /\ node' = [b \in Blocks |-> IF b = n THEN Unused ELSE NodeWithout(b, n)]

(***************************************************************************)
(* An operation: taking the list's lock, its steps, and giving it back     *)
(***************************************************************************)
Owned(l)  == \E t \in Threads : op[t].op # NoOp /\ op[t].op[2] = l
Pending(t, kind) == op[t].op # NoOp /\ op[t].op[1] = kind /\ op[t].at = "called"
Call(t, o)  == op' = [op EXCEPT ![t] = [op |-> o, at |-> "called"]]
Leave(t)    == op' = [op EXCEPT ![t] = Idle]
Frees(t)    == op' = [op EXCEPT ![t].at = "freeing"]
MyList(t)   == op[t].op[2]
MyEl(t)     == op[t].op[3]

Start(t) ==
    /\ phase = "up" /\ ~overrun /\ op[t] = Idle
    /\ \E o \in Ops :
           /\ ~Owned(o[2])
           /\ Call(t, o)
           /\ IF o[1] = "append" THEN StartMalloc(t) ELSE UNCHANGED call
    /\ UNCHANGED <<used, table, overrun, ends, node, phase>>

(* fly_list_append, when fly_malloc has returned.                          *)
AppendNode(t) ==
    /\ Pending(t, "append") /\ Finished(t)
    /\ IF call[t].ptr = Null THEN UNCHANGED <<ends, node>>
                             ELSE LinkNode(MyList(t), call[t].ptr, MyEl(t))
    /\ Leave(t)
    /\ call' = [call EXCEPT ![t] = NoCall]
    /\ UNCHANGED <<used, table, overrun, phase>>

Unlink(t, n) ==
    /\ RemoveNode(MyList(t), n)
    /\ StartFree(t, n)
    /\ Frees(t)
    /\ UNCHANGED <<used, table, overrun, phase>>

(* fly_list_remove, fly_list_tail_remove; without a node nothing is done.  *)
RemoveEl(t) ==
    /\ Pending(t, "remove") /\ ~overrun
    /\ LET i == Get(MyList(t), MyEl(t))
       IN IF i # 0 THEN Unlink(t, Nodes(MyList(t))[i])
          ELSE Leave(t) /\ UNCHANGED <<memvars, ends, node, phase>>

TailRemove(t) ==
    /\ Pending(t, "tail_remove") /\ ~overrun
    /\ LET tail == ends[MyList(t)].prev
       IN IF tail # Null THEN Unlink(t, tail)
          ELSE Leave(t) /\ UNCHANGED <<memvars, ends, node, phase>>

Freed(t) ==
    /\ op[t].at = "freeing" /\ Finished(t)
    /\ Leave(t)
    /\ call' = [call EXCEPT ![t] = NoCall]
    /\ UNCHANGED <<used, table, overrun, ends, node, phase>>

Allocate(t) == MemStep(t) /\ UNCHANGED listvars

(* fly_sched_uninit_lists: when no worker is left, fly_list_remove of the  *)
(* element at the tail of a list that is not empty, until all are empty;   *)
(* then fly_uninit reports what the table holds.                           *)
Uninit ==
    /\ phase = "up" /\ ~overrun /\ \A t \in Threads : op[t] = Idle
    /\ phase' = "draining"
    /\ UNCHANGED <<memvars, ends, node, op>>

Drain(t) ==
    /\ phase = "draining" /\ ~overrun /\ \A u \in Threads : op[u] = Idle
    /\ \E l \in Lists :
           ends[l].next # Null /\ Call(t, <<"remove", l, node[ends[l].prev].el>>)
    /\ UNCHANGED <<memvars, ends, node, phase>>

Report ==
    /\ phase = "draining" /\ ~overrun /\ \A u \in Threads : op[u] = Idle
    /\ \A l \in Lists : ends[l].next = Null
    /\ phase' = "down"
    /\ UNCHANGED <<memvars, ends, node, op>>

Over == (phase = "down" \/ overrun) /\ UNCHANGED vars

Next ==
    \/ \E t \in Threads : \/ Start(t) \/ AppendNode(t) \/ RemoveEl(t) \/ TailRemove(t)
                          \/ Freed(t) \/ Allocate(t) \/ Drain(t)
    \/ Uninit \/ Report \/ Over

Spec == Init /\ [][Next]_vars

------------------------------------------------------------------------------
TypeOK ==
    /\ MemTypeOK
    /\ ends \in [Lists -> [next : Blocks \cup {Null}, prev : Blocks \cup {Null}]]
    /\ node \in [Blocks -> [next : Blocks \cup {Null}, prev : Blocks \cup {Null},
                            el : Els \cup {Null}]]
    /\ op \in [Threads -> [op : Ops \cup {NoOp}, at : {"called", "freeing"}]]
    /\ phase \in {"up", "draining", "down"}

(* A list reads the same both ways: along next from the head it ends, and  *)
(* at the tail, and each prev pointer leads back to the node before.  Every*)
(* operation relies on it, and unlinking a first or last node may break it.*)
BothWays ==
    \A l \in Lists :
        LET s == Nodes(l)
        IN /\ IsInjective(s)
           /\ ends[l].prev = IF s = <<>> THEN Null ELSE Last(s)
           /\ \A i \in DOMAIN s : node[s[i]].prev = IF i = 1 THEN Null ELSE s[i - 1]

(* Each block is a node of one list, or in the hands of the one thread     *)
(* that allocates or frees it, or free: nothing leaks and no list leads    *)
(* into freed memory, however operations on different lists interleave.    *)
InHand(t) == IF op[t].at = "freeing" /\ call[t].todo = <<>> THEN {} ELSE {call[t].ptr} \cap used
NodesAccounted ==
    /\ used = UNION ({ToSet(Nodes(l)) : l \in Lists} \cup {InHand(t) : t \in Threads})
    /\ \A l, k \in Lists : l # k => ToSet(Nodes(l)) \cap ToSet(Nodes(k)) = {}
    /\ \A t \in Threads : \A l \in Lists : InHand(t) \cap ToSet(Nodes(l)) = {}
    /\ \A t, u \in Threads : t # u => InHand(t) \cap InHand(u) = {}

(* When fly_uninit prints its list of leaks, the lists have given all of   *)
(* their memory back, and the list is empty unless the table has grown.    *)
NothingReported ==
    phase = "down" => /\ used = {}
                      /\ \A i \in 1..StartSize : table[i] = Null

(* The lists are the sequences that FlySched takes them for.               *)
Elements(l) == LET s == Nodes(l) IN [i \in DOMAIN s |-> node[s[i]].el]
Sequences == INSTANCE FlySequences WITH
    Nothing <- NoOp,
    seq     <- [l \in Lists |-> Elements(l)],
    pending <- [t \in Threads |-> IF op[t].at = "called" THEN op[t].op ELSE NoOp]
ImplementsSequences == Sequences!Spec
==============================================================================
