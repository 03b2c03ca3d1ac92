------------------------------- MODULE MCSched --------------------------------
(* Programs for FlySched: function f makes no call, g may call the library. *)
EXTENDS FlySched
CONSTANTS c1, f, g

Leaf == [x \in {f} |-> <<>>]

(* One loop, or two one after the other.                                   *)
OneLoop  == [c \in {c1} |-> <<<<"pfor", f>>>>]
TwoLoops == [c \in {c1} |-> <<<<"pfor", f>>, <<"pfor", f>>>>]

(* A function that runs a loop of its own ...                              *)
LoopInside == [x \in {f, g} |-> IF x = f THEN <<>> ELSE <<<<"pfor", f>>>>]

(* ... run by a loop, beside a task that is waited for before it is pushed *)
(* too, and collected after the loop.                                      *)
LoopAndTask ==
    [c \in {c1} |-> <<<<"wait", f>>, <<"push", f>>, <<"pfor", g>>, <<"wait", f>>>>]

(* A loop whose function pushes a task and waits for it.                   *)
TaskInside == [x \in {f, g} |-> IF x = f THEN <<>> ELSE <<<<"push", f>>, <<"wait", f>>>>]
NestedLoop == [c \in {c1} |-> <<<<"pfor", g>>>>]

OneTask == [c \in {c1} |-> <<<<"push", f>>, <<"wait", f>>>>]

Symmetry == Permutations(Jobs) \cup Permutations(Workers) \cup Permutations(Sides)
==============================================================================
