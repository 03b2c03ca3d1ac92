---------------------------- MODULE FlySequences ------------------------------
(***************************************************************************)
(* What the lists of the library are to those who use them: sequences,     *)
(* shared by threads, on which each operation takes effect once and at     *)
(* once, some time between its call and its return.  Only an append may    *)
(* fail, and then changes nothing.  FlySched is written over these.        *)
(***************************************************************************)
EXTENDS SequencesExt

CONSTANTS Threads, Lists,
          Els,      \* what the lists hold
          Nothing   \* a thread that has no operation pending

VARIABLES seq,      \* each list, head first
          pending   \* the operation each thread has called

vars == <<seq, pending>>

Ops == ({"append", "remove"} \X Lists \X Els) \cup ({"tail_remove"} \X Lists)

Result(op, s) ==
    CASE op[1] = "append"      -> Append(s, op[3])
      [] op[1] = "remove"      -> RemoveFirst(s, op[3])
      [] op[1] = "tail_remove" -> IF s = <<>> THEN s ELSE Front(s)

Init == seq = [l \in Lists |-> <<>>] /\ pending = [t \in Threads |-> Nothing]

Call(t) ==
    /\ pending[t] = Nothing
    /\ UNCHANGED seq
    /\ \E op \in Ops : pending' = [pending EXCEPT ![t] = op]

Return(t) == pending' = [pending EXCEPT ![t] = Nothing]

Apply(t) ==
    /\ pending[t] # Nothing
    /\ seq' = [seq EXCEPT ![pending[t][2]] = Result(pending[t], @)]
    /\ Return(t)

Fail(t) ==
    /\ pending[t] # Nothing /\ pending[t][1] = "append"
    /\ Return(t) /\ UNCHANGED seq

Next == \E t \in Threads : Call(t) \/ Apply(t) \/ Fail(t)

Spec == Init /\ [][Next]_vars
==============================================================================
