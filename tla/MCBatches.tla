------------------------------ MODULE MCBatches -------------------------------
(* FlyBatches on every small range, the empty and the backward ones too.   *)
EXTENDS FlyBatches
CONSTANTS MaxCount, MaxBack, MaxStart  \* bounds

MCRequests == {<<"pfor", 0, n>> : n \in -MaxBack .. MaxCount}
        \cup {<<"pfarr", s, s + n>> : s \in -MaxStart .. MaxStart, n \in -MaxBack .. MaxCount}

(* Loops with fewer indices than workers, down to none.                    *)
ShortRequests == {<<"pfor", 0, n>> : n \in 0 .. NbWorkers - 1}
==============================================================================
