----------------------------- MODULE MCMrswlock ------------------------------
(* FlyMrswlock with two kinds of clients: those in Endless take the lock   *)
(* whenever and as often as they like, the others a bounded number of      *)
(* times and then are gone.  When the endless ones stay away too, nobody   *)
(* is left to repair a lost wakeup.                                        *)
EXTENDS FlyMrswlock

CONSTANTS Endless,   \* threads without a bound
          Rounds     \* acquisitions of each other thread (bound)
VARIABLE left        \* how many each of those still has to make

mcvars == <<vars, left>>
Bounded == Threads \ Endless

MCInit == Init /\ left = [t \in Bounded |-> Rounds]

MCRequest(t) == /\ Request(t)
                /\ \/ t \in Endless /\ UNCHANGED left
                   \/ t \in Bounded /\ left[t] > 0 /\ left' = [left EXCEPT ![t] = @ - 1]
MCStep(t)    == Step(t) /\ UNCHANGED left
Finished     == (\A t \in Bounded : pc[t] = "idle" /\ left[t] = 0) /\ UNCHANGED mcvars

MCNext == (\E t \in Threads : MCRequest(t) \/ MCStep(t)) \/ Finished

(* Nobody has to call the lock but the bounded threads, which make all     *)
(* their calls.                                                            *)
MCSpec == /\ MCInit /\ [][MCNext]_mcvars
          /\ \A t \in Threads : WF_mcvars(MCStep(t))
          /\ \A t \in Bounded : WF_mcvars(MCRequest(t))

(* Every bounded thread gets all its turns: no request is lost in a        *)
(* semaphore.                                                              *)
EveryoneServed == <>(\A t \in Bounded : pc[t] = "idle" /\ left[t] = 0)
==============================================================================
