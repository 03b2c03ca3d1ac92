------------------------ MODULE FlySchedTypes_proofs --------------------------
(***************************************************************************)
(* Type correctness of the scheduler, for every value of the constants,    *)
(* Recycle included: what the helpers on lists and stacks return, the      *)
(* shape a thread's stack always has (which frame may lie on which, which  *)
(* hold a job and which a batch), and that every action keeps the types.   *)
(* FlySched_proofs builds on the same lemmas.                              *)
(***************************************************************************)
EXTENDS FlySched, FiniteSetTheorems, SequenceTheorems, WellFoundedInduction, TLAPS

Less == {ss \in Nat \X Nat : ss[1] < ss[2]}

LEMMA LessWellFounded == IsWellFoundedOn(Less, Nat)
<1>1. IsWellFoundedOn({ss \in Nat \X Nat : ss[1] < ss[2]}, Nat)
  BY NatLessThanWellFounded DEF OpToRel
<1>2. QED BY <1>1 DEF Less

LEMMA OneOrMore == \A n \in Nat \ {0} : n = 1 \/ n > 1
OBVIOUS

LEMMA LeastOf ==
    ASSUME NEW S \in SUBSET Nat, S # {}
    PROVE  Min(S) \in S
<1>1. PICK m \in S : \A k \in S : ~(<<k, m>> \in Less)
  BY LessWellFounded, WFMin
<1>2. ASSUME NEW k \in S PROVE m =< k
  <2>1. k \in Nat /\ m \in Nat /\ (k < m => <<k, m>> \in Less)
    BY DEF Less
  <2>2. QED BY <1>1, <2>1
<1>3. QED BY <1>2 DEF Min

LEMMA Capped == ASSUME NEW n \in 0..2 PROVE Min({n + 1, 2}) = (IF n = 0 THEN 1 ELSE 2)
<1>1. CASE n = 0
  <2>1. \E x \in {n + 1, 2} : \A y \in {n + 1, 2} : x =< y
    BY <1>1
  <2>2. QED BY <1>1, <2>1 DEF Min
<1>2. CASE n # 0
  <2>1. \E x \in {n + 1, 2} : \A y \in {n + 1, 2} : x =< y
    BY <1>2
  <2>2. QED BY <1>2, <2>1 DEF Min
<1>3. QED BY <1>1, <1>2

LEMMA RemovedAt ==
    ASSUME NEW S, NEW s \in Seq(S), NEW k \in 1..Len(s)
    PROVE  LET r == SubSeq(s, 1, k - 1) \o SubSeq(s, k + 1, Len(s))
           IN /\ r \in Seq(S) /\ DOMAIN r = 1..(Len(s) - 1)
              /\ \A i \in 1..(Len(s) - 1) : r[i] = IF i < k THEN s[i] ELSE s[i + 1]
<1> DEFINE r == SubSeq(s, 1, k - 1) \o SubSeq(s, k + 1, Len(s))
<1>0. Len(s) \in Nat /\ DOMAIN s = 1..Len(s)
  BY LenProperties
<1>4. /\ SubSeq(s, 1, k - 1) \in Seq(S) /\ Len(SubSeq(s, 1, k - 1)) = k - 1
      /\ \A i \in 1..(k - 1) : SubSeq(s, 1, k - 1)[i] = s[i]
  <2>1. \A i \in 1..(k - 1) : s[i] \in S
    BY <1>0, ElementOfSeq
  <2>2. QED BY <1>0, <2>1, SubSeqProperties
<1>5. /\ SubSeq(s, k + 1, Len(s)) \in Seq(S) /\ Len(SubSeq(s, k + 1, Len(s))) = Len(s) - k
      /\ \A i \in 1..(Len(s) - k) : SubSeq(s, k + 1, Len(s))[i] = s[i + k]
  <2>1. \A i \in (k + 1)..Len(s) : s[i] \in S
    BY <1>0, ElementOfSeq
  <2> DEFINE u == SubSeq(s, k + 1, Len(s))
  <2>2. k + 1 \in Int /\ Len(s) \in Int /\ ~(k + 1 > Len(s) + 1)
    BY <1>0
  <2>3. /\ u \in Seq(S)
        /\ Len(u) = IF k + 1 <= Len(s) THEN Len(s) - (k + 1) + 1 ELSE 0
        /\ \A i \in 1..Len(s) - (k + 1) + 1 : u[i] = s[(k + 1) + i - 1]
    BY <2>1, <2>2, SubSeqProperties
  <2> HIDE DEF u
  <2>4. Len(s) - (k + 1) + 1 = Len(s) - k
    BY <1>0
  <2>5. Len(u) = Len(s) - k
    <3>1. CASE k + 1 <= Len(s)
      BY <2>3, <2>4, <3>1
    <3>2. CASE ~(k + 1 <= Len(s))
      <4>0. Len(s) \in Nat /\ k \in Nat /\ k <= Len(s)
        BY <1>0
      <4>1. Len(s) - k = 0
        BY <3>2, <4>0
      <4>2. QED BY <2>3, <3>2, <4>1
    <3>3. QED BY <3>1, <3>2
  <2>6. ASSUME NEW i \in 1..(Len(s) - k) PROVE u[i] = s[i + k]
    <3>1. (k + 1) + i - 1 = i + k
      BY <1>0
    <3>2. u[i] = s[(k + 1) + i - 1]
      BY <2>3, <2>4
    <3>3. QED BY <3>1, <3>2
  <2>7. QED BY <2>3, <2>5, <2>6 DEF u
<1>6. /\ r \in Seq(S) /\ Len(r) = Len(s) - 1 /\ DOMAIN r = 1..(Len(s) - 1)
      /\ \A i \in 1..(Len(s) - 1) : r[i] = IF i < k THEN s[i] ELSE s[i + 1]
  <2>1. r \in Seq(S) /\ Len(r) = (k - 1) + (Len(s) - k)
    BY <1>4, <1>5, ConcatProperties
  <2>2. \A i \in 1..((k - 1) + (Len(s) - k)) :
            r[i] = IF i <= k - 1 THEN SubSeq(s, 1, k - 1)[i] ELSE SubSeq(s, k + 1, Len(s))[i - (k - 1)]
    <3> DEFINE u == SubSeq(s, 1, k - 1)
               v == SubSeq(s, k + 1, Len(s))
    <3>1. /\ u \in Seq(S) /\ v \in Seq(S)
          /\ Len(u) = k - 1 /\ Len(v) = Len(s) - k
      BY <1>4, <1>5
    <3> HIDE DEF u, v
    <3>2. \A i \in 1..(Len(u) + Len(v)) : (u \o v)[i] = IF i <= Len(u) THEN u[i] ELSE v[i - Len(u)]
      BY <3>1, ConcatProperties
    <3>3. QED BY <3>1, <3>2 DEF u, v
  <2>3. DOMAIN r = 1..Len(r)
    BY <2>1, LenProperties
  <2> HIDE DEF r
  <2>4. Len(r) = Len(s) - 1
    BY <1>0, <2>1
  <2>5. ASSUME NEW i \in 1..(Len(s) - 1) PROVE r[i] = IF i < k THEN s[i] ELSE s[i + 1]
    <3>1. CASE i < k
      BY <1>0, <1>4, <2>2, <3>1
    <3>2. CASE ~(i < k)
      <4>1. i - (k - 1) \in 1..(Len(s) - k) /\ (i - (k - 1)) + k = i + 1
        BY <1>0, <3>2
      <4>2. r[i] = SubSeq(s, k + 1, Len(s))[i - (k - 1)]
        BY <1>0, <2>2, <3>2
      <4>3. QED BY <1>5, <3>2, <4>1, <4>2
    <3>3. QED BY <3>1, <3>2
  <2>6. QED BY <2>1, <2>3, <2>4, <2>5
<1>7. QED BY <1>6

LEMMA RemoveFirstProperties ==
    ASSUME NEW S, NEW s \in Seq(S), NEW e
    PROVE  /\ RemoveFirst(s, e) \in Seq(S)
           /\ ToSet(RemoveFirst(s, e)) \subseteq ToSet(s)
           /\ ToSet(s) \ {e} \subseteq ToSet(RemoveFirst(s, e))
           /\ IsInjective(s) => /\ e \notin ToSet(RemoveFirst(s, e))
                                /\ IsInjective(RemoveFirst(s, e))
<1> DEFINE I == {i \in 1..Len(s) : s[i] = e}
           k == SelectInSeq(s, LAMBDA v : v = e)
<1>0. Len(s) \in Nat /\ DOMAIN s = 1..Len(s)
  BY LenProperties
<1>1. CASE I = {}
  <2>1. RemoveFirst(s, e) = s
    BY <1>1 DEF RemoveFirst
  <2>2. QED BY <1>0, <1>1, <2>1 DEF ToSet
<1>2. CASE I # {}
  <2>1. RemoveFirst(s, e) = RemoveAt(s, k)
    BY <1>2 DEF RemoveFirst
  <2>2. k = Min(I)
    BY <1>2 DEF SelectInSeq
  <2>3. k \in 1..Len(s) /\ s[k] = e
    <3>1. I \in SUBSET Nat
      BY <1>0
    <3> HIDE DEF I
    <3>2. k \in I
      BY <1>2, <2>2, <3>1, LeastOf
    <3>3. QED BY <3>2 DEF I
  <2> HIDE DEF k, I
  <2> DEFINE r == SubSeq(s, 1, k - 1) \o SubSeq(s, k + 1, Len(s))
  <2>6. /\ r \in Seq(S) /\ DOMAIN r = 1..(Len(s) - 1)
        /\ \A i \in 1..(Len(s) - 1) : r[i] = IF i < k THEN s[i] ELSE s[i + 1]
    BY <2>3, RemovedAt
  <2>7. RemoveFirst(s, e) = r
    BY <2>1 DEF RemoveAt
  <2> HIDE DEF r
  <2>8. ToSet(r) \subseteq ToSet(s)
    <3>1. SUFFICES ASSUME NEW x \in ToSet(r) PROVE x \in ToSet(s)
      OBVIOUS
    <3>2. PICK i \in 1..(Len(s) - 1) : x = r[i]
      BY <2>6 DEF ToSet
    <3>3. i \in 1..Len(s) /\ i + 1 \in 1..Len(s) /\ (x = s[i] \/ x = s[i + 1])
      BY <1>0, <2>6, <3>2
    <3>4. QED BY <1>0, <3>3 DEF ToSet
  <2>9. ToSet(s) \ {e} \subseteq ToSet(r)
    <3>1. ASSUME NEW i \in 1..Len(s), s[i] # e PROVE \E m \in 1..(Len(s) - 1) : r[m] = s[i]
      <4>1. CASE i < k
        BY <1>0, <2>3, <2>6, <4>1
      <4>2. CASE i > k
        <5>1. i - 1 \in 1..(Len(s) - 1) /\ ~(i - 1 < k) /\ (i - 1) + 1 = i
          BY <1>0, <2>3, <4>2
        <5>2. QED BY <2>6, <5>1
      <4>3. QED BY <1>0, <2>3, <3>1, <4>1, <4>2
    <3>2. SUFFICES ASSUME NEW x \in ToSet(s), x # e PROVE x \in ToSet(r)
      OBVIOUS
    <3>3. PICK i \in 1..Len(s) : x = s[i]
      BY <1>0 DEF ToSet
    <3>4. PICK m \in 1..(Len(s) - 1) : r[m] = s[i]
      BY <3>1, <3>2, <3>3
    <3>5. QED BY <2>6, <3>3, <3>4 DEF ToSet
  <2>10. ASSUME IsInjective(s) PROVE e \notin ToSet(r) /\ IsInjective(r)
    <3>1. \A a, b \in 1..Len(s) : s[a] = s[b] => a = b
      BY <1>0, <2>10 DEF IsInjective
    <3>2. \A i \in 1..(Len(s) - 1) : r[i] # e
      BY <1>0, <2>3, <2>6, <3>1
    <3>3. \A a, b \in 1..(Len(s) - 1) : r[a] = r[b] => a = b
      BY <1>0, <2>3, <2>6, <3>1
    <3>4. QED BY <2>6, <3>2, <3>3 DEF ToSet, IsInjective
  <2>11. QED BY <2>6, <2>7, <2>8, <2>9, <2>10
<1>3. QED BY <1>1, <1>2

LEMMA Appended ==
    ASSUME NEW S, NEW s \in Seq(S), NEW e \in S
    PROVE  /\ Append(s, e) \in Seq(S)
           /\ ToSet(Append(s, e)) = ToSet(s) \cup {e}
           /\ IsInjective(s) /\ e \notin ToSet(s) => IsInjective(Append(s, e))
<1>1. /\ Append(s, e) \in Seq(S) /\ Len(Append(s, e)) = Len(s) + 1 /\ Len(s) \in Nat
      /\ \A i \in 1..Len(s) : Append(s, e)[i] = s[i]
      /\ Append(s, e)[Len(s) + 1] = e
      /\ DOMAIN s = 1..Len(s) /\ DOMAIN Append(s, e) = 1..(Len(s) + 1)
  BY AppendProperties, LenProperties
<1>2. ToSet(Append(s, e)) = ToSet(s) \cup {e}
  BY <1>1 DEF ToSet
<1>3. ASSUME IsInjective(s), e \notin ToSet(s) PROVE IsInjective(Append(s, e))
  <2>1. \A i \in 1..Len(s) : s[i] # e
    BY <1>1, <1>3 DEF ToSet
  <2>2. QED BY <1>1, <1>3, <2>1 DEF IsInjective
<1>4. QED BY <1>1, <1>2, <1>3

LEMMA TakenFrom ==
    ASSUME NEW S, NEW s \in Seq(S), s # <<>>
    PROVE  /\ Front(s) \in Seq(S) /\ Last(s) \in ToSet(s) /\ Last(s) \in S
           /\ ToSet(Front(s)) \subseteq ToSet(s)
           /\ ToSet(s) \subseteq ToSet(Front(s)) \cup {Last(s)}
           /\ IsInjective(s) => IsInjective(Front(s)) /\ Last(s) \notin ToSet(Front(s))
<1>1. /\ Len(s) \in Nat \ {0} /\ DOMAIN s = 1..Len(s) /\ \A i \in 1..Len(s) : s[i] \in S
  BY EmptySeq, LenProperties
<1>2. /\ Front(s) \in Seq(S) /\ Len(Front(s)) = Len(s) - 1
      /\ \A i \in 1..(Len(s) - 1) : Front(s)[i] = s[i]
  BY <1>1, SubSeqProperties DEF Front
<1>3. DOMAIN Front(s) = 1..(Len(s) - 1)
  BY <1>2, LenProperties
<1>4. QED BY <1>1, <1>2, <1>3 DEF Last, ToSet, IsInjective

(* The three ways in which a stack changes.                                *)
LEMMA Replaced ==
    ASSUME NEW S, NEW s \in Seq(S) \ {<<>>}, NEW f \in S
    PROVE  LET r == <<f>> \o Tail(s)
           IN r \in Seq(S) \ {<<>>} /\ Len(r) = Len(s) /\ r[1] = f /\ \A i \in 2..Len(s) : r[i] = s[i]
<1>1. Tail(s) \in Seq(S) /\ Len(Tail(s)) = Len(s) - 1 /\ Len(s) \in Nat \ {0}
      /\ \A i \in 1..Len(Tail(s)) : Tail(s)[i] = s[i + 1]
  BY HeadTailProperties, EmptySeq
<1>2. <<f>> \in Seq(S) /\ Len(<<f>>) = 1 /\ <<f>>[1] = f
  OBVIOUS
<1> DEFINE r == <<f>> \o Tail(s)
<1>3. /\ r \in Seq(S) /\ Len(r) = 1 + Len(Tail(s))
      /\ \A i \in 1..1 + Len(Tail(s)) : r[i] = IF i <= 1 THEN <<f>>[i] ELSE Tail(s)[i - 1]
  BY <1>1, <1>2, ConcatProperties
<1>4. r # <<>>
  BY <1>1, <1>3
<1>5. QED BY <1>1, <1>3, <1>4

LEMMA Pushed ==
    ASSUME NEW S, NEW s \in Seq(S) \ {<<>>}, NEW f \in S, NEW g \in S
    PROVE  LET r == <<f, g>> \o Tail(s)
           IN r \in Seq(S) \ {<<>>} /\ Len(r) = Len(s) + 1 /\ r[1] = f /\ r[2] = g
              /\ \A i \in 3..Len(s) + 1 : r[i] = s[i - 1]
<1>1. Tail(s) \in Seq(S) /\ Len(Tail(s)) = Len(s) - 1 /\ Len(s) \in Nat \ {0}
      /\ \A i \in 1..Len(Tail(s)) : Tail(s)[i] = s[i + 1]
  BY HeadTailProperties, EmptySeq
<1>2. <<f, g>> \in Seq(S) /\ Len(<<f, g>>) = 2 /\ <<f, g>>[1] = f /\ <<f, g>>[2] = g
  OBVIOUS
<1> DEFINE r == <<f, g>> \o Tail(s)
<1>3. /\ r \in Seq(S) /\ Len(r) = 2 + Len(Tail(s))
      /\ \A i \in 1..2 + Len(Tail(s)) : r[i] = IF i <= 2 THEN <<f, g>>[i] ELSE Tail(s)[i - 2]
  BY <1>1, <1>2, ConcatProperties
<1>4. r # <<>>
  BY <1>1, <1>3
<1>5. QED BY <1>1, <1>2, <1>3, <1>4

LEMMA Popped ==
    ASSUME NEW S, NEW s \in Seq(S), Len(s) > 1
    PROVE  LET r == Tail(s)
           IN r \in Seq(S) \ {<<>>} /\ Len(r) = Len(s) - 1 /\ \A i \in 1..Len(s) - 1 : r[i] = s[i + 1]
<1>1. s # <<>> /\ Len(s) \in Nat
  BY EmptySeq, LenProperties
<1>2. Tail(s) \in Seq(S) /\ Len(Tail(s)) = Len(s) - 1
      /\ \A i \in 1..Len(Tail(s)) : Tail(s)[i] = s[i + 1]
  BY <1>1, HeadTailProperties
<1>3. Tail(s) # <<>>
  <2>1. Len(Tail(s)) # 0
    BY <1>1, <1>2
  <2>2. QED BY <1>2, <2>1, EmptySeq
<1>4. QED BY <1>1, <1>2, <1>3

------------------------------------------------------------------------------
(* The stacks the code builds: which frame runs above which, and that the  *)
(* frames on a job are the ones whose place names a job.                   *)
Idle         == {"user", "ready", "running", "sleep"}
Executing    == {"exec", "inc", "isdone", "unlist", "todone", "post"}
Called       == {"addready", "move", "notify", "help", "wait", "collect", "destroy"}
ClientPlaces == {"user", "addready", "notify", "wait", "collect", "destroy"}
BasePlaces   == {"ready", "running", "move", "notify", "schedule", "sleep"}

FrameRight(f) == (f.job = NoJob <=> f.pc \in Idle) /\ (f.batch = 0 <=> f.pc # "inc")
Above(f, g) ==
    \/ f.pc = "user" /\ g.pc \in {"inc", "isdone"}
    \/ f.pc \in Executing /\ g.pc \in {"schedule", "help"}
    \/ f.pc \in Called \cup {"schedule"} /\ g.pc = "user"
Bottom(t, f) == f.pc \in IF t \in WThreads THEN BasePlaces ELSE {"user"}

ShapeOf(t, s) ==
    /\ \A i \in 1..Len(s) : FrameRight(s[i]) /\ (t \in Clients => s[i].pc \in ClientPlaces)
    /\ \A i \in 1..(Len(s) - 1) : Above(s[i], s[i + 1])
    /\ Bottom(t, s[Len(s)])
Stacks  == stack \in [Threads -> Seq(FrameSet) \ {<<>>}]
StackOK == Stacks /\ \A t \in Threads : ShapeOf(t, stack[t])

LEMMA TopFacts ==
    ASSUME StackOK, NEW t \in Threads
    PROVE  /\ Len(stack[t]) \in Nat \ {0} /\ stack[t] \in Seq(FrameSet) \ {<<>>}
           /\ Top(t) = stack[t][1] /\ Top(t) \in FrameSet /\ FrameRight(Top(t))
           /\ t \in Clients => Top(t).pc \in ClientPlaces
           /\ Len(stack[t]) = 1 => Bottom(t, Top(t))
           /\ Len(stack[t]) > 1 => Above(Top(t), stack[t][2]) /\ stack[t][2] \in FrameSet
<1>1. stack[t] \in Seq(FrameSet) \ {<<>>}
  BY DEF StackOK, Stacks
<1>2. Len(stack[t]) \in Nat \ {0} /\ \A i \in 1..Len(stack[t]) : stack[t][i] \in FrameSet
  BY <1>1, EmptySeq, LenProperties, ElementOfSeq
<1>3. Top(t) = stack[t][1]
  BY <1>1 DEF Top
<1>4. ShapeOf(t, stack[t])
  BY DEF StackOK
<1>5. QED BY <1>1, <1>2, <1>3, <1>4 DEF ShapeOf

LEMMA IntoStack ==
    ASSUME StackOK, NEW t \in Threads, NEW s \in Seq(FrameSet) \ {<<>>},
           stack' = [stack EXCEPT ![t] = s], ShapeOf(t, s)
    PROVE  StackOK'
<1>1. stack' \in [Threads -> Seq(FrameSet) \ {<<>>}]
  BY DEF StackOK, Stacks
<1>2. ASSUME NEW u \in Threads PROVE ShapeOf(u, stack'[u])
  <2>1. CASE u = t
    BY <2>1 DEF StackOK, Stacks
  <2>2. CASE u # t
    BY <2>2 DEF StackOK, Stacks
  <2>3. QED BY <2>1, <2>2
<1>3. QED BY <1>1, <1>2 DEF StackOK, Stacks

Fits(t, f) == /\ f \in FrameSet /\ FrameRight(f)
              /\ t \in Clients => f.pc \in ClientPlaces
              /\ Len(stack[t]) = 1 => Bottom(t, f)
              /\ Len(stack[t]) > 1 => Above(f, stack[t][2])

LEMMA BecomeOK ==
    ASSUME StackOK, NEW t \in Threads, NEW f, Fits(t, f), Become(t, f)
    PROVE  StackOK'
<1> DEFINE s == stack[t]
           r == <<f>> \o Tail(s)
<1>1. /\ s \in Seq(FrameSet) \ {<<>>} /\ Len(s) \in Nat \ {0} /\ f \in FrameSet
      /\ ShapeOf(t, s)
  BY TopFacts DEF Fits, StackOK
<1>2. stack' = [stack EXCEPT ![t] = r]
  BY DEF Become, StackOK, Stacks
<1> HIDE DEF s
<1>3. /\ r \in Seq(FrameSet) \ {<<>>} /\ Len(r) = Len(s)
      /\ r[1] = f /\ \A i \in 2..Len(s) : r[i] = s[i]
  BY <1>1, Replaced
<1> HIDE DEF r
<1>4. ShapeOf(t, r)
  <2>1. ASSUME NEW i \in 1..Len(r)
        PROVE  FrameRight(r[i]) /\ (t \in Clients => r[i].pc \in ClientPlaces)
    BY <1>1, <1>3 DEF ShapeOf, Fits
  <2>2. ASSUME NEW i \in 1..(Len(r) - 1) PROVE Above(r[i], r[i + 1])
    <3>1. CASE i = 1
      BY <1>1, <1>3, <3>1 DEF Fits, s
    <3>2. CASE i # 1
      BY <1>1, <1>3, <3>2 DEF ShapeOf
    <3>3. QED BY <3>1, <3>2
  <2>3. Bottom(t, r[Len(r)])
    <3>1. CASE Len(s) = 1
      BY <1>1, <1>3, <3>1 DEF Fits, s
    <3>2. CASE Len(s) # 1
      BY <1>1, <1>3, <3>2 DEF ShapeOf
    <3>3. QED BY <3>1, <3>2
  <2>4. QED BY <2>1, <2>2, <2>3 DEF ShapeOf
<1>5. QED BY <1>2, <1>3, <1>4, IntoStack

PushOn(t, f, g) == stack' = [stack EXCEPT ![t] = <<f, g>> \o Tail(@)]

LEMMA PushOK ==
    ASSUME StackOK, NEW t \in Threads, NEW f, NEW g, Fits(t, g), PushOn(t, f, g),
           f \in FrameSet, FrameRight(f), t \in Clients => f.pc \in ClientPlaces, Above(f, g)
    PROVE  StackOK'
<1> DEFINE s == stack[t]
           r == <<f, g>> \o Tail(s)
<1>1. /\ s \in Seq(FrameSet) \ {<<>>} /\ Len(s) \in Nat \ {0} /\ g \in FrameSet
      /\ ShapeOf(t, s)
  BY TopFacts DEF Fits, StackOK
<1>2. stack' = [stack EXCEPT ![t] = r]
  BY DEF PushOn, StackOK, Stacks
<1> HIDE DEF s
<1>3. /\ r \in Seq(FrameSet) \ {<<>>} /\ Len(r) = Len(s) + 1
      /\ r[1] = f /\ r[2] = g /\ \A i \in 3..Len(s) + 1 : r[i] = s[i - 1]
  BY <1>1, Pushed
<1> HIDE DEF r
<1>4. ShapeOf(t, r)
  <2>1. ASSUME NEW i \in 1..Len(r)
        PROVE  FrameRight(r[i]) /\ (t \in Clients => r[i].pc \in ClientPlaces)
    <3>1. CASE i \in {1, 2}
      BY <1>3, <3>1 DEF Fits
    <3>2. CASE i \notin {1, 2}
      <4>1. i \in 3..Len(s) + 1 /\ i - 1 \in 1..Len(s)
        BY <1>1, <1>3, <3>2
      <4>2. QED BY <1>1, <1>3, <4>1 DEF ShapeOf
    <3>3. QED BY <3>1, <3>2
  <2>2. ASSUME NEW i \in 1..(Len(r) - 1) PROVE Above(r[i], r[i + 1])
    <3>1. CASE i = 1
      BY <1>1, <1>3, <3>1
    <3>2. CASE i = 2
      BY <1>1, <1>3, <3>2 DEF Fits, s
    <3>3. CASE i \notin {1, 2}
      <4>1. /\ i \in 3..Len(s) + 1 /\ i + 1 \in 3..Len(s) + 1
            /\ i - 1 \in 1..(Len(s) - 1) /\ (i + 1) - 1 = (i - 1) + 1
        BY <1>1, <1>3, <3>3
      <4>2. QED BY <1>1, <1>3, <4>1 DEF ShapeOf
    <3>4. QED BY <3>1, <3>2, <3>3
  <2>3. Bottom(t, r[Len(r)])
    <3>1. CASE Len(s) = 1
      BY <1>1, <1>3, <3>1 DEF Fits, s
    <3>2. CASE Len(s) # 1
      <4>0. Len(s) \in Nat \ {0}
        BY <1>1
      <4>a. Len(s) > 1
        BY <4>0, <3>2, OneOrMore
      <4>b. Len(r) = Len(s) + 1
        BY <1>3
      <4>1. Len(r) \in 3..Len(s) + 1 /\ Len(r) - 1 = Len(s)
        BY <4>0, <4>a, <4>b
      <4>2. r[Len(r)] = s[Len(s)]
        BY <1>3, <4>1
      <4>3. QED BY <1>1, <4>2 DEF ShapeOf
    <3>3. QED BY <3>1, <3>2
  <2>4. QED BY <2>1, <2>2, <2>3 DEF ShapeOf
<1>5. QED BY <1>2, <1>3, <1>4, IntoStack

LEMMA LeaveOK ==
    ASSUME StackOK, NEW t \in Threads, Len(stack[t]) > 1, Leave(t)
    PROVE  StackOK'
<1> DEFINE s == stack[t]
           r == Tail(s)
<1>1. /\ s \in Seq(FrameSet) /\ Len(s) \in Nat \ {0} /\ Len(s) > 1
      /\ ShapeOf(t, s)
  BY TopFacts DEF StackOK
<1>2. stack' = [stack EXCEPT ![t] = r]
  BY DEF Leave, StackOK, Stacks
<1> HIDE DEF s
<1>3. /\ r \in Seq(FrameSet) \ {<<>>} /\ Len(r) = Len(s) - 1
      /\ \A i \in 1..Len(s) - 1 : r[i] = s[i + 1]
  BY <1>1, Popped
<1> HIDE DEF r
<1>4. ShapeOf(t, r)
  <2>1. ASSUME NEW i \in 1..Len(r)
        PROVE  FrameRight(r[i]) /\ (t \in Clients => r[i].pc \in ClientPlaces)
    BY <1>1, <1>3 DEF ShapeOf
  <2>2. ASSUME NEW i \in 1..(Len(r) - 1) PROVE Above(r[i], r[i + 1])
    BY <1>1, <1>3 DEF ShapeOf
  <2>3. Bottom(t, r[Len(r)])
    BY <1>1, <1>3 DEF ShapeOf
  <2>4. QED BY <2>1, <2>2, <2>3 DEF ShapeOf
<1>5. QED BY <1>2, <1>3, <1>4, IntoStack

LEMMA GoToBecomes ==
    ASSUME StackOK, NEW t \in Threads, NEW pc \in Places, GoTo(t, pc)
    PROVE  Become(t, [Top(t) EXCEPT !.pc = pc])
<1> DEFINE s == stack[t]
           f == [Top(t) EXCEPT !.pc = pc]
           r == <<f>> \o Tail(s)
           q == [s EXCEPT ![1] = f]
<1>1. s \in Seq(FrameSet) \ {<<>>} /\ Len(s) \in Nat \ {0} /\ Top(t) = s[1] /\ Top(t) \in FrameSet
  BY TopFacts
<1>2. f \in FrameSet
  BY <1>1 DEF FrameSet
<1>3. stack' = [stack EXCEPT ![t] = q]
  BY <1>1 DEF GoTo, StackOK, Stacks
<1> HIDE DEF f, s
<1>4. q \in Seq(FrameSet) /\ Len(q) = Len(s) /\ q[1] = f /\ \A i \in 2..Len(s) : q[i] = s[i]
  BY <1>1, <1>2, ExceptSeq
<1>5. r \in Seq(FrameSet) /\ Len(r) = Len(s) /\ r[1] = f /\ \A i \in 2..Len(s) : r[i] = s[i]
  BY <1>1, <1>2, Replaced
<1> HIDE DEF q, r
<1>6. \A i \in 1..Len(s) : q[i] = r[i]
  BY <1>1, <1>4, <1>5
<1>7. q = r
  BY <1>4, <1>5, <1>6, SeqEqual
<1>8. QED BY <1>3, <1>7 DEF Become, StackOK, Stacks, f, s, r

------------------------------------------------------------------------------
(* Frames and batches.                                                     *)
LEMMA BatchFacts ==
    /\ Cardinality(Workers) \in Nat \ {0} /\ Batches = 1..Cardinality(Workers)
    /\ 1 \in Batches /\ 0 \notin Batches /\ Batches \subseteq Nat
    /\ IsFiniteSet(Batches) /\ Cardinality(Batches) = Cardinality(Workers)
<1>1. Cardinality(Workers) \in Nat /\ Cardinality(Workers) # 0
  BY SchedAssumption, FS_CardinalityType, FS_EmptySet
<1>2. Batches = 1..Cardinality(Workers)
  BY DEF Batches
<1>3. IsFiniteSet(Batches) /\ Cardinality(Batches) = Cardinality(Workers)
  BY <1>1, <1>2, FS_Interval
<1>4. QED BY <1>1, <1>2, <1>3

LEMMA FrameOf ==
    ASSUME NEW pc \in Places \ {"inc"}, NEW j \in Jobs \cup {NoJob}, j = NoJob <=> pc \in Idle
    PROVE  /\ Frame(pc, j) \in FrameSet /\ FrameRight(Frame(pc, j))
           /\ Frame(pc, j).pc = pc /\ Frame(pc, j).job = j /\ Frame(pc, j).batch = 0
           /\ Frame(pc, j).idle = FALSE
BY DEF Frame, FrameSet, FrameRight

LEMMA UserOf ==
    ASSUME NEW code \in Seq(Calls)
    PROVE  /\ UserCode(code) \in FrameSet /\ FrameRight(UserCode(code))
           /\ UserCode(code).pc = "user" /\ UserCode(code).job = NoJob
           /\ UserCode(code).batch = 0 /\ UserCode(code).code = code
BY DEF UserCode, Frame, FrameSet, FrameRight, Places, Idle

(* A frame that goes on to another place, with the same job.               *)
LEMMA MovedFrame ==
    ASSUME NEW f \in FrameSet, FrameRight(f), f.pc \notin Idle, f.pc # "inc",
           NEW pc \in Places \ Idle, pc # "inc"
    PROVE  LET g == [f EXCEPT !.pc = pc]
           IN /\ g \in FrameSet /\ FrameRight(g)
              /\ g.pc = pc /\ g.job = f.job /\ g.batch = 0 /\ g.idle = f.idle
BY DEF FrameSet, FrameRight

LEMMA MovedIdleFrame ==
    ASSUME NEW f \in FrameSet, FrameRight(f), f.pc \in Idle, NEW pc \in Idle
    PROVE  LET g == [f EXCEPT !.pc = pc]
           IN /\ g \in FrameSet /\ FrameRight(g)
              /\ g.pc = pc /\ g.job = NoJob /\ g.batch = 0
BY DEF FrameSet, FrameRight, Places, Idle

LEMMA BaseFits ==
    ASSUME StackOK, NEW t \in WThreads, Len(stack[t]) = 1,
           NEW f \in FrameSet, FrameRight(f), f.pc \in BasePlaces
    PROVE  Fits(t, f)
<1>1. t \notin Clients
  BY SchedAssumption
<1>2. QED BY <1>1 DEF Fits, Bottom

LEMMA JobFrame ==
    ASSUME NEW j \in Jobs, NEW pc \in Places \ (Idle \cup {"inc"})
    PROVE  /\ Frame(pc, j) \in FrameSet /\ FrameRight(Frame(pc, j))
           /\ Frame(pc, j).pc = pc /\ Frame(pc, j).job = j /\ Frame(pc, j).batch = 0
           /\ Frame(pc, j).idle = FALSE
BY FrameOf, SchedAssumption

LEMMA MyJobIsJob ==
    ASSUME StackOK, NEW t \in Threads, Top(t).pc \notin Idle
    PROVE  MyJob(t) \in Jobs
BY TopFacts DEF MyJob, FrameRight, FrameSet

(* A thread that has a code to go on with is not at the bottom of its stack*)
LEMMA NotAtBottom ==
    ASSUME StackOK, NEW t \in Threads, Top(t).pc \notin BasePlaces,
           t \in Clients => Top(t).pc # "user"
    PROVE  Len(stack[t]) > 1
<1>1. ~Bottom(t, Top(t))
  BY TopFacts, SchedAssumption DEF Bottom, BasePlaces, Threads
<1>2. QED BY <1>1, TopFacts, OneOrMore

(* Entering and leaving fly_sched_exec_job and the calls of the library.   *)
LEMMA GoToOK ==
    ASSUME StackOK, NEW t \in Threads, NEW pc \in Places \ Idle, GoTo(t, pc),
           Top(t).pc \notin Idle, Top(t).pc # "inc", pc # "inc",
           t \in Clients => pc \in ClientPlaces,
           Len(stack[t]) = 1 => pc \in BasePlaces /\ t \in WThreads,
           \/ Top(t).pc \in Executing /\ pc \in Executing
           \/ Top(t).pc \in Called /\ pc \in Called
    PROVE  StackOK'
<1> DEFINE f == [Top(t) EXCEPT !.pc = pc]
<1>1. f \in FrameSet /\ FrameRight(f) /\ f.pc = pc
  BY TopFacts, MovedFrame
<1>2. Become(t, f)
  BY GoToBecomes
<1> HIDE DEF f
<1>3. Len(stack[t]) > 1 => Above(f, stack[t][2])
  <2>1. SUFFICES ASSUME Len(stack[t]) > 1 PROVE Above(f, stack[t][2])
    OBVIOUS
  <2>2. Above(Top(t), stack[t][2])
    BY <2>1, TopFacts
  <2>3. QED BY <1>1, <2>2 DEF Above, Executing, Called
<1>4. Fits(t, f)
  BY <1>1, <1>3 DEF Fits, Bottom
<1>5. QED BY <1>2, <1>4, BecomeOK

LEMMA ExecOK ==
    ASSUME StackOK, NEW t \in Threads \ Clients, NEW j \in Jobs, NEW f, Exec(t, j, f), Fits(t, f),
           f.pc \in {"schedule", "help"}
    PROVE  StackOK'
<1>1. PushOn(t, Frame("exec", j), f)
  BY DEF Exec, PushOn
<1>2. Frame("exec", j) \in FrameSet /\ FrameRight(Frame("exec", j)) /\ Frame("exec", j).pc = "exec"
  BY FrameOf, SchedAssumption DEF Places, Idle
<1>3. Above(Frame("exec", j), f)
  BY <1>2 DEF Above, Executing
<1>4. QED BY <1>1, <1>2, <1>3, PushOK

LEMMA EnterOK ==
    ASSUME StackOK, NEW t \in Threads, NEW j \in Jobs, NEW pc \in Called, At(t, "user"),
           Top(t).code # <<>>, t \in Clients => pc \in ClientPlaces, Enter(t, Frame(pc, j))
    PROVE  StackOK'
<1> DEFINE g == UserCode(Tail(Top(t).code))
<1>1. /\ Frame(pc, j) \in FrameSet /\ FrameRight(Frame(pc, j)) /\ Frame(pc, j).pc = pc
  BY FrameOf, SchedAssumption DEF Places, Idle, Called
<1>2. Top(t).code \in Seq(Calls) /\ FrameRight(Top(t))
  BY TopFacts DEF FrameSet
<1>3. Tail(Top(t).code) \in Seq(Calls)
  BY <1>2, HeadTailProperties
<1>4. g \in FrameSet /\ FrameRight(g) /\ g.pc = "user"
  BY <1>3, UserOf
<1>5. PushOn(t, Frame(pc, j), g)
  BY DEF Enter, PushOn
<1> HIDE DEF g
<1>6. Fits(t, g)
  BY <1>4, TopFacts DEF Fits, Bottom, Above, At, ClientPlaces, Called, Executing, BasePlaces
<1>7. Above(Frame(pc, j), g)
  BY <1>1, <1>4 DEF Above
<1>8. QED BY <1>1, <1>4, <1>5, <1>6, <1>7, PushOK

LEMMA UserOK ==
    ASSUME StackOK, NEW t \in Threads, At(t, "user"), Top(t).code # <<>>,
           Become(t, UserCode(Tail(Top(t).code)))
    PROVE  StackOK'
<1> DEFINE g == UserCode(Tail(Top(t).code))
<1>1. Top(t).code \in Seq(Calls)
  BY TopFacts DEF FrameSet
<1>2. Tail(Top(t).code) \in Seq(Calls)
  BY <1>1, HeadTailProperties
<1>3. g \in FrameSet /\ FrameRight(g) /\ g.pc = "user"
  BY <1>2, UserOf
<1> HIDE DEF g
<1>4. Fits(t, g)
  BY <1>3, TopFacts DEF Fits, Bottom, Above, At, ClientPlaces, Called, Executing, BasePlaces
<1>5. QED BY <1>4, BecomeOK DEF g

(* The only way off the bottom of a worker's stack, and every other return.*)
LEMMA ExecutedOK ==
    ASSUME StackOK, NEW t \in Threads, Top(t).pc \in Executing, Executed(t)
    PROVE  StackOK'
<1>1. Len(stack[t]) > 1
  BY NotAtBottom DEF BasePlaces, Executing
<1>2. CASE Len(stack[t]) = 2 /\ t \in WThreads
  <2> DEFINE f == Frame(IF Top(t).idle THEN "sleep" ELSE "ready", NoJob)
  <2>1. f \in FrameSet /\ FrameRight(f) /\ f.pc \in {"sleep", "ready"}
    BY FrameOf DEF Places, Idle
  <2>2. stack' = [stack EXCEPT ![t] = <<f>>]
    BY <1>2 DEF Executed
  <2> HIDE DEF f
  <2>3. <<f>> \in Seq(FrameSet) \ {<<>>} /\ Len(<<f>>) = 1 /\ <<f>>[1] = f
    BY <2>1
  <2>4. ShapeOf(t, <<f>>)
    BY <1>2, <2>1, <2>3, SchedAssumption DEF ShapeOf, Bottom, BasePlaces
  <2>5. QED BY <2>2, <2>3, <2>4, IntoStack
<1>3. CASE ~(Len(stack[t]) = 2 /\ t \in WThreads)
  BY <1>1, <1>3, LeaveOK DEF Executed
<1>4. QED BY <1>2, <1>3

------------------------------------------------------------------------------
(* TypeOK without the stacks, and with their shape.                        *)
JobSet == [live : BOOLEAN, type : {"pfor", "task"}, fun : Funs,
           execed : SUBSET Batches, batches_done : Nat, sem : Nat]
DataOK ==
    /\ ready \in Seq(Jobs) /\ running \in Seq(Jobs) /\ done \in Seq(Jobs)
    /\ job \in [Jobs -> JobSet]
    /\ task \in [Funs -> Jobs \cup {NoJob}]
    /\ sem \in [WThreads -> Nat]
    /\ failures \in 0..MaxFailures
    /\ runs \in [Jobs -> [Batches -> 0..2]]
Typed == DataOK /\ StackOK

LEMMA TypedIsTypeOK == Typed => TypeOK
BY DEF Typed, DataOK, StackOK, Stacks, TypeOK, JobSet

LEMMA JobTypes ==
    ASSUME DataOK, NEW j \in Jobs
    PROVE  /\ job[j].live \in BOOLEAN /\ job[j].type \in {"pfor", "task"} /\ job[j].fun \in Funs
           /\ job[j].execed \in SUBSET Batches /\ job[j].batches_done \in Nat
           /\ job[j].sem \in Nat /\ Body[job[j].fun] \in Seq(Calls)
           /\ runs[j] \in [Batches -> 0..2] /\ NbBatches(j) \in Nat \ {0}
<1>1. job[j] \in JobSet
  BY DEF DataOK
<1>2. NbBatches(j) \in Nat \ {0}
  BY BatchFacts DEF NbBatches
<1>3. QED BY <1>1, <1>2, SchedAssumption DEF JobSet, DataOK

LEMMA FreedType ==
    ASSUME NEW ty \in {"pfor", "task"}, NEW f \in Funs
    PROVE  [Freed EXCEPT !.type = ty] \in JobSet /\ NewJob(ty, f) \in JobSet
<1>1. (CHOOSE x \in Funs : TRUE) \in Funs
  BY SchedAssumption
<1>2. QED BY <1>1 DEF Freed, NewJob, JobSet

LEMMA TakenTypes ==
    ASSUME DataOK, ready # <<>>
    PROVE  Front(ready) \in Seq(Jobs) /\ Taken \in Jobs
BY TakenFrom DEF DataOK, Taken

LEMMA RunningJobListed ==
    ASSUME DataOK, RunningJob # NoJob
    PROVE  /\ RunningJob \in ToSet(running) /\ RunningJob \in Jobs
           /\ \/ ~IsDone(RunningJob)
              \/ \A j \in ToSet(running) : IsDone(j)
<1> DEFINE open == {i \in DOMAIN running : ~IsDone(running[i])}
<1>1. running \in Seq(Jobs) /\ Len(running) \in Nat /\ DOMAIN running = 1..Len(running)
  BY LenProperties DEF DataOK
<1>2. CASE open # {}
  <2>1. RunningJob = running[Min(open)]
    BY <1>2 DEF RunningJob
  <2>2. open \in SUBSET Nat
    BY <1>1
  <2>3. Min(open) \in open
    BY <1>2, <2>2, LeastOf
  <2>4. QED BY <1>1, <2>1, <2>3, ElementOfSeq DEF ToSet
<1>3. CASE open = {} /\ running # <<>>
  <2>1. RunningJob = Last(running)
    BY <1>3 DEF RunningJob
  <2>2. Last(running) \in ToSet(running) /\ Last(running) \in Jobs
    BY <1>1, <1>3, TakenFrom
  <2>3. \A j \in ToSet(running) : IsDone(j)
    BY <1>3 DEF ToSet
  <2>4. QED BY <2>1, <2>2, <2>3
<1>4. CASE open = {} /\ running = <<>>
  BY <1>4 DEF RunningJob
<1>5. QED BY <1>2, <1>3, <1>4

LEMMA LeastUnclaimed ==
    ASSUME NEW j, Unclaimed(j) # {}
    PROVE  Min(Unclaimed(j)) \in Unclaimed(j) /\ Min(Unclaimed(j)) \in Batches
<1>1. Unclaimed(j) \in SUBSET Nat
  BY BatchFacts DEF Unclaimed
<1>2. Min(Unclaimed(j)) \in Unclaimed(j)
  BY <1>1, LeastOf
<1>3. QED BY <1>2 DEF Unclaimed

LEMMA CallTypes ==
    ASSUME StackOK, NEW t \in Threads, At(t, "user"), Top(t).code # <<>>
    PROVE  Head(Top(t).code)[2] \in Funs
<1>1. Top(t).code \in Seq(Calls)
  BY TopFacts DEF FrameSet
<1>2. Head(Top(t).code) \in Calls
  BY <1>1, HeadTailProperties
<1>3. QED BY <1>2 DEF Calls

LEMMA RunsTyped ==
    ASSUME DataOK, NEW j \in Jobs, NEW b \in Batches,
           runs' = [runs EXCEPT ![j][b] = Min({@ + 1, 2})]
    PROVE  /\ runs' \in [Jobs -> [Batches -> 0..2]]
           /\ runs'[j][b] = IF runs[j][b] = 0 THEN 1 ELSE 2
           /\ \A i \in Jobs, c \in Batches : i # j \/ c # b => runs'[i][c] = runs[i][c]
<1>1. runs[j][b] \in 0..2
  BY DEF DataOK
<1>2. Min({runs[j][b] + 1, 2}) = IF runs[j][b] = 0 THEN 1 ELSE 2
  BY <1>1, Capped
<1> DEFINE v == IF runs[j][b] = 0 THEN 1 ELSE 2
<1>3. v \in 0..2
  OBVIOUS
<1>4. runs' = [runs EXCEPT ![j] = [runs[j] EXCEPT ![b] = v]]
  BY <1>2 DEF DataOK
<1> HIDE DEF v
<1>5. runs[j] \in [Batches -> 0..2] /\ runs \in [Jobs -> [Batches -> 0..2]]
  BY DEF DataOK
<1>6. [runs[j] EXCEPT ![b] = v] \in [Batches -> 0..2]
  BY <1>3, <1>5
<1>7. runs' \in [Jobs -> [Batches -> 0..2]]
  BY <1>4, <1>5, <1>6
<1>8. \A i \in Jobs, c \in Batches : runs'[i][c] = IF i = j /\ c = b THEN v ELSE runs[i][c]
  BY <1>4, <1>5
<1>9. QED BY <1>7, <1>8 DEF v

LEMMA ListTypes ==
    ASSUME DataOK, NEW j \in Jobs
    PROVE  /\ ListOrForget(running, j) => running' \in Seq(Jobs) /\ failures' \in 0..MaxFailures
           /\ ListOrForget(done, j) => done' \in Seq(Jobs) /\ failures' \in 0..MaxFailures
           /\ Fails => failures' \in 0..MaxFailures
<1>1. Append(running, j) \in Seq(Jobs) /\ Append(done, j) \in Seq(Jobs)
  BY DEF DataOK
<1>2. Fails => failures' \in 0..MaxFailures
  BY SchedAssumption DEF Fails, DataOK
<1>3. QED BY <1>1, <1>2 DEF ListOrForget, DataOK

LEMMA StepTypes ==
    ASSUME Typed, NEW t \in Threads, Step(t)
    PROVE  Typed'
<1> USE DEF Typed
<1>0. /\ Top(t) \in FrameSet /\ FrameRight(Top(t)) /\ Top(t).pc \in Places
      /\ Len(stack[t]) \in Nat \ {0} /\ (t \in Clients => Top(t).pc \in ClientPlaces)
      /\ (Len(stack[t]) = 1 => Bottom(t, Top(t)))
      /\ (Len(stack[t]) > 1 => Above(Top(t), stack[t][2]))
      /\ (t \in Clients <=> t \notin WThreads)
  BY TopFacts, SchedAssumption DEF FrameSet, Threads
<1>1. CASE GetReady(t)
  <2>1. At(t, "ready") /\ t \notin Clients /\ Len(stack[t]) = 1
    BY <1>0, <1>1, OneOrMore DEF GetReady, At, ClientPlaces, Above, Executing, Called
  <2>2. CASE ready # <<>>
    <3>1. Taken \in Jobs /\ ready' \in Seq(Jobs) /\ Become(t, Frame("move", Taken))
      BY <1>1, <2>2, TakenTypes DEF GetReady
    <3>2. Fits(t, Frame("move", Taken))
      BY <1>0, <2>1, <3>1, JobFrame, BaseFits DEF Places, Idle, BasePlaces
    <3>3. StackOK'
      BY <3>1, <3>2, BecomeOK
    <3>4. QED BY <1>1, <3>1, <3>3 DEF GetReady, DataOK
  <2>3. CASE ready = <<>>
    <3>1. Become(t, [Top(t) EXCEPT !.pc = "running"])
      BY <1>1, <2>3, GoToBecomes DEF GetReady, Places
    <3>2. Fits(t, [Top(t) EXCEPT !.pc = "running"])
      BY <1>0, <2>1, MovedIdleFrame, BaseFits DEF At, Idle, BasePlaces
    <3>3. StackOK'
      BY <3>1, <3>2, BecomeOK
    <3>4. QED BY <1>1, <2>3, <3>3 DEF GetReady, DataOK
  <2>4. QED BY <2>2, <2>3
<1>2. CASE MoveToRunning(t)
  <2>1. At(t, "move") /\ t \notin Clients /\ Top(t).pc = "move"
    BY <1>0, <1>2 DEF MoveToRunning, At, ClientPlaces
  <2>2. MyJob(t) \in Jobs
    BY <2>1, MyJobIsJob DEF Idle
  <2>3. DataOK'
    <3>1. running' \in Seq(Jobs) /\ failures' \in 0..MaxFailures
      BY <1>2, <2>2, ListTypes DEF MoveToRunning
    <3>2. job' \in [Jobs -> JobSet]
      <4>1. CASE IsTask(MyJob(t))
        <5>1. [job[MyJob(t)] EXCEPT !.batches_done = NbBatches(MyJob(t))] \in JobSet
          BY <2>2, JobTypes DEF JobSet, DataOK
        <5>2. QED BY <1>2, <2>2, <4>1, <5>1 DEF MoveToRunning, DataOK
      <4>2. CASE ~IsTask(MyJob(t))
        BY <1>2, <4>2 DEF MoveToRunning, DataOK
      <4>3. QED BY <4>1, <4>2
    <3>3. QED BY <1>2, <3>1, <3>2 DEF MoveToRunning, DataOK
  <2>4. StackOK'
    <3>1. CASE IsTask(MyJob(t))
      <4>1. Exec(t, MyJob(t), Frame("schedule", MyJob(t)))
        BY <1>2, <3>1 DEF MoveToRunning
      <4> DEFINE f == Frame("schedule", MyJob(t))
      <4>2. f \in FrameSet /\ FrameRight(f) /\ f.pc = "schedule"
        BY <2>2, JobFrame DEF Places, Idle
      <4> HIDE DEF f
      <4>3. Fits(t, f)
        BY <1>0, <2>1, <4>2 DEF Fits, Bottom, BasePlaces, Above, Called, Executing
      <4>4. QED BY <2>1, <2>2, <4>1, <4>2, <4>3, ExecOK DEF f
    <3>2. CASE ~IsTask(MyJob(t))
      <4>1. GoTo(t, "notify")
        BY <1>2, <3>2 DEF MoveToRunning
      <4>2. QED BY <1>0, <2>1, <4>1, GoToOK DEF Places, Idle, Called, BasePlaces, ClientPlaces
    <3>3. QED BY <3>1, <3>2
  <2>5. QED BY <2>3, <2>4
<1>3. CASE GetRunning(t)
  <2>1. At(t, "running") /\ t \notin Clients /\ Len(stack[t]) = 1
    BY <1>0, <1>3, OneOrMore DEF GetRunning, At, ClientPlaces, Above, Executing, Called
  <2>2. CASE RunningJob = NoJob
    <3>1. Become(t, [Top(t) EXCEPT !.pc = "sleep"])
      BY <1>3, <2>2, GoToBecomes DEF GetRunning, Places
    <3>2. Fits(t, [Top(t) EXCEPT !.pc = "sleep"])
      BY <1>0, <2>1, MovedIdleFrame, BaseFits DEF At, Idle, BasePlaces
    <3>3. StackOK'
      BY <3>1, <3>2, BecomeOK
    <3>4. QED BY <1>3, <3>3 DEF GetRunning, DataOK
  <2>3. CASE RunningJob # NoJob
    <3>1. RunningJob \in Jobs
      BY <2>3, RunningJobListed
    <3>2. Exec(t, RunningJob, Frame("schedule", RunningJob))
      BY <1>3, <2>3 DEF GetRunning
    <3>3. Fits(t, Frame("schedule", RunningJob)) /\ Frame("schedule", RunningJob).pc = "schedule"
      BY <1>0, <2>1, <3>1, JobFrame, BaseFits DEF Places, Idle, BasePlaces
    <3>4. StackOK'
      BY <2>1, <3>1, <3>2, <3>3, ExecOK
    <3>5. QED BY <1>3, <3>4 DEF GetRunning, DataOK
  <2>4. QED BY <2>2, <2>3
<1>4. CASE Sleep(t)
  <2>1. At(t, "sleep") /\ t \in WThreads /\ Len(stack[t]) = 1
    BY <1>0, <1>4, OneOrMore DEF Sleep, At, ClientPlaces, Above, Executing, Called
  <2>2. Become(t, [Top(t) EXCEPT !.pc = "ready"])
    BY <1>4, GoToBecomes DEF Sleep, Places
  <2>3. Fits(t, [Top(t) EXCEPT !.pc = "ready"])
    BY <1>0, <2>1, MovedIdleFrame, BaseFits DEF At, Idle, BasePlaces
  <2>4. StackOK'
    BY <2>2, <2>3, BecomeOK
  <2>5. sem' \in [WThreads -> Nat]
    BY <1>4, <2>1 DEF Sleep, DataOK
  <2>6. QED BY <1>4, <2>4, <2>5 DEF Sleep, DataOK
<1>5. CASE Notify(t)
  <2>1. At(t, "notify") /\ Top(t).pc = "notify"
    BY <1>5 DEF Notify, At
  <2>2. MyJob(t) \in Jobs
    BY <2>1, MyJobIsJob DEF Idle
  <2>3. sem' \in [WThreads -> Nat]
    BY <1>5 DEF Notify, DataOK
  <2>4. ASSUME t \in WThreads /\ IsBase(t) /\ Exec(t, MyJob(t), Frame("schedule", MyJob(t)))
        PROVE  StackOK'
    <3>1. Fits(t, Frame("schedule", MyJob(t))) /\ Frame("schedule", MyJob(t)).pc = "schedule"
      BY <2>2, <2>4, JobFrame, BaseFits DEF Places, Idle, BasePlaces, IsBase
    <3>2. QED BY <1>0, <2>2, <2>4, <3>1, ExecOK
  <2>5. ASSUME t \in WThreads /\ ~IsBase(t) /\ GoTo(t, "help")
        PROVE  StackOK'
    BY <1>0, <2>1, <2>5, GoToOK DEF Places, Idle, Called, IsBase
  <2>6. ASSUME t \in Clients /\ GoTo(t, "wait")
        PROVE  StackOK'
    <3>1. Len(stack[t]) # 1
      BY <1>0, <2>1, <2>6 DEF Bottom
    <3>2. QED BY <1>0, <2>1, <2>6, <3>1, GoToOK DEF Places, Idle, Called, ClientPlaces
  <2>7. ASSUME t \in Clients /\ Leave(t)
        PROVE  StackOK'
    <3>1. Len(stack[t]) > 1
      BY <1>0, <2>1, <2>7, OneOrMore DEF Bottom
    <3>2. QED BY <2>7, <3>1, LeaveOK
  <2>8. StackOK'
    BY <1>5, <2>4, <2>5, <2>6, <2>7 DEF Notify
  <2>9. QED BY <1>5, <2>3, <2>8 DEF Notify, DataOK
<1>6. CASE ExecBatch(t)
  <2>1. At(t, "exec") /\ Top(t).pc = "exec" /\ t \notin Clients
    BY <1>0, <1>6 DEF ExecBatch, At, ClientPlaces
  <2>2. MyJob(t) \in Jobs /\ Len(stack[t]) > 1
    BY <2>1, MyJobIsJob, NotAtBottom DEF Idle, BasePlaces
  <2>3. CASE Unclaimed(MyJob(t)) # {}
    <3> DEFINE j == MyJob(t)
               b == Min(Unclaimed(j))
               g == [Top(t) EXCEPT !.pc = "inc", !.batch = b]
    <3>1. b \in Batches /\ b # 0
      BY <2>3, LeastUnclaimed, BatchFacts
    <3>2. /\ job' = [job EXCEPT ![j].execed = Claim(@, b)]
          /\ runs' = [runs EXCEPT ![j][b] = Min({@ + 1, 2})]
          /\ PushOn(t, UserCode(Body[job[j].fun]), g)
      BY <1>6, <2>3 DEF ExecBatch, PushOn
    <3> HIDE DEF b
    <3>3. job' \in [Jobs -> JobSet]
      <4>1. [job[j] EXCEPT !.execed = Claim(@, b)] \in JobSet
        BY <2>2, <3>1 DEF DataOK, JobSet, Claim
      <4>2. QED BY <2>2, <3>2, <4>1 DEF DataOK
    <3>4. runs' \in [Jobs -> [Batches -> 0..2]]
      BY <2>2, <3>1, <3>2, RunsTyped
    <3>5. /\ UserCode(Body[job[j].fun]) \in FrameSet /\ FrameRight(UserCode(Body[job[j].fun]))
          /\ UserCode(Body[job[j].fun]).pc = "user"
      BY <2>2, JobTypes, UserOf
    <3>6. g \in FrameSet /\ FrameRight(g) /\ g.pc = "inc"
      BY <1>0, <2>1, <3>1 DEF FrameSet, FrameRight, Places, Idle
    <3>7. Fits(t, g)
      BY <1>0, <2>1, <2>2, <3>6 DEF Fits, Above, Executing, Called
    <3>8. StackOK'
      BY <2>1, <3>2, <3>5, <3>6, <3>7, PushOK DEF Above
    <3>9. QED BY <1>6, <3>3, <3>4, <3>8 DEF ExecBatch, DataOK
  <2>4. CASE Unclaimed(MyJob(t)) = {}
    <3> DEFINE g == [Top(t) EXCEPT !.pc = "isdone", !.idle = TRUE]
    <3>1. Become(t, g) /\ UNCHANGED <<job, runs>>
      BY <1>6, <2>4 DEF ExecBatch
    <3>2. g \in FrameSet /\ FrameRight(g) /\ g.pc = "isdone"
      BY <1>0, <2>1 DEF FrameSet, FrameRight, Places, Idle
    <3>3. Fits(t, g)
      BY <1>0, <2>1, <2>2, <3>2 DEF Fits, Above, Executing, Called
    <3>4. StackOK'
      BY <3>1, <3>3, BecomeOK
    <3>5. QED BY <1>6, <3>1, <3>4 DEF ExecBatch, DataOK
  <2>5. QED BY <2>3, <2>4
<1>7. CASE ExecTask(t)
  <2>1. At(t, "exec") /\ Top(t).pc = "exec" /\ t \notin Clients
    BY <1>0, <1>7 DEF ExecTask, At, ClientPlaces
  <2>2. MyJob(t) \in Jobs /\ Len(stack[t]) > 1
    BY <2>1, MyJobIsJob, NotAtBottom DEF Idle, BasePlaces
  <2> DEFINE j == MyJob(t)
             g == [Top(t) EXCEPT !.pc = "isdone"]
  <2>3. /\ runs' = [runs EXCEPT ![j][1] = Min({@ + 1, 2})]
        /\ PushOn(t, UserCode(Body[job[j].fun]), g)
    BY <1>7 DEF ExecTask, PushOn
  <2>4. runs' \in [Jobs -> [Batches -> 0..2]]
    BY <2>2, <2>3, RunsTyped, BatchFacts
  <2>5. /\ UserCode(Body[job[j].fun]) \in FrameSet /\ FrameRight(UserCode(Body[job[j].fun]))
        /\ UserCode(Body[job[j].fun]).pc = "user"
    BY <2>2, JobTypes, UserOf
  <2>6. g \in FrameSet /\ FrameRight(g) /\ g.pc = "isdone"
    BY <1>0, <2>1 DEF FrameSet, FrameRight, Places, Idle
  <2>7. Fits(t, g)
    BY <1>0, <2>1, <2>2, <2>6 DEF Fits, Above, Executing, Called
  <2>8. StackOK'
    BY <2>1, <2>3, <2>5, <2>6, <2>7, PushOK DEF Above
  <2>9. QED BY <1>7, <2>4, <2>8 DEF ExecTask, DataOK
<1>8. CASE FunReturns(t)
  <2>1. Len(stack[t]) > 1
    BY <1>0, <1>8, NotAtBottom, OneOrMore DEF FunReturns, At, Bottom, BasePlaces
  <2>2. StackOK'
    BY <1>8, <2>1, LeaveOK DEF FunReturns
  <2>3. QED BY <1>8, <2>2 DEF FunReturns, DataOK
<1>9. CASE Increment(t)
  <2>1. At(t, "inc") /\ Top(t).pc = "inc" /\ t \notin Clients
    BY <1>0, <1>9 DEF Increment, At, ClientPlaces
  <2>2. MyJob(t) \in Jobs /\ Len(stack[t]) > 1
    BY <2>1, MyJobIsJob, NotAtBottom DEF Idle, BasePlaces
  <2> DEFINE g == [Top(t) EXCEPT !.pc = "isdone", !.batch = 0]
  <2>3. g \in FrameSet /\ FrameRight(g) /\ g.pc = "isdone"
    BY <1>0, <2>1 DEF FrameSet, FrameRight, Places, Idle
  <2>4. Fits(t, g)
    BY <1>0, <2>1, <2>2, <2>3 DEF Fits, Above, Executing, Called
  <2>5. StackOK'
    BY <1>9, <2>4, BecomeOK DEF Increment
  <2>6. job' \in [Jobs -> JobSet]
    <3> DEFINE n == job[MyJob(t)].batches_done + 1
    <3>0. n \in Nat /\ job[MyJob(t)] \in JobSet
      BY <2>2, JobTypes DEF DataOK
    <3> HIDE DEF n
    <3>1. [job[MyJob(t)] EXCEPT !.batches_done = n] \in JobSet
      BY <3>0 DEF JobSet
    <3>2. QED BY <1>9, <2>2, <3>1 DEF Increment, DataOK, n
  <2>7. QED BY <1>9, <2>5, <2>6 DEF Increment, DataOK
<1>10. CASE CheckDone(t)
  <2>1. At(t, "isdone") /\ Top(t).pc = "isdone" /\ t \notin Clients
    BY <1>0, <1>10 DEF CheckDone, At, ClientPlaces
  <2>2. MyJob(t) \in Jobs /\ Len(stack[t]) > 1
    BY <2>1, MyJobIsJob, NotAtBottom DEF Idle, BasePlaces
  <2>3. ASSUME GoTo(t, "unlist") PROVE StackOK'
    BY <1>0, <2>1, <2>2, <2>3, GoToOK DEF Places, Idle, Executing
  <2>4. ASSUME Executed(t) PROVE StackOK'
    BY <2>1, <2>4, ExecutedOK DEF Executing
  <2>5. StackOK'
    BY <1>10, <2>3, <2>4 DEF CheckDone
  <2>6. QED BY <1>10, <2>5 DEF CheckDone, DataOK
<1>11. CASE RemoveRunning(t)
  <2>1. At(t, "unlist") /\ Top(t).pc = "unlist" /\ t \notin Clients
    BY <1>0, <1>11 DEF RemoveRunning, At, ClientPlaces
  <2>2. Len(stack[t]) > 1
    BY <2>1, NotAtBottom DEF Idle, BasePlaces
  <2>3. StackOK'
    BY <1>0, <1>11, <2>1, <2>2, GoToOK DEF RemoveRunning, Places, Idle, Executing
  <2>4. running' \in Seq(Jobs)
    BY <1>11, RemoveFirstProperties DEF RemoveRunning, WithoutRunning, DataOK
  <2>5. QED BY <1>11, <2>3, <2>4 DEF RemoveRunning, DataOK
<1>12. CASE MoveToDone(t)
  <2>1. At(t, "todone") /\ Top(t).pc = "todone" /\ t \notin Clients
    BY <1>0, <1>12 DEF MoveToDone, At, ClientPlaces
  <2>2. MyJob(t) \in Jobs /\ Len(stack[t]) > 1
    BY <2>1, MyJobIsJob, NotAtBottom DEF Idle, BasePlaces
  <2>3. StackOK'
    BY <1>0, <1>12, <2>1, <2>2, GoToOK DEF MoveToDone, Places, Idle, Executing
  <2>4. done' \in Seq(Jobs) /\ failures' \in 0..MaxFailures
    BY <1>12, <2>2, ListTypes DEF MoveToDone
  <2>5. QED BY <1>12, <2>3, <2>4 DEF MoveToDone, DataOK
<1>13. CASE PostJob(t)
  <2>1. At(t, "post") /\ Top(t).pc = "post" /\ t \notin Clients
    BY <1>0, <1>13 DEF PostJob, At, ClientPlaces
  <2>2. MyJob(t) \in Jobs
    BY <2>1, MyJobIsJob DEF Idle
  <2>3. StackOK'
    BY <1>13, <2>1, ExecutedOK DEF PostJob, Executing
  <2>4. job' \in [Jobs -> JobSet]
    <3> DEFINE n == job[MyJob(t)].sem + 1
    <3>0. n \in Nat /\ job[MyJob(t)] \in JobSet
      BY <2>2, JobTypes DEF DataOK
    <3> HIDE DEF n
    <3>1. [job[MyJob(t)] EXCEPT !.sem = n] \in JobSet
      BY <3>0 DEF JobSet
    <3>2. QED BY <1>13, <2>2, <3>1 DEF PostJob, DataOK, n
  <2>5. QED BY <1>13, <2>3, <2>4 DEF PostJob, DataOK
<1>14. CASE ParallelFor(t)
  <2>1. At(t, "user") /\ Top(t).code # <<>>
    BY <1>14 DEF ParallelFor, Calling
  <2>2. PICK j \in Jobs :
            /\ job' = [job EXCEPT ![j] = NewJob("pfor", Head(Top(t).code)[2])]
            /\ Enter(t, Frame(IF t \in Clients THEN "addready" ELSE "move", j))
    BY <1>14 DEF ParallelFor
  <2>3. job' \in [Jobs -> JobSet]
    <3>1. NewJob("pfor", Head(Top(t).code)[2]) \in JobSet
      BY <2>1, CallTypes, FreedType
    <3>2. QED BY <2>2, <3>1 DEF DataOK
  <2>4. StackOK'
    BY <2>1, <2>2, EnterOK DEF Called, ClientPlaces
  <2>5. QED BY <1>14, <2>3, <2>4 DEF ParallelFor, DataOK
<1>15. CASE PushTask(t)
  <2>1. At(t, "user") /\ Top(t).code # <<>>
    BY <1>15 DEF PushTask, Calling
  <2>2. PICK j \in Jobs :
            /\ job' = [job EXCEPT ![j] = NewJob("task", Head(Top(t).code)[2])]
            /\ task' = [task EXCEPT ![Head(Top(t).code)[2]] = j]
            /\ Enter(t, Frame("addready", j))
    BY <1>15 DEF PushTask
  <2>3. job' \in [Jobs -> JobSet] /\ task' \in [Funs -> Jobs \cup {NoJob}]
    <3>1. NewJob("task", Head(Top(t).code)[2]) \in JobSet /\ Head(Top(t).code)[2] \in Funs
      BY <2>1, CallTypes, FreedType
    <3>2. QED BY <2>2, <3>1 DEF DataOK
  <2>4. StackOK'
    BY <2>1, <2>2, EnterOK DEF Called, ClientPlaces
  <2>5. QED BY <1>15, <2>3, <2>4 DEF PushTask, DataOK
<1>16. CASE CreateFails(t)
  <2>1. At(t, "user") /\ Top(t).code # <<>>
    BY <1>16 DEF CreateFails, Calling
  <2>2. StackOK'
    BY <1>16, <2>1, UserOK DEF CreateFails
  <2>3. failures' \in 0..MaxFailures
    BY <1>16, SchedAssumption DEF CreateFails, Fails, DataOK
  <2>4. QED BY <1>16, <2>2, <2>3 DEF CreateFails, DataOK
<1>17. CASE WaitTask(t)
  <2>1. At(t, "user") /\ Top(t).code # <<>>
    BY <1>17 DEF WaitTask, Calling
  <2> DEFINE j == task[Head(Top(t).code)[2]]
  <2>2. ASSUME j = NoJob PROVE StackOK'
    BY <1>17, <2>1, <2>2, UserOK DEF WaitTask
  <2>3. ASSUME j # NoJob PROVE StackOK'
    <3>1. j \in Jobs
      BY <2>1, <2>3, CallTypes DEF DataOK
    <3>2. Enter(t, Frame("wait", j))
      BY <1>17, <2>3 DEF WaitTask
    <3>3. QED BY <2>1, <3>1, <3>2, EnterOK DEF Called, ClientPlaces
  <2>4. StackOK'
    BY <2>2, <2>3
  <2>5. QED BY <1>17, <2>4 DEF WaitTask, DataOK
<1>18. CASE AddToReady(t)
  <2>1. At(t, "addready") /\ Top(t).pc = "addready"
    BY <1>18 DEF AddToReady, At
  <2>2. MyJob(t) \in Jobs /\ Len(stack[t]) > 1
    BY <2>1, MyJobIsJob, NotAtBottom DEF Idle, BasePlaces
  <2>3. ASSUME GoTo(t, "notify") PROVE StackOK'
    BY <1>0, <2>1, <2>2, <2>3, GoToOK DEF Places, Idle, Called, ClientPlaces
  <2>4. ASSUME Leave(t) PROVE StackOK'
    BY <2>2, <2>4, LeaveOK
  <2>5. ASSUME GoTo(t, "destroy") PROVE StackOK'
    BY <1>0, <2>1, <2>2, <2>5, GoToOK DEF Places, Idle, Called, ClientPlaces
  <2>6. StackOK'
    BY <1>18, <2>3, <2>4, <2>5 DEF AddToReady
  <2>7. ready' \in Seq(Jobs) /\ failures' \in 0..MaxFailures
    <3>1. Append(ready, MyJob(t)) \in Seq(Jobs)
      BY <2>2 DEF DataOK
    <3>2. Fails => failures' \in 0..MaxFailures
      BY <2>2, ListTypes
    <3>3. QED BY <1>18, <3>1, <3>2 DEF AddToReady, DataOK
  <2>8. QED BY <1>18, <2>6, <2>7 DEF AddToReady, DataOK
<1>19. CASE Help(t)
  <2>1. At(t, "help") /\ Top(t).pc = "help" /\ t \notin Clients
    BY <1>0, <1>19 DEF Help, At, ClientPlaces
  <2>2. MyJob(t) \in Jobs /\ Len(stack[t]) > 1
    BY <2>1, MyJobIsJob, NotAtBottom DEF Idle, BasePlaces
  <2>3. ASSUME GoTo(t, "wait") PROVE StackOK'
    BY <1>0, <2>1, <2>2, <2>3, GoToOK DEF Places, Idle, Called, ClientPlaces
  <2>4. ASSUME Exec(t, MyJob(t), Top(t)) PROVE StackOK'
    BY <1>0, <2>1, <2>2, <2>4, ExecOK DEF Fits
  <2>5. StackOK'
    BY <1>19, <2>3, <2>4 DEF Help
  <2>6. QED BY <1>19, <2>5 DEF Help, DataOK
<1>20. CASE WaitJob(t)
  <2>1. At(t, "wait") /\ Top(t).pc = "wait"
    BY <1>20 DEF WaitJob, At
  <2>2. MyJob(t) \in Jobs /\ Len(stack[t]) > 1
    BY <2>1, MyJobIsJob, NotAtBottom DEF Idle, BasePlaces
  <2>3. StackOK'
    BY <1>0, <1>20, <2>1, <2>2, GoToOK DEF WaitJob, Places, Idle, Called, ClientPlaces
  <2>4. job' \in [Jobs -> JobSet]
    <3> DEFINE n == job[MyJob(t)].sem - 1
    <3>0. n \in Nat /\ job[MyJob(t)] \in JobSet
      BY <1>20, <2>2, JobTypes DEF WaitJob, Posted, DataOK
    <3> HIDE DEF n
    <3>1. [job[MyJob(t)] EXCEPT !.sem = n] \in JobSet
      BY <3>0 DEF JobSet
    <3>2. QED BY <1>20, <2>2, <3>1 DEF WaitJob, DataOK, n
  <2>5. QED BY <1>20, <2>3, <2>4 DEF WaitJob, DataOK
<1>21. CASE Collect(t)
  <2>1. At(t, "collect") /\ Top(t).pc = "collect"
    BY <1>21 DEF Collect, At
  <2>2. Len(stack[t]) > 1
    BY <2>1, NotAtBottom DEF Idle, BasePlaces
  <2>3. StackOK'
    BY <1>0, <1>21, <2>1, <2>2, GoToOK DEF Collect, Places, Idle, Called, ClientPlaces
  <2>4. done' \in Seq(Jobs)
    BY <1>21, RemoveFirstProperties DEF Collect, DataOK
  <2>5. QED BY <1>21, <2>3, <2>4 DEF Collect, DataOK
<1>22. CASE DestroyJob(t)
  <2>1. At(t, "destroy") /\ Top(t).pc = "destroy"
    BY <1>22 DEF DestroyJob, At
  <2>2. MyJob(t) \in Jobs /\ Len(stack[t]) > 1
    BY <2>1, MyJobIsJob, NotAtBottom DEF Idle, BasePlaces
  <2>3. StackOK'
    BY <1>22, <2>2, LeaveOK DEF DestroyJob
  <2>4. job' \in [Jobs -> JobSet]
    <3>1. job[MyJob(t)].type \in {"pfor", "task"}
      BY <2>2, JobTypes
    <3>2. [Freed EXCEPT !.type = job[MyJob(t)].type] \in JobSet
      BY <3>1, FreedType, SchedAssumption
    <3>3. QED BY <1>22, <2>2, <3>2 DEF DestroyJob, DataOK
  <2>5. runs' \in [Jobs -> [Batches -> 0..2]]
    BY <1>22, <2>2 DEF DestroyJob, DataOK
  <2>6. QED BY <1>22, <2>3, <2>4, <2>5 DEF DestroyJob, DataOK
<1>23. QED
  BY <1>1, <1>2, <1>3, <1>4, <1>5, <1>6, <1>7, <1>8, <1>9, <1>10, <1>11, <1>12, <1>13,
     <1>14, <1>15, <1>16, <1>17, <1>18, <1>19, <1>20, <1>21, <1>22 DEF Step

LEMMA InitTypes == Init => Typed
<1> SUFFICES ASSUME Init PROVE Typed
  OBVIOUS
<1>1. DataOK
  <2>1. Freed \in JobSet
    <3>1. (CHOOSE x \in Funs : TRUE) \in Funs
      BY SchedAssumption
    <3>2. QED BY <3>1 DEF Freed, JobSet
  <2>2. job \in [Jobs -> JobSet]
    BY <2>1 DEF Init
  <2>3. runs \in [Jobs -> [Batches -> 0..2]]
    BY DEF Init
  <2>4. failures \in 0..MaxFailures
    BY SchedAssumption DEF Init
  <2>5. QED BY <2>2, <2>3, <2>4 DEF Init, DataOK
<1>2. ASSUME NEW t \in Threads
      PROVE  stack[t] \in Seq(FrameSet) \ {<<>>} /\ ShapeOf(t, stack[t])
  <2>1. CASE t \in WThreads
    <3> DEFINE f == Frame("ready", NoJob)
    <3>1. f \in FrameSet /\ FrameRight(f) /\ f.pc = "ready"
      BY FrameOf DEF Places, Idle
    <3>2. stack[t] = <<f>>
      BY <2>1 DEF Init
    <3> HIDE DEF f
    <3>3. <<f>> \in Seq(FrameSet) \ {<<>>} /\ Len(<<f>>) = 1 /\ <<f>>[1] = f
      BY <3>1
    <3>4. t \notin Clients
      BY <2>1, SchedAssumption
    <3>5. QED BY <2>1, <3>1, <3>2, <3>3, <3>4 DEF ShapeOf, Bottom, BasePlaces
  <2>2. CASE t \notin WThreads
    <3> DEFINE f == UserCode(Program[t])
    <3>1. f \in FrameSet /\ FrameRight(f) /\ f.pc = "user"
      BY <2>2, UserOf, SchedAssumption DEF Threads
    <3>2. stack[t] = <<f>>
      BY <2>2 DEF Init
    <3> HIDE DEF f
    <3>3. <<f>> \in Seq(FrameSet) \ {<<>>} /\ Len(<<f>>) = 1 /\ <<f>>[1] = f
      BY <3>1
    <3>4. QED BY <2>2, <3>1, <3>2, <3>3 DEF ShapeOf, Bottom, ClientPlaces
  <2>3. QED BY <2>1, <2>2
<1>3. stack \in [Threads -> Seq(FrameSet) \ {<<>>}]
  <2>1. DOMAIN stack = Threads /\ stack = [t \in Threads |-> stack[t]]
    BY DEF Init
  <2>2. QED BY <1>2, <2>1
<1>4. QED BY <1>1, <1>2, <1>3 DEF Typed, StackOK, Stacks

LEMMA StutterTypes == ASSUME Typed, UNCHANGED vars PROVE Typed'
BY DEF Typed, DataOK, StackOK, Stacks, ShapeOf, vars

LEMMA NextTypes == Typed /\ [Next]_vars => Typed'
<1> SUFFICES ASSUME Typed, [Next]_vars PROVE Typed'
  OBVIOUS
<1>1. CASE \E t \in Threads : Step(t)
  BY <1>1, StepTypes
<1>2. CASE UNCHANGED vars
  BY <1>2, StutterTypes
<1>3. QED BY <1>1, <1>2 DEF Next, Rest

(* The types with the shape of the stacks: a frame has a job exactly where *)
(* the code works on one and a batch exactly while it is to be counted,    *)
(* and a worker's thread never returns from fly_schedule's loop.           *)
THEOREM TypesInvariant == Spec => []Typed
<1>1. QED BY InitTypes, NextTypes, PTL DEF Spec

(* Every variable of the scheduler keeps its type and every thread always  *)
(* has a frame to run, however deep functions call into the library again, *)
(* and also when malloc gives freed addresses out anew: no return in the   *)
(* code takes a thread off the bottom of its stack, and a thread works on  *)
(* a job wherever the code reads one.                                      *)
THEOREM TypeCorrect == Spec => []TypeOK
<1>1. QED BY TypesInvariant, TypedIsTypeOK, PTL
====
