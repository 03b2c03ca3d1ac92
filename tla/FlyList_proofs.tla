---------------------------- MODULE FlyList_proofs -----------------------------
(***************************************************************************)
(* The lists and the table of allocations, proved: for any number of       *)
(* threads, lists, elements and blocks, the pointers of each list make up  *)
(* one sequence, whatever operations on the other lists do with the blocks *)
(* they share; the table records the blocks in use; and the lists are the  *)
(* sequences of FlySequences.                                              *)
(*                                                                         *)
(* A list is spoken of as the sequence of its nodes (Chain).  That walking *)
(* along next gives this sequence is the only induction; everything after  *)
(* it follows from what an operation does to the sequence.                 *)
(***************************************************************************)
EXTENDS FlyList, FiniteSetTheorems, SequenceTheorems, WellFoundedInduction, TLAPS

Less == {ss \in Nat \X Nat : ss[1] < ss[2]}

LEMMA LessWellFounded == IsWellFoundedOn(Less, Nat)
<1>1. IsWellFoundedOn({ss \in Nat \X Nat : ss[1] < ss[2]}, Nat)
  BY NatLessThanWellFounded DEF OpToRel
<1>2. QED BY <1>1 DEF Less

LEMMA Least ==
    ASSUME NEW S \in SUBSET Nat, S # {}
    PROVE  \E m \in S : \A k \in S : m =< k
<1>1. PICK m \in S : \A k \in S : ~(<<k, m>> \in Less)
  BY LessWellFounded, WFMin
<1>2. ASSUME NEW k \in S PROVE m =< k
  <2>1. k \in Nat /\ m \in Nat /\ (k < m => <<k, m>> \in Less)
    BY DEF Less
  <2>2. QED BY <1>1, <2>1
<1>3. QED BY <1>2

LEMMA LeastOf ==
    ASSUME NEW S \in SUBSET Nat, S # {}
    PROVE  Min(S) \in S /\ \A k \in S : Min(S) =< k
BY Least DEF Min

------------------------------------------------------------------------------
(* The pointers of a list whose ends are e, where nd gives the struct of   *)
(* each node, make up the sequence s, read from either end.                *)
Nth(s, i) == IF i \in 1..Len(s) THEN s[i] ELSE Null
Forward(h, nd, s) ==
    /\ s \in Seq(Blocks) /\ (\A i, k \in 1..Len(s) : s[i] = s[k] => i = k)
    /\ h = Nth(s, 1)
    /\ \A i \in 1..Len(s) : nd[s[i]].next = Nth(s, i + 1)
Chain(e, nd, s) ==
    /\ Forward(e.next, nd, s)
    /\ e.prev = Nth(s, Len(s))
    /\ \A i \in 1..Len(s) : nd[s[i]].prev = Nth(s, i - 1)

LEMMA NoLonger ==
    ASSUME NEW s \in Seq(Blocks), \A i, k \in 1..Len(s) : s[i] = s[k] => i = k
    PROVE  Cardinality(Blocks) \in Nat /\ Len(s) \in Nat /\ Len(s) <= Cardinality(Blocks)
<1>1. IsFiniteSet(Blocks) /\ Len(s) \in Nat
  BY MemAssumption, LenProperties
<1>2. s \in Injection(1..Len(s), Blocks)
  BY LenProperties DEF Injection, IsInjective
<1>3. Cardinality(1..Len(s)) <= Cardinality(Blocks)
  BY <1>1, <1>2, FS_Injection
<1>4. Cardinality(1..Len(s)) = Len(s)
  <2>1. \A n \in Nat : Cardinality(1..n) = IF 1 > n THEN 0 ELSE n - 1 + 1
    BY FS_Interval
  <2>2. QED BY <1>1, <2>1
<1>5. QED BY <1>1, <1>3, <1>4, FS_CardinalityType

(* Nodes, as a function of the pointers it reads.                          *)
NodesFrom(h, nd) ==
    LET after == [b \in Blocks \cup {Null} |-> IF b = Null THEN Null ELSE nd[b].next]
        walk[k \in 1..(Cardinality(Blocks) + 1)] ==
            IF k = 1 THEN h ELSE after[walk[k - 1]]
    IN [k \in 1..Cardinality({i \in DOMAIN walk : walk[i] # Null}) |-> walk[k]]

LEMMA NodesAre ==
    /\ \A l : Nodes(l) = NodesFrom(ends[l].next, node)
    /\ \A l : Nodes(l)' = NodesFrom(ends'[l].next, node')
BY DEF Nodes, NodesFrom, After

(* Walking along next from the head meets the nodes of the sequence, one   *)
(* by one, and then NULL.                                                  *)
LEMMA WalkOfChain ==
    ASSUME NEW h, NEW nd, NEW s, Forward(h, nd, s)
    PROVE  NodesFrom(h, nd) = s
<1> DEFINE N == Cardinality(Blocks)
           after == [b \in Blocks \cup {Null} |-> IF b = Null THEN Null ELSE nd[b].next]
           walk[k \in 1..(N + 1)] == IF k = 1 THEN h ELSE after[walk[k - 1]]
<1>1. /\ s \in Seq(Blocks) /\ Len(s) \in Nat /\ N \in Nat /\ Len(s) <= N
      /\ \A i \in 1..Len(s) : s[i] \in Blocks
      /\ s = [i \in 1..Len(s) |-> s[i]]
  BY NoLonger, ElementOfSeq, LenProperties DEF Forward
<1>2. Null \notin Blocks
  BY MemAssumption
<1>3. \A k \in 1..(N + 1) : k # 1 => k - 1 \in 1..(N + 1) /\ after[Nth(s, k - 1)] = Nth(s, k)
  <2>1. SUFFICES ASSUME NEW k \in 1..(N + 1), k # 1
                 PROVE  k - 1 \in 1..(N + 1) /\ after[Nth(s, k - 1)] = Nth(s, k)
    OBVIOUS
  <2>2. k - 1 \in 1..(N + 1) /\ (k - 1) + 1 = k
    BY <1>1, <2>1
  <2>3. CASE k - 1 \in 1..Len(s)
    BY <1>1, <1>2, <2>2, <2>3 DEF Forward, Nth
  <2>4. CASE k - 1 \notin 1..Len(s)
    <3>1. k \notin 1..Len(s)
      BY <1>1, <2>1, <2>4
    <3>2. QED BY <2>2, <2>4, <3>1 DEF Nth
  <2>5. QED BY <2>3, <2>4
<1> HIDE DEF after
<1>4. walk = [k \in 1..(N + 1) |-> IF k = 1 THEN h ELSE after[walk[k - 1]]]
  <2>1. \E f : f = [k \in 1..(N + 1) |-> IF k = 1 THEN h ELSE after[f[k - 1]]]
    <3> DEFINE f == [k \in 1..(N + 1) |-> Nth(s, k)]
    <3>1. \A k \in 1..(N + 1) : Nth(s, k) = IF k = 1 THEN h ELSE after[f[k - 1]]
      BY <1>3 DEF Forward
    <3>2. f = [k \in 1..(N + 1) |-> IF k = 1 THEN h ELSE after[f[k - 1]]]
      BY <3>1
    <3>3. QED BY <3>2
  <2>2. QED BY <2>1
<1> HIDE DEF walk
<1>5. \A k \in 1..(N + 1) : walk[k] = Nth(s, k)
  <2> DEFINE bad == {k \in 1..(N + 1) : walk[k] # Nth(s, k)}
  <2>1. SUFFICES ASSUME bad # {} PROVE FALSE
    OBVIOUS
  <2>2. bad \in SUBSET Nat
    BY <1>1
  <2>3. PICK m \in bad : \A k \in bad : m <= k
    BY <2>1, <2>2, Least
  <2>4. m \in 1..(N + 1) /\ m \in Nat
    BY <1>1
  <2>5. m # 1
    BY <1>4, <2>4 DEF Forward
  <2>6. m - 1 \in 1..(N + 1) /\ m - 1 \notin bad
    BY <1>1, <2>3, <2>4, <2>5
  <2>7. walk[m - 1] = Nth(s, m - 1)
    BY <2>6
  <2>8. QED BY <1>3, <1>4, <2>3, <2>4, <2>5, <2>7
<1>6. {i \in DOMAIN walk : walk[i] # Null} = 1..Len(s)
  BY <1>1, <1>2, <1>4, <1>5 DEF Nth
<1>7. Cardinality(1..Len(s)) = Len(s)
  BY <1>1, FS_Interval
<1>8. \A k \in 1..Len(s) : walk[k] = s[k]
  BY <1>1, <1>5 DEF Nth
<1>9. NodesFrom(h, nd) = [k \in 1..Cardinality({i \in DOMAIN walk : walk[i] # Null}) |-> walk[k]]
  BY DEF NodesFrom, walk, after
<1>10. QED BY <1>1, <1>6, <1>7, <1>8, <1>9

------------------------------------------------------------------------------
(* How far a thread is in fly_malloc or fly_free.                          *)
Todos   == {Allocating, <<"record">>, <<>>, Freeing, <<"free">>}
CallSet == [ptr : Blocks \cup {Null}, todo : Todos]

LEMMA Tuples ==
    /\ \A a : <<a>> \in Seq({a}) /\ <<a>> # <<>> /\ Len(<<a>>) = 1 /\ Head(<<a>>) = a /\ Tail(<<a>>) = <<>>
    /\ \A a, b : /\ <<a, b>> # <<>> /\ Len(<<a, b>>) = 2 /\ Head(<<a, b>>) = a /\ Tail(<<a, b>>) = <<b>>
                 /\ <<a, b>>[1] = a /\ <<a, b>>[2] = b
OBVIOUS

LEMMA TodoFacts ==
    /\ Tail(Allocating) = <<"record">> /\ Tail(<<"record">>) = <<>>
    /\ Tail(Freeing) = <<"free">> /\ Tail(<<"free">>) = <<>>
    /\ Allocating # <<>> /\ <<"record">> # <<>> /\ Freeing # <<>> /\ <<"free">> # <<>>
    /\ Allocating # <<"record">> /\ Allocating # Freeing /\ Allocating # <<"free">>
    /\ Freeing # <<"record">> /\ Freeing # <<"free">> /\ <<"record">> # <<"free">>
    /\ \A s \in Todos \ {<<>>} :
        /\ Head(s) = "malloc" <=> s = Allocating
        /\ Head(s) = "record" <=> s = <<"record">>
        /\ Head(s) = "forget" <=> s = Freeing
        /\ Head(s) = "free"   <=> s = <<"free">>
<1>1. /\ Head(Allocating) = "malloc" /\ Head(<<"record">>) = "record"
      /\ Head(Freeing) = "forget" /\ Head(<<"free">>) = "free"
  BY Tuples DEF Allocating, Freeing
<1>2. /\ Tail(Allocating) = <<"record">> /\ Tail(<<"record">>) = <<>>
      /\ Tail(Freeing) = <<"free">> /\ Tail(<<"free">>) = <<>>
      /\ Allocating # <<>> /\ <<"record">> # <<>> /\ Freeing # <<>> /\ <<"free">> # <<>>
  BY Tuples DEF Allocating, Freeing
<1>3. QED BY <1>1, <1>2 DEF Todos

(* SubSeq(s, k, 2) of a pair: what is left of a call.                      *)
LEMMA SubPair ==
    ASSUME NEW a, NEW b
    PROVE  /\ SubSeq(<<a, b>>, 1, 2) = <<a, b>> /\ SubSeq(<<a, b>>, 2, 2) = <<b>>
           /\ SubSeq(<<a, b>>, 3, 2) = <<>>
<1> DEFINE s == <<a, b>>
<1>1. \A m \in 1..3 :
        /\ SubSeq(s, m, 2) \in Seq({a, b})
        /\ Len(SubSeq(s, m, 2)) = IF m <= 2 THEN 2 - m + 1 ELSE 0
        /\ \A i \in 1..(2 - m + 1) : SubSeq(s, m, 2)[i] = s[m + i - 1]
  <2>1. \A i \in 1..2 : s[i] \in {a, b}
    BY Tuples
  <2> HIDE DEF s
  <2>2. QED BY <2>1, SubSeqProperties
<1>2. SubSeq(s, 1, 2) = <<a, b>>
  <2> DEFINE r == SubSeq(s, 1, 2)
  <2>1. r \in Seq({a, b}) /\ Len(r) = 2 /\ r[1] = s[1] /\ r[2] = s[2]
    BY <1>1
  <2> HIDE DEF r
  <2>2. r = <<r[1], r[2]>>
    BY <2>1
  <2>3. QED BY <2>1, <2>2, Tuples DEF r
<1>3. SubSeq(s, 2, 2) = <<b>>
  <2> DEFINE r == SubSeq(s, 2, 2)
  <2>1. r \in Seq({a, b}) /\ Len(r) = 1 /\ r[1] = s[2]
    BY <1>1
  <2> HIDE DEF r
  <2>2. r = <<r[1]>>
    BY <2>1
  <2>3. QED BY <2>1, <2>2, Tuples DEF r
<1>4. SubSeq(s, 3, 2) = <<>>
  BY <1>1, EmptySeq
<1>5. QED BY <1>2, <1>3, <1>4

LEMMA TodosAre ==
    UNION {{SubSeq(s, k, 2) : k \in 1..3} : s \in {Allocating, Freeing}} = Todos
<1>1. 1..3 = {1, 2, 3}
  OBVIOUS
<1>2. ASSUME NEW a, NEW b
      PROVE  {SubSeq(<<a, b>>, k, 2) : k \in 1..3} = {<<a, b>>, <<b>>, <<>>}
  BY <1>1, SubPair
<1>3. /\ {SubSeq(Allocating, k, 2) : k \in 1..3} = {Allocating, <<"record">>, <<>>}
      /\ {SubSeq(Freeing, k, 2) : k \in 1..3} = {Freeing, <<"free">>, <<>>}
  BY <1>2 DEF Allocating, Freeing
<1>4. QED BY <1>3 DEF Todos

(***************************************************************************)
(* The invariant                                                           *)
(***************************************************************************)
DataOK ==
    /\ used \in SUBSET Blocks
    /\ table \in Seq(Garbage) /\ Len(table) \in StartSize..(StartSize + MaxSize)
    /\ overrun \in BOOLEAN
    /\ call \in [Threads -> CallSet]
    /\ ends \in [Lists -> [next : Blocks \cup {Null}, prev : Blocks \cup {Null}]]
    /\ node \in [Blocks -> [next : Blocks \cup {Null}, prev : Blocks \cup {Null},
                            el : Els \cup {Null}]]
    /\ op \in [Threads -> [op : Ops \cup {NoOp}, at : {"called", "freeing"}]]
    /\ phase \in {"up", "draining", "down"}

LEMMA DataIsTypeOK == DataOK <=> TypeOK
BY TodosAre DEF DataOK, TypeOK, MemTypeOK, CallSet

(* Which call of the allocator belongs to which operation.  A block about  *)
(* to be returned or freed is in use, and one given back may be another's. *)
Appending(t) == /\ op[t].op \in Ops /\ op[t].op[1] = "append" /\ op[t].at = "called"
                /\ call[t].ptr \in used \cup {Null}
                /\ call[t].todo \in {Allocating, <<"record">>, <<>>}
                /\ call[t].todo = Allocating => call[t].ptr = Null
Removing(t)  == /\ op[t].op \in Ops /\ op[t].op[1] # "append" /\ op[t].at = "called"
                /\ call[t] = NoCall
GivingUp(t)  == /\ op[t].op \in Ops /\ op[t].op[1] # "append" /\ op[t].at = "freeing"
                /\ call[t].ptr \in Blocks /\ call[t].todo \in {Freeing, <<"free">>, <<>>}
                /\ call[t].todo # <<>> => call[t].ptr \in used
Resting(t)   == op[t] = Idle /\ call[t] = NoCall
CallRight(t) == Resting(t) \/ Appending(t) \/ Removing(t) \/ GivingUp(t)

(* An operation has its list to itself.                                    *)
OneHolder == \A t, u \in Threads :
                 op[t].op # NoOp /\ op[u].op # NoOp /\ MyList(t) = MyList(u) => t = u

ListRight(l) == /\ Chain(ends[l], node, Nodes(l))
                /\ \A i \in 1..Len(Nodes(l)) : node[Nodes(l)[i]].el \in Els

EmptyWhenDown == phase = "down" => /\ \A t \in Threads : op[t] = Idle
                                /\ \A l \in Lists : ends[l].next = Null

IInv ==
    /\ DataOK
    /\ \A t \in Threads : CallRight(t)
    /\ OneHolder
    /\ \A l \in Lists : ListRight(l)
    /\ NodesAccounted
    /\ RecordsTrue
    /\ EmptyWhenDown

------------------------------------------------------------------------------
(* What linking and unlinking do to the sequence.                          *)
Without(s, k) == [i \in 1..(Len(s) - 1) |-> IF i < k THEN s[i] ELSE s[i + 1]]

LEMMA SameChain ==
    ASSUME NEW e, NEW nd, NEW to, NEW s, Chain(e, nd, s),
           \A i \in 1..Len(s) : to[s[i]].next = nd[s[i]].next /\ to[s[i]].prev = nd[s[i]].prev
    PROVE  Chain(e, to, s)
BY DEF Chain, Forward

LEMMA LinkedChain ==
    ASSUME NEW e, NEW nd, NEW s, Chain(e, nd, s), NEW n \in Blocks,
           \A i \in 1..Len(s) : s[i] # n,
           NEW f, f.prev = n, f.next = IF e.prev = Null THEN n ELSE e.next,
           NEW to, to[n].next = Null, to[n].prev = e.prev,
           \A i \in 1..Len(s) : /\ to[s[i]].next = IF s[i] = e.prev THEN n ELSE nd[s[i]].next
                                /\ to[s[i]].prev = nd[s[i]].prev
    PROVE  Chain(f, to, Append(s, n))
<1> DEFINE r == Append(s, n)
           m == Len(s)
<1>1. /\ s \in Seq(Blocks) /\ m \in Nat /\ \A i \in 1..m : s[i] \in Blocks
      /\ \A i, k \in 1..m : s[i] = s[k] => i = k
  BY ElementOfSeq, LenProperties DEF Chain, Forward
<1>2. /\ r \in Seq(Blocks) /\ Len(r) = m + 1 /\ r[m + 1] = n
      /\ \A i \in 1..m : r[i] = s[i]
  BY <1>1, AppendProperties
<1>3. /\ e.next = Nth(s, 1) /\ e.prev = Nth(s, m) /\ Null \notin Blocks
      /\ \A i \in 1..m : nd[s[i]].next = Nth(s, i + 1) /\ nd[s[i]].prev = Nth(s, i - 1)
  BY MemAssumption DEF Chain, Forward
<1> HIDE DEF r, m
<1>4. \A i \in 1..(m + 1) : i = m + 1 \/ i \in 1..m
  BY <1>1
<1>5. \A i, k \in 1..Len(r) : r[i] = r[k] => i = k
  BY <1>1, <1>2, <1>4 DEF m
<1>6. f.next = Nth(r, 1) /\ f.prev = Nth(r, Len(r))
  <2>1. CASE m = 0
    BY <1>1, <1>2, <1>3, <2>1 DEF Nth, m
  <2>2. CASE m # 0
    <3>1. 1 \in 1..m /\ m \in 1..m /\ 1 \in 1..(m + 1) /\ m + 1 \in 1..(m + 1)
      BY <1>1, <2>2
    <3>2. e.prev # Null
      BY <1>1, <1>3, <3>1 DEF Nth, m
    <3>3. QED BY <1>2, <1>3, <3>1, <3>2 DEF Nth, m
  <2>3. QED BY <2>1, <2>2
<1>7. ASSUME NEW i \in 1..Len(r) PROVE to[r[i]].next = Nth(r, i + 1) /\ to[r[i]].prev = Nth(r, i - 1)
  <2>1. CASE i = m + 1
    <3>1. i + 1 \notin 1..Len(r) /\ i - 1 = m
      BY <1>1, <1>2, <2>1
    <3>2. Nth(s, m) = Nth(r, m)
      <4>1. CASE m = 0
        BY <1>1, <4>1 DEF Nth, m
      <4>2. CASE m # 0
        <5>1. m \in 1..m /\ m \in 1..(m + 1)
          BY <1>1, <4>2
        <5>2. QED BY <1>2, <5>1 DEF Nth, m
      <4>3. QED BY <4>1, <4>2
    <3>3. QED BY <1>2, <1>3, <2>1, <3>1, <3>2 DEF Nth
  <2>2. CASE i \in 1..m
    <3>1. /\ r[i] = s[i] /\ i + 1 \in 1..(m + 1) /\ (i = m \/ i + 1 \in 1..m)
          /\ i - 1 \in 0..m /\ m \in 1..m
      BY <1>1, <1>2, <2>2
    <3>2. s[i] = e.prev <=> i = m
      BY <1>1, <1>3, <2>2, <3>1 DEF Nth, m
    <3>3. to[r[i]].next = Nth(r, i + 1)
      BY <1>2, <1>3, <2>2, <3>1, <3>2 DEF Nth, m
    <3>4. Nth(s, i - 1) = Nth(r, i - 1)
      <4>1. CASE i - 1 = 0
        BY <1>1, <4>1 DEF Nth
      <4>2. CASE i - 1 # 0
        <5>1. i - 1 \in 1..m /\ i - 1 \in 1..(m + 1)
          BY <1>1, <3>1, <4>2
        <5>2. QED BY <1>2, <5>1 DEF Nth, m
      <4>3. QED BY <4>1, <4>2
    <3>5. QED BY <1>3, <2>2, <3>1, <3>3, <3>4 DEF m
  <2>3. QED BY <1>2, <1>4, <2>1, <2>2
<1>8. QED BY <1>2, <1>5, <1>6, <1>7 DEF Chain, Forward, r

LEMMA WithoutFacts ==
    ASSUME NEW s \in Seq(Blocks), \A i, m \in 1..Len(s) : s[i] = s[m] => i = m, NEW k \in 1..Len(s)
    PROVE  /\ Len(s) \in Nat /\ Without(s, k) \in Seq(Blocks) /\ Len(Without(s, k)) = Len(s) - 1
           /\ \A i \in 1..(Len(s) - 1) : Without(s, k)[i] = IF i < k THEN s[i] ELSE s[i + 1]
           /\ \A i, m \in 1..(Len(s) - 1) : Without(s, k)[i] = Without(s, k)[m] => i = m
           /\ \A i \in 1..(Len(s) - 1) : Without(s, k)[i] # s[k]
           /\ \A i \in 1..Len(s) : i # k => \E m \in 1..(Len(s) - 1) : Without(s, k)[m] = s[i]
<1> DEFINE r == Without(s, k)
<1>1. Len(s) \in Nat /\ \A i \in 1..Len(s) : s[i] \in Blocks
  BY ElementOfSeq, LenProperties
<1>2. \A i \in 1..(Len(s) - 1) : r[i] = IF i < k THEN s[i] ELSE s[i + 1]
  BY DEF Without
<1>3. Len(s) - 1 \in Nat /\ \A i \in 1..(Len(s) - 1) : i \in 1..Len(s) /\ i + 1 \in 1..Len(s)
  BY <1>1
<1>4. r \in Seq(Blocks) /\ Len(r) = Len(s) - 1
  <2>1. \A i \in 1..(Len(s) - 1) : (IF i < k THEN s[i] ELSE s[i + 1]) \in Blocks
    BY <1>1, <1>3
  <2> DEFINE n == Len(s) - 1
  <2>2. n \in Nat
    BY <1>3
  <2> HIDE DEF n
  <2>3. r = [i \in 1..n |-> IF i < k THEN s[i] ELSE s[i + 1]]
    BY DEF Without, n
  <2>4. QED BY <2>1, <2>2, <2>3 DEF n
<1> HIDE DEF r
<1>5. ASSUME NEW i \in 1..(Len(s) - 1), NEW m \in 1..(Len(s) - 1), r[i] = r[m] PROVE i = m
  <2> DEFINE a == IF i < k THEN i ELSE i + 1
             b == IF m < k THEN m ELSE m + 1
  <2>1. a \in 1..Len(s) /\ b \in 1..Len(s) /\ r[i] = s[a] /\ r[m] = s[b]
    BY <1>2, <1>3
  <2>2. a = b => i = m
    BY <1>1
  <2>3. QED BY <1>5, <2>1, <2>2
<1>6. ASSUME NEW i \in 1..(Len(s) - 1) PROVE r[i] # s[k]
  <2> DEFINE a == IF i < k THEN i ELSE i + 1
  <2>1. a \in 1..Len(s) /\ r[i] = s[a] /\ a # k
    BY <1>1, <1>2, <1>3
  <2>2. QED BY <2>1
<1>7. ASSUME NEW i \in 1..Len(s), i # k PROVE \E m \in 1..(Len(s) - 1) : r[m] = s[i]
  <2>1. CASE i < k
    <3>1. i \in 1..(Len(s) - 1)
      BY <1>1, <2>1
    <3>2. QED BY <1>2, <2>1, <3>1
  <2>2. CASE i > k
    <3>1. i - 1 \in 1..(Len(s) - 1) /\ ~(i - 1 < k) /\ (i - 1) + 1 = i
      BY <1>1, <2>2
    <3>2. QED BY <1>2, <3>1
  <2>3. QED BY <1>1, <1>7, <2>1, <2>2
<1>8. QED BY <1>1, <1>2, <1>4, <1>5, <1>6, <1>7 DEF r

LEMMA UnlinkedChain ==
    ASSUME NEW e, NEW nd, NEW s, Chain(e, nd, s), NEW k \in 1..Len(s), NEW n, n = s[k],
           NEW f, f.next = IF e.next = n THEN nd[n].next ELSE e.next,
                  f.prev = IF e.prev = n THEN nd[n].prev ELSE e.prev,
           NEW to,
           \A i \in 1..Len(s) : s[i] # n =>
               /\ to[s[i]].next = IF s[i] = nd[n].prev THEN nd[n].next ELSE nd[s[i]].next
               /\ to[s[i]].prev = IF s[i] = nd[n].next THEN nd[n].prev ELSE nd[s[i]].prev
    PROVE  Chain(f, to, Without(s, k))
<1> DEFINE r == Without(s, k)
           m == Len(s)
<1>1. /\ s \in Seq(Blocks) /\ m \in Nat /\ k \in 1..m /\ \A i \in 1..m : s[i] \in Blocks
      /\ \A i, j \in 1..m : s[i] = s[j] => i = j
  BY ElementOfSeq, LenProperties DEF Chain, Forward
<1>2. /\ e.next = Nth(s, 1) /\ e.prev = Nth(s, m) /\ Null \notin Blocks
      /\ \A i \in 1..m : nd[s[i]].next = Nth(s, i + 1) /\ nd[s[i]].prev = Nth(s, i - 1)
  BY MemAssumption DEF Chain, Forward
<1>3. /\ r \in Seq(Blocks) /\ Len(r) = m - 1
      /\ \A i \in 1..(m - 1) : r[i] = IF i < k THEN s[i] ELSE s[i + 1]
      /\ \A i, j \in 1..(m - 1) : r[i] = r[j] => i = j
      /\ \A i \in 1..(m - 1) : r[i] # n
  <2>1. s \in Seq(Blocks) /\ \A i, j \in 1..Len(s) : s[i] = s[j] => i = j
    BY <1>1
  <2> HIDE DEF r
  <2>2. /\ Without(s, k) \in Seq(Blocks) /\ Len(Without(s, k)) = Len(s) - 1
        /\ \A i \in 1..(Len(s) - 1) : Without(s, k)[i] = IF i < k THEN s[i] ELSE s[i + 1]
        /\ \A i, j \in 1..(Len(s) - 1) : Without(s, k)[i] = Without(s, k)[j] => i = j
        /\ \A i \in 1..(Len(s) - 1) : Without(s, k)[i] # s[k]
    BY <2>1, WithoutFacts
  <2>3. QED BY <2>2 DEF r
<1> HIDE DEF r, m
<1>4. ASSUME NEW i \in 0..m PROVE Nth(r, i) = IF i < k THEN Nth(s, i) ELSE Nth(s, i + 1)
  <2>1. CASE i \in 1..(m - 1)
    <3>1. i \in 1..m /\ i + 1 \in 1..m
      BY <1>1, <2>1
    <3>2. QED BY <1>3, <2>1, <3>1 DEF Nth, m
  <2>2. CASE i = 0
    <3>1. i < k
      BY <1>1, <2>2
    <3>2. QED BY <1>1, <1>3, <2>2, <3>1 DEF Nth
  <2>3. CASE i = m
    <3>1. ~(i < k) /\ i + 1 \notin 1..m /\ i \notin 1..(m - 1)
      BY <1>1, <2>3
    <3>2. QED BY <1>3, <3>1 DEF Nth, m
  <2>4. QED BY <1>1, <2>1, <2>2, <2>3
<1>5. \A i \in 1..m, j \in Int : s[i] = Nth(s, j) <=> i = j
  BY <1>1, <1>2 DEF Nth, m
<1>6. nd[n].next = Nth(s, k + 1) /\ nd[n].prev = Nth(s, k - 1) /\ n = Nth(s, k)
  BY <1>1, <1>2 DEF Nth, m
<1>7. f.next = Nth(r, 1) /\ f.prev = Nth(r, m - 1)
  <2>1. 1 \in 0..m /\ 1 \in 1..m /\ m \in 1..m /\ m - 1 \in 0..m /\ (m - 1) + 1 = m
    BY <1>1
  <2>2. (e.next = n <=> k = 1) /\ (e.prev = n <=> k = m)
    <3>1. k \in 1..m /\ n = s[k] /\ 1 \in Int /\ m \in Int
      BY <1>1, <2>1
    <3>2. (n = Nth(s, 1) <=> k = 1) /\ (n = Nth(s, m) <=> k = m)
      BY <1>5, <3>1
    <3>3. QED BY <1>2, <3>2
  <2>3. Nth(r, 1) = IF k = 1 THEN Nth(s, k + 1) ELSE Nth(s, 1)
    <3>1. 1 < k <=> k # 1
      BY <1>1
    <3>2. QED BY <1>4, <2>1, <3>1
  <2>4. Nth(r, m - 1) = IF k = m THEN Nth(s, k - 1) ELSE Nth(s, m)
    <3>1. m - 1 < k <=> k = m
      BY <1>1
    <3>2. QED BY <1>4, <2>1, <3>1
  <2>5. QED BY <1>2, <1>6, <2>2, <2>3, <2>4
<1>8. ASSUME NEW i \in 1..(m - 1) PROVE to[r[i]].next = Nth(r, i + 1) /\ to[r[i]].prev = Nth(r, i - 1)
  <2> DEFINE a == IF i < k THEN i ELSE i + 1
  <2>1. /\ a \in 1..m /\ r[i] = s[a] /\ s[a] # n /\ i + 1 \in 0..m /\ i - 1 \in 0..m
        /\ k - 1 \in Int /\ k + 1 \in Int
    BY <1>1, <1>3
  <2>2. (s[a] = nd[n].prev <=> a = k - 1) /\ (s[a] = nd[n].next <=> a = k + 1)
    BY <1>5, <1>6, <2>1
  <2>3. /\ to[s[a]].next = IF a = k - 1 THEN Nth(s, k + 1) ELSE Nth(s, a + 1)
        /\ to[s[a]].prev = IF a = k + 1 THEN Nth(s, k - 1) ELSE Nth(s, a - 1)
    BY <1>2, <1>6, <2>1, <2>2 DEF m
  <2>4. /\ Nth(r, i + 1) = IF i + 1 < k THEN Nth(s, i + 1) ELSE Nth(s, (i + 1) + 1)
        /\ Nth(r, i - 1) = IF i - 1 < k THEN Nth(s, i - 1) ELSE Nth(s, (i - 1) + 1)
    BY <1>4, <2>1
  <2>5. CASE i < k
    <3>1. a = i /\ a # k + 1 /\ i - 1 < k /\ (i + 1 < k <=> a # k - 1) /\ (a = k - 1 => (i + 1) + 1 = k + 1)
      BY <1>1, <2>5
    <3>2. QED BY <2>1, <2>3, <2>4, <3>1
  <2>6. CASE ~(i < k)
    <3>1. /\ a = i + 1 /\ a # k - 1 /\ ~(i + 1 < k) /\ (i - 1 < k <=> a = k + 1)
          /\ (i + 1) + 1 = a + 1 /\ (i - 1) + 1 = a - 1 /\ (a = k + 1 => i - 1 = k - 1)
      BY <1>1, <2>6
    <3>2. QED BY <2>1, <2>3, <2>4, <3>1
  <2>7. QED BY <2>5, <2>6
<1>9. QED BY <1>3, <1>7, <1>8 DEF Chain, Forward, r

------------------------------------------------------------------------------
(* The state a step finds, and the conjuncts it leaves alone.              *)
LEMMA NodeFacts ==
    ASSUME NEW l, ListRight(l)
    PROVE  /\ Nodes(l) \in Seq(Blocks) /\ Len(Nodes(l)) \in Nat
           /\ \A i \in 1..Len(Nodes(l)) : Nodes(l)[i] \in Blocks
           /\ \A i, k \in 1..Len(Nodes(l)) : Nodes(l)[i] = Nodes(l)[k] => i = k
           /\ \A b : b \in ToSet(Nodes(l)) <=> \E i \in 1..Len(Nodes(l)) : b = Nodes(l)[i]
<1>1. Nodes(l) \in Seq(Blocks) /\ \A i, k \in 1..Len(Nodes(l)) : Nodes(l)[i] = Nodes(l)[k] => i = k
  BY DEF ListRight, Chain, Forward
<1>2. Len(Nodes(l)) \in Nat /\ DOMAIN Nodes(l) = 1..Len(Nodes(l))
  BY <1>1, LenProperties
<1>3. \A i \in 1..Len(Nodes(l)) : Nodes(l)[i] \in Blocks
  BY <1>1, ElementOfSeq
<1>4. QED BY <1>1, <1>2, <1>3 DEF ToSet

LEMMA ListNext ==
    ASSUME NEW l, NEW s, Chain(ends'[l], node', s), \A i \in 1..Len(s) : node'[s[i]].el \in Els
    PROVE  Nodes(l)' = s /\ ListRight(l)'
<1>1. Nodes(l)' = s
  BY NodesAre, WalkOfChain DEF Chain
<1>2. QED BY <1>1 DEF ListRight

LEMMA ListKept ==
    ASSUME NEW l, ListRight(l), ends'[l] = ends[l],
           \A b \in ToSet(Nodes(l)) : node'[b] = node[b]
    PROVE  Nodes(l)' = Nodes(l) /\ ListRight(l)'
<1> DEFINE s == Nodes(l)
<1>1. \A i \in 1..Len(s) : node'[s[i]] = node[s[i]]
  BY NodeFacts
<1>2. Chain(ends[l], node, s) /\ \A i \in 1..Len(s) : node[s[i]].el \in Els
  BY DEF ListRight
<1> HIDE DEF s
<1>3. Chain(ends'[l], node', s) /\ \A i \in 1..Len(s) : node'[s[i]].el \in Els
  BY <1>1, <1>2, SameChain
<1>4. Nodes(l)' = s /\ ListRight(l)'
  BY <1>3, ListNext
<1>5. QED BY <1>4 DEF s

LEMMA ListsKept ==
    ASSUME \A l \in Lists : ListRight(l), UNCHANGED <<ends, node>>
    PROVE  \A l \in Lists : Nodes(l)' = Nodes(l) /\ ListRight(l)'
BY ListKept

(* NodesAccounted and Counted, one block at a time.                        *)
Linked(b)     == \E l \in Lists : b \in ToSet(Nodes(l))
Held(b)       == \E t \in Threads : b \in InHand(t)
Unrecorded(t) == IF call[t].todo \in {<<"record">>, <<"free">>} THEN {call[t].ptr} ELSE {}
Apart ==
    /\ \A l, k \in Lists : l # k => \A b \in ToSet(Nodes(l)) : b \notin ToSet(Nodes(k))
    /\ \A t \in Threads : \A l \in Lists : \A b \in InHand(t) : b \notin ToSet(Nodes(l))
    /\ \A t, u \in Threads : t # u => \A b \in InHand(t) : b \notin InHand(u)

LEMMA AccountedIs ==
    NodesAccounted <=> (\A b : b \in used <=> Linked(b) \/ Held(b)) /\ Apart
<1>1. used = UNION ({ToSet(Nodes(l)) : l \in Lists} \cup {InHand(t) : t \in Threads})
          <=> \A b : b \in used <=> Linked(b) \/ Held(b)
  BY DEF Linked, Held
<1>2. QED BY <1>1 DEF NodesAccounted, Apart

LEMMA AccountedNext ==
    NodesAccounted' <=> (\A b : b \in used' <=> Linked(b)' \/ Held(b)') /\ Apart'
<1>1. (used = UNION ({ToSet(Nodes(l)) : l \in Lists} \cup {InHand(t) : t \in Threads}))'
          <=> \A b : b \in used' <=> Linked(b)' \/ Held(b)'
  BY DEF Linked, Held
<1>2. QED BY <1>1 DEF NodesAccounted, Apart

LEMMA CountedIs ==
    /\ \A b : b \in Counted <=> b \in used /\ \A t \in Threads : b \notin Unrecorded(t)
    /\ \A b : b \in Counted' <=> b \in used' /\ \A t \in Threads : b \notin Unrecorded(t)'
BY DEF Counted, Unrecorded

LEMMA AccountedKept ==
    ASSUME NodesAccounted, used' = used, \A l \in Lists : Nodes(l)' = Nodes(l),
           \A t \in Threads : InHand(t)' = InHand(t)
    PROVE  NodesAccounted'
<1>1. (\A b : Linked(b)' <=> Linked(b)) /\ (\A b : Held(b)' <=> Held(b))
  BY DEF Linked, Held
<1>2. Apart => Apart'
  BY DEF Apart
<1>3. QED BY <1>1, <1>2, AccountedIs, AccountedNext

LEMMA RecordsKept ==
    ASSUME RecordsTrue, used' = used, table' = table,
           \A t \in Threads : Unrecorded(t)' = Unrecorded(t)
    PROVE  RecordsTrue'
<1>1. Counted' = Counted
  BY CountedIs
<1>2. QED BY <1>1 DEF RecordsTrue

Others(t) == \A u \in Threads : u # t => op'[u] = op[u] /\ call'[u] = call[u]

LEMMA OthersKeep ==
    ASSUME IInv, NEW t \in Threads, Others(t), used \subseteq used'
    PROVE  \A u \in Threads : u # t => CallRight(u)' /\ Unrecorded(u)' = Unrecorded(u)
<1>1. SUFFICES ASSUME NEW u \in Threads, u # t
               PROVE  CallRight(u)' /\ Unrecorded(u)' = Unrecorded(u)
  OBVIOUS
<1>2. CallRight(u) /\ op'[u] = op[u] /\ call'[u] = call[u]
  BY <1>1 DEF IInv, Others
<1>3. CallRight(u)'
  BY <1>2 DEF CallRight, Resting, Appending, Removing, GivingUp
<1>4. QED BY <1>2, <1>3 DEF Unrecorded

(* A step that touches neither the blocks in use, nor the lists.           *)
LEMMA QuietStep ==
    ASSUME IInv, NEW t \in Threads, Others(t), UNCHANGED <<used, ends, node>>,
           DataOK', CallRight(t)', OneHolder', RecordsTrue', EmptyWhenDown',
           InHand(t)' = InHand(t)
    PROVE  IInv'
<1>1. \A u \in Threads : CallRight(u)'
  BY OthersKeep
<1>2. \A u \in Threads : InHand(u)' = InHand(u)
  BY DEF Others, InHand
<1>3. \A l \in Lists : Nodes(l)' = Nodes(l) /\ ListRight(l)'
  BY ListsKept DEF IInv
<1>4. NodesAccounted'
  BY <1>2, <1>3, AccountedKept DEF IInv
<1>5. QED BY <1>1, <1>3, <1>4 DEF IInv

(* ... nor the table.                                                      *)
LEMMA QuietTable ==
    ASSUME IInv, NEW t \in Threads, Others(t), UNCHANGED <<used, table>>,
           Unrecorded(t)' = Unrecorded(t)
    PROVE  RecordsTrue'
BY OthersKeep, RecordsKept DEF IInv

------------------------------------------------------------------------------
(* The allocator                                                           *)
LEMMA DoingIs ==
    ASSUME IInv, NEW t \in Threads
    PROVE  /\ call[t] \in CallSet /\ NoCall \in CallSet /\ NoCall.todo = <<>> /\ NoCall.ptr = Null
           /\ Doing(t, "malloc") => call[t].todo = Allocating /\ Appending(t) /\ call[t].ptr = Null
           /\ Doing(t, "record") => call[t].todo = <<"record">> /\ Appending(t)
           /\ Doing(t, "forget") => call[t].todo = Freeing /\ GivingUp(t)
           /\ Doing(t, "free")   => call[t].todo = <<"free">> /\ GivingUp(t)
<1>1. call[t] \in CallSet /\ CallRight(t)
  BY DEF IInv, DataOK
<1>2. NoCall \in CallSet /\ NoCall.todo = <<>> /\ NoCall.ptr = Null
  BY DEF NoCall, CallSet, Todos
<1>3. \A s : Doing(t, s) => call[t].todo \in Todos \ {<<>>} /\ Head(call[t].todo) = s /\ call[t] # NoCall
  BY <1>1, <1>2 DEF Doing, CallSet
<1>4. \A s : Doing(t, s) => Appending(t) \/ GivingUp(t)
  BY <1>1, <1>3 DEF CallRight, Resting, Removing
<1>5. /\ Doing(t, "malloc") => call[t].todo = Allocating
      /\ Doing(t, "record") => call[t].todo = <<"record">>
      /\ Doing(t, "forget") => call[t].todo = Freeing
      /\ Doing(t, "free")   => call[t].todo = <<"free">>
  BY <1>3, TodoFacts
<1>6. /\ Appending(t) => call[t].todo \notin {Freeing, <<"free">>}
      /\ GivingUp(t) => call[t].todo \notin {Allocating, <<"record">>}
  BY TodoFacts DEF Appending, GivingUp
<1>7. QED BY <1>1, <1>2, <1>4, <1>5, <1>6 DEF Appending

LEMMA ThenFacts ==
    ASSUME IInv, NEW t \in Threads, NEW p \in Blocks \cup {Null}, Then(t, p),
           NEW todo \in Todos, todo = Tail(call[t].todo), op' = op
    PROVE  /\ call'[t].ptr = p /\ call'[t].todo = todo /\ Others(t)
           /\ call' \in [Threads -> CallSet] /\ op'[t] = op[t]
<1>1. call \in [Threads -> CallSet]
  BY DEF IInv, DataOK
<1>2. [ptr |-> p, todo |-> todo] \in CallSet
  BY DEF CallSet
<1>3. call' = [call EXCEPT ![t] = [ptr |-> p, todo |-> todo]]
  BY DEF Then
<1>4. QED BY <1>1, <1>2, <1>3 DEF Others

(* What a thread holds: the block it allocated, or is to give up.          *)
LEMMA HandFacts ==
    ASSUME IInv, NEW t \in Threads
    PROVE  /\ Resting(t) \/ Removing(t) => InHand(t) = {}
           /\ Appending(t) => InHand(t) = {call[t].ptr} \cap used
           /\ GivingUp(t) => InHand(t) = IF call[t].todo = <<>> THEN {} ELSE {call[t].ptr}
           /\ \A b \in Unrecorded(t) : b = Null \/ b \in InHand(t)
           /\ Null \notin used
<1>1. Null \notin used
  BY MemAssumption DEF IInv, DataOK
<1>2. CallRight(t) /\ NoCall.todo = <<>> /\ NoCall.ptr = Null
  BY DoingIs DEF IInv
<1>3. Appending(t) => InHand(t) = {call[t].ptr} \cap used
  BY DEF Appending, InHand
<1>4. GivingUp(t) => InHand(t) = IF call[t].todo = <<>> THEN {} ELSE {call[t].ptr}
  BY DEF GivingUp, InHand
<1>5. Resting(t) \/ Removing(t) => InHand(t) = {} /\ call[t].todo = <<>>
  BY <1>1, <1>2 DEF Resting, Removing, InHand, Idle
<1>6. ASSUME NEW b \in Unrecorded(t), b # Null PROVE b \in InHand(t)
  <2>1. b = call[t].ptr /\ call[t].todo # <<>>
    BY <1>6, TodoFacts DEF Unrecorded
  <2>2. Appending(t) \/ GivingUp(t)
    BY <1>2, <1>5, <2>1 DEF CallRight
  <2>3. QED BY <1>3, <1>4, <1>6, <2>1, <2>2 DEF Appending
<1>7. QED BY <1>1, <1>3, <1>4, <1>5, <1>6

LEMMA MallocInv ==
    ASSUME IInv, NEW t \in Threads, Malloc(t), UNCHANGED listvars
    PROVE  IInv'
<1>1. /\ call[t].todo = Allocating /\ Appending(t) /\ call[t].ptr = Null
      /\ Tail(call[t].todo) = <<"record">> /\ <<"record">> \in Todos
      /\ op' = op /\ ends' = ends /\ node' = node /\ phase' = phase
      /\ table' = table /\ overrun' = overrun
  BY DoingIs, TodoFacts DEF Malloc, listvars, Todos
<1>2. Unrecorded(t) = {} /\ InHand(t) = {} /\ Null \notin used
  BY <1>1, HandFacts, TodoFacts DEF Unrecorded
<1>3. OneHolder' /\ EmptyWhenDown'
  BY <1>1 DEF IInv, OneHolder, EmptyWhenDown, MyList
<1>4. CASE Then(t, Null) /\ used' = used
  <2>1. call'[t].ptr = Null /\ call'[t].todo = <<"record">> /\ Others(t) /\ call' \in [Threads -> CallSet]
    BY <1>1, <1>4, ThenFacts
  <2>2. CallRight(t)'
    BY <1>1, <1>4, <2>1, TodoFacts DEF CallRight, Appending
  <2>3. InHand(t)' = {} /\ Unrecorded(t)' = {Null}
    BY <1>1, <1>2, <1>4, <2>1 DEF InHand, Unrecorded, Appending
  <2>4. RecordsTrue'
    <3>1. \A u \in Threads : u # t => Unrecorded(u)' = Unrecorded(u)
      BY <1>4, <2>1, OthersKeep
    <3>2. Counted' = Counted
      BY <1>2, <1>4, <2>3, <3>1, CountedIs
    <3>3. QED BY <1>1, <3>2 DEF IInv, RecordsTrue
  <2>5. DataOK'
    BY <1>1, <1>4, <2>1 DEF IInv, DataOK
  <2>6. QED BY <1>1, <1>2, <1>3, <1>4, <2>1, <2>2, <2>3, <2>4, <2>5, QuietStep
<1>5. ASSUME NEW p \in Blocks \ used, used' = used \cup {p}, Then(t, p) PROVE IInv'
  <2>1. call'[t].ptr = p /\ call'[t].todo = <<"record">> /\ Others(t) /\ call' \in [Threads -> CallSet]
    BY <1>1, <1>5, ThenFacts
  <2>2. \A u \in Threads : u # t => CallRight(u)' /\ Unrecorded(u)' = Unrecorded(u)
    BY <1>5, <2>1, OthersKeep
  <2>3. CallRight(t)'
    BY <1>1, <1>5, <2>1, TodoFacts DEF CallRight, Appending
  <2>4. InHand(t)' = {p} /\ Unrecorded(t)' = {p}
    BY <1>1, <1>5, <2>1 DEF InHand, Unrecorded, Appending
  <2>5. ASSUME NEW u \in Threads, u # t PROVE InHand(u)' = InHand(u)
    <3>1. op'[u] = op[u] /\ call'[u] = call[u] /\ CallRight(u) /\ Null # p
      BY <1>1, <1>5, <2>1, <2>5, MemAssumption DEF Others, IInv
    <3>2. ~(op[u].at = "freeing" /\ call[u].todo = <<>>) => call[u].ptr # p
      BY <1>5, <3>1, DoingIs, TodoFacts DEF CallRight, Resting, Appending, Removing, GivingUp
    <3>3. QED BY <1>5, <3>1, <3>2 DEF InHand
  <2>6. \A l \in Lists : Nodes(l)' = Nodes(l) /\ ListRight(l)'
    BY <1>1, ListsKept DEF IInv
  <2>7. NodesAccounted'
    <3>1. (\A b : b \in used <=> Linked(b) \/ Held(b)) /\ Apart
      BY AccountedIs DEF IInv
    <3>2. \A b : Linked(b)' <=> Linked(b)
      BY <2>6 DEF Linked
    <3>3. \A b : Held(b)' <=> Held(b) \/ b = p
      BY <1>2, <2>4, <2>5 DEF Held
    <3>4. p \notin used /\ ~Linked(p) /\ ~Held(p)
      BY <1>5, <3>1
    <3>5. Apart'
      BY <1>2, <2>4, <2>5, <2>6, <3>1, <3>4 DEF Apart, Linked, Held
    <3>6. QED BY <1>5, <3>1, <3>2, <3>3, <3>5, AccountedNext
  <2>8. RecordsTrue'
    <3>1. ASSUME NEW b PROVE b \in Counted' <=> b \in Counted
      <4>1. CASE b = p
        BY <1>5, <2>4, <4>1, CountedIs
      <4>2. CASE b # p
        <5>1. b \in used' <=> b \in used
          BY <1>5, <4>2
        <5>2. \A u \in Threads : b \in Unrecorded(u)' <=> b \in Unrecorded(u)
          BY <1>2, <2>2, <2>4, <4>2
        <5>3. QED BY <5>1, <5>2, CountedIs
      <4>3. QED BY <4>1, <4>2
    <3>2. Counted' = Counted
      BY <3>1
    <3>3. QED BY <1>1, <3>2 DEF IInv, RecordsTrue
  <2>9. DataOK'
    BY <1>1, <1>5, <2>1 DEF IInv, DataOK
  <2>10. QED BY <1>3, <2>2, <2>3, <2>6, <2>7, <2>8, <2>9 DEF IInv
<1>6. QED BY <1>4, <1>5 DEF Malloc

LEMMA FreeInv ==
    ASSUME IInv, NEW t \in Threads, Free(t), UNCHANGED listvars
    PROVE  IInv'
<1> DEFINE p == call[t].ptr
<1>1. /\ call[t].todo = <<"free">> /\ GivingUp(t) /\ p \in Blocks /\ p \in used
      /\ Tail(call[t].todo) = <<>> /\ <<>> \in Todos
      /\ op' = op /\ ends' = ends /\ node' = node /\ phase' = phase
      /\ table' = table /\ overrun' = overrun /\ used' = used \ {p} /\ Then(t, p)
  BY DoingIs, TodoFacts DEF Free, listvars, Todos, GivingUp
<1>2. Unrecorded(t) = {p} /\ InHand(t) = {p}
  BY <1>1, HandFacts, TodoFacts DEF Unrecorded
<1> HIDE DEF p
<1>3. call'[t].ptr = p /\ call'[t].todo = <<>> /\ Others(t) /\ call' \in [Threads -> CallSet]
  BY <1>1, ThenFacts
<1>4. OneHolder' /\ EmptyWhenDown'
  BY <1>1 DEF IInv, OneHolder, EmptyWhenDown, MyList
<1>5. InHand(t)' = {} /\ Unrecorded(t)' = {} /\ CallRight(t)'
  <2>1. InHand(t)' = {} /\ Unrecorded(t)' = {}
    BY <1>1, <1>3, TodoFacts DEF InHand, Unrecorded, GivingUp
  <2>2. GivingUp(t)'
    BY <1>1, <1>3 DEF GivingUp
  <2>3. QED BY <2>1, <2>2 DEF CallRight
<1>6. (\A b : b \in used <=> Linked(b) \/ Held(b)) /\ Apart
  BY AccountedIs DEF IInv
<1>7. ASSUME NEW u \in Threads, u # t
      PROVE  CallRight(u)' /\ InHand(u)' = InHand(u) /\ Unrecorded(u)' = Unrecorded(u)
  <2>1. op'[u] = op[u] /\ call'[u] = call[u] /\ CallRight(u) /\ p \notin InHand(u)
    BY <1>2, <1>3, <1>6, <1>7 DEF Others, IInv, Apart
  <2>2. InHand(u)' = InHand(u)
    BY <1>1, <2>1 DEF InHand
  <2>3. CallRight(u)'
    <3>1. Resting(u) \/ Removing(u) => CallRight(u)'
      BY <2>1 DEF CallRight, Resting, Removing
    <3>2. Appending(u) => Appending(u)'
      BY <1>1, <2>1, HandFacts DEF Appending
    <3>3. GivingUp(u) => GivingUp(u)'
      BY <1>1, <2>1, HandFacts DEF GivingUp
    <3>4. QED BY <2>1, <3>1, <3>2, <3>3 DEF CallRight
  <2>4. QED BY <2>1, <2>2, <2>3 DEF Unrecorded
<1>8. \A l \in Lists : Nodes(l)' = Nodes(l) /\ ListRight(l)'
  BY <1>1, ListsKept DEF IInv
<1>9. NodesAccounted'
  <2>1. \A b : Linked(b)' <=> Linked(b)
    BY <1>8 DEF Linked
  <2>2. \A b : Held(b)' <=> \E u \in Threads : u # t /\ b \in InHand(u)
    BY <1>5, <1>7 DEF Held
  <2>3. ~Linked(p) /\ \A u \in Threads : u # t => p \notin InHand(u)
    BY <1>2, <1>6 DEF Apart, Linked
  <2>4. \A b : b \in used' <=> Linked(b)' \/ Held(b)'
    BY <1>1, <1>2, <1>6, <2>1, <2>2, <2>3 DEF Held
  <2>5. Apart'
    BY <1>5, <1>6, <1>7, <1>8 DEF Apart
  <2>6. QED BY <2>4, <2>5, AccountedNext
<1>10. RecordsTrue'
  <2>1. ASSUME NEW b PROVE b \in Counted' <=> b \in Counted
    <3>1. CASE b = p
      BY <1>1, <1>2, <3>1, CountedIs
    <3>2. CASE b # p
      <4>1. b \in used' <=> b \in used
        BY <1>1, <3>2
      <4>2. \A u \in Threads : b \in Unrecorded(u)' <=> b \in Unrecorded(u)
        BY <1>2, <1>5, <1>7, <3>2
      <4>3. QED BY <4>1, <4>2, CountedIs
    <3>3. QED BY <3>1, <3>2
  <2>2. Counted' = Counted
    BY <2>1
  <2>3. QED BY <1>1, <2>2 DEF IInv, RecordsTrue
<1>11. DataOK'
  BY <1>1, <1>3 DEF IInv, DataOK
<1>12. QED BY <1>4, <1>5, <1>7, <1>8, <1>9, <1>10, <1>11 DEF IInv

(* What recording adds to the blocks that count, whichever entry it takes. *)
LEMMA RecordCall ==
    ASSUME IInv, NEW t \in Threads, Doing(t, "record"), Then(t, call[t].ptr),
           UNCHANGED <<used, overrun, listvars>>
    PROVE  /\ Others(t) /\ call' \in [Threads -> CallSet] /\ CallRight(t)' /\ InHand(t)' = InHand(t)
           /\ OneHolder' /\ EmptyWhenDown'
           /\ call[t].ptr \notin Counted /\ (call[t].ptr # Null => call[t].ptr \in Blocks)
           /\ \A b : b \in Counted' <=> b \in Counted \/ (b = call[t].ptr /\ b # Null)
<1> DEFINE p == call[t].ptr
<1>1. /\ call[t].todo = <<"record">> /\ Appending(t) /\ p \in used \cup {Null}
      /\ Tail(call[t].todo) = <<>> /\ <<>> \in Todos /\ p \in Blocks \cup {Null}
      /\ op' = op /\ ends' = ends /\ node' = node /\ phase' = phase /\ used' = used
      /\ Then(t, p)
  BY DoingIs, TodoFacts DEF listvars, Todos, Appending, CallSet
<1>2. Unrecorded(t) = {p} /\ InHand(t) = {p} \cap used /\ Null \notin used
  BY <1>1, HandFacts, TodoFacts DEF Unrecorded
<1> HIDE DEF p
<1>3. call'[t].ptr = p /\ call'[t].todo = <<>> /\ Others(t) /\ call' \in [Threads -> CallSet]
  BY <1>1, ThenFacts
<1>4. OneHolder' /\ EmptyWhenDown'
  BY <1>1 DEF IInv, OneHolder, EmptyWhenDown, MyList
<1>5. InHand(t)' = InHand(t) /\ Unrecorded(t)' = {} /\ CallRight(t)'
  <2>1. InHand(t)' = InHand(t) /\ Unrecorded(t)' = {}
    BY <1>1, <1>2, <1>3, TodoFacts DEF InHand, Unrecorded, Appending
  <2>2. Appending(t)'
    BY <1>1, <1>3, TodoFacts DEF Appending
  <2>3. QED BY <2>1, <2>2 DEF CallRight
<1>6. \A u \in Threads : u # t => Unrecorded(u)' = Unrecorded(u) /\ (p # Null => p \notin Unrecorded(u))
  <2>1. Apart
    BY AccountedIs DEF IInv
  <2>2. SUFFICES ASSUME NEW u \in Threads, u # t, p # Null PROVE p \notin Unrecorded(u)
    BY <1>1, <1>3, OthersKeep
  <2>3. p \in InHand(t)
    BY <1>1, <1>2, <2>2
  <2>4. QED BY <2>1, <2>2, <2>3, HandFacts DEF Apart
<1>7. ASSUME NEW b PROVE b \in Counted' <=> b \in Counted \/ (b = p /\ b # Null)
  <2>1. CASE b = p /\ p # Null
    BY <1>1, <1>5, <1>6, <2>1, CountedIs
  <2>2. CASE b = Null
    BY <1>1, <1>2, <2>2, CountedIs
  <2>3. CASE b # p /\ b # Null
    <3>1. \A u \in Threads : b \in Unrecorded(u)' <=> b \in Unrecorded(u)
      BY <1>2, <1>5, <1>6, <2>3
    <3>2. QED BY <1>1, <2>3, <3>1, CountedIs
  <2>4. QED BY <2>1, <2>2, <2>3
<1>8. p \notin Counted
  BY <1>2, CountedIs
<1>9. QED BY <1>1, <1>3, <1>4, <1>5, <1>7, <1>8 DEF p

LEMMA TableFacts ==
    ASSUME IInv
    PROVE  /\ table \in Seq(Garbage) /\ Len(table) \in Nat /\ StartSize \in Nat /\ StartSize > 0
           /\ StartSize <= Len(table) /\ Len(table) <= StartSize + MaxSize /\ MaxSize \in Nat
           /\ DOMAIN table = 1..Len(table) /\ \A i \in 1..StartSize : i \in 1..Len(table)
           /\ Null \in Garbage /\ Blocks \subseteq Garbage
<1>1. table \in Seq(Garbage) /\ Len(table) \in StartSize..(StartSize + MaxSize)
  BY DEF IInv, DataOK
<1>2. QED BY <1>1, MemAssumption, LenProperties DEF Garbage

(* The first part of the table, once p is in one of its empty entries.     *)
LEMMA RecordedTrue ==
    ASSUME IInv, NEW p, p # Null, p \notin Counted, \A b : b \in Counted' <=> b \in Counted \/ b = p,
           NEW m, NEW tab, table' = tab,
           \A i \in 1..StartSize : tab[i] = IF i = m THEN p ELSE table[i],
           m \in 1..StartSize => table[m] = Null,
           m \notin 1..StartSize => Len(tab) # StartSize,
           Len(table) # StartSize => Len(tab) # StartSize
    PROVE  RecordsTrue'
<1> DEFINE first == {i \in 1..StartSize : table[i] # Null}
           then  == {i \in 1..StartSize : tab[i] # Null}
<1>1. /\ \A i \in first : table[i] \in Counted
      /\ \A i, k \in first : table[i] = table[k] => i = k
      /\ Len(table) = StartSize => Counted \subseteq {table[i] : i \in first}
  BY DEF IInv, RecordsTrue
<1>2. \A i \in then : (i = m /\ tab[i] = p) \/ (i # m /\ i \in first /\ tab[i] = table[i])
  OBVIOUS
<1>3. \A i \in first : i \in then /\ tab[i] = table[i]
  OBVIOUS
<1>4. \A i \in then : tab[i] \in Counted'
  BY <1>1, <1>2
<1>5. \A i, k \in then : tab[i] = tab[k] => i = k
  BY <1>1, <1>2
<1>6. ASSUME Len(tab) = StartSize, NEW b \in Counted' PROVE \E i \in then : b = tab[i]
  <2>1. b \in Counted \/ b = p
    BY <1>6
  <2>2. CASE b = p
    <3>1. m \in 1..StartSize
      BY <1>6
    <3>2. m \in then /\ tab[m] = p
      BY <3>1
    <3>3. QED BY <2>2, <3>2
  <2>3. CASE b \in Counted
    <3>1. PICK i \in first : b = table[i]
      BY <1>1, <1>6, <2>3
    <3>2. QED BY <1>3, <3>1
  <2>4. QED BY <2>1, <2>2, <2>3
<1>7. QED BY <1>4, <1>5, <1>6 DEF RecordsTrue

LEMMA RecordInv ==
    ASSUME IInv, NEW t \in Threads, Record(t), UNCHANGED listvars
    PROVE  IInv'
<1> DEFINE p == call[t].ptr
<1>1. /\ Doing(t, "record") /\ Then(t, p) /\ used' = used /\ overrun' = overrun
      /\ op' = op /\ ends' = ends /\ node' = node /\ phase' = phase
      /\ UNCHANGED <<used, overrun, listvars>>
  BY DEF Record, listvars
<1>2. /\ Others(t) /\ call' \in [Threads -> CallSet] /\ CallRight(t)' /\ InHand(t)' = InHand(t)
      /\ OneHolder' /\ EmptyWhenDown' /\ p \notin Counted /\ (p # Null => p \in Blocks)
      /\ \A b : b \in Counted' <=> b \in Counted \/ (b = p /\ b # Null)
  BY <1>1, RecordCall
<1>3. CASE p = Null
  <2>1. table' = table
    BY <1>3 DEF Record
  <2>2. Counted' = Counted
    BY <1>2, <1>3
  <2>3. RecordsTrue'
    BY <2>1, <2>2 DEF IInv, RecordsTrue
  <2>4. DataOK'
    BY <1>1, <1>2, <2>1 DEF IInv, DataOK
  <2>5. QED BY <1>1, <1>2, <2>3, <2>4, QuietStep
<1>4. CASE p # Null
  <2> DEFINE empty == EmptyFrom(table, 1)
             m     == Min(empty)
  <2>1. empty # {} /\ table' = [table EXCEPT ![m] = p]
    BY <1>4 DEF Record, TryAdd
  <2>2. empty \in SUBSET Nat /\ empty \subseteq 1..Len(table) /\ \A i \in empty : table[i] = Null
    BY TableFacts DEF EmptyFrom
  <2> HIDE DEF empty
  <2>3. m \in empty /\ \A k \in empty : m <= k
    BY <2>1, <2>2, LeastOf
  <2> HIDE DEF m, p
  <2>4. /\ table' \in Seq(Garbage) /\ Len(table') = Len(table)
        /\ \A i \in 1..Len(table) : table'[i] = IF i = m THEN p ELSE table[i]
    <3>1. m \in 1..Len(table) /\ p \in Garbage /\ table \in Seq(Garbage)
      BY <1>2, <1>4, <2>2, <2>3, TableFacts
    <3>2. QED BY <2>1, <3>1, ExceptSeq
  <2>5. RecordsTrue'
    <3> DEFINE tab == table'
    <3>1. \A i \in 1..StartSize : tab[i] = IF i = m THEN p ELSE table[i]
      BY <2>4, TableFacts
    <3>2. m \in 1..StartSize => table[m] = Null
      BY <2>2, <2>3
    <3>3. m \notin 1..StartSize => Len(tab) # StartSize
      <4>1. m \in 1..Len(table)
        BY <2>2, <2>3
      <4>2. QED BY <2>4, <4>1
    <3>4. Len(table) # StartSize => Len(tab) # StartSize
      BY <2>4
    <3> HIDE DEF tab
    <3>5. \A b : b \in Counted' <=> b \in Counted \/ b = p
      BY <1>2, <1>4
    <3>6. table' = tab
      BY DEF tab
    <3>7. QED BY <1>2, <1>4, <3>1, <3>2, <3>3, <3>4, <3>5, <3>6, RecordedTrue
  <2>6. DataOK'
    BY <1>1, <1>2, <2>4 DEF IInv, DataOK
  <2>7. QED BY <1>1, <1>2, <2>5, <2>6, QuietStep
<1>5. QED BY <1>3, <1>4

LEMMA GrowInv ==
    ASSUME IInv, NEW t \in Threads, Grow(t), UNCHANGED listvars
    PROVE  IInv'
<1> DEFINE p == call[t].ptr
           n == Len(table)
<1>1. /\ Doing(t, "record") /\ Then(t, p) /\ used' = used /\ overrun' = overrun
      /\ op' = op /\ ends' = ends /\ node' = node /\ phase' = phase
      /\ UNCHANGED <<used, overrun, listvars>> /\ p # Null /\ 2 * n <= MaxSize
      /\ EmptyFrom(table, 1) = {}
  BY DEF Grow, listvars
<1>2. /\ Others(t) /\ call' \in [Threads -> CallSet] /\ CallRight(t)' /\ InHand(t)' = InHand(t)
      /\ OneHolder' /\ EmptyWhenDown' /\ p \notin Counted /\ (p # Null => p \in Blocks)
      /\ \A b : b \in Counted' <=> b \in Counted \/ (b = p /\ b # Null)
  BY <1>1, RecordCall
<1>3. PICK new \in [1..n -> Garbage] : table' = TryAdd(table \o new, n + 1, p)
  BY DEF Grow
<1> HIDE DEF p
<1>4. n \in Nat /\ n > 0 /\ n >= StartSize /\ table \in Seq(Garbage) /\ p \in Garbage
  BY <1>1, <1>2, TableFacts
<1>5. new \in Seq(Garbage) /\ Len(new) = n
  BY <1>3, <1>4
<1> DEFINE both == table \o new
<1>6. /\ both \in Seq(Garbage) /\ Len(both) = n + n
      /\ \A i \in 1..n : both[i] = table[i]
  <2>1. /\ both \in Seq(Garbage) /\ Len(both) = n + n
        /\ \A i \in 1..(n + n) : both[i] = IF i <= n THEN table[i] ELSE new[i - n]
    BY <1>4, <1>5, ConcatProperties
  <2>2. \A i \in 1..n : i \in 1..(n + n) /\ i <= n
    BY <1>4
  <2>3. QED BY <2>1, <2>2
<1> HIDE DEF both, n
<1>7. /\ table' \in Seq(Garbage) /\ Len(table') = n + n
      /\ \A i \in 1..n : table'[i] = table[i]
  <2> DEFINE empty == EmptyFrom(both, n + 1)
             m     == Min(empty)
  <2>1. CASE empty = {}
    BY <1>3, <1>6, <2>1 DEF TryAdd, both
  <2>2. CASE empty # {}
    <3>1. table' = [both EXCEPT ![m] = p]
      BY <1>3, <2>2 DEF TryAdd, both
    <3>2. empty \in SUBSET Nat /\ empty \subseteq (n + 1)..(n + n)
      BY <1>4, <1>6 DEF EmptyFrom
    <3> HIDE DEF empty
    <3>3. m \in (n + 1)..(n + n)
      BY <2>2, <3>2, LeastOf
    <3> HIDE DEF m
    <3>4. m \in 1..Len(both) /\ \A i \in 1..n : i \in 1..Len(both) /\ i # m
      BY <1>4, <1>6, <3>3
    <3>5. /\ [both EXCEPT ![m] = p] \in Seq(Garbage)
          /\ Len([both EXCEPT ![m] = p]) = Len(both)
          /\ \A i \in 1..Len(both) : [both EXCEPT ![m] = p][i] = IF i = m THEN p ELSE both[i]
      BY <1>4, <1>6, <3>4, ExceptSeq
    <3>6. QED BY <1>6, <3>1, <3>4, <3>5
  <2>3. QED BY <2>1, <2>2
<1>8. RecordsTrue'
  <2> DEFINE tab == table'
             m   == 0
  <2>1. \A i \in 1..StartSize : tab[i] = IF i = m THEN p ELSE table[i]
    BY <1>4, <1>7, MemAssumption
  <2>2. m \notin 1..StartSize /\ Len(tab) # StartSize
    BY <1>4, <1>7, MemAssumption
  <2>3. table' = tab
    OBVIOUS
  <2> HIDE DEF tab, m
  <2>4. \A b : b \in Counted' <=> b \in Counted \/ b = p
    BY <1>1, <1>2 DEF p
  <2>5. QED BY <1>1, <1>2, <2>1, <2>2, <2>3, <2>4, RecordedTrue DEF p
<1>9. DataOK'
  <2>1. Len(table') \in StartSize..(StartSize + MaxSize)
    BY <1>1, <1>4, <1>7, MemAssumption DEF n
  <2>2. QED BY <1>1, <1>2, <1>7, <2>1 DEF IInv, DataOK
<1>10. QED BY <1>1, <1>2, <1>8, <1>9, QuietStep

LEMMA GrowFailsInv ==
    ASSUME IInv, NEW t \in Threads, GrowFails(t), UNCHANGED listvars
    PROVE  IInv'
<1>1. /\ UNCHANGED <<used, table, call, op, ends, node, phase>> /\ overrun' = TRUE
  BY DEF GrowFails, listvars
<1>2. DataOK' /\ Others(t) /\ CallRight(t)' /\ OneHolder' /\ EmptyWhenDown' /\ InHand(t)' = InHand(t)
      /\ Unrecorded(t)' = Unrecorded(t)
  BY <1>1 DEF IInv, DataOK, Others, CallRight, Resting, Appending, Removing, GivingUp,
              OneHolder, MyList, EmptyWhenDown, InHand, Unrecorded
<1>3. RecordsTrue'
  BY <1>1, <1>2, QuietTable
<1>4. QED BY <1>1, <1>2, <1>3, QuietStep

LEMMA ForgetInv ==
    ASSUME IInv, NEW t \in Threads, Forget(t), UNCHANGED listvars
    PROVE  IInv'
<1> DEFINE p == call[t].ptr
           found == Holding(table, p)
           m == Min(found)
<1>1. /\ call[t].todo = Freeing /\ GivingUp(t) /\ p \in Blocks /\ p \in used
      /\ Tail(call[t].todo) = <<"free">> /\ <<"free">> \in Todos
      /\ op' = op /\ ends' = ends /\ node' = node /\ phase' = phase
      /\ used' = used /\ overrun' = overrun /\ Then(t, p)
      /\ table' = IF found = {} THEN table ELSE [table EXCEPT ![m] = Null]
  BY DoingIs, TodoFacts DEF Forget, listvars, Todos, GivingUp
<1>2. Unrecorded(t) = {} /\ InHand(t) = {p}
  BY <1>1, HandFacts, TodoFacts DEF Unrecorded
<1> HIDE DEF p
<1>3. call'[t].ptr = p /\ call'[t].todo = <<"free">> /\ Others(t) /\ call' \in [Threads -> CallSet]
  BY <1>1, ThenFacts
<1>4. OneHolder' /\ EmptyWhenDown'
  BY <1>1 DEF IInv, OneHolder, EmptyWhenDown, MyList
<1>5. InHand(t)' = InHand(t) /\ Unrecorded(t)' = {p} /\ CallRight(t)'
  <2>1. InHand(t)' = {p} /\ Unrecorded(t)' = {p}
    BY <1>1, <1>3, TodoFacts DEF InHand, Unrecorded
  <2>2. GivingUp(t)'
    BY <1>1, <1>3 DEF GivingUp
  <2>3. QED BY <1>2, <2>1, <2>2 DEF CallRight
<1>6. ASSUME NEW b PROVE b \in Counted' <=> b \in Counted /\ b # p
  <2>1. \A u \in Threads : u # t => Unrecorded(u)' = Unrecorded(u)
    BY <1>1, <1>3, OthersKeep
  <2>2. CASE b = p
    BY <1>5, <2>2, CountedIs
  <2>3. CASE b # p
    <3>1. \A u \in Threads : b \in Unrecorded(u)' <=> b \in Unrecorded(u)
      BY <1>2, <1>5, <2>1, <2>3
    <3>2. QED BY <1>1, <2>3, <3>1, CountedIs
  <2>4. QED BY <2>2, <2>3
<1>7. found \subseteq 1..Len(table) /\ found \in SUBSET Nat /\ \A i \in 1..Len(table) : i \in found <=> table[i] = p
  BY TableFacts DEF Holding
<1> HIDE DEF found
<1>8. found # {} => m \in found /\ \A k \in found : m <= k
  BY <1>7, LeastOf
<1> HIDE DEF m
<1>9. /\ table' \in Seq(Garbage) /\ Len(table') = Len(table)
      /\ \A i \in 1..Len(table) : table'[i] = IF found # {} /\ i = m THEN Null ELSE table[i]
  <2>1. CASE found = {}
    BY <1>1, <2>1, TableFacts
  <2>2. CASE found # {}
    <3>1. table' = [table EXCEPT ![m] = Null] /\ m \in 1..Len(table)
      BY <1>1, <1>7, <1>8, <2>2
    <3>2. QED BY <2>2, <3>1, TableFacts, ExceptSeq
  <2>3. QED BY <2>1, <2>2
<1>10. RecordsTrue'
  <2> DEFINE first == {i \in 1..StartSize : table[i] # Null}
             then  == {i \in 1..StartSize : table'[i] # Null}
  <2>1. /\ \A i \in first : table[i] \in Counted
        /\ \A i, k \in first : table[i] = table[k] => i = k
        /\ Len(table) = StartSize => Counted \subseteq {table[i] : i \in first}
    BY DEF IInv, RecordsTrue
  <2>2. p # Null
    BY <1>1, MemAssumption
  <2>3. ASSUME NEW i \in then PROVE i \in first /\ table'[i] = table[i] /\ table[i] # p
    <3>1. i \in 1..Len(table) /\ i \in 1..StartSize
      BY TableFacts
    <3>2. i \in first /\ table'[i] = table[i] /\ ~(found # {} /\ i = m)
      BY <1>9, <3>1
    <3>3. ASSUME table[i] = p PROVE FALSE
      <4>1. i \in found /\ m \in found /\ m <= i /\ table[m] = p
        BY <1>7, <1>8, <3>1, <3>3
      <4>2. m \in 1..StartSize
        BY <1>7, <3>1, <4>1, TableFacts
      <4>3. m \in first
        BY <2>2, <4>1, <4>2
      <4>4. m = i
        BY <2>1, <3>2, <3>3, <4>1, <4>3
      <4>5. QED BY <3>2, <4>1, <4>4
    <3>4. QED BY <3>2, <3>3
  <2>4. ASSUME NEW i \in first, table[i] # p PROVE i \in then /\ table'[i] = table[i]
    <3>1. i \in 1..Len(table)
      BY TableFacts
    <3>2. ~(found # {} /\ i = m)
      BY <1>7, <1>8, <2>4, <3>1
    <3>3. QED BY <1>9, <3>1, <3>2
  <2>5. \A i \in then : table'[i] \in Counted'
    BY <1>6, <2>1, <2>3
  <2>6. \A i, k \in then : table'[i] = table'[k] => i = k
    BY <2>1, <2>3
  <2>7. ASSUME Len(table') = StartSize, NEW b \in Counted' PROVE \E i \in then : b = table'[i]
    <3>1. b \in Counted /\ b # p
      BY <1>6, <2>7
    <3>2. PICK i \in first : b = table[i]
      BY <1>9, <2>1, <2>7, <3>1
    <3>3. QED BY <2>4, <3>1, <3>2
  <2>8. QED BY <2>5, <2>6, <2>7 DEF RecordsTrue
<1>11. DataOK'
  BY <1>1, <1>3, <1>9 DEF IInv, DataOK
<1>12. QED BY <1>1, <1>3, <1>4, <1>5, <1>10, <1>11, QuietStep

------------------------------------------------------------------------------
(* The operations on the lists                                             *)
LEMMA OpFacts ==
    /\ \A o \in Ops : /\ o[1] \in {"append", "remove", "tail_remove"} /\ o[2] \in Lists /\ o # NoOp
                      /\ o[1] \in {"append", "remove"} => o[3] \in Els
    /\ \A l \in Lists, el \in Els : /\ <<"remove", l, el>> \in Ops /\ <<"remove", l, el>>[1] = "remove"
                                    /\ <<"remove", l, el>>[2] = l
<1>1. ASSUME NEW o \in Ops
      PROVE  /\ o[1] \in {"append", "remove", "tail_remove"} /\ o[2] \in Lists
             /\ o[1] \in {"append", "remove"} => o[3] \in Els
  <2>1. CASE o \in {"append", "remove"} \X Lists \X Els
    BY <2>1
  <2>2. CASE o \in {"tail_remove"} \X Lists
    BY <2>2
  <2>3. QED BY <2>1, <2>2 DEF Ops
<1>2. NoOp \notin Ops
  BY ListAssumption DEF Ops
<1>3. QED BY <1>1, <1>2 DEF Ops

LEMMA CallIs ==
    ASSUME IInv, NEW t \in Threads
    PROVE  /\ op[t] = Idle => Resting(t)
           /\ op[t].op = NoOp => Resting(t)
           /\ op[t].op # NoOp => op[t].op \in Ops /\ MyList(t) \in Lists
           /\ op[t].at = "freeing" => GivingUp(t)
           /\ Pending(t, "append") => Appending(t) /\ MyEl(t) \in Els
           /\ Pending(t, "remove") => Removing(t) /\ MyEl(t) \in Els
           /\ Pending(t, "tail_remove") => Removing(t)
<1>1. CallRight(t) /\ Idle.op = NoOp /\ Idle.at = "called"
  BY DEF IInv, Idle
<1>2. op[t].op = NoOp => Resting(t)
  BY <1>1, OpFacts DEF CallRight, Appending, Removing, GivingUp
<1>3. op[t].op # NoOp => op[t].op \in Ops
  BY <1>1 DEF CallRight, Resting, Appending, Removing, GivingUp
<1>4. op[t].op # NoOp => ~Resting(t)
  BY <1>1 DEF Resting
<1>5. op[t].at = "freeing" => GivingUp(t)
  BY <1>1 DEF CallRight, Resting, Appending, Removing
<1>6. Pending(t, "append") => Appending(t) /\ MyEl(t) \in Els
  BY <1>1, <1>3, <1>4, OpFacts DEF Pending, CallRight, Removing, GivingUp, MyEl
<1>7. Pending(t, "remove") => Removing(t) /\ MyEl(t) \in Els
  BY <1>1, <1>3, <1>4, OpFacts DEF Pending, CallRight, Appending, GivingUp, MyEl
<1>8. Pending(t, "tail_remove") => Removing(t)
  BY <1>1, <1>4 DEF Pending, CallRight, Appending, GivingUp
<1>9. QED BY <1>1, <1>2, <1>3, <1>5, <1>6, <1>7, <1>8, OpFacts DEF MyList

LEMMA ListFacts ==
    ASSUME IInv, NEW l \in Lists
    PROVE  LET s == Nodes(l)
           IN /\ ListRight(l) /\ Chain(ends[l], node, s) /\ s \in Seq(Blocks) /\ Len(s) \in Nat
              /\ \A i \in 1..Len(s) : s[i] \in Blocks /\ s[i] \in ToSet(s) /\ s[i] \in used
              /\ \A i \in 1..Len(s) : node[s[i]].el \in Els
              /\ \A i, k \in 1..Len(s) : s[i] = s[k] => i = k
              /\ \A b \in ToSet(s) : \E i \in 1..Len(s) : b = s[i]
              /\ \A i : Nth(s, i) = Null \/ Nth(s, i) \in ToSet(s)
              /\ ends[l].next = Nth(s, 1) /\ ends[l].prev = Nth(s, Len(s))
              /\ \A i \in 1..Len(s) : node[s[i]].next = Nth(s, i + 1) /\ node[s[i]].prev = Nth(s, i - 1)
<1> DEFINE s == Nodes(l)
<1>1. ListRight(l)
  BY DEF IInv
<1>2. Chain(ends[l], node, s) /\ \A i \in 1..Len(s) : node[s[i]].el \in Els
  BY <1>1 DEF ListRight
<1>3. /\ s \in Seq(Blocks) /\ Len(s) \in Nat
      /\ \A i \in 1..Len(s) : s[i] \in Blocks
      /\ \A i, k \in 1..Len(s) : s[i] = s[k] => i = k
      /\ \A b : b \in ToSet(s) <=> \E i \in 1..Len(s) : b = s[i]
  BY <1>1, NodeFacts
<1>4. \A b \in ToSet(s) : b \in used
  BY AccountedIs DEF IInv, Linked
<1> HIDE DEF s
<1>5. /\ ends[l].next = Nth(s, 1) /\ ends[l].prev = Nth(s, Len(s))
      /\ \A i \in 1..Len(s) : node[s[i]].next = Nth(s, i + 1) /\ node[s[i]].prev = Nth(s, i - 1)
  BY <1>2 DEF Chain, Forward
<1>6. \A i : Nth(s, i) = Null \/ Nth(s, i) \in ToSet(s)
  BY <1>3 DEF Nth
<1>7. QED BY <1>1, <1>2, <1>3, <1>4, <1>5, <1>6 DEF s

(* No block of one list is a block of another, or NULL.                    *)
LEMMA ListsApart ==
    ASSUME IInv, NEW l \in Lists, NEW k \in Lists, k # l
    PROVE  \A b \in ToSet(Nodes(k)) : b \in Blocks /\ b \notin ToSet(Nodes(l)) /\ b # Null
<1>1. Apart
  BY AccountedIs DEF IInv
<1>2. QED BY <1>1, ListFacts, MemAssumption DEF Apart

LEMMA LinkLists ==
    ASSUME IInv, NEW l \in Lists, NEW p \in Blocks, NEW el \in Els, LinkNode(l, p, el),
           \A k \in Lists : p \notin ToSet(Nodes(k))
    PROVE  /\ ends' \in [Lists -> [next : Blocks \cup {Null}, prev : Blocks \cup {Null}]]
           /\ node' \in [Blocks -> [next : Blocks \cup {Null}, prev : Blocks \cup {Null},
                                    el : Els \cup {Null}]]
           /\ \A k \in Lists : /\ ListRight(k)'
                               /\ ends'[k].next = Null => k # l /\ ends[k].next = Null
                               /\ Nodes(k)' = IF k = l THEN Append(Nodes(l), p) ELSE Nodes(k)
           /\ node'[p].el = el /\ \A b \in Blocks \ {p} : node'[b].el = node[b].el
<1> DEFINE s == Nodes(l)
           tail == ends[l].prev
<1>1. /\ ends \in [Lists -> [next : Blocks \cup {Null}, prev : Blocks \cup {Null}]]
      /\ node \in [Blocks -> [next : Blocks \cup {Null}, prev : Blocks \cup {Null},
                              el : Els \cup {Null}]]
      /\ Null \notin Blocks /\ tail \in Blocks \cup {Null}
  BY MemAssumption DEF IInv, DataOK
<1>2. /\ ends'[l].prev = p /\ ends'[l].next = IF tail = Null THEN p ELSE ends[l].next
      /\ \A k \in Lists : k # l => ends'[k] = ends[k]
      /\ ends' \in [Lists -> [next : Blocks \cup {Null}, prev : Blocks \cup {Null}]]
  <2>1. ends' = [ends EXCEPT ![l].prev = p, ![l].next = IF tail = Null THEN p ELSE @]
    BY DEF LinkNode
  <2> HIDE DEF tail
  <2> DEFINE e == [ends[l] EXCEPT !.prev = p, !.next = IF tail = Null THEN p ELSE @]
  <2>2. ends[l] \in [next : Blocks \cup {Null}, prev : Blocks \cup {Null}]
    BY <1>1
  <2>3. /\ e \in [next : Blocks \cup {Null}, prev : Blocks \cup {Null}]
        /\ e.prev = p /\ e.next = IF tail = Null THEN p ELSE ends[l].next
    BY <2>2
  <2>4. ends' = [ends EXCEPT ![l] = e]
    BY <1>1, <2>1
  <2> HIDE DEF e
  <2>5. QED BY <1>1, <2>3, <2>4
<1>3. /\ node'[p].next = Null /\ node'[p].prev = tail /\ node'[p].el = el
      /\ \A b \in Blocks \ {p} : /\ node'[b].next = IF b = tail THEN p ELSE node[b].next
                                 /\ node'[b].prev = node[b].prev /\ node'[b].el = node[b].el
                                 /\ b # tail => node'[b] = node[b]
      /\ node' \in [Blocks -> [next : Blocks \cup {Null}, prev : Blocks \cup {Null},
                               el : Els \cup {Null}]]
  <2>1. node' = [b \in Blocks |-> IF b = p THEN LinkedAfter(tail, el)
                                  ELSE [node[b] EXCEPT !.next = IF b = tail THEN p ELSE @]]
    BY DEF LinkNode
  <2> HIDE DEF tail
  <2>2. QED BY <1>1, <2>1 DEF LinkedAfter
<1>4. /\ s \in Seq(Blocks) /\ Len(s) \in Nat /\ Chain(ends[l], node, s)
      /\ \A i \in 1..Len(s) : s[i] \in Blocks /\ s[i] # p /\ node[s[i]].el \in Els
      /\ tail = Null \/ tail \in ToSet(s)
  <2>1. /\ s \in Seq(Blocks) /\ Len(s) \in Nat /\ Chain(ends[l], node, s)
        /\ \A i \in 1..Len(s) : s[i] \in Blocks /\ s[i] \in ToSet(s) /\ node[s[i]].el \in Els
        /\ tail = Nth(s, Len(s)) /\ (Nth(s, Len(s)) = Null \/ Nth(s, Len(s)) \in ToSet(s))
    BY ListFacts
  <2>2. QED BY <2>1
<1>5. Nodes(l)' = Append(s, p) /\ ListRight(l)'
  <2>1. Chain(ends'[l], node', Append(s, p))
    <3> DEFINE f == ends'[l]
               e == ends[l]
               to == node'
               nd == node
    <3>1. /\ f.prev = p /\ f.next = IF e.prev = Null THEN p ELSE e.next
          /\ to[p].next = Null /\ to[p].prev = e.prev
          /\ \A i \in 1..Len(s) : /\ to[s[i]].next = IF s[i] = e.prev THEN p ELSE nd[s[i]].next
                                  /\ to[s[i]].prev = nd[s[i]].prev
      BY <1>2, <1>3, <1>4
    <3>2. Chain(e, nd, s) /\ \A i \in 1..Len(s) : s[i] # p
      BY <1>4
    <3> HIDE DEF f, e, to, nd, s
    <3>3. Chain(f, to, Append(s, p))
      BY <3>1, <3>2, LinkedChain
    <3>4. QED BY <3>3 DEF f, to
  <2>2. \A i \in 1..Len(Append(s, p)) : node'[Append(s, p)[i]].el \in Els
    <3>1. ASSUME NEW i \in 1..Len(Append(s, p)) PROVE node'[Append(s, p)[i]].el \in Els
      <4>1. Len(Append(s, p)) = Len(s) + 1 /\ Append(s, p)[Len(s) + 1] = p
            /\ \A k \in 1..Len(s) : Append(s, p)[k] = s[k]
        BY <1>4, AppendProperties
      <4>2. i = Len(s) + 1 \/ i \in 1..Len(s)
        BY <1>4, <4>1
      <4>3. QED BY <1>3, <1>4, <4>1, <4>2
    <3>2. QED BY <3>1
  <2> HIDE DEF s
  <2> DEFINE r == Append(s, p)
  <2>3. Chain(ends'[l], node', r) /\ \A i \in 1..Len(r) : node'[r[i]].el \in Els
    BY <2>1, <2>2
  <2> HIDE DEF r
  <2>4. Nodes(l)' = r /\ ListRight(l)'
    BY <2>3, ListNext
  <2>5. QED BY <2>4 DEF r
<1>6. ASSUME NEW k \in Lists, k # l PROVE Nodes(k)' = Nodes(k) /\ ListRight(k)'
  <2>1. \A b \in ToSet(Nodes(k)) : b \in Blocks /\ b # tail /\ b # p
    BY <1>4, <1>6, ListsApart
  <2>2. \A b \in ToSet(Nodes(k)) : node'[b] = node[b]
    BY <1>3, <2>1
  <2>3. ListRight(k) /\ ends'[k] = ends[k]
    BY <1>2, <1>6, ListFacts
  <2>4. QED BY <2>2, <2>3, ListKept
<1>7. ends'[l].next # Null
  <2>1. tail # Null => ends[l].next # Null
    <3>1. tail = Nth(s, Len(s)) /\ ends[l].next = Nth(s, 1)
      BY ListFacts
    <3> HIDE DEF s, tail
    <3>2. tail # Null => 1 \in 1..Len(s)
      BY <1>4, <3>1 DEF Nth
    <3>3. QED BY <1>1, <1>4, <3>1, <3>2 DEF Nth
  <2>2. QED BY <1>1, <1>2, <2>1
<1>8. QED BY <1>2, <1>3, <1>5, <1>6, <1>7

LEMMA UnlinkLists ==
    ASSUME IInv, NEW l \in Lists, NEW k \in 1..Len(Nodes(l)), NEW n, n = Nodes(l)[k], RemoveNode(l, n)
    PROVE  /\ ends' \in [Lists -> [next : Blocks \cup {Null}, prev : Blocks \cup {Null}]]
           /\ node' \in [Blocks -> [next : Blocks \cup {Null}, prev : Blocks \cup {Null},
                                    el : Els \cup {Null}]]
           /\ \A j \in Lists : /\ ListRight(j)'
                               /\ Nodes(j)' = IF j = l THEN Without(Nodes(l), k) ELSE Nodes(j)
           /\ \A b \in Blocks \ {n} : node'[b].el = node[b].el
<1> DEFINE s == Nodes(l)
           prev == node[n].prev
           next == node[n].next
<1>1. /\ ends \in [Lists -> [next : Blocks \cup {Null}, prev : Blocks \cup {Null}]]
      /\ node \in [Blocks -> [next : Blocks \cup {Null}, prev : Blocks \cup {Null},
                              el : Els \cup {Null}]]
      /\ Null \notin Blocks
  BY MemAssumption DEF IInv, DataOK
<1>2. /\ s \in Seq(Blocks) /\ Len(s) \in Nat /\ Chain(ends[l], node, s)
      /\ \A i \in 1..Len(s) : s[i] \in Blocks /\ node[s[i]].el \in Els
      /\ \A i, j \in 1..Len(s) : s[i] = s[j] => i = j
      /\ n \in Blocks /\ n \in ToSet(s) /\ n = s[k]
      /\ prev = Null \/ prev \in ToSet(s)
      /\ next = Null \/ next \in ToSet(s)
  <2>1. /\ s \in Seq(Blocks) /\ Len(s) \in Nat /\ Chain(ends[l], node, s)
        /\ \A i \in 1..Len(s) : s[i] \in Blocks /\ s[i] \in ToSet(s) /\ node[s[i]].el \in Els
        /\ \A i, j \in 1..Len(s) : s[i] = s[j] => i = j
        /\ \A i : Nth(s, i) = Null \/ Nth(s, i) \in ToSet(s)
        /\ next = Nth(s, k + 1) /\ prev = Nth(s, k - 1)
    BY ListFacts
  <2>2. QED BY <2>1
<1>3. /\ prev \in Blocks \cup {Null} /\ next \in Blocks \cup {Null}
  BY <1>1, <1>2
<1>4. /\ ends'[l].next = IF ends[l].next = n THEN next ELSE ends[l].next
      /\ ends'[l].prev = IF ends[l].prev = n THEN prev ELSE ends[l].prev
      /\ \A j \in Lists : j # l => ends'[j] = ends[j]
      /\ ends' \in [Lists -> [next : Blocks \cup {Null}, prev : Blocks \cup {Null}]]
  <2>1. ends' = [ends EXCEPT ![l] = EndsWithout(l, n)]
    BY DEF RemoveNode
  <2>2. /\ EndsWithout(l, n) \in [next : Blocks \cup {Null}, prev : Blocks \cup {Null}]
        /\ EndsWithout(l, n).next = IF ends[l].next = n THEN next ELSE ends[l].next
        /\ EndsWithout(l, n).prev = IF ends[l].prev = n THEN prev ELSE ends[l].prev
    BY <1>1, <1>3 DEF EndsWithout
  <2>3. QED BY <1>1, <2>1, <2>2
<1>5. /\ \A b \in Blocks \ {n} : /\ node'[b].next = IF b = prev THEN next ELSE node[b].next
                                 /\ node'[b].prev = IF b = next THEN prev ELSE node[b].prev
                                 /\ node'[b].el = node[b].el
                                 /\ b # prev /\ b # next => node'[b] = node[b]
      /\ node' \in [Blocks -> [next : Blocks \cup {Null}, prev : Blocks \cup {Null},
                               el : Els \cup {Null}]]
  <2>1. node' = [b \in Blocks |-> IF b = n THEN Unused ELSE NodeWithout(b, n)]
    BY DEF RemoveNode
  <2> HIDE DEF prev, next
  <2>2. \A b \in Blocks :
          NodeWithout(b, n) = [node[b] EXCEPT !.next = IF b = prev THEN next ELSE @,
                                              !.prev = IF b = next THEN prev ELSE @]
    BY DEF NodeWithout, prev, next
  <2>3. ASSUME NEW b \in Blocks
        PROVE  /\ NodeWithout(b, n) \in [next : Blocks \cup {Null}, prev : Blocks \cup {Null},
                                         el : Els \cup {Null}]
               /\ NodeWithout(b, n).next = IF b = prev THEN next ELSE node[b].next
               /\ NodeWithout(b, n).prev = IF b = next THEN prev ELSE node[b].prev
               /\ NodeWithout(b, n).el = node[b].el
               /\ b # prev /\ b # next => NodeWithout(b, n) = node[b]
    <3> DEFINE rec == node[b]
               x == IF b = prev THEN next ELSE rec.next
               y == IF b = next THEN prev ELSE rec.prev
    <3>1. rec \in [next : Blocks \cup {Null}, prev : Blocks \cup {Null}, el : Els \cup {Null}]
      BY <1>1
    <3>2. NodeWithout(b, n) = [rec EXCEPT !.next = x, !.prev = y]
      BY <2>2
    <3>3. x \in Blocks \cup {Null} /\ y \in Blocks \cup {Null}
      BY <1>3, <3>1
    <3>4. b # prev /\ b # next => x = rec.next /\ y = rec.prev
      OBVIOUS
    <3> HIDE DEF rec, x, y
    <3> DEFINE R == [next : Blocks \cup {Null}, prev : Blocks \cup {Null}, el : Els \cup {Null}]
               e == [rec EXCEPT !.next = x, !.prev = y]
    <3>5. e \in R /\ e.next = x /\ e.prev = y /\ e.el = rec.el
      BY <3>1, <3>3
    <3>6. \A a \in R : a = [next |-> a.next, prev |-> a.prev, el |-> a.el]
      OBVIOUS
    <3>7. NodeWithout(b, n) = e
      BY <3>2
    <3> HIDE DEF e
    <3>8. b # prev /\ b # next => NodeWithout(b, n) = rec
      BY <3>1, <3>4, <3>5, <3>6, <3>7
    <3>9. QED BY <3>5, <3>7, <3>8 DEF rec, x, y
  <2>4. Unused \in [next : Blocks \cup {Null}, prev : Blocks \cup {Null}, el : Els \cup {Null}]
    BY DEF Unused
  <2>5. QED BY <2>1, <2>3, <2>4
<1>6. Nodes(l)' = Without(s, k) /\ ListRight(l)'
  <2>1. Chain(ends'[l], node', Without(s, k))
    <3> DEFINE f == ends'[l]
               e == ends[l]
               to == node'
               nd == node
    <3>1. /\ f.next = IF e.next = n THEN nd[n].next ELSE e.next
          /\ f.prev = IF e.prev = n THEN nd[n].prev ELSE e.prev
          /\ \A i \in 1..Len(s) : s[i] # n =>
               /\ to[s[i]].next = IF s[i] = nd[n].prev THEN nd[n].next ELSE nd[s[i]].next
               /\ to[s[i]].prev = IF s[i] = nd[n].next THEN nd[n].prev ELSE nd[s[i]].prev
      BY <1>2, <1>4, <1>5
    <3>2. Chain(e, nd, s) /\ n = s[k] /\ k \in 1..Len(s)
      BY <1>2
    <3> HIDE DEF f, e, to, nd, s
    <3>3. Chain(f, to, Without(s, k))
      BY <3>1, <3>2, UnlinkedChain
    <3>4. QED BY <3>3 DEF f, to
  <2> HIDE DEF s
  <2>2. /\ \A i \in 1..Len(Without(s, k)) : Without(s, k)[i] # n
        /\ \A i \in 1..Len(Without(s, k)) : \E j \in 1..Len(s) : Without(s, k)[i] = s[j]
    <3>1. k \in 1..Len(s)
      BY DEF s
    <3>2. /\ Len(Without(s, k)) = Len(s) - 1
          /\ \A i \in 1..(Len(s) - 1) : Without(s, k)[i] # s[k]
          /\ \A i \in 1..(Len(s) - 1) : Without(s, k)[i] = IF i < k THEN s[i] ELSE s[i + 1]
      BY <1>2, <3>1, WithoutFacts
    <3>3. \A i \in 1..(Len(s) - 1) : i \in 1..Len(s) /\ i + 1 \in 1..Len(s)
      BY <1>2
    <3>4. QED BY <1>2, <3>2, <3>3
  <2> DEFINE r == Without(s, k)
  <2>3. Chain(ends'[l], node', r) /\ \A i \in 1..Len(r) : node'[r[i]].el \in Els
    BY <1>2, <1>5, <2>1, <2>2
  <2> HIDE DEF r
  <2>4. Nodes(l)' = r /\ ListRight(l)'
    BY <2>3, ListNext
  <2>5. QED BY <2>4 DEF r
<1>7. ASSUME NEW j \in Lists, j # l PROVE Nodes(j)' = Nodes(j) /\ ListRight(j)'
  <2>1. \A b \in ToSet(Nodes(j)) : b \in Blocks /\ b # prev /\ b # next /\ b # n
    BY <1>2, <1>7, ListsApart
  <2>2. \A b \in ToSet(Nodes(j)) : node'[b] = node[b]
    BY <1>5, <2>1
  <2>3. ListRight(j) /\ ends'[j] = ends[j]
    BY <1>4, <1>7, ListFacts
  <2>4. QED BY <2>2, <2>3, ListKept
<1>8. QED BY <1>4, <1>5, <1>6, <1>7

LEMMA StartInv ==
    ASSUME IInv, NEW t \in Threads, Start(t)
    PROVE  IInv'
<1>1. PICK o \in Ops : /\ ~Owned(o[2]) /\ Call(t, o)
                       /\ IF o[1] = "append" THEN StartMalloc(t) ELSE UNCHANGED call
  BY DEF Start
<1>2. /\ UNCHANGED <<used, table, overrun, ends, node, phase>> /\ phase = "up" /\ op[t] = Idle /\ Resting(t)
  BY CallIs DEF Start
<1> DEFINE mine == [op |-> o, at |-> "called"]
           y    == IF o[1] = "append" THEN [ptr |-> Null, todo |-> Allocating] ELSE NoCall
<1>3. /\ op \in [Threads -> [op : Ops \cup {NoOp}, at : {"called", "freeing"}]]
      /\ call \in [Threads -> CallSet] /\ mine \in [op : Ops \cup {NoOp}, at : {"called", "freeing"}]
      /\ y \in CallSet /\ call[t] = NoCall
  BY <1>2, DoingIs DEF IInv, DataOK, CallSet, Todos, Resting
<1>4. op' = [op EXCEPT ![t] = mine] /\ call' = [call EXCEPT ![t] = y]
  <2>1. op' = [op EXCEPT ![t] = mine]
    BY <1>1 DEF Call
  <2>2. call' = [call EXCEPT ![t] = y]
    BY <1>1, <1>3 DEF StartMalloc
  <2>3. QED BY <2>1, <2>2
<1>5. mine.op = o /\ mine.at = "called"
  OBVIOUS
<1>6. y.ptr = Null /\ (o[1] = "append" => y.todo = Allocating) /\ (o[1] # "append" => y = NoCall)
  BY DEF NoCall
<1>7. y.todo \notin {<<"record">>, <<"free">>} /\ NoCall.todo = <<>> /\ NoCall.ptr = Null
  BY <1>6, TodoFacts DEF NoCall
<1> HIDE DEF mine, y
<1>8. /\ op'[t].op = o /\ op'[t].at = "called" /\ call'[t] = y /\ Others(t)
      /\ op' \in [Threads -> [op : Ops \cup {NoOp}, at : {"called", "freeing"}]]
      /\ call' \in [Threads -> CallSet]
  BY <1>3, <1>4, <1>5 DEF Others
<1>9. DataOK'
  BY <1>2, <1>8 DEF IInv, DataOK
<1>10. CallRight(t)'
  <2>1. CASE o[1] = "append"
    BY <1>6, <1>8, <2>1, TodoFacts DEF CallRight, Appending
  <2>2. CASE o[1] # "append"
    BY <1>6, <1>8, <2>2 DEF CallRight, Removing
  <2>3. QED BY <2>1, <2>2
<1>11. InHand(t)' = InHand(t) /\ Unrecorded(t)' = Unrecorded(t)
  <2>1. InHand(t) = {} /\ Null \notin used
    BY <1>2, HandFacts
  <2>2. InHand(t)' = {}
    BY <1>2, <1>6, <1>8, <2>1 DEF InHand
  <2>3. Unrecorded(t)' = {} /\ Unrecorded(t) = {}
    BY <1>3, <1>7, <1>8, TodoFacts DEF Unrecorded
  <2>4. QED BY <2>1, <2>2, <2>3
<1>12. OneHolder'
  <2>1. SUFFICES ASSUME NEW u \in Threads, NEW v \in Threads, op'[u].op # NoOp, op'[v].op # NoOp,
                        op'[u].op[2] = op'[v].op[2], u # v
                 PROVE  FALSE
    BY DEF OneHolder, MyList
  <2>2. \A w \in Threads : w # t => op'[w] = op[w] /\ (op[w].op # NoOp => op[w].op[2] # o[2])
    BY <1>1, <1>8 DEF Others, Owned
  <2>3. QED BY <1>8, <2>1, <2>2 DEF IInv, OneHolder, MyList
<1>13. RecordsTrue' /\ EmptyWhenDown'
  BY <1>2, <1>8, <1>11, QuietTable DEF EmptyWhenDown
<1>14. QED BY <1>2, <1>8, <1>9, <1>10, <1>11, <1>12, <1>13, QuietStep

(* An operation of t ends.                                                 *)
LEMMA LeaveFacts ==
    ASSUME IInv, NEW t \in Threads, Leave(t),
           NEW y \in CallSet, y = NoCall, call' = [call EXCEPT ![t] = y]
    PROVE  /\ Others(t) /\ op'[t] = Idle /\ call'[t] = NoCall /\ CallRight(t)' /\ OneHolder'
           /\ op' \in [Threads -> [op : Ops \cup {NoOp}, at : {"called", "freeing"}]]
           /\ call' \in [Threads -> CallSet] /\ Unrecorded(t)' = {}
           /\ (EmptyWhenDown /\ phase' = phase /\ ends' = ends => EmptyWhenDown')
           /\ (Null \notin used' => InHand(t)' = {})
<1>1. /\ op \in [Threads -> [op : Ops \cup {NoOp}, at : {"called", "freeing"}]]
      /\ call \in [Threads -> CallSet] /\ Idle \in [op : Ops \cup {NoOp}, at : {"called", "freeing"}]
      /\ Idle.op = NoOp
  BY DEF IInv, DataOK, Idle
<1>2. /\ Others(t) /\ op'[t] = Idle /\ call'[t] = NoCall
      /\ op' \in [Threads -> [op : Ops \cup {NoOp}, at : {"called", "freeing"}]]
      /\ call' \in [Threads -> CallSet]
  BY <1>1 DEF Others, Leave
<1>3. CallRight(t)'
  BY <1>2 DEF CallRight, Resting
<1>4. OneHolder'
  BY <1>1, <1>2 DEF IInv, OneHolder, MyList, Others
<1>5. EmptyWhenDown /\ phase' = phase /\ ends' = ends => EmptyWhenDown'
  BY <1>2 DEF EmptyWhenDown, Others
<1>6. NoCall.todo = <<>> /\ NoCall.ptr = Null
  BY DEF NoCall
<1>7. Null \notin used' => InHand(t)' = {}
  BY <1>2, <1>6 DEF InHand, Idle
<1>8. Unrecorded(t)' = {}
  BY <1>2, <1>6, TodoFacts DEF Unrecorded
<1>9. QED BY <1>2, <1>3, <1>4, <1>5, <1>7, <1>8

(* ... without having changed anything.                                    *)
LEMMA LeaveInv ==
    ASSUME IInv, NEW t \in Threads, Leave(t), call' = [call EXCEPT ![t] = NoCall],
           InHand(t) = {}, Unrecorded(t) = {},
           UNCHANGED <<used, table, overrun, ends, node, phase>>
    PROVE  IInv'
<1>1. /\ Others(t) /\ op'[t] = Idle /\ call'[t] = NoCall /\ CallRight(t)' /\ OneHolder'
      /\ op' \in [Threads -> [op : Ops \cup {NoOp}, at : {"called", "freeing"}]]
      /\ call' \in [Threads -> CallSet] /\ Unrecorded(t)' = {}
      /\ (EmptyWhenDown /\ phase' = phase /\ ends' = ends => EmptyWhenDown')
      /\ (Null \notin used' => InHand(t)' = {})
  BY LeaveFacts, DoingIs
<1>2. Null \notin used /\ EmptyWhenDown
  BY HandFacts DEF IInv
<1>3. DataOK'
  BY <1>1 DEF IInv, DataOK
<1>4. RecordsTrue'
  BY <1>1, QuietTable
<1>5. QED BY <1>1, <1>2, <1>3, <1>4, QuietStep

LEMMA AppendNodeInv ==
    ASSUME IInv, NEW t \in Threads, AppendNode(t)
    PROVE  IInv'
<1> DEFINE p == call[t].ptr
           l == MyList(t)
<1>1. /\ Pending(t, "append") /\ call[t].todo = <<>> /\ Leave(t) /\ call' = [call EXCEPT ![t] = NoCall]
      /\ UNCHANGED <<used, table, overrun, phase>>
      /\ Appending(t) /\ MyEl(t) \in Els /\ l \in Lists
      /\ op[t] # Idle
  BY CallIs DEF AppendNode, Pending, Finished, Idle
<1>2. Unrecorded(t) = {} /\ InHand(t) = {p} \cap used /\ p \in used \cup {Null} /\ Null \notin used
  BY <1>1, HandFacts, TodoFacts DEF Unrecorded, Appending
<1>3. CASE p = Null
  BY <1>1, <1>2, <1>3, LeaveInv DEF AppendNode
<1>4. CASE p # Null
  <2>1. LinkNode(l, p, MyEl(t))
    BY <1>4 DEF AppendNode
  <2>2. (\A b : b \in used <=> Linked(b) \/ Held(b)) /\ Apart
    BY AccountedIs DEF IInv
  <2>3. p \in Blocks /\ p \in used /\ InHand(t) = {p} /\ \A k \in Lists : p \notin ToSet(Nodes(k))
    BY <1>2, <1>4, <2>2 DEF IInv, DataOK, Apart
  <2> HIDE DEF p, l
  <2>4. /\ ends' \in [Lists -> [next : Blocks \cup {Null}, prev : Blocks \cup {Null}]]
        /\ node' \in [Blocks -> [next : Blocks \cup {Null}, prev : Blocks \cup {Null},
                                 el : Els \cup {Null}]]
        /\ \A k \in Lists : /\ ListRight(k)'
                            /\ ends'[k].next = Null => k # l /\ ends[k].next = Null
                            /\ Nodes(k)' = IF k = l THEN Append(Nodes(l), p) ELSE Nodes(k)
    BY <1>1, <2>1, <2>3, LinkLists
  <2>5. /\ Others(t) /\ op'[t] = Idle /\ call'[t] = NoCall /\ CallRight(t)' /\ OneHolder'
        /\ op' \in [Threads -> [op : Ops \cup {NoOp}, at : {"called", "freeing"}]]
        /\ call' \in [Threads -> CallSet] /\ Unrecorded(t)' = {} /\ InHand(t)' = {}
    BY <1>1, <1>2, LeaveFacts, DoingIs
  <2>6. DataOK'
    BY <1>1, <2>4, <2>5 DEF IInv, DataOK
  <2>7. \A u \in Threads : CallRight(u)'
    BY <1>1, <2>5, OthersKeep
  <2>8. EmptyWhenDown'
    BY <1>1 DEF IInv, EmptyWhenDown
  <2>9. RecordsTrue'
    BY <1>1, <1>2, <2>5, QuietTable
  <2>10. \A k \in Lists : \A b : b \in ToSet(Nodes(k))' <=> b \in ToSet(Nodes(k)) \/ (k = l /\ b = p)
    <3>1. ASSUME NEW b PROVE b \in ToSet(Append(Nodes(l), p)) <=> b \in ToSet(Nodes(l)) \/ b = p
      <4> DEFINE s == Nodes(l)
                 r == Append(s, p)
      <4>1. s \in Seq(Blocks) /\ Len(s) \in Nat
        BY <1>1, ListFacts
      <4> HIDE DEF s
      <4>2. /\ r \in Seq(Blocks) /\ Len(r) = Len(s) + 1 /\ r[Len(s) + 1] = p
            /\ \A i \in 1..Len(s) : r[i] = s[i]
        BY <2>3, <4>1, AppendProperties
      <4> HIDE DEF r
      <4>3. DOMAIN s = 1..Len(s) /\ DOMAIN r = 1..(Len(s) + 1)
        BY <4>1, <4>2, LenProperties
      <4>4. \A i \in 1..(Len(s) + 1) : i = Len(s) + 1 \/ i \in 1..Len(s)
        BY <4>1
      <4>5. b \in ToSet(r) <=> b \in ToSet(s) \/ b = p
        BY <4>1, <4>2, <4>3, <4>4 DEF ToSet
      <4>6. QED BY <4>5 DEF r, s
    <3>2. QED BY <2>4, <3>1
  <2>11. \A u \in Threads : u # t => InHand(u)' = InHand(u)
    BY <1>1, <2>5 DEF Others, InHand
  <2>12. NodesAccounted'
    <3>1. \A b : Linked(b)' <=> Linked(b) \/ b = p
      BY <1>1, <2>10 DEF Linked
    <3>2. \A b : Held(b)' <=> \E u \in Threads : u # t /\ b \in InHand(u)
      BY <2>5, <2>11 DEF Held
    <3>3. \A b : b \in used' <=> Linked(b)' \/ Held(b)'
      BY <1>1, <2>2, <2>3, <3>1, <3>2 DEF Held
    <3>4. Apart'
      <4>1. \A j, k \in Lists : j # k => \A b \in ToSet(Nodes(j))' : b \notin ToSet(Nodes(k))'
        BY <2>2, <2>3, <2>10 DEF Apart
      <4>2. \A u \in Threads : u # t => p \notin InHand(u)
        BY <2>2, <2>3 DEF Apart
      <4>3. \A u \in Threads : \A k \in Lists : \A b \in InHand(u)' : b \notin ToSet(Nodes(k))'
        BY <2>2, <2>5, <2>10, <2>11, <4>2 DEF Apart
      <4>4. \A u, v \in Threads : u # v => \A b \in InHand(u)' : b \notin InHand(v)'
        BY <2>2, <2>5, <2>11 DEF Apart
      <4>5. QED BY <4>1, <4>3, <4>4 DEF Apart
    <3>5. QED BY <3>3, <3>4, AccountedNext
  <2>13. QED BY <2>4, <2>5, <2>6, <2>7, <2>8, <2>9, <2>12 DEF IInv
<1>5. QED BY <1>3, <1>4

(* fly_list_get finds the first node with the element.                     *)
LEMMA GetFacts ==
    ASSUME NEW l, ListRight(l), NEW el
    PROVE  LET s == Nodes(l)
               i == Get(l, el)
           IN /\ i = 0 => \A k \in 1..Len(s) : node[s[k]].el # el
              /\ i # 0 => i \in 1..Len(s) /\ node[s[i]].el = el /\ \A k \in 1..Len(s) : node[s[k]].el = el => i <= k
<1> DEFINE s == Nodes(l)
           I == {k \in 1..Len(s) : node[s[k]].el = el}
<1>1. Get(l, el) = IF I # {} THEN Min(I) ELSE 0
  BY DEF Get, SelectInSeq
<1>2. Len(s) \in Nat
  BY NodeFacts
<1>3. I \in SUBSET Nat /\ 0 \notin I
  BY <1>2
<1>4. I # {} => Min(I) \in I /\ \A k \in I : Min(I) <= k
  <2> HIDE DEF I
  <2>1. QED BY <1>3, LeastOf
<1>5. QED BY <1>1, <1>3, <1>4

LEMMA UnlinkInv ==
    ASSUME IInv, NEW t \in Threads, Removing(t), MyList(t) \in Lists,
           NEW k \in 1..Len(Nodes(MyList(t))), Unlink(t, Nodes(MyList(t))[k])
    PROVE  IInv'
<1> DEFINE l == MyList(t)
           s == Nodes(l)
           n == s[k]
<1>1. /\ RemoveNode(l, n) /\ StartFree(t, n) /\ Frees(t) /\ UNCHANGED <<used, table, overrun, phase>>
      /\ l \in Lists /\ k \in 1..Len(Nodes(l)) /\ n = Nodes(l)[k]
      /\ op[t].op \in Ops /\ op[t].op[1] # "append" /\ call[t] = NoCall
  BY DEF Unlink, Removing
<1>2. /\ s \in Seq(Blocks) /\ Len(s) \in Nat /\ k \in 1..Len(s) /\ n = s[k]
      /\ \A i \in 1..Len(s) : s[i] \in Blocks
      /\ \A i, j \in 1..Len(s) : s[i] = s[j] => i = j
      /\ \A b \in ToSet(s) : \E i \in 1..Len(s) : b = s[i]
      /\ n \in ToSet(s) /\ n \in used /\ n \in Blocks
  BY ListFacts
<1> HIDE DEF n
<1>3. /\ ends' \in [Lists -> [next : Blocks \cup {Null}, prev : Blocks \cup {Null}]]
      /\ node' \in [Blocks -> [next : Blocks \cup {Null}, prev : Blocks \cup {Null},
                               el : Els \cup {Null}]]
      /\ \A j \in Lists : /\ ListRight(j)'
                          /\ Nodes(j)' = IF j = l THEN Without(s, k) ELSE Nodes(j)
  <2> HIDE DEF l
  <2>1. QED BY <1>1, UnlinkLists
<1> HIDE DEF l
<1>4. \A b : b \in ToSet(Without(s, k)) <=> b \in ToSet(s) /\ b # n
  <2> HIDE DEF s
  <2> DEFINE r == Without(s, k)
  <2>0. s \in Seq(Blocks) /\ k \in 1..Len(s) /\ \A i, m \in 1..Len(s) : s[i] = s[m] => i = m
    BY <1>2
  <2> HIDE DEF r
  <2>1. /\ r \in Seq(Blocks) /\ Len(r) = Len(s) - 1
        /\ \A i \in 1..(Len(s) - 1) : r[i] = IF i < k THEN s[i] ELSE s[i + 1]
        /\ \A i \in 1..(Len(s) - 1) : r[i] # s[k]
        /\ \A i \in 1..Len(s) : i # k => \E m \in 1..(Len(s) - 1) : r[m] = s[i]
    BY <2>0, WithoutFacts DEF r
  <2> HIDE DEF r
  <2>2. DOMAIN s = 1..Len(s) /\ DOMAIN r = 1..(Len(s) - 1)
    BY <1>2, <2>1, LenProperties
  <2>3. \A i \in 1..(Len(s) - 1) : i \in 1..Len(s) /\ i + 1 \in 1..Len(s)
    BY <1>2
  <2>4. ASSUME NEW b \in ToSet(r) PROVE b \in ToSet(s) /\ b # n
    <3>1. PICK i \in 1..(Len(s) - 1) : b = r[i]
      BY <2>2 DEF ToSet
    <3>2. b # n /\ (b = s[i] \/ b = s[i + 1])
      BY <1>2, <2>1, <3>1
    <3>3. QED BY <2>2, <2>3, <3>2 DEF ToSet
  <2>5. ASSUME NEW b \in ToSet(s), b # n PROVE b \in ToSet(r)
    <3>1. PICK i \in 1..Len(s) : b = s[i]
      BY <1>2
    <3>2. PICK m \in 1..(Len(s) - 1) : r[m] = s[i]
      BY <1>2, <2>1, <2>5, <3>1
    <3>3. QED BY <2>2, <3>1, <3>2 DEF ToSet
  <2>6. QED BY <2>4, <2>5 DEF r
<1>5. \A j \in Lists : \A b : b \in ToSet(Nodes(j))' <=> b \in ToSet(Nodes(j)) /\ ~(j = l /\ b = n)
  <2>1. ASSUME NEW j \in Lists, NEW b
        PROVE  b \in ToSet(Nodes(j)') <=> b \in ToSet(Nodes(j)) /\ ~(j = l /\ b = n)
    BY <1>3, <1>4
  <2>2. QED BY <2>1
<1> HIDE DEF s
<1>6. /\ op'[t].op = op[t].op /\ op'[t].at = "freeing" /\ call'[t].ptr = n /\ call'[t].todo = Freeing
      /\ Others(t) /\ op' \in [Threads -> [op : Ops \cup {NoOp}, at : {"called", "freeing"}]]
      /\ call' \in [Threads -> CallSet]
  <2>1. /\ op \in [Threads -> [op : Ops \cup {NoOp}, at : {"called", "freeing"}]]
        /\ call \in [Threads -> CallSet]
    BY DEF IInv, DataOK
  <2>2. [ptr |-> n, todo |-> Freeing] \in CallSet
    BY <1>2 DEF CallSet, Todos
  <2>3. call' = [call EXCEPT ![t] = [ptr |-> n, todo |-> Freeing]]
    BY <1>1 DEF StartFree
  <2>4. op' = [op EXCEPT ![t].at = "freeing"]
    BY <1>1 DEF Frees
  <2>5. QED BY <2>1, <2>2, <2>3, <2>4 DEF Others
<1>7. CallRight(t)'
  BY <1>1, <1>2, <1>6, TodoFacts DEF CallRight, GivingUp
<1>8. \A u \in Threads : CallRight(u)'
  BY <1>1, <1>6, <1>7, OthersKeep
<1>9. DataOK'
  BY <1>1, <1>3, <1>6 DEF IInv, DataOK
<1>10. OneHolder'
  BY <1>6 DEF IInv, OneHolder, MyList, Others
<1>11. EmptyWhenDown'
  <2>1. phase # "down"
    BY <1>1, OpFacts DEF IInv, EmptyWhenDown, Idle
  <2>2. QED BY <1>1, <2>1 DEF EmptyWhenDown
<1>12. InHand(t) = {} /\ InHand(t)' = {n} /\ Unrecorded(t)' = Unrecorded(t)
  <2>1. InHand(t) = {}
    BY HandFacts
  <2>2. InHand(t)' = {n}
    BY <1>1, <1>2, <1>6, TodoFacts DEF InHand
  <2>3. Unrecorded(t)' = {} /\ Unrecorded(t) = {}
    BY <1>1, <1>6, TodoFacts, DoingIs DEF Unrecorded
  <2>4. QED BY <2>1, <2>2, <2>3
<1>13. RecordsTrue'
  BY <1>1, <1>6, <1>12, QuietTable
<1>14. \A u \in Threads : u # t => InHand(u)' = InHand(u)
  BY <1>1, <1>6 DEF Others, InHand
<1>15. NodesAccounted'
  <2>1. (\A b : b \in used <=> Linked(b) \/ Held(b)) /\ Apart /\ n \in ToSet(Nodes(l))
    BY <1>2, AccountedIs DEF IInv, s
  <2>2. \A j \in Lists : j # l => n \notin ToSet(Nodes(j))
    BY <1>1, <2>1 DEF Apart
  <2>3. \A b : Linked(b)' <=> Linked(b) /\ b # n
    BY <1>5, <2>2 DEF Linked
  <2>4. \A b : Held(b)' <=> Held(b) \/ b = n
    BY <1>12, <1>14 DEF Held
  <2>5. \A u \in Threads : n \notin InHand(u)
    BY <1>1, <2>1 DEF Apart
  <2>6. \A b : b \in used' <=> Linked(b)' \/ Held(b)'
    BY <1>1, <1>2, <2>1, <2>3, <2>4
  <2>7. \A j, i \in Lists : j # i => \A b \in ToSet(Nodes(j))' : b \notin ToSet(Nodes(i))'
    BY <1>5, <2>1 DEF Apart
  <2>8. \A u \in Threads : \A j \in Lists : \A b \in InHand(u)' : b \notin ToSet(Nodes(j))'
    BY <1>5, <1>12, <1>14, <2>1, <2>2 DEF Apart
  <2>9. \A u, v \in Threads : u # v => \A b \in InHand(u)' : b \notin InHand(v)'
    BY <1>12, <1>14, <2>1, <2>5 DEF Apart
  <2>10. Apart'
    BY <2>7, <2>8, <2>9 DEF Apart
  <2>11. QED BY <2>6, <2>10, AccountedNext
<1>16. QED BY <1>3, <1>8, <1>9, <1>10, <1>11, <1>13, <1>15 DEF IInv

LEMMA RemovedNode ==
    ASSUME IInv, NEW t \in Threads, RemoveEl(t) \/ TailRemove(t)
    PROVE  /\ Removing(t) /\ MyList(t) \in Lists
           /\ \/ \E k \in 1..Len(Nodes(MyList(t))) : Unlink(t, Nodes(MyList(t))[k])
              \/ Leave(t) /\ UNCHANGED <<memvars, ends, node, phase>>
<1>1. Removing(t) /\ MyList(t) \in Lists
  BY CallIs DEF RemoveEl, TailRemove, Pending
<1>2. ListRight(MyList(t)) /\ Len(Nodes(MyList(t))) \in Nat
      /\ ends[MyList(t)].prev = Nth(Nodes(MyList(t)), Len(Nodes(MyList(t))))
  BY <1>1, ListFacts
<1>3. CASE RemoveEl(t)
  <2> DEFINE i == Get(MyList(t), MyEl(t))
  <2>1. i # 0 => i \in 1..Len(Nodes(MyList(t)))
    BY <1>2, GetFacts
  <2>2. IF i # 0 THEN Unlink(t, Nodes(MyList(t))[i])
                 ELSE Leave(t) /\ UNCHANGED <<memvars, ends, node, phase>>
    BY <1>3 DEF RemoveEl
  <2> HIDE DEF i
  <2>3. QED BY <1>1, <2>1, <2>2
<1>4. CASE TailRemove(t)
  <2> DEFINE tail == ends[MyList(t)].prev
             n == Len(Nodes(MyList(t)))
  <2>1. tail # Null => n \in 1..n /\ tail = Nodes(MyList(t))[n]
    BY <1>2 DEF Nth
  <2>2. IF tail # Null THEN Unlink(t, tail)
                       ELSE Leave(t) /\ UNCHANGED <<memvars, ends, node, phase>>
    BY <1>4 DEF TailRemove
  <2> HIDE DEF tail
  <2>3. QED BY <1>1, <2>1, <2>2
<1>5. QED BY <1>3, <1>4

LEMMA RemoveInv ==
    ASSUME IInv, NEW t \in Threads, RemoveEl(t) \/ TailRemove(t)
    PROVE  IInv'
<1>1. /\ Removing(t) /\ MyList(t) \in Lists
      /\ \/ \E k \in 1..Len(Nodes(MyList(t))) : Unlink(t, Nodes(MyList(t))[k])
         \/ Leave(t) /\ UNCHANGED <<memvars, ends, node, phase>>
  BY RemovedNode
<1>2. CASE \E k \in 1..Len(Nodes(MyList(t))) : Unlink(t, Nodes(MyList(t))[k])
  BY <1>1, <1>2, UnlinkInv
<1>3. CASE Leave(t) /\ UNCHANGED <<memvars, ends, node, phase>>
  <2>1. call[t] = NoCall /\ NoCall.todo = <<>> /\ call \in [Threads -> CallSet]
    BY <1>1, DoingIs DEF Removing, IInv, DataOK
  <2>2. call' = [call EXCEPT ![t] = NoCall] /\ Unrecorded(t) = {} /\ InHand(t) = {}
    BY <1>1, <1>3, <2>1, HandFacts, TodoFacts DEF memvars, Unrecorded
  <2>3. QED BY <1>3, <2>2, LeaveInv DEF memvars
<1>4. QED BY <1>1, <1>2, <1>3

LEMMA FreedInv ==
    ASSUME IInv, NEW t \in Threads, Freed(t)
    PROVE  IInv'
<1>1. GivingUp(t) /\ call[t].todo = <<>>
  BY CallIs DEF Freed, Finished
<1>2. Unrecorded(t) = {} /\ InHand(t) = {}
  BY <1>1, HandFacts, TodoFacts DEF Unrecorded
<1>3. QED BY <1>2, LeaveInv DEF Freed

(* fly_sched_uninit_lists asks for the element at a tail that is there.    *)
LEMMA DrainCalls ==
    ASSUME IInv, NEW t \in Threads, Drain(t)
    PROVE  \E l \in Lists : Call(t, <<"remove", l, node[ends[l].prev].el>>) /\ node[ends[l].prev].el \in Els
<1>1. PICK l \in Lists : ends[l].next # Null /\ Call(t, <<"remove", l, node[ends[l].prev].el>>)
  BY DEF Drain
<1>2. node[ends[l].prev].el \in Els
  <2> DEFINE n == Len(Nodes(l))
  <2>1. /\ n \in Nat /\ ends[l].next = Nth(Nodes(l), 1) /\ ends[l].prev = Nth(Nodes(l), n)
        /\ \A i \in 1..n : node[Nodes(l)[i]].el \in Els
    BY ListFacts
  <2>2. n \in 1..n
    BY <1>1, <2>1 DEF Nth
  <2>3. QED BY <2>1, <2>2 DEF Nth
<1>3. QED BY <1>1, <1>2

LEMMA DrainInv ==
    ASSUME IInv, NEW t \in Threads, Drain(t)
    PROVE  IInv'
<1>1. PICK l \in Lists : Call(t, <<"remove", l, node[ends[l].prev].el>>) /\ node[ends[l].prev].el \in Els
  BY DrainCalls
<1>2. /\ UNCHANGED <<used, table, overrun, call, ends, node, phase>> /\ phase = "draining"
      /\ (\A u \in Threads : op[u] = Idle) /\ Resting(t)
  BY CallIs DEF Drain, memvars
<1> DEFINE o    == <<"remove", l, node[ends[l].prev].el>>
           mine == [op |-> o, at |-> "called"]
<1>3. o \in Ops /\ o[1] = "remove"
  BY <1>1, OpFacts
<1>4. op' = [op EXCEPT ![t] = mine]
  BY <1>1 DEF Call
<1> HIDE DEF o
<1>5. mine.op = o /\ mine.at = "called" /\ mine \in [op : Ops \cup {NoOp}, at : {"called", "freeing"}]
  BY <1>3
<1> HIDE DEF mine
<1>6. op \in [Threads -> [op : Ops \cup {NoOp}, at : {"called", "freeing"}]] /\ call[t] = NoCall
  BY <1>2 DEF IInv, DataOK, Resting
<1>7. /\ op'[t].op = o /\ op'[t].at = "called" /\ Others(t) /\ call'[t] = NoCall
      /\ op' \in [Threads -> [op : Ops \cup {NoOp}, at : {"called", "freeing"}]]
      /\ \A u \in Threads : u # t => op'[u] = Idle
  BY <1>2, <1>4, <1>5, <1>6 DEF Others
<1>8. DataOK'
  BY <1>2, <1>7 DEF IInv, DataOK
<1>9. CallRight(t)'
  BY <1>3, <1>7 DEF CallRight, Removing
<1>10. OneHolder'
  BY <1>7 DEF OneHolder, Idle
<1>11. InHand(t)' = InHand(t) /\ Unrecorded(t)' = Unrecorded(t)
  BY <1>2, <1>7 DEF InHand, Unrecorded, Idle
<1>12. RecordsTrue' /\ EmptyWhenDown'
  BY <1>2, <1>7, <1>11, QuietTable DEF EmptyWhenDown
<1>13. QED BY <1>2, <1>7, <1>8, <1>9, <1>10, <1>11, <1>12, QuietStep

(* Uninit, Report: only the phase changes.                                 *)
LEMMA PhaseInv ==
    ASSUME IInv, UNCHANGED <<used, table, overrun, call, ends, node, op>>,
           phase' \in {"up", "draining", "down"}, EmptyWhenDown'
    PROVE  IInv'
<1>1. DataOK' /\ OneHolder'
  BY DEF IInv, DataOK, OneHolder, MyList
<1>2. \A t \in Threads : CallRight(t)' /\ InHand(t)' = InHand(t) /\ Unrecorded(t)' = Unrecorded(t)
  BY DEF IInv, CallRight, Resting, Appending, Removing, GivingUp, InHand, Unrecorded
<1>3. \A l \in Lists : Nodes(l)' = Nodes(l) /\ ListRight(l)'
  BY ListsKept DEF IInv
<1>4. NodesAccounted' /\ RecordsTrue'
  BY <1>2, <1>3, AccountedKept, RecordsKept DEF IInv
<1>5. QED BY <1>1, <1>2, <1>3, <1>4 DEF IInv

LEMMA InitInv == Init => IInv
<1>1. SUFFICES ASSUME Init PROVE IInv
  OBVIOUS
<1>2. \A l \in Lists : Nodes(l) = <<>> /\ ListRight(l)
  <2>1. SUFFICES ASSUME NEW l \in Lists PROVE Nodes(l) = <<>> /\ ListRight(l)
    OBVIOUS
  <2>2. ends[l].next = Null /\ ends[l].prev = Null
    BY <1>1 DEF Init
  <2>3. Len(<<>>) = 0 /\ <<>> \in Seq(Blocks) /\ 1..0 = {}
    OBVIOUS
  <2>4. Chain(ends[l], node, <<>>)
    BY <2>2, <2>3 DEF Chain, Forward, Nth
  <2>5. Nodes(l) = <<>>
    BY <2>4, NodesAre, WalkOfChain DEF Chain
  <2>6. QED BY <2>3, <2>4, <2>5 DEF ListRight
<1>3. /\ used = {} /\ \A t \in Threads : /\ op[t] = Idle /\ call[t] = NoCall
                                         /\ InHand(t) = {} /\ CallRight(t)
  BY <1>1 DEF Init, MemInit, InHand, CallRight, Resting
<1>4. NodesAccounted
  <2>1. \A l \in Lists : \A b : b \notin ToSet(Nodes(l))
    BY <1>2 DEF ToSet
  <2>2. (\A b : b \in used <=> Linked(b) \/ Held(b)) /\ Apart
    BY <1>3, <2>1 DEF Linked, Held, Apart
  <2>3. QED BY <2>2, AccountedIs
<1>5. table = [i \in 1..StartSize |-> Null] /\ StartSize \in Nat /\ MaxSize \in Nat
  BY <1>1, MemAssumption DEF Init, MemInit
<1>6. table \in Seq(Garbage) /\ Len(table) = StartSize
  BY <1>5 DEF Garbage
<1>7. RecordsTrue
  BY <1>3, <1>5, CountedIs DEF RecordsTrue
<1>8. DataOK
  <2>1. Idle \in [op : Ops \cup {NoOp}, at : {"called", "freeing"}] /\ NoCall \in CallSet
    BY DEF Idle, NoCall, CallSet, Todos
  <2>2. StartSize \in StartSize..(StartSize + MaxSize)
    BY <1>5
  <2>3. QED BY <1>1, <1>3, <1>6, <2>1, <2>2 DEF Init, MemInit, DataOK, Unused
<1>9. OneHolder /\ EmptyWhenDown
  BY <1>1, <1>3 DEF Init, OneHolder, Idle, EmptyWhenDown
<1>10. QED BY <1>2, <1>3, <1>4, <1>7, <1>8, <1>9 DEF IInv

LEMMA NextInv == IInv /\ [Next]_vars => IInv'
<1>1. SUFFICES ASSUME IInv, [Next]_vars PROVE IInv'
  OBVIOUS
<1>2. ASSUME NEW t \in Threads, Allocate(t) PROVE IInv'
  BY <1>1, <1>2, MallocInv, RecordInv, GrowInv, GrowFailsInv, ForgetInv, FreeInv DEF Allocate, MemStep
<1>3. ASSUME NEW t \in Threads,
             Start(t) \/ AppendNode(t) \/ RemoveEl(t) \/ TailRemove(t) \/ Freed(t) \/ Drain(t)
      PROVE  IInv'
  BY <1>1, <1>3, StartInv, AppendNodeInv, RemoveInv, FreedInv, DrainInv
<1>4. CASE Uninit
  BY <1>1, <1>4, PhaseInv DEF Uninit, memvars, EmptyWhenDown
<1>5. CASE Report
  BY <1>1, <1>5, PhaseInv DEF Report, memvars, EmptyWhenDown
<1>6. CASE UNCHANGED vars
  BY <1>1, <1>6, PhaseInv DEF vars, IInv, DataOK, EmptyWhenDown
<1>7. QED BY <1>1, <1>2, <1>3, <1>4, <1>5, <1>6 DEF Next, Over

LEMMA Invariant == Spec => []IInv
BY InitInv, NextInv, PTL DEF Spec

(***************************************************************************)
(* What the lists and the table promise                                    *)
(***************************************************************************)
(* The pointers of fly_list.h, the counts and blocks of fly_memdebug.h and *)
(* the calls under way keep their types, for any threads, lists, elements  *)
(* and sizes of the table.                                                 *)
THEOREM TypeCorrect == Spec => []TypeOK
<1>1. IInv => TypeOK
  BY DataIsTypeOK DEF IInv
<1>2. QED BY <1>1, Invariant, PTL

(* fly_list_append_node, fly_list_remove_node: each list reads the same    *)
(* both ways, ends at its tail, and meets no node twice.                   *)
THEOREM ReadBothWays == Spec => []BothWays
<1>1. ASSUME IInv PROVE BothWays
  <2>1. SUFFICES ASSUME NEW l \in Lists
                 PROVE  LET s == Nodes(l)
                        IN /\ IsInjective(s)
                           /\ ends[l].prev = IF s = <<>> THEN Null ELSE Last(s)
                           /\ \A i \in DOMAIN s : node[s[i]].prev = IF i = 1 THEN Null ELSE s[i - 1]
    BY DEF BothWays
  <2> DEFINE s == Nodes(l)
  <2>2. /\ s \in Seq(Blocks) /\ Len(s) \in Nat
        /\ \A i, k \in 1..Len(s) : s[i] = s[k] => i = k
        /\ ends[l].prev = Nth(s, Len(s))
        /\ \A i \in 1..Len(s) : node[s[i]].prev = Nth(s, i - 1)
    BY <1>1, ListFacts
  <2> HIDE DEF s
  <2>3. DOMAIN s = 1..Len(s) /\ (s = <<>> <=> Len(s) = 0)
    BY <2>2, LenProperties, EmptySeq
  <2>4. IsInjective(s)
    BY <2>2, <2>3 DEF IsInjective
  <2>5. ends[l].prev = IF s = <<>> THEN Null ELSE Last(s)
    BY <2>2, <2>3 DEF Nth, Last
  <2>6. ASSUME NEW i \in 1..Len(s) PROVE node[s[i]].prev = IF i = 1 THEN Null ELSE s[i - 1]
    BY <2>2 DEF Nth
  <2>7. QED BY <2>3, <2>4, <2>5, <2>6 DEF s
<1>2. QED BY <1>1, Invariant, PTL

(* fly_list_append, fly_list_remove: nothing leaks, no list leads into     *)
(* freed memory, and no two lists or threads have a block in common.       *)
THEOREM AllAccounted == Spec => []NodesAccounted
<1>1. IInv => NodesAccounted
  BY DEF IInv
<1>2. QED BY <1>1, Invariant, PTL

(* fly_mem_count_alloc, fly_mem_count_free: what the first part of the     *)
(* table holds is in use and there once, and all of it until the table has *)
(* grown.                                                                  *)
THEOREM TableTrue == Spec => []RecordsTrue
<1>1. IInv => RecordsTrue
  BY DEF IInv
<1>2. QED BY <1>1, Invariant, PTL

(* fly_sched_uninit_lists: when fly_uninit prints the table no block is in *)
(* use and the first part is empty.                                        *)
THEOREM ReportsNothing == Spec => []NothingReported
<1>1. ASSUME IInv, phase = "down" PROVE used = {} /\ \A i \in 1..StartSize : table[i] = Null
  <2>1. /\ \A t \in Threads : op[t] = Idle
        /\ \A l \in Lists : ends[l].next = Null
    BY <1>1 DEF IInv, EmptyWhenDown
  <2>2. \A t \in Threads : InHand(t) = {}
    BY <1>1, <2>1, CallIs, HandFacts
  <2>3. ASSUME NEW l \in Lists, NEW b \in ToSet(Nodes(l)) PROVE FALSE
    <3> DEFINE s == Nodes(l)
    <3>1. /\ Len(s) \in Nat /\ Nth(s, 1) = Null /\ (\A i \in 1..Len(s) : s[i] \in Blocks)
          /\ \E i \in 1..Len(s) : b = s[i]
      BY <1>1, <2>1, <2>3, ListFacts
    <3> HIDE DEF s
    <3>2. 1 \in 1..Len(s)
      BY <3>1
    <3>3. QED BY <3>1, <3>2, MemAssumption DEF Nth
  <2>4. used = {}
    BY <1>1, <2>2, <2>3, AccountedIs DEF IInv, Linked, Held
  <2>5. QED BY <1>1, <2>4, CountedIs DEF IInv, RecordsTrue
<1>2. IInv => NothingReported
  BY <1>1 DEF NothingReported
<1>3. QED BY <1>2, Invariant, PTL

------------------------------------------------------------------------------
(* The refinement: the lists are the sequences of FlySequences.            *)
LEMMA RemovedAt ==
    ASSUME NEW S, NEW s \in Seq(S), NEW k \in 1..Len(s)
    PROVE  LET r == SubSeq(s, 1, k - 1) \o SubSeq(s, k + 1, Len(s))
           IN /\ r \in Seq(S) /\ DOMAIN r = 1..(Len(s) - 1)
              /\ \A i \in 1..(Len(s) - 1) : r[i] = IF i < k THEN s[i] ELSE s[i + 1]
<1> DEFINE r == SubSeq(s, 1, k - 1) \o SubSeq(s, k + 1, Len(s))
<1>0. Len(s) \in Nat /\ DOMAIN s = 1..Len(s)
  BY LenProperties
<1>4. /\ SubSeq(s, 1, k - 1) \in Seq(S) /\ Len(SubSeq(s, 1, k - 1)) = k - 1
      /\ \A i \in 1..(k - 1) : SubSeq(s, 1, k - 1)[i] = s[i]
  <2>1. \A i \in 1..(k - 1) : s[i] \in S
    BY <1>0, ElementOfSeq
  <2>2. QED BY <1>0, <2>1, SubSeqProperties
<1>5. /\ SubSeq(s, k + 1, Len(s)) \in Seq(S) /\ Len(SubSeq(s, k + 1, Len(s))) = Len(s) - k
      /\ \A i \in 1..(Len(s) - k) : SubSeq(s, k + 1, Len(s))[i] = s[i + k]
  <2>1. \A i \in (k + 1)..Len(s) : s[i] \in S
    BY <1>0, ElementOfSeq
  <2> DEFINE u == SubSeq(s, k + 1, Len(s))
  <2>2. k + 1 \in Int /\ Len(s) \in Int /\ ~(k + 1 > Len(s) + 1)
    BY <1>0
  <2>3. /\ u \in Seq(S)
        /\ Len(u) = IF k + 1 <= Len(s) THEN Len(s) - (k + 1) + 1 ELSE 0
        /\ \A i \in 1..Len(s) - (k + 1) + 1 : u[i] = s[(k + 1) + i - 1]
    BY <2>1, <2>2, SubSeqProperties
  <2> HIDE DEF u
  <2>4. Len(s) - (k + 1) + 1 = Len(s) - k
    BY <1>0
  <2>5. Len(u) = Len(s) - k
    <3>1. CASE k + 1 <= Len(s)
      BY <2>3, <2>4, <3>1
    <3>2. CASE ~(k + 1 <= Len(s))
      <4>0. Len(s) \in Nat /\ k \in Nat /\ k <= Len(s)
        BY <1>0
      <4>1. Len(s) - k = 0
        BY <3>2, <4>0
      <4>2. QED BY <2>3, <3>2, <4>1
    <3>3. QED BY <3>1, <3>2
  <2>6. ASSUME NEW i \in 1..(Len(s) - k) PROVE u[i] = s[i + k]
    <3>1. (k + 1) + i - 1 = i + k
      BY <1>0
    <3>2. u[i] = s[(k + 1) + i - 1]
      BY <2>3, <2>4
    <3>3. QED BY <3>1, <3>2
  <2>7. QED BY <2>3, <2>5, <2>6 DEF u
<1>6. /\ r \in Seq(S) /\ Len(r) = Len(s) - 1 /\ DOMAIN r = 1..(Len(s) - 1)
      /\ \A i \in 1..(Len(s) - 1) : r[i] = IF i < k THEN s[i] ELSE s[i + 1]
  <2>1. r \in Seq(S) /\ Len(r) = (k - 1) + (Len(s) - k)
    BY <1>4, <1>5, ConcatProperties
  <2>2. \A i \in 1..((k - 1) + (Len(s) - k)) :
            r[i] = IF i <= k - 1 THEN SubSeq(s, 1, k - 1)[i] ELSE SubSeq(s, k + 1, Len(s))[i - (k - 1)]
    <3> DEFINE u == SubSeq(s, 1, k - 1)
               v == SubSeq(s, k + 1, Len(s))
    <3>1. /\ u \in Seq(S) /\ v \in Seq(S)
          /\ Len(u) = k - 1 /\ Len(v) = Len(s) - k
      BY <1>4, <1>5
    <3> HIDE DEF u, v
    <3>2. \A i \in 1..(Len(u) + Len(v)) : (u \o v)[i] = IF i <= Len(u) THEN u[i] ELSE v[i - Len(u)]
      BY <3>1, ConcatProperties
    <3>3. QED BY <3>1, <3>2 DEF u, v
  <2>3. DOMAIN r = 1..Len(r)
    BY <2>1, LenProperties
  <2> HIDE DEF r
  <2>4. Len(r) = Len(s) - 1
    BY <1>0, <2>1
  <2>5. ASSUME NEW i \in 1..(Len(s) - 1) PROVE r[i] = IF i < k THEN s[i] ELSE s[i + 1]
    <3>1. CASE i < k
      BY <1>0, <1>4, <2>2, <3>1
    <3>2. CASE ~(i < k)
      <4>1. i - (k - 1) \in 1..(Len(s) - k) /\ (i - (k - 1)) + k = i + 1
        BY <1>0, <3>2
      <4>2. r[i] = SubSeq(s, k + 1, Len(s))[i - (k - 1)]
        BY <1>0, <2>2, <3>2
      <4>3. QED BY <1>5, <3>2, <4>1, <4>2
    <3>3. QED BY <3>1, <3>2
  <2>6. QED BY <2>1, <2>3, <2>4, <2>5
<1>7. QED BY <1>6

LEMMA RemoveAtIs ==
    ASSUME NEW s \in Seq(Els), NEW k \in 1..Len(s)
    PROVE  RemoveAt(s, k) = Without(s, k) /\ (k = Len(s) => Front(s) = Without(s, k))
<1> DEFINE r == RemoveAt(s, k)
           u == SubSeq(s, 1, Len(s) - 1)
<1>1. /\ r \in Seq(Els) /\ DOMAIN r = 1..(Len(s) - 1)
      /\ \A i \in 1..(Len(s) - 1) : r[i] = IF i < k THEN s[i] ELSE s[i + 1]
  BY RemovedAt DEF RemoveAt
<1>2. Len(s) \in Nat /\ k \in Nat /\ \A i \in 1..Len(s) : s[i] \in Els
  BY ElementOfSeq, LenProperties
<1>3. RemoveAt(s, k) = Without(s, k)
  <2>1. r = [i \in DOMAIN r |-> r[i]]
    BY <1>1, <1>2, LenProperties
  <2> HIDE DEF r
  <2>2. r = [i \in 1..(Len(s) - 1) |-> IF i < k THEN s[i] ELSE s[i + 1]]
    BY <1>1, <2>1
  <2>3. QED BY <2>2 DEF Without, r
<1>4. ASSUME k = Len(s) PROVE Front(s) = Without(s, k)
  <2>1. u \in Seq(Els) /\ Len(u) = Len(s) - 1 /\ \A i \in 1..(Len(s) - 1) : u[i] = s[i]
    <3>1. \A i \in 1..(Len(s) - 1) : s[i] \in Els
      BY <1>2
    <3>2. QED BY <1>2, <1>4, <3>1, SubSeqProperties
  <2> HIDE DEF u
  <2>2. u = [i \in 1..(Len(s) - 1) |-> u[i]]
    BY <2>1, LenProperties
  <2>3. \A i \in 1..(Len(s) - 1) : i < k
    BY <1>2, <1>4
  <2>4. u = [i \in 1..(Len(s) - 1) |-> IF i < k THEN s[i] ELSE s[i + 1]]
    BY <2>1, <2>2, <2>3
  <2>5. QED BY <2>4 DEF Without, Front, u
<1>5. QED BY <1>3, <1>4

LEMMA ElementsFacts ==
    ASSUME IInv, NEW l \in Lists
    PROVE  /\ Elements(l) \in Seq(Els) /\ Len(Elements(l)) = Len(Nodes(l)) /\ Len(Nodes(l)) \in Nat
           /\ Elements(l) = [i \in 1..Len(Nodes(l)) |-> node[Nodes(l)[i]].el]
<1> DEFINE s == Nodes(l)
<1>1. s \in Seq(Blocks) /\ Len(s) \in Nat /\ \A i \in 1..Len(s) : node[s[i]].el \in Els
  BY ListFacts
<1>2. Elements(l) = [i \in DOMAIN s |-> node[s[i]].el]
  BY DEF Elements
<1> HIDE DEF s
<1>3. DOMAIN s = 1..Len(s)
  BY <1>1, LenProperties
<1>4. Elements(l) = [i \in 1..Len(s) |-> node[s[i]].el]
  BY <1>2, <1>3
<1>5. Elements(l) \in Seq(Els) /\ Len(Elements(l)) = Len(s)
  BY <1>1, <1>4
<1>6. QED BY <1>1, <1>4, <1>5 DEF s

(* fly_list_remove takes away the first element that is el.                *)
LEMMA FirstIs ==
    ASSUME IInv, NEW l \in Lists, NEW el
    PROVE  LET k == Get(l, el)
           IN RemoveFirst(Elements(l), el) = IF k = 0 THEN Elements(l) ELSE Without(Elements(l), k)
<1> DEFINE es == Elements(l)
           I  == {i \in 1..Len(Nodes(l)) : node[Nodes(l)[i]].el = el}
           J  == {i \in 1..Len(es) : es[i] = el}
           k  == Get(l, el)
<1>1. /\ es \in Seq(Els) /\ Len(es) = Len(Nodes(l)) /\ Len(Nodes(l)) \in Nat
      /\ \A i \in 1..Len(es) : es[i] = node[Nodes(l)[i]].el
  BY ElementsFacts
<1>2. Get(l, el) = IF I # {} THEN Min(I) ELSE 0
  BY DEF Get, SelectInSeq
<1>3. RemoveFirst(es, el) = IF J # {} THEN RemoveAt(es, IF J # {} THEN Min(J) ELSE 0) ELSE es
  <2>1. (\E i \in 1..Len(es) : es[i] = el) <=> J # {}
    OBVIOUS
  <2> HIDE DEF es
  <2>2. QED BY <2>1 DEF RemoveFirst, SelectInSeq
<1> HIDE DEF es
<1>4. I = J
  BY <1>1
<1>5. J # {} => Min(J) \in 1..Len(es) /\ Min(J) # 0
  <2>1. J \in SUBSET Nat /\ J \subseteq 1..Len(es) /\ 0 \notin J
    BY <1>1
  <2> HIDE DEF J
  <2>2. QED BY <2>1, LeastOf
<1> HIDE DEF I, J
<1>6. CASE J = {}
  BY <1>2, <1>3, <1>4, <1>6 DEF es
<1>7. CASE J # {}
  <2>1. RemoveAt(es, Min(J)) = Without(es, Min(J))
    BY <1>1, <1>5, <1>7, RemoveAtIs
  <2>2. QED BY <1>2, <1>3, <1>4, <1>5, <1>7, <2>1 DEF es
<1>8. QED BY <1>6, <1>7

Seqs    == [l \in Lists |-> Elements(l)]
Pend(t) == IF op[t].at = "called" THEN op[t].op ELSE NoOp
Pends   == [t \in Threads |-> Pend(t)]

LEMMA PendsNext ==
    ASSUME NEW t \in Threads, \A u \in Threads : u # t => op'[u] = op[u]
    PROVE  Pends' = [Pends EXCEPT ![t] = Pend(t)']
BY DEF Pends, Pend

LEMMA SeqsKept ==
    ASSUME IInv, UNCHANGED <<ends, node>>
    PROVE  Seqs' = Seqs
<1>1. \A l \in Lists : Nodes(l)' = Nodes(l)
  BY ListsKept DEF IInv
<1>2. \A l \in Lists : Elements(l)' = Elements(l)
  BY <1>1 DEF Elements
<1>3. QED BY <1>2 DEF Seqs

(* The other lists hold what they held.                                    *)
LEMMA SeqsOfOthers ==
    ASSUME IInv, NEW k \in Lists, Nodes(k)' = Nodes(k),
           \A b \in ToSet(Nodes(k)) : node'[b].el = node[b].el
    PROVE  Elements(k)' = Elements(k)
<1> DEFINE s == Nodes(k)
<1>1. /\ s \in Seq(Blocks) /\ \A i \in 1..Len(s) : s[i] \in ToSet(s)
      /\ Elements(k) = [i \in DOMAIN s |-> node[s[i]].el]
      /\ Elements(k)' = [i \in DOMAIN s |-> node'[s[i]].el]
      /\ \A b \in ToSet(s) : node'[b].el = node[b].el
  BY ListFacts DEF Elements
<1> HIDE DEF s
<1>2. DOMAIN s = 1..Len(s)
  BY <1>1, LenProperties
<1>3. QED BY <1>1, <1>2

LEMMA LinkedElements ==
    ASSUME IInv, NEW l \in Lists, NEW p \in Blocks, NEW el \in Els, LinkNode(l, p, el),
           \A k \in Lists : p \notin ToSet(Nodes(k))
    PROVE  Seqs' = [Seqs EXCEPT ![l] = Append(@, el)]
<1> DEFINE s  == Nodes(l)
           r  == Append(s, p)
<1>1. /\ \A k \in Lists : Nodes(k)' = IF k = l THEN r ELSE Nodes(k)
      /\ node'[p].el = el /\ \A b \in Blocks \ {p} : node'[b].el = node[b].el
  BY LinkLists
<1>2. \A k \in Lists : k # l => Elements(k)' = Elements(k)
  <2>1. SUFFICES ASSUME NEW k \in Lists, k # l PROVE Elements(k)' = Elements(k)
    OBVIOUS
  <2>2. ASSUME NEW b \in ToSet(Nodes(k)) PROVE b \in Blocks \ {p}
    <3>1. PICK i \in 1..Len(Nodes(k)) : b = Nodes(k)[i]
      BY ListFacts
    <3>2. b \in Blocks
      BY <3>1, ListFacts
    <3>3. QED BY <3>2
  <2>3. QED BY <1>1, <2>1, <2>2, SeqsOfOthers
<1>3. Elements(l)' = Append(Elements(l), el)
  <2>1. /\ s \in Seq(Blocks) /\ Len(s) \in Nat
        /\ \A i \in 1..Len(s) : s[i] \in Blocks \ {p}
    BY ListFacts
  <2>2. /\ Elements(l) \in Seq(Els) /\ Len(Elements(l)) = Len(s)
        /\ \A i \in 1..Len(s) : Elements(l)[i] = node[s[i]].el
    BY ElementsFacts
  <2>3. Elements(l)' = [i \in DOMAIN r |-> node'[r[i]].el]
    BY <1>1 DEF Elements
  <2> DEFINE es == Elements(l)
             q  == Append(es, el)
             m  == Len(s)
  <2> HIDE DEF s
  <2>4. /\ r \in Seq(Blocks) /\ Len(r) = m + 1 /\ r[m + 1] = p
        /\ \A i \in 1..m : r[i] = s[i]
    BY <2>1, AppendProperties
  <2>5. DOMAIN r = 1..(m + 1)
    BY <2>4, LenProperties
  <2> HIDE DEF es
  <2>6. /\ q \in Seq(Els) /\ Len(q) = m + 1 /\ q[m + 1] = el
        /\ \A i \in 1..m : q[i] = es[i]
    BY <2>2, AppendProperties DEF es
  <2>7. q = [i \in 1..(m + 1) |-> q[i]]
    BY <2>6, LenProperties
  <2> HIDE DEF r, q
  <2>8. ASSUME NEW i \in 1..(m + 1) PROVE node'[r[i]].el = q[i]
    <3>1. CASE i = m + 1
      BY <1>1, <2>4, <2>6, <3>1
    <3>2. CASE i # m + 1
      <4>1. i \in 1..m
        BY <2>1, <3>2 DEF m
      <4>2. r[i] = s[i] /\ q[i] = es[i] /\ es[i] = node[s[i]].el /\ node'[s[i]].el = node[s[i]].el
        BY <1>1, <2>1, <2>2, <2>4, <2>6, <4>1 DEF m, es
      <4>3. QED BY <4>2
    <3>3. QED BY <3>1, <3>2
  <2>9. QED BY <2>3, <2>5, <2>7, <2>8 DEF q, es
<1>4. QED BY <1>2, <1>3 DEF Seqs

LEMMA UnlinkedElements ==
    ASSUME IInv, NEW l \in Lists, NEW k \in 1..Len(Nodes(l)), RemoveNode(l, Nodes(l)[k])
    PROVE  Seqs' = [Seqs EXCEPT ![l] = Without(@, k)]
<1> DEFINE s == Nodes(l)
           n == s[k]
           r == Without(s, k)
           m == Len(s)
<1>1. /\ s \in Seq(Blocks) /\ m \in Nat /\ n \in ToSet(s) /\ n \in Blocks
      /\ \A i \in 1..m : s[i] \in Blocks
      /\ \A i, j \in 1..m : s[i] = s[j] => i = j
  BY ListFacts
<1>2. /\ \A j \in Lists : Nodes(j)' = IF j = l THEN r ELSE Nodes(j)
      /\ \A b \in Blocks \ {n} : node'[b].el = node[b].el
  <2> HIDE DEF n
  <2>1. QED BY UnlinkLists DEF n
<1>3. ASSUME NEW j \in Lists, j # l PROVE Elements(j)' = Elements(j)
  <2>1. \A b \in ToSet(Nodes(j)) : b \in Blocks /\ b # n
    BY <1>1, <1>3, ListsApart
  <2>2. QED BY <1>2, <1>3, <2>1, SeqsOfOthers
<1>4. Elements(l)' = Without(Elements(l), k)
  <2>1. /\ Elements(l) \in Seq(Els) /\ Len(Elements(l)) = m
        /\ \A i \in 1..m : Elements(l)[i] = node[s[i]].el
    BY ElementsFacts
  <2>2. Elements(l)' = [i \in DOMAIN r |-> node'[r[i]].el]
    BY <1>2 DEF Elements
  <2>3. k \in 1..Len(s)
    OBVIOUS
  <2> DEFINE es == Elements(l)
  <2> HIDE DEF s
  <2>4. /\ r \in Seq(Blocks) /\ Len(r) = m - 1
        /\ \A i \in 1..(m - 1) : r[i] = IF i < k THEN s[i] ELSE s[i + 1]
        /\ \A i \in 1..(m - 1) : r[i] # n
    <3> HIDE DEF r
    <3>1. s \in Seq(Blocks) /\ \A i, j \in 1..Len(s) : s[i] = s[j] => i = j
      BY <1>1
    <3>2. QED BY <2>3, <3>1, WithoutFacts DEF r
  <2> HIDE DEF r, n
  <2>5. DOMAIN r = 1..(m - 1)
    BY <2>4, LenProperties
  <2> HIDE DEF es
  <2>6. Without(es, k) = [i \in 1..(m - 1) |-> IF i < k THEN es[i] ELSE es[i + 1]]
    BY <2>1 DEF Without, es
  <2>7. ASSUME NEW i \in 1..(m - 1)
        PROVE  node'[r[i]].el = IF i < k THEN es[i] ELSE es[i + 1]
    <3>1. i \in 1..m /\ i + 1 \in 1..m
      BY <1>1
    <3>2. node'[r[i]].el = node[r[i]].el
      BY <1>1, <1>2, <2>4, <3>1
    <3>3. QED BY <2>1, <2>4, <3>1, <3>2 DEF es
  <2>8. QED BY <2>2, <2>5, <2>6, <2>7 DEF es
<1>5. QED BY <1>3, <1>4 DEF Seqs

LEMMA ResultIs ==
    ASSUME NEW o, NEW s
    PROVE  /\ o[1] = "append" => Sequences!Result(o, s) = Append(s, o[3])
           /\ o[1] = "remove" => Sequences!Result(o, s) = RemoveFirst(s, o[3])
           /\ o[1] = "tail_remove" => Sequences!Result(o, s) = IF s = <<>> THEN s ELSE Front(s)
<1>1. \A e : Sequences!RemoveFirst(s, e) = RemoveFirst(s, e)
  BY DEF RemoveFirst, RemoveAt, SelectInSeq, Min, Sequences!RemoveFirst, Sequences!RemoveAt,
         Sequences!SelectInSeq, Sequences!Min
<1>2. Sequences!Front(s) = Front(s)
  BY DEF Front, Sequences!Front
<1>3. QED BY <1>1, <1>2 DEF Sequences!Result

(* An operation takes effect when its thread leaves or starts to free.     *)
LEMMA Applied ==
    ASSUME NEW t \in Threads, Pends[t] = op[t].op, op[t].op \in Ops,
           Pends' = [Pends EXCEPT ![t] = NoOp],
           Seqs' = [Seqs EXCEPT ![MyList(t)] = Sequences!Result(op[t].op, @)]
    PROVE  Sequences!Next
<1>1. Pends[t] # NoOp /\ Pends[t][2] = MyList(t)
  BY OpFacts DEF MyList
<1>2. Sequences!Apply(t)
  BY <1>1 DEF Sequences!Apply, Sequences!Return, Pends, Pend, Seqs
<1>3. QED BY <1>2 DEF Sequences!Next

LEMMA CallStep ==
    ASSUME IInv, NEW t \in Threads, Start(t) \/ Drain(t)
    PROVE  Sequences!Next
<1>1. PICK o \in Ops : Call(t, o)
  <2>1. CASE Start(t)
    BY <2>1 DEF Start
  <2>2. CASE Drain(t)
    BY <2>2, DrainCalls, OpFacts
  <2>3. QED BY <2>1, <2>2
<1>2. op[t] = Idle /\ UNCHANGED <<ends, node>> /\ op \in [Threads -> [op : Ops \cup {NoOp}, at : {"called", "freeing"}]]
  BY DEF Start, Drain, IInv, DataOK
<1>3. op'[t] = [op |-> o, at |-> "called"] /\ \A u \in Threads : u # t => op'[u] = op[u]
  BY <1>1, <1>2 DEF Call
<1>4. Pends' = [Pends EXCEPT ![t] = o] /\ Pends[t] = NoOp
  BY <1>2, <1>3, PendsNext DEF Pend, Pends, Idle
<1>5. Seqs' = Seqs
  BY <1>2, SeqsKept
<1>6. Sequences!Call(t)
  BY <1>4, <1>5 DEF Sequences!Call, Sequences!Ops, Ops, Pends, Pend, Seqs
<1>7. QED BY <1>6 DEF Sequences!Next

LEMMA AppendStep ==
    ASSUME IInv, NEW t \in Threads, AppendNode(t)
    PROVE  Sequences!Next
<1>1. /\ Appending(t) /\ MyList(t) \in Lists /\ MyEl(t) \in Els /\ call[t].todo = <<>>
      /\ op[t].op \in Ops /\ op[t].op[1] = "append" /\ op[t].at = "called" /\ Leave(t)
  BY CallIs DEF AppendNode, Pending, Finished
<1>2. op'[t] = Idle /\ \A u \in Threads : u # t => op'[u] = op[u]
  BY <1>1 DEF Leave, IInv, DataOK
<1>3. Pends' = [Pends EXCEPT ![t] = NoOp] /\ Pends[t] = op[t].op
  BY <1>1, <1>2, PendsNext DEF Pends, Pend, Idle
<1>4. CASE call[t].ptr = Null
  <2>1. Seqs' = Seqs
    BY <1>4, SeqsKept DEF AppendNode
  <2>2. Sequences!Fail(t)
    BY <1>1, <1>3, <2>1, OpFacts DEF Sequences!Fail, Sequences!Return, Pends, Pend, Seqs
  <2>3. QED BY <2>2 DEF Sequences!Next
<1>5. CASE call[t].ptr # Null
  <2> DEFINE l == MyList(t)
             p == call[t].ptr
  <2>1. LinkNode(l, p, MyEl(t))
    BY <1>5 DEF AppendNode
  <2>2. /\ p \in Blocks /\ p \in InHand(t)
        /\ \A k \in Lists : p \notin ToSet(Nodes(k))
    <3>1. p \in InHand(t) /\ p \in used
      BY <1>1, <1>5, HandFacts DEF Appending
    <3>2. QED BY <3>1, AccountedIs DEF IInv, DataOK, Apart
  <2>3. Seqs' = [Seqs EXCEPT ![l] = Append(@, MyEl(t))]
    <3> HIDE DEF l, p
    <3>1. QED BY <1>1, <2>1, <2>2, LinkedElements DEF l
  <2>4. Append(Seqs[l], MyEl(t)) = Sequences!Result(op[t].op, Seqs[l])
    BY <1>1, ResultIs DEF MyEl
  <2>5. QED BY <1>1, <1>3, <2>3, <2>4, Applied
<1>6. QED BY <1>4, <1>5

(* fly_list_remove, fly_list_tail_remove: Unlink takes out the node at k,  *)
(* or there is none.                                                       *)
LEMMA RemoveSeqs ==
    ASSUME IInv, NEW t \in Threads, RemoveEl(t) \/ TailRemove(t)
    PROVE  Seqs' = [Seqs EXCEPT ![MyList(t)] = Sequences!Result(op[t].op, @)]
<1> DEFINE l  == MyList(t)
           es == Elements(l)
<1>1. /\ Removing(t) /\ l \in Lists /\ op[t].op \in Ops
  BY RemovedNode DEF Removing
<1>2. Seqs[l] = es /\ Seqs = [Seqs EXCEPT ![l] = es]
  BY <1>1 DEF Seqs
<1>3. UNCHANGED <<ends, node>> => Seqs' = [Seqs EXCEPT ![l] = es]
  BY <1>2, SeqsKept
<1>4. ASSUME NEW k \in 1..Len(Nodes(l)), Unlink(t, Nodes(l)[k])
      PROVE  Seqs' = [Seqs EXCEPT ![l] = Without(es, k)]
  <2>1. RemoveNode(l, Nodes(l)[k])
    BY <1>4 DEF Unlink
  <2>2. Seqs' = [Seqs EXCEPT ![l] = Without(@, k)]
    <3> HIDE DEF l
    <3>1. QED BY <1>1, <1>4, <2>1, UnlinkedElements
  <2>3. QED BY <1>2, <2>2
<1>5. CASE RemoveEl(t)
  <2> DEFINE k == Get(l, MyEl(t))
  <2>1. /\ k # 0 => k \in 1..Len(Nodes(l)) /\ Unlink(t, Nodes(l)[k])
        /\ k = 0 => UNCHANGED <<ends, node>>
    <3>1. ListRight(l)
      BY <1>1, ListFacts
    <3>2. k # 0 => k \in 1..Len(Nodes(l))
      BY <3>1, GetFacts
    <3>3. QED BY <1>5, <3>2 DEF RemoveEl
  <2>2. RemoveFirst(es, MyEl(t)) = IF k = 0 THEN es ELSE Without(es, k)
    BY <1>1, FirstIs
  <2>3. Sequences!Result(op[t].op, es) = RemoveFirst(es, MyEl(t))
    BY <1>5, ResultIs DEF RemoveEl, Pending, MyEl
  <2> HIDE DEF k, es, l
  <2>4. Seqs' = [Seqs EXCEPT ![l] = RemoveFirst(es, MyEl(t))]
    BY <1>3, <1>4, <2>1, <2>2
  <2>5. QED BY <1>2, <2>3, <2>4 DEF l
<1>6. CASE TailRemove(t)
  <2> DEFINE n == Len(Nodes(l))
  <2>1. /\ ends[l].prev = Nth(Nodes(l), n) /\ n \in Nat
        /\ \A i \in 1..n : Nodes(l)[i] \in Blocks
        /\ es \in Seq(Els) /\ Len(es) = n
    BY <1>1, ListFacts, ElementsFacts
  <2>2. Sequences!Result(op[t].op, es) = IF es = <<>> THEN es ELSE Front(es)
    BY <1>6, ResultIs DEF TailRemove, Pending
  <2>3. CASE n = 0
    <3>1. ends[l].prev = Null
      BY <2>1, <2>3 DEF Nth
    <3>2. UNCHANGED <<ends, node>>
      BY <1>6, <3>1 DEF TailRemove
    <3>3. es = <<>>
      <4> HIDE DEF es
      <4>1. QED BY <2>1, <2>3, EmptySeq
    <3> HIDE DEF es, l
    <3>4. QED BY <1>2, <1>3, <2>2, <3>2, <3>3 DEF l
  <2>4. CASE n # 0
    <3>1. n \in 1..n
      BY <2>1, <2>4
    <3>2. ends[l].prev = Nodes(l)[n] /\ ends[l].prev # Null
      BY <2>1, <3>1, MemAssumption DEF Nth
    <3>3. Unlink(t, Nodes(l)[n])
      BY <1>6, <3>2 DEF TailRemove
    <3>4. Seqs' = [Seqs EXCEPT ![l] = Without(es, n)]
      BY <1>4, <3>1, <3>3
    <3>5. es # <<>> /\ Front(es) = Without(es, n)
      <4> HIDE DEF es, n
      <4>1. QED BY <2>1, <3>1, RemoveAtIs, EmptySeq
    <3> HIDE DEF es, l, n
    <3>6. QED BY <1>2, <2>2, <3>4, <3>5 DEF l
  <2>5. QED BY <2>3, <2>4
<1>7. QED BY <1>5, <1>6

LEMMA RemoveStep ==
    ASSUME IInv, NEW t \in Threads, RemoveEl(t) \/ TailRemove(t)
    PROVE  Sequences!Next
<1>1. op[t].op \in Ops /\ op[t].at = "called" /\ (Leave(t) \/ Frees(t))
  BY RemovedNode DEF Removing, Unlink
<1>2. (op'[t] = Idle \/ op'[t].at = "freeing") /\ \A u \in Threads : u # t => op'[u] = op[u]
  <2>1. op \in [Threads -> [op : Ops \cup {NoOp}, at : {"called", "freeing"}]]
    BY DEF IInv, DataOK
  <2>2. Frees(t) => op'[t].at = "freeing" /\ \A u \in Threads : u # t => op'[u] = op[u]
    BY <2>1 DEF Frees
  <2>3. Leave(t) => op'[t] = Idle /\ \A u \in Threads : u # t => op'[u] = op[u]
    BY <2>1 DEF Leave
  <2>4. QED BY <1>1, <2>2, <2>3
<1>3. Pends' = [Pends EXCEPT ![t] = NoOp] /\ Pends[t] = op[t].op
  BY <1>1, <1>2, PendsNext DEF Pends, Pend, Idle
<1>4. QED BY <1>1, <1>3, RemoveSeqs, Applied

LEMMA OtherSteps ==
    ASSUME IInv,
           \/ \E t \in Threads : Freed(t) \/ Allocate(t)
           \/ Uninit \/ Report \/ Over \/ UNCHANGED vars
    PROVE  UNCHANGED <<Seqs, Pends>>
<1>1. UNCHANGED <<ends, node>>
  BY DEF Freed, Allocate, Uninit, Report, Over, listvars, vars
<1>2. CASE UNCHANGED op
  BY <1>1, <1>2, SeqsKept DEF Pends, Pend
<1>3. ASSUME NEW t \in Threads, Freed(t) PROVE UNCHANGED <<Seqs, Pends>>
  <2>1. op[t].at = "freeing" /\ op'[t] = Idle /\ \A u \in Threads : u # t => op'[u] = op[u]
    BY <1>3 DEF Freed, Leave, IInv, DataOK
  <2>2. Pends' = Pends
    BY <2>1 DEF Pends, Pend, Idle
  <2>3. QED BY <1>1, <2>2, SeqsKept
<1>4. QED BY <1>2, <1>3 DEF Allocate, Uninit, Report, Over, listvars, vars

(* fly_list.h with its lock: each operation on a list acts once, at once,  *)
(* between its call and its return, as one on a sequence, and only an      *)
(* append, for want of memory, fails.                                      *)
THEOREM ListsAreSequences == Spec => ImplementsSequences
<1>1. ASSUME Init PROVE Sequences!Init
  <2>1. \A l \in Lists : Nodes(l) = <<>>
    <3>1. SUFFICES ASSUME NEW l \in Lists PROVE Nodes(l) = <<>>
      OBVIOUS
    <3>2. Len(<<>>) = 0 /\ <<>> \in Seq(Blocks) /\ 1..0 = {}
      OBVIOUS
    <3>3. Forward(ends[l].next, node, <<>>)
      BY <1>1, <3>2 DEF Init, Forward, Nth
    <3>4. QED BY <3>3, NodesAre, WalkOfChain
  <2>2. \A l \in Lists : Elements(l) = <<>>
    BY <2>1 DEF Elements
  <2>3. QED BY <1>1, <2>2 DEF Init, Idle, Sequences!Init
<1>2. ASSUME IInv, [Next]_vars PROVE [Sequences!Next]_(Sequences!vars)
  <2>1. CASE \E t \in Threads : Start(t) \/ Drain(t)
    BY <1>2, <2>1, CallStep
  <2>2. CASE \E t \in Threads : AppendNode(t)
    BY <1>2, <2>2, AppendStep
  <2>3. CASE \E t \in Threads : RemoveEl(t) \/ TailRemove(t)
    BY <1>2, <2>3, RemoveStep
  <2>4. CASE \/ \E t \in Threads : Freed(t) \/ Allocate(t)
             \/ Uninit \/ Report \/ Over \/ UNCHANGED vars
    <3>1. UNCHANGED <<Seqs, Pends>>
      BY <1>2, <2>4, OtherSteps
    <3>2. QED BY <3>1 DEF Sequences!vars, Seqs, Pends, Pend
  <2>5. QED BY <1>2, <2>1, <2>2, <2>3, <2>4 DEF Next
<1>3. QED BY <1>1, <1>2, Invariant, PTL DEF Spec, ImplementsSequences, Sequences!Spec
==============================================================================
