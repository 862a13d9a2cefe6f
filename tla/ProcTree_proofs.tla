--------------------------- MODULE ProcTree_proofs ---------------------------
(***************************************************************************)
(* Proofs about the process tree of ProcTable, for every kernel state: the *)
(* recursive equations of IsAncestor and Descendants, and the principle of *)
(* the least (greatest) pid, by which the modules on AgentSched and on     *)
(* TaskPipe reason about chains of processes.                              *)
(***************************************************************************)
EXTENDS ProcTable, TLAPS, WellFoundedInduction

-----------------------------------------------------------------------------
(* The recursive functions of ProcTable.                                   *)

\* Pids can be marked by a recursion along any relation: the least set closed
\* under it is a function that satisfies the equation.
LEMMA FixedPoint ==
  ASSUME NEW B \in SUBSET Pid, NEW R \in SUBSET (Pid \X Pid)
  PROVE  \E f : f = [q \in Pid |-> q \in B \/ \E a \in Pid : <<q, a>> \in R /\ f[a]]
<1> DEFINE Closed(S) == \A q \in Pid : q \in B \/ (\E a \in Pid : <<q, a>> \in R /\ a \in S)
                                         => q \in S
           L == {q \in Pid : \A S \in SUBSET Pid : Closed(S) => q \in S}
           M == {q \in Pid : q \in B \/ \E a \in Pid : <<q, a>> \in R /\ a \in L}
           f == [q \in Pid |-> q \in L]
<1>1. \A S \in SUBSET Pid : Closed(S) => L \subseteq S  OBVIOUS
<1>2. Closed(L)  BY <1>1
<1>3. M \subseteq L  BY <1>2
<1>4. Closed(M)  BY <1>3
<1>5. L \subseteq M  BY <1>4
<1>6. \A q \in Pid : q \in L <=> (q \in B \/ \E a \in Pid : <<q, a>> \in R /\ a \in L)
  BY <1>3, <1>5
<1> HIDE DEF L
<1>7. \A a \in Pid : f[a] = (a \in L)  OBVIOUS
<1>8. f = [q \in Pid |-> q \in B \/ \E a \in Pid : <<q, a>> \in R /\ f[a]]
  <2>1. ASSUME NEW q \in Pid
        PROVE  (q \in L) = (q \in B \/ \E a \in Pid : <<q, a>> \in R /\ f[a])
    <3>1. (\E a \in Pid : <<q, a>> \in R /\ f[a])
             <=> (\E a \in Pid : <<q, a>> \in R /\ a \in L)
      BY <1>7
    <3> QED BY <1>6, <3>1
  <2> QED BY <2>1
<1> QED BY <1>8

\* One step up the parent_pid chain.
LEMMA ParentStep ==
  ASSUME NEW s, s.parent \in [Pid -> Pid \cup {None}], NEW a \in Pid, NEW p \in Pid
  PROVE  IsAncestor(s, a, p) <=>
           /\ Exists(s, p) /\ s.parent[p] # None
           /\ s.parent[p] = a \/ (s.parent[p] < p /\ IsAncestor(s, a, s.parent[p]))
<1> DEFINE Body(f, q) == /\ Exists(s, q)
                         /\ s.parent[q] # None
                         /\ \/ s.parent[q] = a
                            \/ /\ s.parent[q] < q
                               /\ f[s.parent[q]]
           below == CHOOSE f : f = [q \in Pid |-> Body(f, q)]
           B == {q \in Pid : Exists(s, q) /\ s.parent[q] # None /\ s.parent[q] = a}
           R == {x \in Pid \X Pid : /\ Exists(s, x[1]) /\ s.parent[x[1]] = x[2] /\ x[2] < x[1]}
<1>1. PICK f : f = [q \in Pid |-> q \in B \/ \E b \in Pid : <<q, b>> \in R /\ f[b]]
  <2>1. B \in SUBSET Pid /\ R \in SUBSET (Pid \X Pid)  OBVIOUS
  <2> HIDE DEF B, R
  <2> QED BY <2>1, FixedPoint
<1>2. \A q \in Pid : (q \in B \/ \E b \in Pid : <<q, b>> \in R /\ f[b]) = Body(f, q)
  <2> SUFFICES ASSUME NEW q \in Pid
               PROVE (q \in B \/ \E b \in Pid : <<q, b>> \in R /\ f[b]) = Body(f, q)
    OBVIOUS
  <2>1. s.parent[q] \in Pid \cup {None}  OBVIOUS
  <2>2. \A b \in Pid : <<q, b>> \in R <=> Exists(s, q) /\ s.parent[q] = b /\ b < q
    OBVIOUS
  <2>3. q \in B <=> Exists(s, q) /\ s.parent[q] # None /\ s.parent[q] = a
    OBVIOUS
  <2> HIDE DEF B, R
  <2>4. (\E b \in Pid : <<q, b>> \in R /\ f[b])
           <=> Exists(s, q) /\ s.parent[q] # None /\ s.parent[q] < q /\ f[s.parent[q]]
    <3>1. None \notin Pid  BY DEF None, Pid
    <3> QED BY <2>1, <2>2, <3>1
  <2> QED BY <2>3, <2>4
<1>3. f = [q \in Pid |-> Body(f, q)]  BY <1>1, <1>2
<1>4. below = [q \in Pid |-> Body(below, q)]
  <2> HIDE DEF Body
  <2> QED BY <1>3
<1>5. \A q \in Pid : below[q] = Body(below, q)  BY <1>4
<1>6. \A q \in Pid : IsAncestor(s, a, q) = below[q]
  BY DEF IsAncestor
<1> HIDE DEF below
<1>7. s.parent[p] \in Pid \cup {None}  OBVIOUS
<1> QED BY <1>5, <1>6, <1>7

\* One step down the children_by_parent index.
LEMMA ChildStep ==
  ASSUME NEW s, NEW p \in Pid, NEW c \in Pid
  PROVE  c \in Descendants(s, p) <=>
           \E a \in 1..(c - 1) : c \in s.kids[a] /\ (a = p \/ a \in Descendants(s, p))
<1> DEFINE Body(f, q) == \E a \in 1..(q - 1) : q \in s.kids[a] /\ (a = p \/ f[a])
           below == CHOOSE f : f = [q \in Pid |-> Body(f, q)]
           B == {q \in Pid : \E a \in 1..(q - 1) : q \in s.kids[a] /\ a = p}
           R == {x \in Pid \X Pid : x[1] \in s.kids[x[2]] /\ x[2] < x[1]}
<1>0. \A q \in Pid : 1..(q - 1) = {a \in Pid : a < q}
  BY TableAssumption DEF Pid
<1>1. PICK f : f = [q \in Pid |-> q \in B \/ \E b \in Pid : <<q, b>> \in R /\ f[b]]
  <2>1. B \in SUBSET Pid /\ R \in SUBSET (Pid \X Pid)  OBVIOUS
  <2> HIDE DEF B, R
  <2> QED BY <2>1, FixedPoint
<1>2. \A q \in Pid : (q \in B \/ \E b \in Pid : <<q, b>> \in R /\ f[b]) = Body(f, q)
  <2> SUFFICES ASSUME NEW q \in Pid
               PROVE (q \in B \/ \E b \in Pid : <<q, b>> \in R /\ f[b]) = Body(f, q)
    OBVIOUS
  <2>1. \A b \in Pid : <<q, b>> \in R <=> q \in s.kids[b] /\ b < q
    OBVIOUS
  <2>2. q \in B <=> \E a \in 1..(q - 1) : q \in s.kids[a] /\ a = p
    OBVIOUS
  <2> HIDE DEF B, R
  <2>3. (\E b \in Pid : <<q, b>> \in R /\ f[b])
           <=> \E a \in 1..(q - 1) : q \in s.kids[a] /\ f[a]
    BY <1>0, <2>1
  <2> QED BY <2>2, <2>3
<1>3. f = [q \in Pid |-> Body(f, q)]  BY <1>1, <1>2
<1>4. below = [q \in Pid |-> Body(below, q)]
  <2> HIDE DEF Body
  <2> QED BY <1>3
<1>5. \A q \in Pid : below[q] = Body(below, q)  BY <1>4
<1>6. Descendants(s, p) = {q \in Pid : below[q]}
  BY DEF Descendants
<1> HIDE DEF below
<1>7. \A q \in Pid : q \in Descendants(s, p) <=> below[q]  BY <1>6
<1>8. 1..(c - 1) \subseteq Pid  BY <1>0
<1> QED BY <1>5, <1>7, <1>8

-----------------------------------------------------------------------------
(* Induction, as the least number principle.                               *)

Smaller == {x \in Nat \X Nat : x[1] < x[2]}

LEMMA SmallerWellFounded == IsWellFoundedOn(Smaller, Nat)
<1>1. Smaller = OpToRel(<, Nat)
  BY DEF OpToRel, Smaller
<1> QED BY <1>1, NatLessThanWellFounded

LEMMA LeastPid ==
  ASSUME NEW T \in SUBSET Pid, T # {}
  PROVE  \E m \in T : \A n \in T : m <= n
<1>1. T \subseteq Nat  BY DEF Pid
<1>2. PICK m \in T : \A n \in T : ~(<<n, m>> \in Smaller)
  BY <1>1, SmallerWellFounded, WFMin, Zenon
<1>3. ASSUME NEW n \in T PROVE m <= n
  <2>1. n \in Nat /\ m \in Nat  BY <1>1
  <2>2. ~(n < m)  BY <1>2, <2>1 DEF Smaller
  <2> QED BY <2>1, <2>2
<1> QED BY <1>3

LEMMA GreatestPid ==
  ASSUME NEW T \in SUBSET Pid, T # {}
  PROVE  \E m \in T : \A n \in T : n <= m
<1> DEFINE U == {m \in Pid : \A n \in T : n <= m}
<1>1. MaxPid \in U  BY TableAssumption DEF Pid
<1>2. PICK m \in U : \A n \in U : m <= n
  <2>1. U \in SUBSET Pid  OBVIOUS
  <2> HIDE DEF U
  <2> QED BY <1>1, <2>1, LeastPid
<1>3. m \in Pid /\ \A n \in T : n <= m  OBVIOUS
<1>4. ASSUME m \notin T PROVE FALSE
  <2>1. \A n \in T : n <= m - 1 /\ m - 1 \in Pid
    BY <1>3, <1>4, TableAssumption DEF Pid
  <2>2. m - 1 \in U  BY <2>1
  <2>3. ~(m <= m - 1)  BY <1>3 DEF Pid
  <2> QED BY <1>2, <2>2, <2>3
<1> QED BY <1>3, <1>4

=============================================================================
