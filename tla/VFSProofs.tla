------------------------------ MODULE VFSProofs ------------------------------
(***************************************************************************)
(* Theorems about VFS, for any disk, any files vfs.cfg and any sequence of *)
(* commands.                                                               *)
(***************************************************************************)
EXTENDS VFS, SequenceProofs, FiniteSetTheorems

(***************************************************************************)
(* Beginnings of sequences, member by member.                              *)
(***************************************************************************)
Agree(v, w, i) == \A k \in 1..i : v[k] = w[k]

LEMMA PrefixOf ==
  ASSUME NEW B, NEW v \in Seq(B), NEW i \in 0..Len(v)
  PROVE  /\ SubSeq(v, 1, i) \in Seq(B) /\ Len(SubSeq(v, 1, i)) = i
         /\ \A k \in 1..i : SubSeq(v, 1, i)[k] = v[k]
<1>1. 1 \in Int /\ i \in Int /\ Len(v) \in Nat
  BY LenProperties
<1>2. SubSeq(v, 1, i) = [k \in 1..i |-> v[k]]
  BY <1>1
<1>3. ASSUME NEW k \in 1..i PROVE v[k] \in B
  <2>1. k \in 1..Len(v)
    BY <1>1
  <2> QED
    BY <2>1, ElementOfSeq
<1>4. SubSeq(v, 1, i) \in [1..i -> B] /\ i \in Nat
  <2>1. i \in Nat
    BY <1>1
  <2>2. [k \in 1..i |-> v[k]] \in [1..i -> B]
    BY <1>3
  <2> QED
    BY <1>2, <2>1, <2>2, Zenon
<1>5. SubSeq(v, 1, i) \in Seq(B)
  BY <1>4, SeqDef
<1> QED
  BY <1>1, <1>2, <1>4, <1>5, LenProperties

LEMMA PrefixEq ==
  ASSUME NEW B, NEW v \in Seq(B), NEW w \in Seq(B), NEW i \in 0..Len(v), i <= Len(w)
  PROVE  SubSeq(v, 1, i) = SubSeq(w, 1, i) <=> Agree(v, w, i)
<1>1. i \in 0..Len(w)
  BY LenProperties
<1>2. /\ SubSeq(v, 1, i) \in Seq(B) /\ Len(SubSeq(v, 1, i)) = i
      /\ \A k \in 1..i : SubSeq(v, 1, i)[k] = v[k]
  BY PrefixOf
<1>3. /\ SubSeq(w, 1, i) \in Seq(B) /\ Len(SubSeq(w, 1, i)) = i
      /\ \A k \in 1..i : SubSeq(w, 1, i)[k] = w[k]
  BY <1>1, PrefixOf
<1>4. Agree(v, w, i) => SubSeq(v, 1, i) = SubSeq(w, 1, i)
  BY <1>2, <1>3, SeqEqual DEF Agree
<1> QED
  BY <1>2, <1>3, <1>4 DEF Agree

LEMMA WholePrefix ==
  ASSUME NEW B, NEW v \in Seq(B)
  PROVE  SubSeq(v, 1, Len(v)) = v
<1>1. Len(v) \in 0..Len(v)
  BY LenProperties
<1> QED
  BY <1>1, PrefixOf, SeqEqual

LEMMA FrontOf ==
  ASSUME NEW B, NEW v \in Seq(B), NEW i \in 1..Len(v)
  PROVE  Front(SubSeq(v, 1, i)) = SubSeq(v, 1, i - 1) /\ SubSeq(v, 1, i) # <<>>
<1> DEFINE x == SubSeq(v, 1, i)
<1>1. Len(v) \in Nat /\ i \in 0..Len(v) /\ i - 1 \in 0..Len(v) /\ i - 1 \in 0..i
  BY LenProperties
<1>2. x \in Seq(B) /\ Len(x) = i /\ \A k \in 1..i : x[k] = v[k]
  BY <1>1, PrefixOf
<1>3. x # <<>>
  BY <1>2, EmptySeq
<1> HIDE DEF x
<1>4. Agree(x, v, i - 1)
  BY <1>1, <1>2 DEF Agree
<1>5. SubSeq(x, 1, i - 1) = SubSeq(v, 1, i - 1)
  BY <1>1, <1>2, <1>4, PrefixEq
<1>6. Front(x) = SubSeq(v, 1, i - 1)
  BY <1>2, <1>5 DEF Front
<1> QED
  BY <1>3, <1>6 DEF x

-----------------------------------------------------------------------------
(***************************************************************************)
(* The order of the nodes in memory is total, so that among the nodes that *)
(* a path belongs to there is a first one.                                 *)
(***************************************************************************)
Younger(t, v, w, i) == t[SubSeq(v, 1, i)].nth < t[SubSeq(w, 1, i)].nth
Branch(t, v, w, i) == i <= Len(v) /\ i <= Len(w) /\ Agree(v, w, i - 1) /\ Younger(t, v, w, i)
Beneath(v, w) == Len(v) < Len(w) /\ Agree(v, w, Len(v))

LEMMA BeforeIs ==
  ASSUME NEW t, NEW v \in Seq(STRING), NEW w \in Seq(STRING)
  PROVE  Before(t, v, w) <=> Beneath(v, w) \/ \E i \in Nat \ {0} : Branch(t, v, w, i)
<1>1. Len(v) \in Nat /\ Len(w) \in Nat
  BY LenProperties
<1>2. IsStrictPrefix(v, w) <=> Beneath(v, w)
  <2>1. CASE Len(v) < Len(w)
    <3>1. SubSeq(v, 1, Len(v)) = SubSeq(w, 1, Len(v)) <=> Agree(v, w, Len(v))
      BY <1>1, <2>1, PrefixEq
    <3> QED
      BY <1>1, <2>1, <3>1 DEF IsStrictPrefix, IsPrefix, Beneath
  <2>2. CASE Len(v) = Len(w)
    <3>1. SubSeq(v, 1, Len(v)) = v /\ SubSeq(w, 1, Len(v)) = w
      BY <2>2, WholePrefix
    <3> QED
      BY <1>1, <2>2, <3>1 DEF IsStrictPrefix, IsPrefix, Beneath
  <2>3. CASE Len(v) > Len(w)
    BY <1>1, <2>3 DEF IsStrictPrefix, IsPrefix, Beneath
  <2> QED
    BY <1>1, <2>1, <2>2, <2>3
<1>3. ASSUME NEW i \in 1..Len(v), i <= Len(w)
      PROVE  SubSeq(v, 1, i - 1) = SubSeq(w, 1, i - 1) <=> Agree(v, w, i - 1)
  <2>1. i - 1 \in 0..Len(v) /\ i - 1 <= Len(w)
    BY <1>1, <1>3
  <2> QED
    BY <2>1, PrefixEq
<1>4. (\E i \in 1..Len(v) :
         /\ i <= Len(w)
         /\ SubSeq(v, 1, i - 1) = SubSeq(w, 1, i - 1)
         /\ Younger(t, v, w, i)) <=> \E i \in Nat \ {0} : Branch(t, v, w, i)
  <2>1. ASSUME NEW i \in Nat \ {0}, i <= Len(v) PROVE i \in 1..Len(v)
    BY <1>1, <2>1
  <2>2. \A i \in 1..Len(v) : i \in Nat \ {0} /\ i <= Len(v)
    BY <1>1
  <2> QED
    BY <1>3, <2>1, <2>2 DEF Branch
<1> QED
  BY <1>2, <1>4 DEF Before, Younger

LEMMA PrefixesIn ==
  ASSUME NEW B, NEW D \in SUBSET Seq(B), \A d \in D : d # <<>> => Front(d) \in D,
         NEW v \in D, NEW i \in 0..Len(v)
  PROVE  SubSeq(v, 1, i) \in D
<1> DEFINE S == {k \in 0..Len(v) : SubSeq(v, 1, Len(v) - k) \in D}
<1>1. v \in Seq(B) /\ Len(v) \in Nat
  BY LenProperties
<1>2. 0 \in S
  <2>1. Len(v) - 0 = Len(v) /\ 0 \in 0..Len(v)
    BY <1>1
  <2>2. SubSeq(v, 1, Len(v)) = v
    BY <1>1, WholePrefix
  <2> QED
    BY <2>1, <2>2
<1>3. ASSUME NEW k \in 1..Len(v), k - 1 \in S PROVE k \in S
  <2> DEFINE j == Len(v) - (k - 1)
  <2>1. j \in 1..Len(v) /\ j - 1 = Len(v) - k /\ SubSeq(v, 1, j) \in D /\ k \in 0..Len(v)
    BY <1>1, <1>3
  <2> HIDE DEF j
  <2>2. Front(SubSeq(v, 1, j)) = SubSeq(v, 1, j - 1) /\ SubSeq(v, 1, j) # <<>>
    BY <1>1, <2>1, FrontOf
  <2>3. Front(SubSeq(v, 1, j)) \in D
    BY <2>1, <2>2
  <2> QED
    BY <2>1, <2>2, <2>3
<1>4. 0..Len(v) \subseteq S
  <2> HIDE DEF S
  <2> QED
    BY <1>1, <1>2, <1>3, RangeInduction
<1>5. Len(v) - i \in S /\ Len(v) - (Len(v) - i) = i
  <2>1. Len(v) - i \in 0..Len(v) /\ Len(v) - (Len(v) - i) = i
    BY <1>1
  <2> HIDE DEF S
  <2> QED
    BY <1>4, <2>1
<1> QED
  BY <1>5

LEMMA PrefixClosed ==
  ASSUME NEW t, TreeOK(t), NEW v \in DOMAIN t, NEW i \in 0..Len(v)
  PROVE  SubSeq(v, 1, i) \in DOMAIN t
<1>1. /\ DOMAIN t \in SUBSET Seq(STRING)
      /\ \A d \in DOMAIN t : d # <<>> => Front(d) \in DOMAIN t
  BY DEF TreeOK
<1> QED
  BY <1>1, PrefixesIn

LEMMA Ages == ASSUME NEW t, TreeOK(t), NEW v \in DOMAIN t PROVE t[v].nth \in Nat
  BY DEF TreeOK, Node

LEMMA BeforeTransitive ==
  ASSUME NEW t, TreeOK(t), NEW u \in DOMAIN t, NEW v \in DOMAIN t, NEW w \in DOMAIN t,
         Before(t, u, v), Before(t, v, w)
  PROVE  Before(t, u, w)
<1>1. u \in Seq(STRING) /\ v \in Seq(STRING) /\ w \in Seq(STRING)
  BY DEF TreeOK
<1>2. Len(u) \in Nat /\ Len(v) \in Nat /\ Len(w) \in Nat
  BY <1>1, LenProperties
<1>3. ASSUME NEW i \in Nat \ {0}, Branch(t, u, w, i) PROVE Before(t, u, w)
  BY <1>1, <1>3, BeforeIs
<1>4. Beneath(u, w) => Before(t, u, w)
  BY <1>1, BeforeIs
<1>5. CASE Beneath(u, v) /\ Beneath(v, w)
  <2>1. Beneath(u, w)
    BY <1>2, <1>5 DEF Beneath, Agree
  <2> QED
    BY <1>4, <2>1
<1>6. ASSUME Beneath(u, v), NEW i \in Nat \ {0}, Branch(t, v, w, i) PROVE Before(t, u, w)
  <2>1. CASE i <= Len(u)
    <3>1. Agree(u, v, i) /\ Agree(u, w, i - 1)
      BY <1>2, <1>6, <2>1 DEF Beneath, Branch, Agree
    <3>2. SubSeq(u, 1, i) = SubSeq(v, 1, i)
      BY <1>1, <1>2, <1>6, <2>1, <3>1, PrefixEq DEF Branch
    <3>3. Branch(t, u, w, i)
      BY <1>6, <2>1, <3>1, <3>2 DEF Branch, Younger
    <3> QED
      BY <1>3, <3>3
  <2>2. CASE ~(i <= Len(u))
    <3>1. Beneath(u, w)
      BY <1>2, <1>6, <2>2 DEF Beneath, Branch, Agree
    <3> QED
      BY <1>4, <3>1
  <2> QED
    BY <2>1, <2>2
<1>7. ASSUME Beneath(v, w), NEW i \in Nat \ {0}, Branch(t, u, v, i) PROVE Before(t, u, w)
  <2>1. i <= Len(v) /\ Agree(v, w, i) /\ i <= Len(w) /\ Agree(u, w, i - 1)
    BY <1>2, <1>7 DEF Beneath, Branch, Agree
  <2>2. SubSeq(v, 1, i) = SubSeq(w, 1, i)
    BY <1>1, <1>2, <2>1, PrefixEq
  <2>3. Branch(t, u, w, i)
    BY <1>7, <2>1, <2>2 DEF Branch, Younger
  <2> QED
    BY <1>3, <2>3
<1>8. ASSUME NEW i \in Nat \ {0}, Branch(t, u, v, i), NEW j \in Nat \ {0}, Branch(t, v, w, j)
      PROVE  Before(t, u, w)
  <2>1. CASE i < j
    <3>1. i <= Len(w) /\ Agree(v, w, i) /\ Agree(u, w, i - 1)
      BY <1>2, <1>8, <2>1 DEF Branch, Agree
    <3>2. SubSeq(v, 1, i) = SubSeq(w, 1, i)
      BY <1>1, <1>2, <1>8, <3>1, PrefixEq DEF Branch
    <3>3. Branch(t, u, w, i)
      BY <1>8, <3>1, <3>2 DEF Branch, Younger
    <3> QED
      BY <1>3, <3>3
  <2>2. CASE j < i
    <3>1. j <= Len(u) /\ Agree(u, v, j) /\ Agree(u, w, j - 1)
      BY <1>2, <1>8, <2>2 DEF Branch, Agree
    <3>2. SubSeq(u, 1, j) = SubSeq(v, 1, j)
      BY <1>1, <1>2, <1>8, <3>1, PrefixEq DEF Branch
    <3>3. Branch(t, u, w, j)
      BY <1>8, <3>1, <3>2 DEF Branch, Younger
    <3> QED
      BY <1>3, <3>3
  <2>3. CASE i = j
    <3>1. i <= Len(u) /\ i <= Len(w) /\ Agree(u, w, i - 1)
      BY <1>2, <1>8, <2>3 DEF Branch, Agree
    <3>2. Younger(t, u, w, i)
      <4>1. t[SubSeq(u, 1, i)].nth < t[SubSeq(v, 1, i)].nth
            /\ t[SubSeq(v, 1, i)].nth < t[SubSeq(w, 1, i)].nth
        BY <1>8, <2>3 DEF Branch, Younger
      <4>2. i \in 0..Len(u) /\ i \in 0..Len(v) /\ i \in 0..Len(w)
        BY <1>2, <1>8, <2>3 DEF Branch
      <4>3. /\ t[SubSeq(u, 1, i)].nth \in Nat /\ t[SubSeq(v, 1, i)].nth \in Nat
            /\ t[SubSeq(w, 1, i)].nth \in Nat
        BY <4>2, PrefixClosed, Ages
      <4> QED
        BY <4>1, <4>3 DEF Younger
    <3>3. Branch(t, u, w, i)
      BY <3>1, <3>2 DEF Branch
    <3> QED
      BY <1>3, <3>3
  <2> QED
    BY <2>1, <2>2, <2>3
<1> QED
  BY <1>1, <1>5, <1>6, <1>7, <1>8, BeforeIs

LEMMA BeforeTotal ==
  ASSUME NEW t, TreeOK(t), NEW v \in DOMAIN t, NEW w \in DOMAIN t, v # w
  PROVE  Before(t, v, w) \/ Before(t, w, v)
<1>1. v \in Seq(STRING) /\ w \in Seq(STRING)
  BY DEF TreeOK
<1>2. Len(v) \in Nat /\ Len(w) \in Nat
  BY <1>1, LenProperties
<1>3. PICK n \in Nat : n <= Len(v) /\ n <= Len(w) /\ (n = Len(v) \/ n = Len(w))
  BY <1>2
<1>4. CASE Agree(v, w, n)
  <2>1. Agree(w, v, n)
    BY <1>4 DEF Agree
  <2>2. CASE Len(v) = Len(w)
    BY <1>1, <1>3, <1>4, <2>2, SeqEqual DEF Agree
  <2>3. CASE Len(v) # Len(w)
    <3>1. Beneath(v, w) \/ Beneath(w, v)
      BY <1>2, <1>3, <1>4, <2>1, <2>3 DEF Beneath
    <3> QED
      BY <1>1, <3>1, BeforeIs
  <2> QED
    BY <2>2, <2>3
<1>5. CASE ~Agree(v, w, n)
  <2> DEFINE S == {k \in 0..n : Agree(v, w, k)}
  <2>1. PICK i \in 1..n : Agree(v, w, i - 1) /\ ~Agree(v, w, i)
    <3>1. 0 \in S
      BY <1>3 DEF Agree
    <3>2. n \in 0..n /\ n \notin S
      BY <1>3, <1>5
    <3>3. ~(0..n \subseteq S)
      BY <3>2
    <3> HIDE DEF S
    <3>4. PICK i \in 1..n : i - 1 \in S /\ i \notin S
      BY <1>3, <3>1, <3>3, RangeInduction
    <3>5. i \in 0..n
      BY <1>3
    <3> QED
      BY <3>4, <3>5 DEF S
  <2> DEFINE a == SubSeq(v, 1, i)
             b == SubSeq(w, 1, i)
  <2>2. i \in 1..Len(v) /\ i \in 1..Len(w) /\ i \in 0..Len(v) /\ i \in 0..Len(w) /\ i <= Len(w)
        /\ i - 1 \in 0..Len(v) /\ i - 1 <= Len(w) /\ i <= Len(v) /\ i \in Nat \ {0}
    BY <1>2, <1>3
  <2>3. a \in DOMAIN t \ {<<>>} /\ b \in DOMAIN t \ {<<>>}
        /\ Front(a) = SubSeq(v, 1, i - 1) /\ Front(b) = SubSeq(w, 1, i - 1)
    BY <1>1, <2>2, PrefixClosed, FrontOf
  <2>4. a # b /\ Front(a) = Front(b)
    BY <1>1, <2>1, <2>2, <2>3, PrefixEq
  <2>5. t[a].nth # t[b].nth /\ t[a].nth \in Nat /\ t[b].nth \in Nat
    <3> HIDE DEF a, b
    <3> QED
      BY <2>3, <2>4, Ages DEF TreeOK
  <2>6. Younger(t, v, w, i) \/ Younger(t, w, v, i)
    BY <2>5 DEF Younger
  <2>7. Agree(w, v, i - 1)
    BY <2>1 DEF Agree
  <2>8. Branch(t, v, w, i) \/ Branch(t, w, v, i)
    BY <2>1, <2>2, <2>6, <2>7 DEF Branch
  <2> QED
    BY <1>1, <2>2, <2>8, BeforeIs
<1> QED
  BY <1>4, <1>5

First(t, S, v) == v \in S /\ \A w \in S \ {v} : Before(t, v, w)

LEMMA FirstExists ==
  ASSUME NEW t, TreeOK(t), NEW S \in SUBSET DOMAIN t, S # {}
  PROVE  \E v \in S : First(t, S, v)
<1> DEFINE Q(n) == \A T \in SUBSET DOMAIN t :
                     IsFiniteSet(T) /\ Cardinality(T) = n /\ T # {} => \E v \in T : First(t, T, v)
           N == {n \in Nat : Q(n)}
<1>1. Q(0)
  BY FS_EmptySet
<1>2. ASSUME NEW n \in Nat, Q(n) PROVE Q(n + 1)
  <2> SUFFICES ASSUME NEW T \in SUBSET DOMAIN t, IsFiniteSet(T), Cardinality(T) = n + 1
               PROVE  \E v \in T : First(t, T, v)
    OBVIOUS
  <2>1. PICK x \in T : TRUE
    BY FS_EmptySet
  <2> DEFINE U == T \ {x}
  <2>2. IsFiniteSet(U) /\ Cardinality(U) = n
    <3>1. IsFiniteSet(U) /\ Cardinality(U) = Cardinality(T) - 1
      BY <2>1, FS_RemoveElement, Zenon
    <3> QED
      BY <3>1
  <2>3. CASE U = {}
    BY <2>1, <2>3 DEF First
  <2>4. CASE U # {}
    <3>1. PICK m \in U : First(t, U, m)
      BY <1>2, <2>2, <2>4
    <3>2. m # x /\ m \in DOMAIN t /\ x \in DOMAIN t
      OBVIOUS
    <3>3. CASE Before(t, m, x)
      BY <3>1, <3>3 DEF First
    <3>4. CASE Before(t, x, m)
      <4>1. ASSUME NEW w \in T \ {x} PROVE Before(t, x, w)
        <5>1. CASE w = m
          BY <3>4, <5>1
        <5>2. CASE w # m
          <6>1. Before(t, m, w) /\ w \in DOMAIN t
            BY <3>1, <5>2 DEF First
          <6> QED
            BY <3>2, <3>4, <6>1, BeforeTransitive
        <5> QED
          BY <5>1, <5>2
      <4> QED
        BY <2>1, <4>1 DEF First
    <3> QED
      BY <3>2, <3>3, <3>4, BeforeTotal
  <2> QED
    BY <2>3, <2>4
<1> HIDE DEF Q
<1>3. Nat \subseteq N
  <2>1. 0 \in N /\ \A n \in Nat : n \in N => n + 1 \in N
    BY <1>1, <1>2
  <2> HIDE DEF N
  <2> QED
    BY <2>1, SetInduction
<1>4. IsFiniteSet(S) /\ Cardinality(S) \in Nat
  BY FS_Subset, FS_CardinalityType DEF TreeOK
<1>5. Q(Cardinality(S))
  BY <1>3, <1>4
<1> QED
  BY <1>4, <1>5 DEF Q

\* DirSecurityCheck() answers with a node that the directory belongs to, if there is one.
LEMMA DirSecurityCheckIsOwner ==
  ASSUME NEW t, TreeOK(t), NEW dir, Owners(t, dir) # {}
  PROVE  DirSecurityCheck(t, dir) \in Owners(t, dir)
<1>1. Owners(t, dir) \in SUBSET DOMAIN t
  BY DEF Owners
<1>2. \E v \in Owners(t, dir) : \A w \in Owners(t, dir) \ {v} : Before(t, v, w)
  BY <1>1, FirstExists DEF First
<1> QED
  BY <1>2, Zenon DEF DirSecurityCheck

-----------------------------------------------------------------------------
(***************************************************************************)
(* The kernel's view of the disk.                                          *)
(***************************************************************************)
Somewhere == Directory \cup {NoDir}

LEMMA StepType ==
  ASSUME NEW d \in Somewhere, NEW s
  PROVE  Step(d, s) \in Somewhere
<1>1. CASE d = NoDir
  BY <1>1 DEF Step, Somewhere
<1> DEFINE e == Append(d, s)
<1>2. CASE d # NoDir
  <2>1. d \in Directory
    BY <1>2 DEF Somewhere
  <2>2. CASE s = "."
    BY <1>2, <2>1, <2>2 DEF Step, Somewhere
  <2>3. CASE s = ".."
    <3>1. Step(d, s) = IF d = <<>> THEN d ELSE Front(d)
      BY <1>2, <2>3 DEF Step
    <3>2. d # <<>> => Front(d) \in Directory
      BY <2>1, DiskAssumption
    <3> HIDE DEF e
    <3> QED
      BY <2>1, <3>1, <3>2 DEF Somewhere
  <2>4. CASE s # "." /\ s # ".."
    <3>1. Step(d, s) = IF e \in DOMAIN Link THEN Link[e] ELSE IF e \in Directory THEN e ELSE NoDir
      BY <1>2, <2>4 DEF Step
    <3> HIDE DEF e
    <3> QED
      BY <3>1, DiskAssumption DEF Somewhere
  <2> QED
    BY <2>2, <2>3, <2>4
<1> QED
  BY <1>1, <1>2

Resolves(go, d, names) ==
  go = [i \in 0..Len(names) |-> IF i = 0 THEN d ELSE Step(go[i - 1], names[i])]

\* The kernel follows one name after another.
Stepwise(c, d, names) ==
  /\ Resolve(d, names) = c[Len(names)] /\ c[0] = d
  /\ \A i \in 1..Len(names) : c[i] = Step(c[i - 1], names[i])

LEMMA ResolveIs ==
  ASSUME NEW d \in Somewhere, NEW B, NEW names \in Seq(B)
  PROVE  \E c : Stepwise(c, d, names)
<1> DEFINE n == Len(names)
           step == [x \in Somewhere \X (1..n) |-> Step(x[1], names[x[2]])]
           c == CHOOSE go : Resolves(go, d, names)
<1>1. n \in Nat
  BY LenProperties
<1>2. step \in [Somewhere \X (1..n) -> Somewhere]
  BY StepType
<1>3. PICK f \in [0..n -> Somewhere] : Recursion(f, d, n, step)
  <2>1. n \in Nat /\ d \in Somewhere /\ step \in [Somewhere \X (1..n) -> Somewhere]
    BY <1>1, <1>2
  <2> HIDE DEF step, n
  <2> QED
    BY <2>1, RecursionExists
<1>4. ASSUME NEW i \in 0..n PROVE f[i] = IF i = 0 THEN d ELSE Step(f[i - 1], names[i])
  <2>1. f[i] = IF i = 0 THEN d ELSE step[<<f[i - 1], i>>]
    BY <1>3, Zenon DEF Recursion
  <2>2. i # 0 => i \in 1..n /\ i - 1 \in 0..n
    BY <1>1
  <2>3. i # 0 => step[<<f[i - 1], i>>] = Step(f[i - 1], names[i])
    BY <2>2
  <2> QED
    BY <2>1, <2>3
<1>5. f = [i \in 0..n |-> f[i]]
  OBVIOUS
<1>6. Resolves(f, d, names)
  BY <1>4, <1>5, Zenon DEF Resolves
<1>7. Resolves(c, d, names) /\ Resolve(d, names) = c[n]
  BY <1>6, Zenon DEF Resolve, Resolves
<1> HIDE DEF c
<1>8. \A i \in 0..n : c[i] = IF i = 0 THEN d ELSE Step(c[i - 1], names[i])
  BY <1>7, Zenon DEF Resolves
<1>9. 0 \in 0..n /\ \A i \in 1..n : i \in 0..n /\ i # 0
  BY <1>1
<1>10. c[0] = d /\ \A i \in 1..n : c[i] = Step(c[i - 1], names[i])
  BY <1>8, <1>9, Zenon
<1> QED
  BY <1>7, <1>10 DEF Stepwise

LEMMA ResolveType ==
  ASSUME NEW d \in Somewhere, NEW B, NEW names \in Seq(B)
  PROVE  Resolve(d, names) \in Somewhere /\ (names = <<>> => Resolve(d, names) = d)
<1> DEFINE n == Len(names)
<1>1. PICK c : Stepwise(c, d, names)
  BY ResolveIs
<1>2. n \in Nat /\ (names = <<>> => n = 0)
  BY LenProperties
<1> DEFINE S == {i \in 0..n : c[i] \in Somewhere}
<1>3. 0 \in S
  BY <1>1, <1>2 DEF Stepwise
<1>4. ASSUME NEW i \in 1..n, i - 1 \in S PROVE i \in S
  <2>1. i \in 0..n
    BY <1>2
  <2> QED
    BY <1>1, <1>4, <2>1, StepType DEF Stepwise
<1>5. 0..n \subseteq S
  <2> HIDE DEF S, n
  <2> QED
    BY <1>2, <1>3, <1>4, RangeInduction
<1>6. n \in 0..n
  BY <1>2
<1> QED
  BY <1>1, <1>2, <1>5, <1>6 DEF Stepwise

LEMMA DiskPaths ==
  Directory \subseteq Seq(STRING) /\ NoDir \in Seq(STRING) /\ <<>> \in Directory /\ Empty \in STRING
<1>1. Empty \in STRING
  <2>1. NoDir \in Seq(STRING) /\ 1 \in 1..Len(NoDir) /\ NoDir[1] = Empty
    BY DiskAssumption DEF NoDir
  <2> QED
    BY <2>1, ElementOfSeq
<1> QED
  BY <1>1, DiskAssumption

LEMMA PrefixesOnDisk ==
  ASSUME NEW d \in Directory, NEW i \in 0..Len(d)
  PROVE  SubSeq(d, 1, i) \in Directory
<1>1. Directory \in SUBSET Seq(STRING) /\ \A e \in Directory : e # <<>> => Front(e) \in Directory
  BY DiskPaths, DiskAssumption
<1> QED
  BY <1>1, PrefixesIn

LEMMA CheckDirType ==
  ASSUME NEW path \in Seq(STRING), NEW cwd \in Directory
  PROVE  /\ CheckDir(path, cwd) \in [ok : BOOLEAN, path : Seq(STRING), cwd : Directory]
<1> DEFINE d == Resolve(<<>>, path)
<1>1. d \in Somewhere
  BY ResolveType, DiskPaths DEF Somewhere
<1> HIDE DEF d
<1>2. CheckDir(path, cwd) = IF Relative(path) THEN [ok |-> TRUE, path |-> path, cwd |-> cwd]
                            ELSE IF d = NoDir THEN [ok |-> FALSE, path |-> path, cwd |-> cwd]
                            ELSE IF d \in Closed THEN [ok |-> TRUE, path |-> path, cwd |-> cwd]
                            ELSE [ok |-> TRUE, path |-> d, cwd |-> d]
  BY DEF CheckDir, d
<1>3. CASE Relative(path) \/ d = NoDir
  BY <1>2, <1>3
<1>4. CASE ~Relative(path) /\ d # NoDir /\ d \in Closed
  BY <1>2, <1>4
<1>5. CASE ~Relative(path) /\ d # NoDir /\ d \notin Closed
  <2>1. d \in Directory /\ d \in Seq(STRING)
    BY <1>1, <1>5, DiskPaths DEF Somewhere
  <2> QED
    BY <1>2, <1>5, <2>1
<1> QED
  BY <1>3, <1>4, <1>5

-----------------------------------------------------------------------------
(***************************************************************************)
(* The tree that is loaded from vfs.cfg.                                   *)
(***************************************************************************)
Trees == UNION {[D -> Node] : D \in SUBSET Seq(STRING)}
Loaded == [ok : BOOLEAN, cwd : Directory, tree : Trees]

LEMMA TreesDef == ASSUME NEW t PROVE t \in Trees <=> t \in [DOMAIN t -> Node] /\ DOMAIN t \subseteq Seq(STRING)
<1>1. ASSUME t \in Trees PROVE t \in [DOMAIN t -> Node] /\ DOMAIN t \subseteq Seq(STRING)
  BY <1>1 DEF Trees
<1>2. ASSUME t \in [DOMAIN t -> Node], DOMAIN t \subseteq Seq(STRING) PROVE t \in Trees
  BY <1>2 DEF Trees
<1> QED
  BY <1>1, <1>2

Above(line) == {SubSeq(line.virt, 1, i) : i \in 1..Len(line.virt)}

NewNode(line, phys, n, v) ==
  [phys |-> IF v = line.virt THEN phys ELSE NoDir,
   user |-> line.user, urights |-> line.urights, orights |-> line.orights, nth |-> n]

\* What AddDirectory() does to the tree.
Adds(u, t, line, phys, n) ==
  /\ u \in Trees
  /\ DOMAIN u = IF line.virt \in DOMAIN t THEN DOMAIN t ELSE DOMAIN t \cup Above(line)
  /\ \A v \in DOMAIN t : u[v] = IF v = line.virt THEN [t[v] EXCEPT !.phys = phys] ELSE t[v]
  /\ line.virt \notin DOMAIN t =>
       \A v \in Above(line) \ DOMAIN t : u[v] = NewNode(line, phys, n, v)

LEMMA AddDirectoryIs ==
  ASSUME NEW t \in Trees, NEW line \in ConfigLine, NEW phys \in Seq(STRING), NEW n \in Nat
  PROVE  Adds(AddDirectory(t, line, phys, n), t, line, phys, n)
<1> DEFINE u == AddDirectory(t, line, phys, n)
<1>1. t \in [DOMAIN t -> Node] /\ DOMAIN t \subseteq Seq(STRING)
  BY TreesDef
<1>2. u = IF line.virt \in DOMAIN t THEN [t EXCEPT ![line.virt].phys = phys]
          ELSE [v \in DOMAIN t \cup Above(line) |->
                  IF v \in DOMAIN t THEN t[v] ELSE NewNode(line, phys, n, v)]
  BY DEF AddDirectory, Above, NewNode
<1>3. line.virt \in Seq(STRING) /\ Above(line) \subseteq Seq(STRING)
  <2>1. line.virt \in Seq(STRING) /\ Len(line.virt) \in Nat
    BY LenProperties DEF ConfigLine
  <2>2. ASSUME NEW i \in 1..Len(line.virt) PROVE SubSeq(line.virt, 1, i) \in Seq(STRING)
    <3>1. i \in 0..Len(line.virt)
      BY <2>1
    <3> QED
      BY <2>1, <3>1, PrefixOf
  <2> QED
    BY <2>1, <2>2 DEF Above
<1>4. \A v : NewNode(line, phys, n, v) \in Node
  BY DiskPaths DEF NewNode, Node, ConfigLine
<1> HIDE DEF u
<1>5. CASE line.virt \in DOMAIN t
  <2>1. u = [t EXCEPT ![line.virt].phys = phys] /\ t[line.virt] \in Node
    BY <1>1, <1>2, <1>5
  <2>2. DOMAIN u = DOMAIN t
    BY <1>1, <2>1
  <2>3. \A v \in DOMAIN t : u[v] = IF v = line.virt THEN [t[v] EXCEPT !.phys = phys] ELSE t[v]
    BY <1>1, <2>1
  <2>4. [t[line.virt] EXCEPT !.phys = phys] \in Node
    BY <2>1 DEF Node
  <2>5. u \in [DOMAIN t -> Node]
    BY <1>1, <2>1, <2>4
  <2> QED
    BY <1>1, <1>5, <2>2, <2>3, <2>5, TreesDef DEF u, Adds
<1>6. CASE line.virt \notin DOMAIN t
  <2>1. u = [v \in DOMAIN t \cup Above(line) |->
               IF v \in DOMAIN t THEN t[v] ELSE NewNode(line, phys, n, v)]
    BY <1>2, <1>6
  <2>2. DOMAIN u = DOMAIN t \cup Above(line)
    BY <2>1
  <2>3. /\ \A v \in DOMAIN t : u[v] = t[v]
        /\ \A v \in Above(line) \ DOMAIN t : u[v] = NewNode(line, phys, n, v)
    BY <2>1
  <2>4. u = [v \in DOMAIN u |-> u[v]] /\ \A v \in DOMAIN u : u[v] \in Node
    BY <1>1, <1>4, <2>1, <2>2, <2>3
  <2>5. u \in [DOMAIN u -> Node]
    BY <2>4
  <2>6. u \in Trees
    BY <1>1, <1>3, <2>2, <2>5, TreesDef
  <2> QED
    BY <1>6, <2>2, <2>3, <2>6 DEF u, Adds
<1> QED
  BY <1>5, <1>6

AllYounger(t, n) == \A v \in DOMAIN t : t[v].nth <= n

LEMMA AboveIs ==
  ASSUME NEW line \in ConfigLine
  PROVE  /\ Above(line) \subseteq Seq(STRING) \ {<<>>} /\ IsFiniteSet(Above(line))
         /\ \A v \in Above(line) : Front(v) \in Above(line) \cup {<<>>}
         /\ \A v, w \in Above(line) : Front(v) = Front(w) => v = w
         /\ line.virt # <<>> => line.virt \in Above(line)
<1> DEFINE x == line.virt
<1>1. x \in Seq(STRING) /\ Len(x) \in Nat
  BY LenProperties DEF ConfigLine
<1> HIDE DEF x
<1>2. ASSUME NEW i \in 1..Len(x)
      PROVE  /\ SubSeq(x, 1, i) \in Seq(STRING) /\ SubSeq(x, 1, i) # <<>>
             /\ Front(SubSeq(x, 1, i)) = SubSeq(x, 1, i - 1)
             /\ SubSeq(x, 1, i - 1) \in Seq(STRING) /\ Len(SubSeq(x, 1, i - 1)) = i - 1
  <2>1. i \in 0..Len(x) /\ i - 1 \in 0..Len(x)
    BY <1>1
  <2> QED
    BY <1>1, <2>1, PrefixOf, FrontOf
<1>3. Above(line) = {SubSeq(x, 1, i) : i \in 1..Len(x)}
  BY DEF Above, x
<1>4. Above(line) \subseteq Seq(STRING) \ {<<>>}
  BY <1>2, <1>3
<1>5. IsFiniteSet(Above(line))
  <2> DEFINE f == [i \in 1..Len(x) |-> SubSeq(x, 1, i)]
  <2>1. f \in Surjection(1..Len(x), Above(line))
    BY <1>3 DEF Surjection
  <2>2. IsFiniteSet(1..Len(x))
    BY <1>1, FS_Interval
  <2> HIDE DEF f
  <2> QED
    BY <2>1, <2>2, FS_Surjection
<1>6. ASSUME NEW v \in Above(line) PROVE Front(v) \in Above(line) \cup {<<>>}
  <2>1. PICK i \in 1..Len(x) : v = SubSeq(x, 1, i)
    BY <1>3
  <2>2. CASE i = 1
    <3>1. Len(SubSeq(x, 1, i - 1)) = 0
      BY <1>2, <2>2
    <3> QED
      BY <1>2, <2>1, <3>1, EmptySeq
  <2>3. CASE i # 1
    <3>1. i - 1 \in 1..Len(x)
      BY <1>1, <2>3
    <3> QED
      BY <1>2, <1>3, <2>1, <3>1
  <2> QED
    BY <2>2, <2>3
<1>7. ASSUME NEW v \in Above(line), NEW w \in Above(line), Front(v) = Front(w) PROVE v = w
  <2>1. PICK i \in 1..Len(x) : v = SubSeq(x, 1, i)
    BY <1>3
  <2>2. PICK j \in 1..Len(x) : w = SubSeq(x, 1, j)
    BY <1>3
  <2>3. Len(Front(v)) = i - 1 /\ Len(Front(w)) = j - 1
    BY <1>2, <2>1, <2>2
  <2>4. i = j
    BY <1>7, <2>3
  <2> QED
    BY <2>1, <2>2, <2>4
<1>8. ASSUME x # <<>> PROVE x \in Above(line)
  <2>1. Len(x) \in 1..Len(x)
    BY <1>1, <1>8, EmptySeq
  <2> QED
    BY <1>1, <1>3, <2>1, WholePrefix
<1> QED
  BY <1>4, <1>5, <1>6, <1>7, <1>8 DEF x

LEMMA AddDirectoryKeepsTree ==
  ASSUME NEW t, TreeOK(t), <<>> \in DOMAIN t, NEW n \in Nat, AllYounger(t, n),
         NEW line \in ConfigLine, line.virt # <<>>, NEW phys \in Seq(STRING)
  PROVE  LET u == AddDirectory(t, line, phys, n + 1)
         IN  u \in Trees /\ TreeOK(u) /\ <<>> \in DOMAIN u /\ AllYounger(u, n + 1)
<1> DEFINE u == AddDirectory(t, line, phys, n + 1)
<1>1. t \in Trees /\ n + 1 \in Nat
  BY TreesDef DEF TreeOK
<1>2. /\ u \in Trees
      /\ DOMAIN u = IF line.virt \in DOMAIN t THEN DOMAIN t ELSE DOMAIN t \cup Above(line)
      /\ \A v \in DOMAIN t : u[v] = IF v = line.virt THEN [t[v] EXCEPT !.phys = phys] ELSE t[v]
      /\ line.virt \notin DOMAIN t =>
           \A v \in Above(line) \ DOMAIN t : u[v] = NewNode(line, phys, n + 1, v)
  <2> DEFINE m == n + 1
  <2>1. m \in Nat
    BY <1>1
  <2> HIDE DEF m
  <2>2. Adds(AddDirectory(t, line, phys, m), t, line, phys, m)
    BY <1>1, <2>1, AddDirectoryIs
  <2>3. Adds(u, t, line, phys, n + 1)
    BY <2>2 DEF m
  <2> HIDE DEF u
  <2> QED
    BY <2>3 DEF Adds
<1> HIDE DEF u
<1>3. u \in [DOMAIN u -> Node] /\ DOMAIN u \subseteq Seq(STRING)
  BY <1>2, TreesDef
<1>4. \A v \in DOMAIN t : u[v].nth = t[v].nth /\ t[v].nth \in Nat /\ t[v].nth <= n
  <2>1. ASSUME NEW v \in DOMAIN t PROVE t[v] \in Node
    BY DEF TreeOK
  <2> QED
    BY <1>2, <2>1 DEF AllYounger, Node
<1>5. CASE line.virt \in DOMAIN t
  <2>1. DOMAIN u = DOMAIN t
    BY <1>2, <1>5
  <2>2. TreeOK(u)
    BY <1>3, <1>4, <2>1 DEF TreeOK
  <2> QED
    BY <1>2, <1>4, <2>1, <2>2 DEF AllYounger, u
<1>6. CASE line.virt \notin DOMAIN t
  <2>1. DOMAIN u = DOMAIN t \cup Above(line)
    BY <1>2, <1>6
  <2>2. \A v \in Above(line) \ DOMAIN t : u[v].nth = n + 1
    BY <1>2, <1>6 DEF NewNode
  <2>3. IsFiniteSet(DOMAIN u)
    <3>1. IsFiniteSet(DOMAIN t) /\ IsFiniteSet(Above(line))
      BY AboveIs DEF TreeOK
    <3>2. IsFiniteSet(DOMAIN t \cup Above(line))
      BY <3>1, FS_Union, Zenon
    <3> QED
      BY <2>1, <3>2
  <2>4. ASSUME NEW v \in DOMAIN u, v # <<>> PROVE Front(v) \in DOMAIN u
    BY <2>1, <2>4, AboveIs DEF TreeOK
  <2>5. ASSUME NEW v \in DOMAIN u \ {<<>>}, NEW w \in DOMAIN u \ {<<>>},
               Front(v) = Front(w), u[v].nth = u[w].nth
        PROVE  v = w
    <3>1. CASE v \in DOMAIN t /\ w \in DOMAIN t
      BY <1>4, <2>5, <3>1 DEF TreeOK
    <3>2. CASE v \in DOMAIN t /\ w \notin DOMAIN t
      BY <1>4, <2>1, <2>2, <2>5, <3>2
    <3>3. CASE v \notin DOMAIN t /\ w \in DOMAIN t
      BY <1>4, <2>1, <2>2, <2>5, <3>3
    <3>4. CASE v \notin DOMAIN t /\ w \notin DOMAIN t
      BY <2>1, <2>5, <3>4, AboveIs
    <3> QED
      BY <3>1, <3>2, <3>3, <3>4
  <2>6. TreeOK(u)
    BY <1>3, <2>1, <2>3, <2>4, <2>5 DEF TreeOK
  <2>7. AllYounger(u, n + 1)
    BY <1>4, <2>1, <2>2 DEF AllYounger
  <2> QED
    BY <1>2, <2>1, <2>6, <2>7 DEF u
<1> QED
  BY <1>5, <1>6

-----------------------------------------------------------------------------
\* The directory that a line names, and what is wrong with the line.
LineDir(line) ==
  IF line.phys = <<>> THEN NoDir
  ELSE IF Relative(line.phys) \/ Resolve(<<>>, line.phys) \in Closed THEN line.phys
  ELSE Resolve(<<>>, line.phys)

Nowhere(line) == line.phys # <<>> /\ ~Relative(line.phys) /\ Resolve(<<>>, line.phys) = NoDir

Rejected(t, line) ==
  \/ line.virt = <<>>
  \/ Nowhere(line)
  \/ line.virt \in DOMAIN t /\ t[line.virt].phys # NoDir

\* One line of vfs.cfg: the loading has stopped, or stops here, or makes nodes.
Reads(s, r, line, n) ==
  \/ ~r.ok /\ s = r
  \/ /\ r.ok /\ Rejected(r.tree, line)
     /\ \E cwd \in Directory : s = [r EXCEPT !.ok = FALSE, !.cwd = cwd]
  \/ /\ r.ok /\ ~Rejected(r.tree, line)
     /\ \E cwd \in Directory :
          s = [ok |-> TRUE, cwd |-> cwd, tree |-> AddDirectory(r.tree, line, LineDir(line), n)]

LEMMA LineDirType ==
  ASSUME NEW line \in ConfigLine
  PROVE  /\ LineDir(line) \in Seq(STRING)
         /\ Nowhere(line) => LineDir(line) = NoDir
<1>1. line.phys \in Seq(STRING)
  BY DEF ConfigLine
<1>2. Resolve(<<>>, line.phys) \in Somewhere
  BY <1>1, DiskPaths, ResolveType DEF Somewhere
<1>3. Resolve(<<>>, line.phys) \in Seq(STRING)
  BY <1>2, DiskPaths DEF Somewhere
<1>4. NoDir \notin Closed
  BY DiskAssumption
<1> QED
  BY <1>1, <1>3, <1>4, DiskPaths DEF LineDir, Nowhere

LEMMA ReadLineReads ==
  ASSUME NEW r \in Loaded, NEW line \in ConfigLine, NEW n
  PROVE  Reads(ReadLine(r, line, n), r, line, n)
<1> DEFINE d == Resolve(<<>>, line.phys)
           dir == IF line.phys = <<>> THEN [ok |-> TRUE, path |-> NoDir, cwd |-> r.cwd]
                  ELSE CheckDir(line.phys, r.cwd)
           bad == \/ ~dir.ok \/ line.virt = <<>>
                  \/ line.virt \in DOMAIN r.tree /\ r.tree[line.virt].phys # NoDir
           s == ReadLine(r, line, n)
<1>1. line.phys \in Seq(STRING) /\ r.cwd \in Directory
  BY DEF ConfigLine, Loaded
<1>2. CheckDir(line.phys, r.cwd) =
        IF Relative(line.phys) THEN [ok |-> TRUE, path |-> line.phys, cwd |-> r.cwd]
        ELSE IF d = NoDir THEN [ok |-> FALSE, path |-> line.phys, cwd |-> r.cwd]
        ELSE IF d \in Closed THEN [ok |-> TRUE, path |-> line.phys, cwd |-> r.cwd]
        ELSE [ok |-> TRUE, path |-> d, cwd |-> d]
  BY DEF CheckDir
<1>3. CheckDir(line.phys, r.cwd) \in [ok : BOOLEAN, path : Seq(STRING), cwd : Directory]
  BY <1>1, CheckDirType
<1>4. LineDir(line) = IF line.phys = <<>> THEN NoDir
                      ELSE IF Relative(line.phys) \/ d \in Closed THEN line.phys ELSE d
  BY DEF LineDir
<1> HIDE DEF d
<1>5. dir.cwd \in Directory
  BY <1>1, <1>3
<1>6. dir.ok => dir.path = LineDir(line)
  BY <1>2, <1>4
<1>7. dir.ok <=> ~Nowhere(line)
  BY <1>2 DEF Nowhere, d
<1>8. bad <=> Rejected(r.tree, line)
  <2> HIDE DEF dir
  <2> QED
    BY <1>7 DEF Rejected
<1>9. s = IF ~r.ok THEN r
          ELSE IF bad THEN [r EXCEPT !.ok = FALSE, !.cwd = dir.cwd]
          ELSE [ok |-> TRUE, cwd |-> dir.cwd, tree |-> AddDirectory(r.tree, line, dir.path, n)]
  BY DEF ReadLine
<1>10. ~bad => dir.ok
  OBVIOUS
<1> HIDE DEF s, bad, dir
<1>11. CASE ~r.ok
  BY <1>9, <1>11 DEF Reads, s
<1>12. CASE r.ok /\ bad
  <2>1. s = [r EXCEPT !.ok = FALSE, !.cwd = dir.cwd]
    BY <1>9, <1>12
  <2> QED
    BY <1>5, <1>8, <1>12, <2>1 DEF Reads, s
<1>13. CASE r.ok /\ ~bad
  <2>1. s = [ok |-> TRUE, cwd |-> dir.cwd, tree |-> AddDirectory(r.tree, line, LineDir(line), n)]
    BY <1>6, <1>9, <1>10, <1>13
  <2> QED
    BY <1>5, <1>8, <1>13, <2>1 DEF Reads, s
<1> QED
  BY <1>11, <1>12, <1>13

LEMMA ReadLineType ==
  ASSUME NEW r \in Loaded, NEW line \in ConfigLine, NEW n \in Nat
  PROVE  ReadLine(r, line, n) \in Loaded
<1> DEFINE s == ReadLine(r, line, n)
<1>1. Reads(s, r, line, n)
  BY ReadLineReads
<1> HIDE DEF s
<1>2. ASSUME NEW cwd \in Directory
      PROVE  [ok |-> TRUE, cwd |-> cwd, tree |-> AddDirectory(r.tree, line, LineDir(line), n)]
               \in Loaded
  <2>1. r.tree \in Trees /\ LineDir(line) \in Seq(STRING)
    BY LineDirType DEF Loaded
  <2>2. AddDirectory(r.tree, line, LineDir(line), n) \in Trees
    BY <2>1, AddDirectoryIs DEF Adds
  <2> QED
    BY <2>2 DEF Loaded
<1>3. ASSUME NEW cwd \in Directory PROVE [r EXCEPT !.ok = FALSE, !.cwd = cwd] \in Loaded
  BY DEF Loaded
<1>4. s \in Loaded
  BY <1>1, <1>2, <1>3 DEF Reads
<1> QED
  BY <1>4 DEF s

\* The state of the loading after each line.
NoneLoaded(conf, cwd, j) ==
  LET root == CheckDir(conf.root, cwd)
  IN  [ok |-> root.ok, cwd |-> root.cwd, tree |-> IF root.ok THEN Root(root.path, j) ELSE <<>>]

Loads(c, conf, cwd, j) ==
  /\ c[0] = NoneLoaded(conf, cwd, j)
  /\ \A i \in 1..Len(conf.lines) : c[i] = ReadLine(c[i - 1], conf.lines[i], i)

LEMMA NoneLoadedType ==
  ASSUME NEW conf \in Configuration, NEW cwd \in Directory, NEW j \in SUBSET Right
  PROVE  /\ NoneLoaded(conf, cwd, j) \in Loaded /\ TreeOK(NoneLoaded(conf, cwd, j).tree)
         /\ AllYounger(NoneLoaded(conf, cwd, j).tree, 0)
         /\ NoneLoaded(conf, cwd, j).ok => <<>> \in DOMAIN NoneLoaded(conf, cwd, j).tree
<1> DEFINE root == CheckDir(conf.root, cwd)
           t == IF root.ok THEN Root(root.path, j) ELSE <<>>
<1>1. root \in [ok : BOOLEAN, path : Seq(STRING), cwd : Directory]
  BY CheckDirType DEF Configuration
<1>2. NoneLoaded(conf, cwd, j) = [ok |-> root.ok, cwd |-> root.cwd, tree |-> t]
  BY DEF NoneLoaded
<1> HIDE DEF root
<1>3. CASE root.ok
  <2> DEFINE x == [phys |-> root.path, user |-> Empty, urights |-> {}, orights |-> j, nth |-> 0]
  <2>1. x \in Node /\ x.nth = 0
    BY <1>1, DiskPaths DEF Node
  <2>2. t = [v \in {<<>>} |-> x]
    BY <1>3 DEF Root
  <2> HIDE DEF x, t
  <2>3. DOMAIN t = {<<>>} /\ t[<<>>] = x /\ t \in [{<<>>} -> Node] /\ <<>> \in Seq(STRING)
    BY <2>1, <2>2
  <2>4. IsFiniteSet({<<>>})
    BY FS_Singleton, Zenon
  <2>5. TreeOK(t)
    <3>1. t \in [DOMAIN t -> Node] /\ IsFiniteSet(DOMAIN t)
      BY <2>3, <2>4, Zenon
    <3>2. \A v \in DOMAIN t : v = <<>>
      BY <2>3, Zenon
    <3> QED
      BY <2>3, <3>1, <3>2, Zenon DEF TreeOK
  <2>6. t \in Trees /\ <<>> \in DOMAIN t
    <3>1. t \in [DOMAIN t -> Node] /\ DOMAIN t \subseteq Seq(STRING)
      BY <2>3, Zenon
    <3> QED
      BY <2>3, <3>1, TreesDef, Zenon
  <2>7. AllYounger(t, 0)
    <3>1. \A v \in DOMAIN t : t[v] = x
      BY <2>3, Zenon
    <3> QED
      BY <2>1, <3>1 DEF AllYounger
  <2> QED
    BY <1>1, <1>2, <2>5, <2>6, <2>7 DEF Loaded
<1>4. CASE ~root.ok
  <2>1. t = <<>> /\ DOMAIN t = {} /\ t \in [{} -> Node]
    BY <1>4
  <2> HIDE DEF t
  <2>2. IsFiniteSet({})
    BY FS_EmptySet, Zenon
  <2>3. TreeOK(t) /\ t \in Trees /\ AllYounger(t, 0)
    BY <2>1, <2>2, TreesDef DEF TreeOK, AllYounger
  <2> QED
    BY <1>1, <1>2, <1>4, <2>3 DEF Loaded
<1> QED
  BY <1>3, <1>4

LEMMA LoadIs ==
  ASSUME NEW conf \in Configuration, NEW cwd \in Directory, NEW j \in SUBSET Right
  PROVE  \E c : Loads(c, conf, cwd, j) /\ LoadConfigFile(conf, cwd, j) = c[Len(conf.lines)]
<1> DEFINE n == Len(conf.lines)
           b == NoneLoaded(conf, cwd, j)
           step == [x \in Loaded \X (1..n) |-> ReadLine(x[1], conf.lines[x[2]], x[2])]
           Loading(c) == c = [i \in 0..n |-> IF i > 0 THEN ReadLine(c[i - 1], conf.lines[i], i) ELSE b]
           c == CHOOSE c : Loading(c)
<1>1. n \in Nat /\ \A i \in 1..n : i \in Nat /\ conf.lines[i] \in ConfigLine
  <2>1. conf.lines \in Seq(ConfigLine)
    BY DEF Configuration
  <2>2. n \in Nat
    BY <2>1, LenProperties
  <2> QED
    BY <2>1, <2>2, ElementOfSeq
<1>2. b \in Loaded
  BY NoneLoadedType
<1>3. step \in [Loaded \X (1..n) -> Loaded]
  BY <1>1, ReadLineType
<1>4. PICK f \in [0..n -> Loaded] : Recursion(f, b, n, step)
  <2>1. n \in Nat /\ b \in Loaded /\ step \in [Loaded \X (1..n) -> Loaded]
    BY <1>1, <1>2, <1>3
  <2> HIDE DEF step, n, b
  <2> QED
    BY <2>1, RecursionExists
<1>5. ASSUME NEW i \in 0..n
      PROVE  f[i] = IF i > 0 THEN ReadLine(f[i - 1], conf.lines[i], i) ELSE b
  <2>1. f[i] = IF i = 0 THEN b ELSE step[<<f[i - 1], i>>]
    BY <1>4, Zenon DEF Recursion
  <2>2. i # 0 => i \in 1..n /\ i - 1 \in 0..n
    BY <1>1
  <2>3. i # 0 => step[<<f[i - 1], i>>] = ReadLine(f[i - 1], conf.lines[i], i)
    BY <2>2
  <2>4. i > 0 <=> i # 0
    BY <1>1
  <2> HIDE DEF step, b
  <2> QED
    BY <2>1, <2>3, <2>4
<1>6. f = [i \in 0..n |-> f[i]]
  OBVIOUS
<1>7. Loading(f)
  BY <1>5, <1>6, Zenon
<1>8. LoadConfigFile(conf, cwd, j) = c[n]
  BY Zenon DEF LoadConfigFile, NoneLoaded
<1>9. Loading(c)
  BY <1>7, Zenon
<1> HIDE DEF c
<1>10. \A i \in 0..n : c[i] = IF i > 0 THEN ReadLine(c[i - 1], conf.lines[i], i) ELSE b
  BY <1>9, Zenon
<1>11. Loads(c, conf, cwd, j)
  <2>1. 0 \in 0..n /\ ~(0 > 0) /\ \A i \in 1..n : i \in 0..n /\ i > 0
    BY <1>1
  <2> QED
    BY <1>10, <2>1, Zenon DEF Loads
<1> QED
  BY <1>8, <1>11

\* What holds after n lines.
GoodLoad(r, n) ==
  /\ r \in Loaded /\ TreeOK(r.tree) /\ AllYounger(r.tree, n)
  /\ r.ok => <<>> \in DOMAIN r.tree

LEMMA LoadsGood ==
  ASSUME NEW conf \in Configuration, NEW cwd \in Directory, NEW j \in SUBSET Right,
         NEW c, Loads(c, conf, cwd, j)
  PROVE  \A i \in 0..Len(conf.lines) : GoodLoad(c[i], i)
<1> DEFINE n == Len(conf.lines)
           Good(i) == GoodLoad(c[i], i)
           S == {i \in 0..n : Good(i)}
<1>2. n \in Nat /\ \A i \in 1..n : conf.lines[i] \in ConfigLine
  <2>1. conf.lines \in Seq(ConfigLine)
    BY DEF Configuration
  <2> QED
    BY <2>1, LenProperties, ElementOfSeq
<1>3. 0 \in S
  <2>1. c[0] = NoneLoaded(conf, cwd, j)
    BY DEF Loads
  <2> QED
    BY <1>2, <2>1, NoneLoadedType DEF GoodLoad
<1>4. ASSUME NEW i \in 1..n, i - 1 \in S PROVE i \in S
  <2> DEFINE k == i - 1
             r == c[k]
             s == c[i]
             line == conf.lines[i]
  <2>1. k \in Nat /\ i = k + 1 /\ line \in ConfigLine /\ Good(k) /\ i \in 0..n /\ i \in Nat
    BY <1>2, <1>4
  <2>2. s = ReadLine(r, line, i)
    BY DEF Loads
  <2> HIDE DEF r, s, line, k
  <2>3. /\ r \in Loaded /\ TreeOK(r.tree) /\ AllYounger(r.tree, k)
        /\ r.ok => <<>> \in DOMAIN r.tree
    BY <2>1 DEF r, GoodLoad
  <2>4. s \in Loaded /\ Reads(s, r, line, i)
    BY <2>1, <2>2, <2>3, ReadLineType, ReadLineReads
  <2>5. AllYounger(r.tree, i)
    BY <2>1, <2>3, Ages DEF AllYounger
  <2>6. CASE s = r
    BY <2>1, <2>3, <2>4, <2>5, <2>6 DEF s, GoodLoad
  <2>7. ASSUME NEW wd \in Directory, s = [r EXCEPT !.ok = FALSE, !.cwd = wd] PROVE i \in S
    <3>1. s.tree = r.tree /\ ~s.ok
      BY <2>3, <2>7 DEF Loaded
    <3> QED
      BY <2>1, <2>3, <2>4, <2>5, <3>1 DEF s, GoodLoad
  <2>8. ASSUME r.ok, ~Rejected(r.tree, line), NEW wd \in Directory,
               s = [ok |-> TRUE, cwd |-> wd, tree |-> AddDirectory(r.tree, line, LineDir(line), i)]
        PROVE  i \in S
    <3> DEFINE t == r.tree
               phys == LineDir(line)
    <3>1. TreeOK(t) /\ <<>> \in DOMAIN t /\ AllYounger(t, k)
      BY <2>3, <2>8
    <3>2. phys \in Seq(STRING) /\ line.virt # <<>>
      BY <2>1, <2>8, LineDirType DEF Rejected
    <3> HIDE DEF t, phys
    <3> DEFINE u == AddDirectory(t, line, phys, k + 1)
    <3>3. TreeOK(u) /\ <<>> \in DOMAIN u /\ AllYounger(u, k + 1)
      BY <2>1, <3>1, <3>2, AddDirectoryKeepsTree
    <3>4. s.tree = u
      BY <2>1, <2>8 DEF t, phys
    <3> HIDE DEF u
    <3> QED
      BY <2>1, <2>4, <3>3, <3>4 DEF s, GoodLoad
  <2> QED
    BY <2>4, <2>6, <2>7, <2>8 DEF Reads
<1>5. 0..n \subseteq S
  <2> HIDE DEF S, n
  <2> QED
    BY <1>2, <1>3, <1>4, RangeInduction
<1> QED
  BY <1>5

\* Whatever vfs.cfg holds, a tree is left; it has a root if there was no error.
LEMMA LoadConfigFileType ==
  ASSUME NEW conf \in Configuration, NEW cwd \in Directory, NEW j \in SUBSET Right
  PROVE  /\ LoadConfigFile(conf, cwd, j) \in Loaded /\ TreeOK(LoadConfigFile(conf, cwd, j).tree)
         /\ LoadConfigFile(conf, cwd, j).ok =>
              DOMAIN LoadConfigFile(conf, cwd, j).tree # {}
<1> DEFINE n == Len(conf.lines)
<1>1. PICK c : Loads(c, conf, cwd, j) /\ LoadConfigFile(conf, cwd, j) = c[n]
  BY LoadIs
<1>2. n \in 0..n
  BY LenProperties DEF Configuration
<1>3. GoodLoad(c[n], n)
  BY <1>1, <1>2, LoadsGood
<1> QED
  BY <1>1, <1>3 DEF GoodLoad

-----------------------------------------------------------------------------
(***************************************************************************)
(* The tree against the lines that made it.                                *)
(***************************************************************************)
NamedBelow(L, v, k) == {n \in 1..k : IsPrefix(v, L[n].virt)}
NamedIn(L, v, k) == {n \in 1..k : L[n].virt = v}

Rights(x, line) == x.user = line.user /\ x.urights = line.urights /\ x.orights = line.orights
Least(n, S) == n \in S /\ \A m \in S : n <= m
Most(n, S) == n \in S /\ \A m \in S : m <= n

MadeBy(t, L, v, k) ==
  /\ \E n \in NamedBelow(L, v, k) : Least(n, NamedBelow(L, v, k)) /\ Rights(t[v], L[n])
  /\ \/ NamedIn(L, v, k) = {} /\ t[v].phys = NoDir
     \/ \E n \in NamedIn(L, v, k) : Most(n, NamedIn(L, v, k)) /\ t[v].phys = LineDir(L[n])

MadeFrom(t, L, k) ==
  /\ DOMAIN t = {<<>>} \cup UNION {Above(L[n]) : n \in 1..k}
  /\ \A v \in DOMAIN t \ {<<>>} : MadeBy(t, L, v, k)

LEMMA AboveIsPrefix ==
  ASSUME NEW line \in ConfigLine, NEW v \in Seq(STRING)
  PROVE  v \in Above(line) <=> v # <<>> /\ IsPrefix(v, line.virt)
<1> DEFINE x == line.virt
           n == Len(v)
<1>1. x \in Seq(STRING) /\ Len(x) \in Nat /\ n \in Nat /\ (v # <<>> => n # 0)
  BY LenProperties, EmptySeq DEF ConfigLine
<1>2. SubSeq(v, 1, n) = v
  BY WholePrefix
<1>3. Above(line) = {SubSeq(x, 1, i) : i \in 1..Len(x)}
  BY DEF Above
<1>4. IsPrefix(v, x) <=> n <= Len(x) /\ v = SubSeq(x, 1, n)
  BY <1>2 DEF IsPrefix
<1> HIDE DEF x
<1>5. ASSUME v # <<>>, IsPrefix(v, x) PROVE v \in Above(line)
  <2>1. n \in 1..Len(x) /\ v = SubSeq(x, 1, n)
    BY <1>1, <1>4, <1>5
  <2> HIDE DEF n
  <2> QED
    BY <1>3, <2>1
<1>6. ASSUME v \in Above(line) PROVE v # <<>> /\ IsPrefix(v, x)
  <2>1. PICK i \in 1..Len(x) : v = SubSeq(x, 1, i)
    BY <1>3, <1>6
  <2>2. i \in 0..Len(x)
    BY <1>1
  <2>3. n = i /\ v # <<>>
    BY <1>1, <2>1, <2>2, PrefixOf, FrontOf
  <2> QED
    BY <1>1, <1>4, <2>1, <2>3
<1> QED
  BY <1>5, <1>6 DEF x

LEMMA WholeIsPrefix ==
  ASSUME NEW v \in Seq(STRING)
  PROVE  IsPrefix(v, v)
  BY LenProperties DEF IsPrefix

LEMMA RightsKept ==
  ASSUME NEW x \in Node, NEW phys
  PROVE  /\ [x EXCEPT !.phys = phys].phys = phys
         /\ \A line : Rights(x, line) => Rights([x EXCEPT !.phys = phys], line)
  BY DEF Rights, Node

\* One more line.
LEMMA AddDirectoryMakes ==
  ASSUME NEW L, NEW k \in Nat, \A n \in 1..(k + 1) : L[n] \in ConfigLine,
         NEW t, TreeOK(t), MadeFrom(t, L, k), L[k + 1].virt # <<>>
  PROVE  MadeFrom(AddDirectory(t, L[k + 1], LineDir(L[k + 1]), k + 1), L, k + 1)
<1> DEFINE m == k + 1
           line == L[m]
           phys == LineDir(line)
           u == AddDirectory(t, line, phys, m)
<1>1. m \in Nat /\ m \in 1..m /\ 1..m = (1..k) \cup {m} /\ \A n \in 1..k : n < m /\ n \in 1..m /\ n \in Nat
  OBVIOUS
<1>2. line \in ConfigLine /\ phys \in Seq(STRING) /\ line.virt \in Seq(STRING) /\ line.virt # <<>>
  BY <1>1, LineDirType DEF ConfigLine
<1>3. t \in Trees
  BY TreesDef DEF TreeOK
<1>4. \A n \in 1..k : L[n] \in ConfigLine
  BY <1>1
<1> HIDE DEF m, line, phys
<1>5. Adds(u, t, line, phys, m)
  BY <1>1, <1>2, <1>3, AddDirectoryIs
<1> HIDE DEF u
<1>6. line.virt \in Above(line)
  BY <1>2, WholeIsPrefix, AboveIsPrefix
<1>7. line.virt \in DOMAIN t => Above(line) \subseteq DOMAIN t
  <2> SUFFICES ASSUME line.virt \in DOMAIN t, NEW i \in 1..Len(line.virt)
               PROVE  SubSeq(line.virt, 1, i) \in DOMAIN t
    BY DEF Above
  <2>1. i \in 0..Len(line.virt)
    BY <1>2, LenProperties
  <2> QED
    BY <2>1, PrefixClosed
<1>8. DOMAIN u = DOMAIN t \cup Above(line)
  BY <1>5, <1>7 DEF Adds
<1>9. DOMAIN u = {<<>>} \cup UNION {Above(L[n]) : n \in 1..m}
  <2> DEFINE A(n) == Above(L[n])
             B == UNION {A(n) : n \in 1..k}
             C == UNION {A(n) : n \in 1..m}
  <2>1. A(m) = Above(line) /\ m \in 1..m /\ 1..m = (1..k) \cup {m}
    BY <1>1 DEF line
  <2>2. DOMAIN t = {<<>>} \cup B
    BY DEF MadeFrom
  <2> HIDE DEF A
  <2>3. C = B \cup A(m)
    <3>1. ASSUME NEW x \in C PROVE x \in B \cup A(m)
      BY <2>1
    <3>2. ASSUME NEW x \in B \cup A(m) PROVE x \in C
      BY <2>1
    <3> QED
      BY <3>1, <3>2
  <2> HIDE DEF B, C
  <2>4. DOMAIN u = {<<>>} \cup C
    BY <1>8, <2>1, <2>2, <2>3
  <2> QED
    BY <2>4 DEF C, A
<1>10. ASSUME NEW v \in Seq(STRING)
       PROVE  /\ NamedBelow(L, v, m) = NamedBelow(L, v, k) \cup {n \in {m} : IsPrefix(v, line.virt)}
              /\ NamedIn(L, v, m) = NamedIn(L, v, k) \cup {n \in {m} : line.virt = v}
  BY <1>1 DEF NamedBelow, NamedIn, line
<1>11. ASSUME NEW v \in DOMAIN t \ {<<>>} PROVE MadeBy(u, L, v, m)
  <2>1. /\ v \in Seq(STRING) /\ t[v] \in Node /\ MadeBy(t, L, v, k)
        /\ u[v] = IF v = line.virt THEN [t[v] EXCEPT !.phys = phys] ELSE t[v]
    BY <1>5, <1>11 DEF TreeOK, MadeFrom, Adds
  <2>2. \E n \in NamedBelow(L, v, m) : Least(n, NamedBelow(L, v, m)) /\ Rights(u[v], L[n])
    <3>1. PICK n \in NamedBelow(L, v, k) : Least(n, NamedBelow(L, v, k)) /\ Rights(t[v], L[n])
      BY <2>1 DEF MadeBy
    <3>2. n \in 1..k /\ n < m
      BY <1>1 DEF NamedBelow
    <3>3. Rights(u[v], L[n])
      <4>1. Rights(t[v], L[n]) /\ t[v] \in Node
        BY <2>1, <3>1
      <4>2. Rights([t[v] EXCEPT !.phys = phys], L[n])
        BY <4>1, RightsKept
      <4> QED
        BY <2>1, <4>1, <4>2, Zenon
    <3>4. Least(n, NamedBelow(L, v, m))
      BY <1>1, <1>10, <2>1, <3>1, <3>2 DEF Least
    <3> QED
      BY <3>3, <3>4 DEF Least
  <2>3. CASE v = line.virt
    <3>1. u[v].phys = phys
      BY <2>1, <2>3, RightsKept
    <3>2. Most(m, NamedIn(L, v, m))
      BY <1>1, <1>10, <2>1, <2>3 DEF Most, NamedIn
    <3> QED
      BY <2>2, <3>1, <3>2 DEF MadeBy, Most, phys, line
  <2>4. CASE v # line.virt
    <3>1. NamedIn(L, v, m) = NamedIn(L, v, k) /\ u[v] = t[v]
      BY <1>10, <2>1, <2>4
    <3> QED
      BY <2>1, <2>2, <3>1 DEF MadeBy
  <2> QED
    BY <2>3, <2>4
<1>12. ASSUME NEW v \in Above(line) \ DOMAIN t PROVE MadeBy(u, L, v, m)
  <2>1. v \in Seq(STRING) /\ v # <<>> /\ IsPrefix(v, line.virt)
    BY <1>2, <1>12, AboveIs, AboveIsPrefix
  <2>2. u[v] = NewNode(line, phys, m, v)
    BY <1>5, <1>7, <1>12 DEF Adds
  <2>3. NamedBelow(L, v, k) = {}
    <3> SUFFICES ASSUME NEW n \in 1..k, IsPrefix(v, L[n].virt) PROVE FALSE
      BY DEF NamedBelow
    <3>1. v \in Above(L[n])
      BY <1>4, <2>1, AboveIsPrefix
    <3>2. v \in DOMAIN t
      BY <3>1 DEF MadeFrom
    <3> QED
      BY <1>12, <3>2
  <2>4. NamedIn(L, v, k) = {}
    BY <2>1, <2>3, WholeIsPrefix DEF NamedIn, NamedBelow
  <2>5. NamedBelow(L, v, m) = {m} /\ NamedIn(L, v, m) = {n \in {m} : line.virt = v}
    BY <1>10, <2>1, <2>3, <2>4
  <2>6. Rights(u[v], line) /\ u[v].phys = IF v = line.virt THEN phys ELSE NoDir
    BY <2>2 DEF NewNode, Rights
  <2>7. Least(m, {m}) /\ Most(m, {m})
    BY <1>1 DEF Least, Most
  <2>8. \E n \in NamedBelow(L, v, m) : Least(n, NamedBelow(L, v, m)) /\ Rights(u[v], L[n])
    BY <2>5, <2>6, <2>7 DEF line
  <2>9. CASE v = line.virt
    <3>1. NamedIn(L, v, m) = {m}
      BY <2>5, <2>9
    <3> QED
      BY <2>6, <2>7, <2>8, <2>9, <3>1 DEF MadeBy, phys, line
  <2>10. CASE v # line.virt
    <3>1. NamedIn(L, v, m) = {}
      BY <2>5, <2>10
    <3> QED
      BY <2>6, <2>8, <2>10, <3>1 DEF MadeBy
  <2> QED
    BY <2>9, <2>10
<1>13. \A v \in DOMAIN u \ {<<>>} : MadeBy(u, L, v, m)
  BY <1>8, <1>11, <1>12
<1>14. MadeFrom(u, L, m)
  BY <1>9, <1>13 DEF MadeFrom
<1> QED
  BY <1>14 DEF u, phys, line, m

ErrorIn(L, n) ==
  \/ L[n].virt = <<>>
  \/ LineDir(L[n]) = NoDir /\ L[n].phys # <<>>
  \/ \E m \in NamedIn(L, L[n].virt, n - 1) : LineDir(L[m]) # NoDir

NoRoot(conf) == ~Relative(conf.root) /\ Resolve(<<>>, conf.root) = NoDir

\* The tree after i lines, of which the loading read the first k.
Made(r, conf, i) ==
  IF DOMAIN r.tree = {} THEN ~r.ok /\ NoRoot(conf)
  ELSE \E k \in 0..i : /\ MadeFrom(r.tree, conf.lines, k)
                       /\ r.ok => k = i
                       /\ ~r.ok => k < i /\ ErrorIn(conf.lines, k + 1)

LEMMA RejectedIsError ==
  ASSUME NEW L, NEW k \in Nat, L[k + 1] \in ConfigLine,
         NEW t, MadeFrom(t, L, k), Rejected(t, L[k + 1])
  PROVE  ErrorIn(L, k + 1)
<1> DEFINE line == L[k + 1]
<1>1. CASE line.virt = <<>>
  BY <1>1 DEF ErrorIn
<1>2. CASE Nowhere(line)
  BY <1>2, LineDirType DEF ErrorIn, Nowhere
<1>3. CASE line.virt # <<>> /\ line.virt \in DOMAIN t /\ t[line.virt].phys # NoDir
  <2>1. (k + 1) - 1 = k
    OBVIOUS
  <2>2. MadeBy(t, L, line.virt, k)
    BY <1>3 DEF MadeFrom
  <2>3. \E m \in NamedIn(L, line.virt, k) : LineDir(L[m]) # NoDir
    BY <1>3, <2>2 DEF MadeBy
  <2> QED
    BY <2>1, <2>3 DEF ErrorIn
<1> QED
  BY <1>1, <1>2, <1>3 DEF Rejected

LEMMA NoneMade ==
  ASSUME NEW conf \in Configuration, NEW cwd \in Directory, NEW j \in SUBSET Right
  PROVE  Made(NoneLoaded(conf, cwd, j), conf, 0)
<1> DEFINE root == CheckDir(conf.root, cwd)
           t == IF root.ok THEN Root(root.path, j) ELSE <<>>
           r == NoneLoaded(conf, cwd, j)
<1>1. r = [ok |-> root.ok, cwd |-> root.cwd, tree |-> t]
  BY DEF NoneLoaded
<1>2. root.ok \in BOOLEAN /\ (~root.ok => NoRoot(conf))
  BY DEF CheckDir, NoRoot
<1> HIDE DEF root, r
<1>3. CASE root.ok
  <2>1. DOMAIN t = {<<>>}
    BY <1>3 DEF Root
  <2> HIDE DEF t
  <2>2. MadeFrom(t, conf.lines, 0)
    <3>1. UNION {Above(conf.lines[n]) : n \in 1..0} = {}
      OBVIOUS
    <3> QED
      BY <2>1, <3>1 DEF MadeFrom
  <2>3. r.tree = t /\ r.ok /\ 0 \in 0..0
    BY <1>1, <1>3
  <2> QED
    BY <2>1, <2>2, <2>3 DEF Made, r
<1>4. CASE ~root.ok
  <2>1. r.tree = <<>> /\ ~r.ok
    BY <1>1, <1>4
  <2> QED
    BY <1>2, <1>4, <2>1 DEF Made, r
<1> QED
  BY <1>3, <1>4

LEMMA ReadsMakes ==
  ASSUME NEW conf \in Configuration, NEW i \in 1..Len(conf.lines),
         NEW r, GoodLoad(r, i - 1), Made(r, conf, i - 1),
         NEW s, Reads(s, r, conf.lines[i], i)
  PROVE  Made(s, conf, i)
<1> DEFINE L == conf.lines
           h == i - 1
<1>1. L \in Seq(ConfigLine) /\ Len(L) \in Nat /\ \A n \in 1..Len(L) : L[n] \in ConfigLine
  <2>1. L \in Seq(ConfigLine)
    BY DEF Configuration
  <2> QED
    BY <2>1, LenProperties, ElementOfSeq
<1>2. h \in Nat /\ i = h + 1 /\ \A n \in 1..(h + 1) : n \in 1..Len(L)
  BY <1>1
<1>3. r \in Loaded /\ TreeOK(r.tree) /\ (r.ok => <<>> \in DOMAIN r.tree)
  BY DEF GoodLoad
<1>4. /\ DOMAIN r.tree = {} => ~r.ok /\ NoRoot(conf)
      /\ DOMAIN r.tree # {} =>
           \E k \in 0..h : /\ MadeFrom(r.tree, L, k) /\ (r.ok => k = h)
                           /\ ~r.ok => k < h /\ ErrorIn(L, k + 1)
  BY DEF Made
<1> HIDE DEF h
<1>5. r.ok => MadeFrom(r.tree, L, h)
  BY <1>3, <1>4
<1>6. CASE ~r.ok /\ s = r
  <2>1. CASE DOMAIN r.tree = {}
    BY <1>4, <1>6, <2>1 DEF Made
  <2>2. CASE DOMAIN r.tree # {}
    <3>1. PICK k \in 0..h : MadeFrom(r.tree, L, k) /\ k < h /\ ErrorIn(L, k + 1)
      BY <1>4, <1>6, <2>2
    <3>2. k \in 0..i /\ k < i
      BY <1>2, <3>1
    <3> QED
      BY <1>6, <2>2, <3>1, <3>2 DEF Made
  <2> QED
    BY <2>1, <2>2
<1>7. ASSUME r.ok, Rejected(r.tree, L[i]), NEW wd \in Directory,
             s = [r EXCEPT !.ok = FALSE, !.cwd = wd]
      PROVE  Made(s, conf, i)
  <2>1. s.tree = r.tree /\ ~s.ok /\ DOMAIN s.tree # {}
    BY <1>3, <1>7 DEF Loaded
  <2>2. ErrorIn(L, h + 1)
    BY <1>1, <1>2, <1>5, <1>7, RejectedIsError
  <2>3. h \in 0..i /\ h < i
    BY <1>2
  <2> HIDE DEF L
  <2>4. \E k \in 0..i : /\ MadeFrom(s.tree, L, k) /\ (s.ok => k = i)
                        /\ ~s.ok => k < i /\ ErrorIn(L, k + 1)
    BY <1>5, <1>7, <2>1, <2>2, <2>3
  <2> QED
    BY <2>1, <2>4 DEF Made, L
<1>8. ASSUME r.ok, ~Rejected(r.tree, L[i]), NEW wd \in Directory,
             s = [ok |-> TRUE, cwd |-> wd, tree |-> AddDirectory(r.tree, L[i], LineDir(L[i]), i)]
      PROVE  Made(s, conf, i)
  <2> DEFINE t == r.tree
             u == AddDirectory(t, L[h + 1], LineDir(L[h + 1]), h + 1)
  <2>1. s.tree = u /\ s.ok
    BY <1>2, <1>8
  <2>2. \A n \in 1..(h + 1) : L[n] \in ConfigLine
    BY <1>1, <1>2
  <2>3. L[h + 1].virt # <<>>
    BY <1>2, <1>8 DEF Rejected
  <2>4. TreeOK(t) /\ MadeFrom(t, L, h)
    BY <1>3, <1>5, <1>8
  <2> HIDE DEF t, L
  <2>5. MadeFrom(u, L, h + 1)
    BY <1>2, <2>2, <2>3, <2>4, AddDirectoryMakes
  <2> HIDE DEF u
  <2>6. DOMAIN u # {}
    BY <2>5 DEF MadeFrom
  <2>7. i \in 0..i
    BY <1>2
  <2>8. \E k \in 0..i : /\ MadeFrom(s.tree, L, k) /\ (s.ok => k = i)
                        /\ ~s.ok => k < i /\ ErrorIn(L, k + 1)
    BY <1>2, <2>1, <2>5, <2>7
  <2> QED
    BY <2>1, <2>6, <2>8 DEF Made, L
<1> QED
  BY <1>6, <1>7, <1>8 DEF Reads

\* However the loading ends, the tree is made from the lines before the first error.
LEMMA TreeIsMade ==
  ASSUME NEW conf \in Configuration, NEW cwd \in Directory, NEW j \in SUBSET Right
  PROVE  Made(LoadConfigFile(conf, cwd, j), conf, Len(conf.lines))
<1> DEFINE n == Len(conf.lines)
<1>1. PICK c : Loads(c, conf, cwd, j) /\ LoadConfigFile(conf, cwd, j) = c[n]
  BY LoadIs
<1>2. n \in Nat /\ n \in 0..n /\ \A i \in 1..n : conf.lines[i] \in ConfigLine
  <2>1. conf.lines \in Seq(ConfigLine)
    BY DEF Configuration
  <2> QED
    BY <2>1, LenProperties, ElementOfSeq
<1> DEFINE S == {i \in 0..n : Made(c[i], conf, i)}
<1>3. 0 \in S
  <2>1. c[0] = NoneLoaded(conf, cwd, j) /\ 0 \in 0..n
    BY <1>1, <1>2 DEF Loads
  <2>2. Made(c[0], conf, 0)
    BY <2>1, NoneMade
  <2> QED
    BY <2>1, <2>2
<1>4. ASSUME NEW i \in 1..n, i - 1 \in S PROVE i \in S
  <2>1. i \in 0..n /\ i - 1 \in 0..n /\ Made(c[i - 1], conf, i - 1) /\ i \in Nat
    BY <1>2, <1>4
  <2>2. GoodLoad(c[i - 1], i - 1)
    BY <1>1, <2>1, LoadsGood
  <2>3. c[i] = ReadLine(c[i - 1], conf.lines[i], i)
    BY <1>1 DEF Loads
  <2>4. Reads(c[i], c[i - 1], conf.lines[i], i)
    BY <1>2, <2>2, <2>3, ReadLineReads DEF GoodLoad
  <2>5. Made(c[i], conf, i)
    BY <2>1, <2>2, <2>4, ReadsMakes
  <2> QED
    BY <2>1, <2>5
<1>5. 0..n \subseteq S
  <2> HIDE DEF S, n
  <2> QED
    BY <1>2, <1>3, <1>4, RangeInduction
<1> QED
  BY <1>1, <1>2, <1>5

\* The same as the property says it.
LEMMA LeastIsChosen ==
  ASSUME NEW S \in SUBSET Nat, NEW n, Least(n, S)
  PROVE  (CHOOSE k \in S : \A m \in S : k <= m) = n
<1> DEFINE c == CHOOSE k \in S : \A m \in S : k <= m
<1>1. c \in S /\ \A m \in S : c <= m
  BY Zenon DEF Least
<1> HIDE DEF c
<1>2. c = n
  BY <1>1 DEF Least
<1> QED
  BY <1>2 DEF c

LEMMA MostIsChosen ==
  ASSUME NEW S \in SUBSET Nat, NEW n, Most(n, S)
  PROVE  (CHOOSE k \in S : \A m \in S : m <= k) = n
<1> DEFINE c == CHOOSE k \in S : \A m \in S : m <= k
<1>1. c \in S /\ \A m \in S : m <= c
  BY Zenon DEF Most
<1> HIDE DEF c
<1>2. c = n
  BY <1>1 DEF Most
<1> QED
  BY <1>2 DEF c

DescribedBy(t, L, k) ==
  /\ DOMAIN t = {<<>>} \cup
       UNION {{SubSeq(v, 1, i) : i \in 1..Len(v)} : v \in {L[n].virt : n \in 1..k}}
  /\ \A v \in DOMAIN t \ {<<>>} :
       /\ t[v].phys = IF NamedIn(L, v, k) = {} THEN NoDir
                     ELSE LineDir(L[LastOf(NamedIn(L, v, k))])
       /\ NamedIn(L, v, k) = {} \/ L[FirstOf(NamedBelow(L, v, k))].virt = v
            => Rights(t[v], L[FirstOf(NamedBelow(L, v, k))])

AsDescribed(t, conf) ==
  IF DOMAIN t = {} THEN NoRoot(conf)
  ELSE \E k \in 0..Len(conf.lines) :
         DescribedBy(t, conf.lines, k) /\ (k < Len(conf.lines) => ErrorIn(conf.lines, k + 1))

LEMMA MadeIsDescribed ==
  ASSUME NEW L, NEW k \in Nat, NEW t, MadeFrom(t, L, k)
  PROVE  DescribedBy(t, L, k)
<1>1. UNION {{SubSeq(v, 1, i) : i \in 1..Len(v)} : v \in {L[n].virt : n \in 1..k}}
        = UNION {Above(L[n]) : n \in 1..k}
  BY DEF Above
<1>2. ASSUME NEW v \in DOMAIN t \ {<<>>}
      PROVE  /\ Rights(t[v], L[FirstOf(NamedBelow(L, v, k))])
             /\ t[v].phys = IF NamedIn(L, v, k) = {} THEN NoDir
                           ELSE LineDir(L[LastOf(NamedIn(L, v, k))])
  <2> DEFINE S == NamedBelow(L, v, k)
             T == NamedIn(L, v, k)
  <2>1. S \in SUBSET Nat /\ T \in SUBSET Nat
    BY DEF NamedBelow, NamedIn
  <2>2. MadeBy(t, L, v, k)
    BY <1>2 DEF MadeFrom
  <2>3. /\ \E n \in S : Least(n, S) /\ Rights(t[v], L[n])
        /\ \/ T = {} /\ t[v].phys = NoDir
           \/ \E n \in T : Most(n, T) /\ t[v].phys = LineDir(L[n])
    BY <2>2 DEF MadeBy
  <2> HIDE DEF S, T
  <2>4. Rights(t[v], L[FirstOf(S)])
    <3>1. PICK n \in S : Least(n, S) /\ Rights(t[v], L[n])
      BY <2>3
    <3>2. FirstOf(S) = n
      BY <2>1, <3>1, LeastIsChosen, Zenon DEF FirstOf
    <3> QED
      BY <3>1, <3>2
  <2>5. CASE T = {} /\ t[v].phys = NoDir
    BY <2>4, <2>5 DEF S, T
  <2>6. ASSUME NEW n \in T, Most(n, T), t[v].phys = LineDir(L[n])
        PROVE  t[v].phys = IF T = {} THEN NoDir ELSE LineDir(L[LastOf(T)])
    <3>1. LastOf(T) = n
      BY <2>1, <2>6, MostIsChosen, Zenon DEF LastOf
    <3>2. T # {}
      OBVIOUS
    <3> QED
      BY <2>6, <3>1, <3>2
  <2> QED
    BY <2>3, <2>4, <2>5, <2>6 DEF S, T
<1>3. DOMAIN t = {<<>>} \cup
       UNION {{SubSeq(v, 1, i) : i \in 1..Len(v)} : v \in {L[n].virt : n \in 1..k}}
  BY <1>1 DEF MadeFrom
<1> QED
  BY <1>2, <1>3, Zenon DEF DescribedBy

LEMMA LoadedIsDescribed ==
  ASSUME NEW conf \in Configuration, NEW cwd \in Directory, NEW j \in SUBSET Right
  PROVE  AsDescribed(LoadConfigFile(conf, cwd, j).tree, conf)
<1> DEFINE r == LoadConfigFile(conf, cwd, j)
           n == Len(conf.lines)
<1>1. Made(r, conf, n) /\ r.ok \in BOOLEAN
  BY TreeIsMade, LoadConfigFileType DEF Loaded
<1>2. n \in Nat
  BY LenProperties DEF Configuration
<1> HIDE DEF r
<1>3. CASE DOMAIN r.tree = {}
  BY <1>1, <1>3 DEF Made, AsDescribed, r
<1>4. CASE DOMAIN r.tree # {}
  <2>1. PICK k \in 0..n : /\ MadeFrom(r.tree, conf.lines, k) /\ (r.ok => k = n)
                          /\ ~r.ok => k < n /\ ErrorIn(conf.lines, k + 1)
    BY <1>1, <1>4 DEF Made
  <2>2. DescribedBy(r.tree, conf.lines, k)
    BY <1>2, <2>1, MadeIsDescribed
  <2>3. k < n => ErrorIn(conf.lines, k + 1)
    BY <1>1, <1>2, <2>1
  <2>4. AsDescribed(r.tree, conf)
    BY <1>4, <2>2, <2>3 DEF AsDescribed
  <2> QED
    BY <2>4 DEF r
<1> QED
  BY <1>3, <1>4

LEMMA DescribedIs == AsDescribed(tree, config) <=> TreeAsConfigured
<1>1. \A k : DescribedBy(tree, config.lines, k) <=> Described(k)
  BY Zenon DEF DescribedBy, Described, NamedBelow, NamedIn, Lines, Given, FirstOf, LastOf,
               LineDir, DirOf, HasRights, Rights
<1>2. \A n : ErrorIn(config.lines, n) <=> Mistaken(n)
  BY Zenon DEF ErrorIn, Mistaken, NamedIn, Given, LineDir, DirOf
<1> QED
  BY <1>1, <1>2, Zenon DEF AsDescribed, TreeAsConfigured, NoRoot

-----------------------------------------------------------------------------
(***************************************************************************)
(* Places, and what following a path does to them.                         *)
(***************************************************************************)
Enterable == Directory \ Closed
Places == [node : DOMAIN tree, dir : Enterable \cup {Here}, cwd : Directory]
Results == [ret : Int, at : Places]

\* Below a node with a directory, though perhaps not with the one that was entered.
OnDisk(p) == p.dir # Here => Phys(p) # NoDir

LEMMA DirIsNotHere == Here \notin Directory
<1>1. "." \in ToSet(<<".">>)
  BY DEF ToSet
<1> QED
  BY <1>1, VFSAssumption DEF Here

LEMMA PlaceOKIs ==
  ASSUME NEW p
  PROVE  PlaceOK(p) <=> p \in Places /\ (p.dir # Here => Phys(p) # NoDir /\ StringPrefix(Phys(p), p.dir))
  BY DEF PlaceOK, Places, Enterable

\* The working directory alone makes no difference.
LEMMA CwdOnly ==
  ASSUME NEW p \in Places, NEW d \in Directory
  PROVE  /\ [p EXCEPT !.cwd = d] \in Places
         /\ [p EXCEPT !.cwd = d].node = p.node /\ [p EXCEPT !.cwd = d].dir = p.dir
         /\ [p EXCEPT !.cwd = d].cwd = d
         /\ PlaceOK(p) => PlaceOK([p EXCEPT !.cwd = d])
<1> DEFINE q == [p EXCEPT !.cwd = d]
<1>1. q \in Places /\ q.node = p.node /\ q.dir = p.dir /\ q.cwd = d
  BY DEF Places
<1> HIDE DEF q
<1>2. PlaceOK(p) => PlaceOK(q)
  BY <1>1, PlaceOKIs DEF Phys
<1> QED
  BY <1>1, <1>2 DEF q

LEMMA ChdirType ==
  ASSUME NEW p \in Places, NEW d
  PROVE  /\ Chdir(p, d) \in Places
         /\ Chdir(p, d).node = p.node /\ Chdir(p, d).dir = p.dir
         /\ Chdir(p, d).cwd = IF d \in Enterable THEN d ELSE p.cwd
         /\ PlaceOK(p) => PlaceOK(Chdir(p, d))
<1>1. CASE CanEnter(d)
  <2>1. d \in Directory /\ d \in Enterable /\ Chdir(p, d) = [p EXCEPT !.cwd = d]
    BY <1>1 DEF CanEnter, Chdir, Enterable
  <2> QED
    BY <2>1, CwdOnly
<1>2. CASE ~CanEnter(d)
  BY <1>2 DEF CanEnter, Chdir, Enterable
<1> QED
  BY <1>1, <1>2

LEMMA EnterType ==
  ASSUME NEW p \in Places, NEW v \in DOMAIN tree, p.dir = Here
  PROVE  Enter(p, v) \in Places /\ Enter(p, v).dir = Here /\ Enter(p, v).node = v
<1> DEFINE q == [p EXCEPT !.node = v]
<1>1. q \in Places /\ q.dir = Here /\ q.node = v
  BY DEF Places
<1> HIDE DEF q
<1> QED
  BY <1>1, ChdirType DEF Enter, q

LEMMA RefreshType ==
  ASSUME NEW p \in Places
  PROVE  Refresh(p) \in Places /\ Refresh(p).node = p.node /\ Refresh(p).dir = p.dir
         /\ (PlaceOK(p) => PlaceOK(Refresh(p)))
<1> DEFINE q == Chdir(p, Phys(p))
<1>1. q \in Places /\ q.node = p.node /\ q.dir = p.dir /\ (PlaceOK(p) => PlaceOK(q))
  BY ChdirType
<1> HIDE DEF q
<1>2. Refresh(p) \in {p, q, Chdir(q, p.dir)}
  BY DEF Refresh, q
<1> QED
  BY <1>1, <1>2, ChdirType

LEMMA FailType ==
  ASSUME NEW p \in Places, NEW n \in Int, n # 1
  PROVE  Fail(p, n) \in Results /\ Fail(p, n).ret # 1 /\ Fail(p, n).at = p
  BY DEF Fail, Results

LEMMA DoneType ==
  ASSUME NEW p \in Places
  PROVE  Done(p) \in Results /\ Done(p).ret = 1 /\ Done(p).at = p
  BY DEF Done, Results

\* A step on the disk.
LEMMA PhysicalCdType ==
  ASSUME NEW p \in Places, NEW s
  PROVE  /\ PhysicalCd(p, s) \in Results
         /\ PhysicalCd(p, s).at.node = p.node
         /\ PhysicalCd(p, s).ret = 1 =>
              PhysicalCd(p, s).at.dir \in {Here, PhysicalCd(p, s).at.cwd}
<1> DEFINE to == Step(p.cwd, s)
           q == [p EXCEPT !.cwd = to, !.dir = IF s = ".." /\ to = Phys(p) THEN Here ELSE to]
           r == PhysicalCd(p, s)
<1>1. r \in {Fail(p, -2), Fail(p, -3)} \/ (CanEnter(to) /\ r = Done(q))
  BY DEF PhysicalCd
<1>2. CASE r \in {Fail(p, -2), Fail(p, -3)}
  <2>1. -2 \in Int /\ -3 \in Int /\ -2 # 1 /\ -3 # 1
    OBVIOUS
  <2> HIDE DEF r
  <2>2. r \in Results /\ r.ret # 1 /\ r.at = p
    BY <1>2, <2>1, FailType
  <2> QED
    BY <2>2 DEF r
<1>3. CASE CanEnter(to) /\ r = Done(q)
  <2>1. to \in Enterable /\ to \in Directory
    BY <1>3 DEF CanEnter, Enterable
  <2> HIDE DEF to
  <2>2. q \in Places /\ q.node = p.node /\ q.dir \in {Here, q.cwd}
    BY <2>1 DEF Places
  <2> HIDE DEF q, r
  <2>3. r \in Results /\ r.at = q
    BY <1>3, <2>2, DoneType
  <2> QED
    BY <2>2, <2>3 DEF r
<1> QED
  BY <1>1, <1>2, <1>3

\* The working directory is where the place says, unless the name of that directory only
\* begins like the node's.
Steady(p) == p.dir # Here /\ (FoundAgain(p) \/ ~StringPrefix(Phys(p), p.dir)) => p.cwd = p.dir

Good(p) == PlaceOK(p) /\ Steady(p)

LEMMA NodeType ==
  ASSUME TreeOK(tree), NEW v \in DOMAIN tree
  PROVE  tree[v].phys \in Seq(STRING)
  BY DEF TreeOK, Node

LEMMA RefreshSteady ==
  ASSUME NEW p, PlaceOK(p)
  PROVE  Steady(Refresh(p))
<1>1. p \in Places /\ (p.dir # Here => Phys(p) # NoDir /\ StringPrefix(Phys(p), p.dir))
  BY PlaceOKIs
<1>2. CASE p.dir = Here \/ ~FoundAgain(p)
  BY <1>1, <1>2, RefreshType DEF Steady, FoundAgain, Phys
<1>3. CASE p.dir # Here /\ FoundAgain(p)
  <2> DEFINE q == Chdir(p, Phys(p))
  <2>1. p.dir \in Enterable
    BY <1>1, <1>3 DEF Places
  <2>2. Refresh(p) = Chdir(q, p.dir)
    BY <1>1, <1>3 DEF Refresh, FoundAgain
  <2>3. q \in Places
    BY <1>1, ChdirType
  <2> HIDE DEF q
  <2>4. Chdir(q, p.dir).cwd = p.dir
    BY <2>1, <2>3, ChdirType
  <2> QED
    BY <1>1, <2>2, <2>4, RefreshType DEF Steady
<1> QED
  BY <1>2, <1>3

\* One part of a path: what is known of it before the link is followed.
Stepped(r, p, s) ==
  /\ r \in Results
  /\ PlaceOK(p) /\ r.ret = 1 => OnDisk(r.at) /\ Steady(r.at)

LEMMA FailStepped ==
  ASSUME NEW p, NEW q \in Places, NEW s, NEW n \in Int, n # 1
  PROVE  Stepped(Fail(q, n), p, s)
  BY FailType DEF Stepped

\* In a node: whatever the directory was.
LEMMA NodeStepped ==
  ASSUME NEW p, NEW q \in Places, NEW s, q.dir = Here
  PROVE  Stepped(Done(q), p, s)
  BY DoneType DEF Stepped, OnDisk, Steady

LEMMA PhysicalStepped ==
  ASSUME NEW p, NEW q \in Places, NEW s, PlaceOK(p) => Phys(q) # NoDir
  PROVE  Stepped(PhysicalCd(q, s), p, s)
<1> DEFINE r == PhysicalCd(q, s)
<1>1. r \in Results /\ r.at.node = q.node /\ (r.ret = 1 => r.at.dir \in {Here, r.at.cwd})
  BY PhysicalCdType
<1> HIDE DEF r
<1>2. Stepped(r, p, s)
  BY <1>1 DEF Stepped, OnDisk, Steady, Phys
<1> QED
  BY <1>2 DEF r

LEMMA SimpleCdStepped ==
  ASSUME TreeOK(tree), NEW p \in Places, NEW s
  PROVE  Stepped(SimpleCd(p, s), p, s)
<1> DEFINE r == SimpleCd(p, s)
           child == Append(p.node, s)
<1>0. <<>> \in DOMAIN tree /\ p.node \in DOMAIN tree /\ p.cwd \in Directory
      /\ \A v \in DOMAIN tree : v # <<>> => Front(v) \in DOMAIN tree
  BY DEF TreeOK, Places
<1>1. CASE s = ".." /\ p.dir = Here
  <2>1. r = IF p.node = <<>> THEN Fail(p, -5) ELSE Done([p EXCEPT !.node = Front(p.node)])
    BY <1>1 DEF SimpleCd
  <2>2. CASE p.node = <<>>
    <3>1. -5 \in Int /\ -5 # 1 /\ r = Fail(p, -5)
      BY <2>1, <2>2
    <3> HIDE DEF r
    <3> QED
      BY <3>1, FailStepped DEF r
  <2>3. CASE p.node # <<>>
    <3> DEFINE q == [p EXCEPT !.node = Front(p.node)]
    <3>1. Front(p.node) \in DOMAIN tree
      BY <1>0, <2>3
    <3>2. q \in Places /\ q.dir = Here
      BY <1>1, <3>1 DEF Places
    <3>3. r = Done(q)
      BY <2>1, <2>3
    <3> HIDE DEF q, r
    <3> QED
      BY <3>2, <3>3, NodeStepped DEF r
  <2> QED
    BY <2>2, <2>3
<1>2. CASE s = "."
  <2> DEFINE q == Refresh(p)
  <2>1. r = Done(q)
    BY <1>2 DEF SimpleCd
  <2>2. q \in Places /\ (PlaceOK(p) => PlaceOK(q))
    BY RefreshType
  <2>3. PlaceOK(p) => Steady(q)
    BY RefreshSteady
  <2>4. PlaceOK(q) => OnDisk(q)
    BY PlaceOKIs DEF OnDisk
  <2>5. s = "." /\ Done(q) \in Results /\ Done(q).at = q
    BY <1>2, <2>2, DoneType
  <2> HIDE DEF q, r
  <2> QED
    BY <2>1, <2>2, <2>3, <2>4, <2>5 DEF Stepped, r
<1>3. CASE s = "/"
  <2> DEFINE h == [p EXCEPT !.dir = Here]
             q == Enter(h, <<>>)
  <2>1. r = Done(q)
    BY <1>3 DEF SimpleCd
  <2>2. h \in Places /\ h.dir = Here
    BY DEF Places
  <2> HIDE DEF h
  <2>3. q \in Places /\ q.dir = Here
    BY <1>0, <2>2, EnterType
  <2> HIDE DEF q, r
  <2> QED
    BY <2>1, <2>3, NodeStepped DEF r
<1>4. CASE s \notin {"..", ".", "/"} /\ p.dir = Here /\ child \in DOMAIN tree
  <2>1. r = IF Has(tree[child], "read") THEN Done(Enter(p, child)) ELSE Fail(p, -2)
    BY <1>4 DEF SimpleCd
  <2>2. Enter(p, child) \in Places /\ Enter(p, child).dir = Here
    BY <1>4, EnterType
  <2>3. -2 \in Int /\ -2 # 1
    OBVIOUS
  <2> HIDE DEF r, child
  <2>4. Stepped(Done(Enter(p, child)), p, s) /\ Stepped(Fail(p, -2), p, s)
    BY <2>2, <2>3, NodeStepped, FailStepped
  <2>5. r = Done(Enter(p, child)) \/ r = Fail(p, -2)
    BY <2>1
  <2>6. Stepped(r, p, s)
    BY <2>4, <2>5, Zenon
  <2> QED
    BY <2>6 DEF r
<1>5. CASE s \notin {"..", ".", "/"} /\ p.dir = Here /\ child \notin DOMAIN tree
  <2> DEFINE q == [p EXCEPT !.cwd = Phys(p)]
  <2>1. r = IF Phys(p) = NoDir THEN Fail(p, -3)
            ELSE IF ~CanEnter(Phys(p)) THEN Fail(p, -1) ELSE PhysicalCd(q, s)
    BY <1>5 DEF SimpleCd
  <2>2. -3 \in Int /\ -3 # 1 /\ -1 \in Int /\ -1 # 1
    OBVIOUS
  <2> HIDE DEF r
  <2>3. CASE Phys(p) # NoDir /\ CanEnter(Phys(p))
    <3>1. r = PhysicalCd(q, s) /\ Phys(p) \in Directory
      BY <2>1, <2>3 DEF CanEnter
    <3>2. q \in Places /\ q.node = p.node
      BY <3>1, CwdOnly
    <3>3. Phys(q) # NoDir
      BY <2>3, <3>2 DEF Phys
    <3> HIDE DEF q
    <3> QED
      BY <3>1, <3>2, <3>3, PhysicalStepped DEF r
  <2>4. CASE ~(Phys(p) # NoDir /\ CanEnter(Phys(p)))
    <3>1. r = Fail(p, -3) \/ r = Fail(p, -1)
      BY <2>1, <2>4
    <3> QED
      BY <2>2, <3>1, FailStepped DEF r
  <2> QED
    BY <2>3, <2>4
<1>6. CASE s # "." /\ s # "/" /\ p.dir # Here
  <2>1. r = PhysicalCd(p, s)
    BY <1>6 DEF SimpleCd
  <2>2. PlaceOK(p) => Phys(p) # NoDir
    BY <1>6, PlaceOKIs
  <2> HIDE DEF r
  <2> QED
    BY <2>1, <2>2, PhysicalStepped DEF r
<1> QED
  BY <1>1, <1>2, <1>3, <1>4, <1>5, <1>6

\* After the link is followed the node owns the directory.
LEMMA FollowLinkType ==
  ASSUME TreeOK(tree), NEW r \in Results
  PROVE  /\ FollowLink(r) \in Results
         /\ (r.ret = 1 => OnDisk(r.at) /\ Steady(r.at)) /\ FollowLink(r).ret = 1
              => Good(FollowLink(r).at)
<1> DEFINE p == r.at
           owner == DirSecurityCheck(tree, p.dir)
           f == FollowLink(r)
           q == [p EXCEPT !.node = owner, !.dir = IF p.dir = tree[owner].phys THEN Here ELSE p.dir]
<1>1. f = IF r.ret # 1 \/ p.dir = Here \/ StringPrefix(Text(Phys(p)), p.dir) THEN r
          ELSE IF Owners(tree, p.dir) = {} THEN Fail(p, -6) ELSE Done(q)
  BY DEF FollowLink
<1>2. p \in Places
  BY DEF Results
<1> HIDE DEF f, p
<1>3. CASE r.ret # 1
  BY <1>1, <1>3 DEF f
<1>4. CASE r.ret = 1 /\ (p.dir = Here \/ StringPrefix(Text(Phys(p)), p.dir))
  <2>1. f = r
    BY <1>1, <1>4
  <2>2. OnDisk(p) => PlaceOK(p)
    BY <1>2, <1>4, PlaceOKIs DEF OnDisk, Text
  <2> QED
    BY <2>1, <2>2 DEF Good, f, p
<1>5. CASE r.ret = 1 /\ ~(p.dir = Here \/ StringPrefix(Text(Phys(p)), p.dir))
  <2>1. CASE Owners(tree, p.dir) = {}
    <3>1. f = Fail(p, -6) /\ -6 \in Int /\ -6 # 1
      BY <1>1, <1>5, <2>1
    <3>2. f \in Results /\ f.ret # 1
      BY <1>2, <3>1, FailType
    <3> QED
      BY <3>2 DEF f
  <2>2. CASE Owners(tree, p.dir) # {}
    <3>1. owner \in Owners(tree, p.dir)
      BY <2>2, DirSecurityCheckIsOwner
    <3> HIDE DEF owner
    <3>2. owner \in DOMAIN tree /\ tree[owner].phys # NoDir /\ StringPrefix(tree[owner].phys, p.dir)
      BY <3>1 DEF Owners
    <3>3. /\ q \in Places /\ q.node = owner /\ q.cwd = p.cwd
          /\ q.dir = IF p.dir = tree[owner].phys THEN Here ELSE p.dir
      BY <1>2, <3>2 DEF Places
    <3>4. f = Done(q)
      BY <1>1, <1>5, <2>2
    <3> HIDE DEF q
    <3>5. f \in Results /\ f.at = q
      BY <3>3, <3>4, DoneType
    <3>6. PlaceOK(q)
      BY <3>2, <3>3, PlaceOKIs DEF Phys
    <3>7. OnDisk(p) /\ Steady(p) => Steady(q)
      BY <1>5, <3>3 DEF Steady, OnDisk, Text
    <3> QED
      BY <1>5, <3>5, <3>6, <3>7 DEF Good, f, p
  <2> QED
    BY <2>1, <2>2
<1> QED
  BY <1>3, <1>4, <1>5

\* What is known after some parts of a path from place p.
Underway(r, p) == r \in Results /\ (Good(p) /\ r.ret = 1 => Good(r.at))

LEMMA GoUnderway ==
  ASSUME TreeOK(tree), NEW p, NEW r, Underway(r, p), NEW s
  PROVE  Underway(Go(r, s), p)
<1>1. r \in Results /\ r.at \in Places
  BY DEF Underway, Results
<1>2. CASE r.ret # 1
  BY <1>2 DEF Go
<1>3. CASE r.ret = 1
  <2> DEFINE m == SimpleCd(r.at, s)
             g == FollowLink(m)
  <2>1. Go(r, s) = g
    BY <1>3 DEF Go
  <2>2. Stepped(m, r.at, s)
    BY <1>1, SimpleCdStepped
  <2> HIDE DEF m
  <2>3. m \in Results
    BY <2>2 DEF Stepped
  <2>4. /\ g \in Results
        /\ (m.ret = 1 => OnDisk(m.at) /\ Steady(m.at)) /\ g.ret = 1 => Good(g.at)
    BY <2>3, FollowLinkType
  <2> HIDE DEF g
  <2>5. Underway(g, p)
    BY <1>3, <2>2, <2>4 DEF Underway, Stepped, Good
  <2> QED
    BY <2>1, <2>5
<1> QED
  BY <1>2, <1>3

LEMMA GoType ==
  ASSUME TreeOK(tree), NEW r \in Results, NEW s
  PROVE  Go(r, s) \in Results
<1> DEFINE m == SimpleCd(r.at, s)
<1>1. r.at \in Places
  BY DEF Results
<1>2. m \in Results
  BY <1>1, SimpleCdStepped DEF Stepped
<1> HIDE DEF m
<1>3. FollowLink(m) \in Results
  BY <1>2, FollowLinkType
<1> QED
  BY <1>3 DEF Go, m

LEMMA WalkedIs ==
  ASSUME TreeOK(tree), NEW p \in Places, NEW B, NEW parts \in Seq(B)
  PROVE  \E c : /\ Walked(p, parts) = c[Len(parts)] /\ c[0] = Done(p)
               /\ \A i \in 1..Len(parts) : c[i] = Go(c[i - 1], parts[i])
<1> DEFINE n == Len(parts)
           b == Done(p)
           step == [x \in Results \X (1..n) |-> Go(x[1], parts[x[2]])]
           Goes(c) == c = [i \in 0..n |-> IF i = 0 THEN b ELSE Go(c[i - 1], parts[i])]
           c == CHOOSE c : Goes(c)
<1>1. n \in Nat
  BY LenProperties
<1>2. b \in Results /\ b.ret = 1 /\ b.at = p
  BY DoneType
<1>3. step \in [Results \X (1..n) -> Results]
  BY GoType
<1>4. PICK f \in [0..n -> Results] : Recursion(f, b, n, step)
  <2>1. n \in Nat /\ b \in Results /\ step \in [Results \X (1..n) -> Results]
    BY <1>1, <1>2, <1>3
  <2> HIDE DEF step, n, b
  <2> QED
    BY <2>1, RecursionExists
<1>5. ASSUME NEW i \in 0..n
      PROVE  f[i] = IF i = 0 THEN b ELSE Go(f[i - 1], parts[i])
  <2>1. f[i] = IF i = 0 THEN b ELSE step[<<f[i - 1], i>>]
    BY <1>4, Zenon DEF Recursion
  <2>2. i # 0 => i \in 1..n /\ i - 1 \in 0..n
    BY <1>1
  <2>3. i # 0 => step[<<f[i - 1], i>>] = Go(f[i - 1], parts[i])
    BY <2>2
  <2> HIDE DEF step, b
  <2> QED
    BY <2>1, <2>3
<1>6. f = [i \in 0..n |-> f[i]]
  OBVIOUS
<1>7. Goes(f)
  BY <1>5, <1>6, Zenon
<1>8. Walked(p, parts) = c[n]
  BY Zenon DEF Walked
<1>9. Goes(c)
  BY <1>7, Zenon
<1> HIDE DEF c
<1>10. \A i \in 0..n : c[i] = IF i = 0 THEN b ELSE Go(c[i - 1], parts[i])
  BY <1>9, Zenon
<1>11. 0 \in 0..n /\ \A i \in 1..n : i \in 0..n /\ i # 0
  BY <1>1
<1>12. c[0] = b /\ \A i \in 1..n : c[i] = Go(c[i - 1], parts[i])
  BY <1>10, <1>11, Zenon
<1> QED
  BY <1>8, <1>12

LEMMA WalkedUnderway ==
  ASSUME TreeOK(tree), NEW p \in Places, NEW B, NEW parts \in Seq(B)
  PROVE  Underway(Walked(p, parts), p)
<1> DEFINE n == Len(parts)
<1>1. PICK c : /\ Walked(p, parts) = c[n] /\ c[0] = Done(p)
               /\ \A i \in 1..n : c[i] = Go(c[i - 1], parts[i])
  BY WalkedIs
<1>2. n \in Nat
  BY LenProperties
<1> DEFINE S == {i \in 0..n : Underway(c[i], p)}
<1>3. 0 \in S
  <2>1. 0 \in 0..n
    BY <1>2
  <2>2. Done(p) \in Results /\ Done(p).at = p
    BY DoneType
  <2>3. Underway(c[0], p)
    BY <1>1, <2>2 DEF Underway
  <2> QED
    BY <2>1, <2>3
<1>4. ASSUME NEW i \in 1..n, i - 1 \in S PROVE i \in S
  <2> DEFINE r == c[i - 1]
  <2>1. i \in 0..n /\ Underway(r, p) /\ c[i] = Go(r, parts[i])
    BY <1>1, <1>2, <1>4
  <2> HIDE DEF r
  <2>2. Underway(Go(r, parts[i]), p)
    BY <2>1, GoUnderway
  <2> QED
    BY <2>1, <2>2
<1>5. 0..n \subseteq S
  <2> HIDE DEF S, n
  <2> QED
    BY <1>2, <1>3, <1>4, RangeInduction
<1>6. n \in 0..n
  BY <1>2
<1> QED
  BY <1>1, <1>5, <1>6

\* The user is still in the same place.
Kept(q, p) ==
  q \in Places /\ q.node = p.node /\ q.dir = p.dir /\ (Good(p) => Good(q))

LEMMA KeptIsKept ==
  ASSUME NEW p \in Places
  PROVE  Kept(p, p)
  BY DEF Kept

LEMMA KeptTwice ==
  ASSUME NEW p, NEW q, NEW r, Kept(q, p), Kept(r, q)
  PROVE  Kept(r, p)
  BY DEF Kept

LEMMA ReturnKept ==
  ASSUME NEW p \in Places, NEW cwd \in Directory
  PROVE  Kept(Return(p, cwd), p)
<1> DEFINE q == [p EXCEPT !.cwd = cwd]
<1>1. q \in Places /\ q.node = p.node /\ q.dir = p.dir
  BY CwdOnly
<1>2. Return(p, cwd) = IF p.dir = Here THEN q ELSE Chdir(q, p.dir)
  BY DEF Return
<1> HIDE DEF q
<1>3. CASE p.dir = Here
  <2>1. Good(q)
    BY <1>1, <1>3, PlaceOKIs DEF Good, Steady
  <2> QED
    BY <1>1, <1>2, <1>3, <2>1 DEF Kept
<1>4. CASE p.dir # Here
  <2> DEFINE x == Chdir(q, p.dir)
  <2>1. p.dir \in Enterable
    BY <1>4 DEF Places
  <2>2. x \in Places /\ x.node = q.node /\ x.dir = q.dir /\ x.cwd = p.dir
    BY <1>1, <2>1, ChdirType
  <2> HIDE DEF x
  <2>3. PlaceOK(p) => Good(x)
    BY <1>1, <2>2, PlaceOKIs DEF Good, Steady, Phys
  <2> QED
    BY <1>1, <1>2, <1>4, <2>2, <2>3 DEF Kept, Good, x
<1> QED
  BY <1>3, <1>4

-----------------------------------------------------------------------------
(***************************************************************************)
(* Paths and queries.                                                      *)
(***************************************************************************)
Names == STRING \cup {".", "..", "/", "?"}

LEMMA PathNames == Seq(STRING) \subseteq Seq(Names)
<1> SUFFICES ASSUME NEW s \in Seq(STRING) PROVE s \in Seq(Names)
  OBVIOUS
<1>1. Len(s) \in Nat /\ s \in [1..Len(s) -> STRING]
  BY LenProperties
<1>2. s \in [1..Len(s) -> Names]
  BY <1>1 DEF Names
<1> QED
  BY <1>1, <1>2, SeqDef

LEMMA OneName ==
  ASSUME NEW n \in Names
  PROVE  <<n>> \in Seq(Names) /\ Len(<<n>>) = 1 /\ <<n>>[1] = n
  OBVIOUS

LEMMA FrontType ==
  ASSUME NEW B, NEW path \in Seq(B), path # <<>>
  PROVE  /\ Front(path) \in Seq(B) /\ Len(Front(path)) = Len(path) - 1
         /\ \A i \in 1..Len(Front(path)) : Front(path)[i] = path[i]
<1> DEFINE n == Len(path) - 1
<1>1. n \in 0..Len(path)
  BY LenProperties, EmptySeq
<1> HIDE DEF n
<1>2. /\ SubSeq(path, 1, n) \in Seq(B) /\ Len(SubSeq(path, 1, n)) = n
      /\ \A i \in 1..n : SubSeq(path, 1, n)[i] = path[i]
  BY <1>1, PrefixOf
<1>3. Front(path) = SubSeq(path, 1, n)
  BY DEF Front, n
<1> QED
  BY <1>2, <1>3 DEF n

LEMMA CutType ==
  ASSUME NEW B, NEW path \in Seq(B)
  PROVE  CutPathIntoParts(path) \in Seq(B)
<1>1. CASE CutPathIntoParts(path) = path
  BY <1>1
<1>2. CASE path # <<>> /\ CutPathIntoParts(path) = Front(path)
  <2>1. /\ Front(path) \in Seq(B) /\ Len(Front(path)) = Len(path) - 1
        /\ \A i \in 1..Len(Front(path)) : Front(path)[i] = path[i]
    BY <1>2, FrontType
  <2> QED
    BY <1>2, <2>1
<1> QED
  BY <1>1, <1>2 DEF CutPathIntoParts

\* Where CWD leads, and that a failure leaves the user where he was.
Changes(r, p) ==
  /\ r \in Results
  /\ Good(p) => Good(r.at)
  /\ r.ret # 1 => Kept(r.at, p)

LEMMA ChangeDirChanges ==
  ASSUME TreeOK(tree), NEW p \in Places, NEW B, NEW path \in Seq(B)
  PROVE  Changes(ChangeDir(p, path), p)
<1> DEFINE parts == CutPathIntoParts(path)
           r == Walked(p, parts)
           x == ChangeDir(p, path)
           back == Return(p, r.at.cwd)
<1>1. parts \in Seq(B)
  BY CutType
<1> HIDE DEF parts
<1>2. Underway(r, p)
  BY <1>1, WalkedUnderway
<1>3. x = IF BadPath(path) THEN Fail(p, -6) ELSE Arrived(p, r)
  BY DEF ChangeDir, parts
<1>4. Arrived(p, r) = IF r.ret = 1 THEN r ELSE Fail(back, r.ret)
  BY DEF Arrived
<1>5. r \in Results /\ r.at.cwd \in Directory /\ r.ret \in Int
  BY <1>2 DEF Underway, Results, Places
<1> HIDE DEF r
<1>6. Kept(back, p)
  BY <1>5, ReturnKept
<1> HIDE DEF x, back
<1>7. CASE BadPath(path)
  <2>1. -6 \in Int /\ -6 # 1
    OBVIOUS
  <2>2. x \in Results /\ x.ret # 1 /\ x.at = p
    BY <1>3, <1>7, <2>1, FailType
  <2> QED
    BY <2>2, KeptIsKept DEF Changes, x
<1>8. CASE ~BadPath(path) /\ r.ret = 1
  <2>1. x = r
    BY <1>3, <1>4, <1>8
  <2> QED
    BY <1>1, <1>2, <1>8, <2>1 DEF Changes, Underway, x
<1>9. CASE ~BadPath(path) /\ r.ret # 1
  <2>1. x = Fail(back, r.ret) /\ back \in Places
    BY <1>3, <1>4, <1>6, <1>9 DEF Kept
  <2>2. x \in Results /\ x.at = back
    BY <1>5, <1>9, <2>1, FailType
  <2> QED
    BY <1>6, <2>2 DEF Changes, Kept, x
<1> QED
  BY <1>7, <1>8, <1>9

LEMMA DirnameType ==
  ASSUME NEW path \in Seq(Names), path # <<>>
  PROVE  Dirname(path) \in Seq(Names)
<1>1. <<".">> \in Seq(Names)
  BY OneName DEF Names
<1> QED
  BY <1>1, FrontType DEF Dirname

LEMMA GetFileInfoKept ==
  ASSUME TreeOK(tree), NEW p \in Places, NEW path \in Seq(Names), path # <<>>
  PROVE  Kept(GetFileInfo(p, path).at, p) /\ GetFileInfo(p, path).at.cwd \in Directory
<1> DEFINE r == ChangeDir(p, Dirname(path))
           x == GetFileInfo(p, path).at
<1>1. Changes(r, p)
  BY DirnameType, ChangeDirChanges
<1>2. r \in Results /\ r.at.cwd \in Directory /\ (r.ret # 1 => Kept(r.at, p))
  BY <1>1 DEF Changes, Results, Places
<1>3. x = IF r.ret # 1 THEN r.at ELSE Return(p, r.at.cwd)
  BY DEF GetFileInfo, InfoFrom
<1> HIDE DEF r, x
<1>4. Kept(x, p)
  BY <1>2, <1>3, ReturnKept
<1>5. x.cwd \in Directory
  BY <1>4 DEF Kept, Places
<1> QED
  BY <1>4, <1>5 DEF x

LEMMA LastName ==
  ASSUME NEW B, NEW path \in Seq(B), path # <<>>
  PROVE  Last(path) \in B
<1>1. Len(path) \in 1..Len(path)
  BY LenProperties, EmptySeq
<1> QED
  BY <1>1, ElementOfSeq DEF Last

LEMMA RightsFromKept ==
  ASSUME TreeOK(tree), NEW p \in Places, NEW there \in Places, NEW s \in Names, NEW short
  PROVE  Kept(RightsFrom(p, there, s, short).at, p)
<1> DEFINE child == Append(there.node, s)
           x == RightsFrom(p, there, s, short).at
           info == GetFileInfo(there, <<s>>)
<1>1. x \in {p, Return(p, there.cwd), Return(p, info.at.cwd)}
  BY DEF RightsFrom, NodeRights, KeyRights
<1>2. there.cwd \in Directory
  BY DEF Places
<1>3. info.at.cwd \in Directory
  <2>1. <<s>> \in Seq(Names) /\ <<s>> # <<>>
    BY OneName
  <2> QED
    BY <2>1, GetFileInfoKept
<1> HIDE DEF info, x
<1> QED
  BY <1>1, <1>2, <1>3, ReturnKept, KeptIsKept DEF x

LEMMA AllowedToWriteKept ==
  ASSUME TreeOK(tree), NEW p \in Places, NEW path \in Seq(Names), CutPathIntoParts(path) # <<>>
  PROVE  Kept(AllowedToWriteToDir(p, path).at, p)
<1> DEFINE dir == CutPathIntoParts(path)
           short == Len(dir) = 1
           there == IF short THEN p ELSE ChangeDir(p, Front(dir)).at
           x == AllowedToWriteToDir(p, path).at
<1>1. dir \in Seq(Names) /\ dir # <<>>
  BY CutType
<1>2. x \in {p, RightsFrom(p, there, Last(dir), short).at}
  BY DEF AllowedToWriteToDir, NodeRights
<1> HIDE DEF dir
<1>3. Front(dir) \in Seq(Names) /\ Last(dir) \in Names
  BY <1>1, FrontType, LastName
<1>4. ChangeDir(p, Front(dir)).at \in Places
  BY <1>3, ChangeDirChanges DEF Changes, Results
<1>5. there \in Places
  BY <1>4
<1> HIDE DEF there, short, x
<1>6. Kept(RightsFrom(p, there, Last(dir), short).at, p)
  BY <1>3, <1>5, RightsFromKept
<1> QED
  BY <1>2, <1>6, KeptIsKept DEF x

LEMMA IsDirKept ==
  ASSUME TreeOK(tree), NEW p \in Places, NEW path \in Seq(Names), CutPathIntoParts(path) # <<>>
  PROVE  Kept(IsDir(p, path).at, p)
<1> DEFINE dir == CutPathIntoParts(path)
           up == IF Len(dir) = 1 THEN <<".">> ELSE Front(dir)
           r == ChangeDir(p, up)
           x == IsDir(p, path).at
<1>1. dir \in Seq(Names) /\ dir # <<>>
  BY CutType
<1>2. x \in {p} \/ x = IF r.ret # 1 THEN r.at ELSE Return(p, r.at.cwd)
  BY DEF IsDir, IsDirFrom
<1> HIDE DEF dir
<1>3. up \in Seq(Names)
  <2>1. <<".">> \in Seq(Names)
    BY OneName DEF Names
  <2> QED
    BY <1>1, <2>1, FrontType
<1> HIDE DEF up
<1>4. Changes(r, p)
  BY <1>3, ChangeDirChanges
<1>5. r \in Results /\ r.at.cwd \in Directory /\ (r.ret # 1 => Kept(r.at, p))
  BY <1>4 DEF Changes, Results, Places
<1> HIDE DEF r, x
<1> QED
  BY <1>2, <1>5, ReturnKept, KeptIsKept DEF x

LEMMA CutSome ==
  ASSUME NEW path \in Seq(STRING), path # <<>>, path[1] # Empty
  PROVE  CutPathIntoParts(path) # <<>>
<1>1. CASE Last(path) # Empty
  BY <1>1 DEF CutPathIntoParts
<1>2. CASE Last(path) = Empty
  <2>1. Len(path) \in Nat /\ Len(path) # 0 /\ Len(path) # 1
    BY <1>2, LenProperties, EmptySeq DEF Last
  <2>2. Len(Front(path)) = Len(path) - 1 /\ CutPathIntoParts(path) = Front(path)
    BY <1>2, FrontType DEF CutPathIntoParts
  <2>3. Len(CutPathIntoParts(path)) # 0
    BY <2>1, <2>2
  <2> QED
    BY <2>3, EmptySeq
<1> QED
  BY <1>1, <1>2

LEMMA PathType ==
  ASSUME NEW path \in Paths \cup FilePaths
  PROVE  /\ path \in Seq(STRING) /\ path # <<>> /\ path[1] # Empty
         /\ path \in Seq(Names) /\ CutPathIntoParts(path) # <<>>
<1>1. path \in Seq(STRING) /\ path # <<>> /\ path[1] # Empty
  BY VFSAssumption
<1> QED
  BY <1>1, PathNames, CutSome

LEMMA CurrentDirType ==
  ASSUME TreeOK(tree), NEW p, PlaceOK(p)
  PROVE  CurrentDir(p) \in Seq(Names)
<1> DEFINE d == Text(Phys(p))
           below == SubSeq(p.dir, Len(d) + 1, Len(p.dir))
           rest == IF p.dir = Here THEN <<>> ELSE IF IsPrefix(d, p.dir) THEN below ELSE <<"?">>
           c == CurrentDir(p)
<1>1. p \in Places /\ p.node \in Seq(Names)
  BY PlaceOKIs, PathNames DEF Places, TreeOK
<1>2. d \in Seq(Names)
  <2>1. Phys(p) \in Seq(STRING) /\ <<>> \in Seq(STRING)
    BY <1>1, NodeType DEF Places, Phys
  <2> QED
    BY <2>1, PathNames DEF Text
<1>3. rest \in Seq(Names)
  <2>1. CASE p.dir = Here
    BY <2>1
  <2>2. CASE p.dir # Here
    <3>1. p.dir \in Seq(Names)
      BY <1>1, <2>2, PathNames, DiskPaths DEF Places, Enterable
    <3>2. Len(d) \in Nat
      BY <1>2, LenProperties
    <3> HIDE DEF d
    <3>3. below \in Seq(Names)
      BY <3>1, <3>2
    <3>4. <<"?">> \in Seq(Names)
      BY OneName DEF Names
    <3> HIDE DEF below
    <3> QED
      BY <3>3, <3>4
  <2> QED
    BY <2>1, <2>2
<1>4. c \in {rest, <<"/">> \o p.node \o rest}
  BY DEF CurrentDir
<1> HIDE DEF rest, c
<1>5. <<"/">> \in Seq(Names)
  BY OneName DEF Names
<1>6. <<"/">> \o p.node \o rest \in Seq(Names)
  BY <1>1, <1>3, <1>5
<1> QED
  BY <1>3, <1>4, <1>6 DEF c

-----------------------------------------------------------------------------
(***************************************************************************)
(* The commands.                                                           *)
(***************************************************************************)
LEMMA RetrievalKept ==
  ASSUME TreeOK(tree), NEW p \in Places, NEW path \in Paths \cup FilePaths
  PROVE  Kept(Retrieval(p, path).at, p)
<1>1. Kept(GetFileInfo(p, path).at, p)
  BY PathType, GetFileInfoKept
<1> QED
  BY <1>1 DEF Retrieval, RetrievalOf

LEMMA StorageKept ==
  ASSUME TreeOK(tree), NEW p \in Places, NEW path \in FilePaths
  PROVE  Kept(Storage(p, path).at, p)
<1> DEFINE dir == IF Len(path) = 1 THEN <<".">> ELSE Front(path)
<1>1. path \in Seq(STRING) /\ path # <<>> /\ path[1] # Empty
  BY PathType
<1>2. dir \in Seq(Names) /\ CutPathIntoParts(dir) # <<>>
  <2>1. CASE Len(path) = 1
    <3>1. dir = <<".">> /\ <<".">> # <<>>
      BY <2>1
    <3>2. <<".">> \in Seq(Names)
      BY OneName DEF Names
    <3>3. "." # Empty
      BY Zenon DEF Empty
    <3>4. Last(<<".">>) # Empty
      BY <3>3 DEF Last
    <3>5. CutPathIntoParts(<<".">>) = <<".">>
      BY <3>4 DEF CutPathIntoParts
    <3> QED
      BY <3>1, <3>2, <3>5
  <2>2. CASE Len(path) # 1
    <3>1. /\ dir = Front(path) /\ dir \in Seq(STRING) /\ Len(dir) = Len(path) - 1
          /\ \A i \in 1..Len(dir) : dir[i] = path[i]
      BY <1>1, <2>2, FrontType
    <3>2. Len(path) \in Nat /\ Len(path) # 0 /\ Len(path) # 1
      BY <1>1, <2>2, LenProperties, EmptySeq
    <3>3. dir[1] = path[1] /\ Len(dir) # 0
      <4>1. 1 \in 1..Len(dir) /\ Len(dir) # 0
        BY <3>1, <3>2
      <4> HIDE DEF dir
      <4> QED
        BY <3>1, <4>1
    <3> HIDE DEF dir
    <3>4. dir # <<>> /\ dir[1] # Empty
      BY <1>1, <3>3, EmptySeq
    <3> QED
      BY <3>1, <3>4, CutSome, PathNames
  <2> QED
    BY <2>1, <2>2
<1> HIDE DEF dir
<1>3. Kept(AllowedToWriteToDir(p, dir).at, p)
  BY <1>2, AllowedToWriteKept
<1> QED
  BY <1>3 DEF Storage, StorageIn, dir

-----------------------------------------------------------------------------
(***************************************************************************)
(* The invariant.                                                          *)
(***************************************************************************)
Facts ==
  /\ TreeOK(tree) /\ config \in Configs
  /\ user \in User \cup {Empty} /\ phase \in {"server", "session"} /\ junk \in SUBSET Right
  /\ phase = "server" => at \in [node : {<<>>}, dir : {Here}, cwd : Directory]
  /\ phase = "session" => Good(at)

LEMMA GoodIs == ASSUME NEW p PROVE Good(p) <=> PlaceOK(p) /\ (p.dir # Here /\ FoundAgain(p) => p.cwd = p.dir)
  BY PlaceOKIs DEF Good, Steady

LEMMA FactsArePlaceInv == Facts <=> PlaceInv
<1>1. ASSUME Facts PROVE TypeOK
  <2>1. ASSUME NEW v \in DOMAIN tree
        PROVE  /\ tree[v].orights \subseteq Right /\ tree[v].urights \subseteq Right
               /\ v # <<>> => Front(v) \in DOMAIN tree
    BY <1>1 DEF Facts, TreeOK, Node
  <2>2. /\ at.node = <<>> \/ at.node \in DOMAIN tree
        /\ at.dir \in Directory \cup {Here} /\ at.cwd \in Directory
    BY <1>1, PlaceOKIs DEF Facts, Good, Places, Enterable
  <2>3. DOMAIN tree # {} => at.node \in DOMAIN tree
    BY <1>1, <2>2 DEF Facts, TreeOK
  <2> QED
    BY <1>1, <2>1, <2>2, <2>3 DEF Facts, TypeOK
<1>2. ASSUME PlaceInv PROVE Facts
  BY <1>2, GoodIs DEF PlaceInv, TypeOK, Facts, DirIsCwd
<1>3. Facts => DirIsCwd
  BY GoodIs DEF Facts, DirIsCwd
<1>4. Facts => (phase = "session" => PlaceOK(at))
  BY DEF Facts, Good
<1> QED
  BY <1>1, <1>2, <1>3, <1>4 DEF Facts, PlaceInv

LEMMA LoadedFacts ==
  ASSUME NEW conf \in Configs, NEW cwd \in Directory, NEW j \in SUBSET Right
  PROVE  LET loaded == LoadConfigFile(conf, cwd, j)
         IN  /\ TreeOK(loaded.tree) /\ loaded \in Loaded
             /\ Start(loaded) \in [node : {<<>>}, dir : {Here}, cwd : Directory]
<1> DEFINE loaded == LoadConfigFile(conf, cwd, j)
<1>1. conf \in Configuration
  BY VFSAssumption
<1>2. TreeOK(loaded.tree) /\ loaded \in Loaded
  BY <1>1, LoadConfigFileType
<1> HIDE DEF loaded
<1>3. Start(loaded) \in [node : {<<>>}, dir : {Here}, cwd : Directory]
  BY <1>2 DEF Start, Loaded
<1> QED
  BY <1>2, <1>3 DEF loaded

LEMMA SomeRights == {{}, {"write"}} \subseteq SUBSET Right
  BY DEF Right

LEMMA InitFacts == Init => Facts
<1> SUFFICES ASSUME Init PROVE Facts
  OBVIOUS
<1> DEFINE loaded == LoadConfigFile(config, <<>>, junk)
<1>1. config \in Configs /\ junk \in SUBSET Right /\ tree = loaded.tree /\ at = Start(loaded)
  BY SomeRights DEF Init
<1>2. TreeOK(loaded.tree) /\ Start(loaded) \in [node : {<<>>}, dir : {Here}, cwd : Directory]
  BY <1>1, DiskPaths, LoadedFacts
<1> HIDE DEF loaded
<1>3. user = Empty /\ phase = "server"
  BY DEF Init
<1> QED
  BY <1>1, <1>2, <1>3 DEF Facts

LEMMA ReloadFacts == Facts /\ ReloadConfigFile => Facts'
<1> SUFFICES ASSUME Facts, ReloadConfigFile PROVE Facts'
  OBVIOUS
<1> DEFINE loaded == LoadConfigFile(config', at.cwd, junk')
<1>1. config' \in Configs /\ junk' \in SUBSET Right /\ tree' = loaded.tree /\ at' = Start(loaded)
      /\ at.cwd \in Directory /\ phase' = "server" /\ user' \in User \cup {Empty}
  BY SomeRights DEF ReloadConfigFile, Facts
<1>2. TreeOK(loaded.tree) /\ Start(loaded) \in [node : {<<>>}, dir : {Here}, cwd : Directory]
  BY <1>1, LoadedFacts
<1> HIDE DEF loaded
<1>3. TreeOK(tree') /\ at' \in [node : {<<>>}, dir : {Here}, cwd : Directory]
  BY <1>1, <1>2
<1> QED
  BY <1>1, <1>3 DEF Facts, TreeOK

LEMMA ForkFacts == Facts /\ Fork => Facts'
<1> SUFFICES ASSUME Facts, Fork PROVE Facts'
  OBVIOUS
<1>1. /\ DOMAIN tree # {} /\ TreeOK(tree) /\ UNCHANGED <<tree, config, junk, at, user>>
      /\ at \in [node : {<<>>}, dir : {Here}, cwd : Directory] /\ phase' = "session"
  BY DEF Fork, Facts
<1>2. at \in Places /\ at.dir = Here
  BY <1>1 DEF TreeOK, Places
<1>3. Good(at)'
  BY <1>1, <1>2 DEF Good, Steady, PlaceOK, Places, Enterable, Phys
<1> QED
  BY <1>1, <1>3 DEF Facts, TreeOK

LEMMA MovesGood ==
  ASSUME Facts, phase = "session", NEW path \in Seq(Names)
  PROVE  Good(ChangeDir(at, path).at)
<1>1. TreeOK(tree) /\ Good(at) /\ at \in Places
  BY PlaceOKIs DEF Facts, Good
<1>2. Changes(ChangeDir(at, path), at)
  BY <1>1, ChangeDirChanges
<1> QED
  BY <1>1, <1>2 DEF Changes

LEMMA ListGood ==
  ASSUME Facts, phase = "session", NEW path \in Paths
  PROVE  LET dir == IsDir(at, path)
             r == ChangeDir(dir.at, path)
         IN  /\ Good(r.at) /\ Good(ChangeDir(r.at, CurrentDir(at)).at)
             /\ Good(GetFileInfo(dir.at, path).at)
<1> DEFINE p == IsDir(at, path).at
           r == ChangeDir(p, path)
           back == ChangeDir(r.at, CurrentDir(at))
           x == GetFileInfo(p, path).at
<1>1. TreeOK(tree) /\ Good(at) /\ at \in Places
  BY PlaceOKIs DEF Facts, Good
<1>2. path \in Seq(Names) /\ path # <<>> /\ CutPathIntoParts(path) # <<>>
  BY PathType
<1>3. Kept(p, at)
  BY <1>1, <1>2, IsDirKept
<1> HIDE DEF p
<1>4. p \in Places /\ Good(p)
  BY <1>1, <1>3 DEF Kept
<1>5. Changes(r, p)
  BY <1>1, <1>2, <1>4, ChangeDirChanges
<1> HIDE DEF r
<1>6. r.at \in Places /\ Good(r.at)
  BY <1>4, <1>5 DEF Changes, Results
<1>7. CurrentDir(at) \in Seq(Names)
  BY <1>1, CurrentDirType DEF Good
<1>8. Changes(back, r.at)
  BY <1>1, <1>6, <1>7, ChangeDirChanges
<1> HIDE DEF back
<1>9. Good(back.at)
  BY <1>6, <1>8 DEF Changes
<1>10. Kept(x, p)
  BY <1>1, <1>2, <1>4, GetFileInfoKept
<1> HIDE DEF x
<1>11. Good(x)
  BY <1>4, <1>10 DEF Kept
<1> QED
  BY <1>6, <1>9, <1>11 DEF p, r, back, x

Session ==
  \/ Frein \/ Fcdup \/ \E u \in User : Fpass(u)
  \/ \E path \in Paths : Fcwd(path) \/ Flist(path) \/ FlistFails(path)
  \/ \E path \in FilePaths : Fretr(path) \/ Fstor(path)

LEMMA SessionGood ==
  ASSUME Facts, Session
  PROVE  /\ phase = "session" /\ UNCHANGED <<tree, config, junk, phase>>
         /\ user' \in User \cup {Empty} /\ Good(at')
<1>1. phase = "session" => TreeOK(tree) /\ Good(at) /\ at \in Places
  BY PlaceOKIs DEF Facts, Good
<1>2. <<"/">> \in Seq(Names) /\ <<"..">> \in Seq(Names)
  BY OneName DEF Names
<1>3. CASE Frein
  <2>1. /\ phase = "session" /\ UNCHANGED <<tree, config, junk, phase>> /\ user' = Empty
        /\ at' = ChangeDir(at, <<"/">>).at
    BY <1>3 DEF Frein
  <2> QED
    BY <1>2, <2>1, MovesGood
<1>4. CASE Fcdup
  <2>1. /\ phase = "session" /\ UNCHANGED <<tree, config, junk, phase, user>>
        /\ at' = ChangeDir(at, <<"..">>).at
    BY <1>4 DEF Fcdup, LoggedIn, Stay, Moved
  <2> QED
    BY <1>2, <2>1, MovesGood DEF Facts
<1>5. ASSUME NEW u \in User, Fpass(u)
      PROVE  /\ phase = "session" /\ UNCHANGED <<tree, config, junk, phase>>
             /\ user' \in User \cup {Empty} /\ Good(at')
  <2>1. phase = "session" /\ UNCHANGED <<tree, config, junk, phase, at>> /\ user' = u
    BY <1>5 DEF Fpass
  <2> QED
    BY <1>1, <2>1
<1>6. ASSUME NEW path \in Paths, Fcwd(path)
      PROVE  /\ phase = "session" /\ UNCHANGED <<tree, config, junk, phase>>
             /\ user' \in User \cup {Empty} /\ Good(at')
  <2>1. /\ phase = "session" /\ UNCHANGED <<tree, config, junk, phase, user>>
        /\ at' = ChangeDir(at, path).at
    BY <1>6 DEF Fcwd, LoggedIn, Stay, Moved
  <2>2. path \in Seq(Names)
    BY PathType
  <2> QED
    BY <2>1, <2>2, MovesGood DEF Facts
<1>7. ASSUME NEW path \in Paths, Flist(path) \/ FlistFails(path)
      PROVE  /\ phase = "session" /\ UNCHANGED <<tree, config, junk, phase>>
             /\ user' \in User \cup {Empty} /\ Good(at')
  <2> DEFINE dir == IsDir(at, path)
             r == ChangeDir(dir.at, path)
             back == ChangeDir(r.at, CurrentDir(at))
             x == GetFileInfo(dir.at, path)
  <2>1. /\ phase = "session" /\ UNCHANGED <<tree, config, junk, phase, user>>
        /\ at' \in {r.at, back.at, x.at}
    BY <1>7 DEF Flist, FlistFails, LoggedIn, Stay, ListDir, ListFile
  <2>2. Good(r.at) /\ Good(back.at) /\ Good(x.at)
    BY <2>1, ListGood
  <2> HIDE DEF r, back, x, dir
  <2>3. Good(at')
    BY <2>1, <2>2, Zenon
  <2> QED
    BY <2>1, <2>3 DEF Facts
<1>8. ASSUME NEW path \in FilePaths, Fretr(path) \/ Fstor(path)
      PROVE  /\ phase = "session" /\ UNCHANGED <<tree, config, junk, phase>>
             /\ user' \in User \cup {Empty} /\ Good(at')
  <2> DEFINE x == Retrieval(at, path).at
             y == Storage(at, path).at
  <2>1. /\ phase = "session" /\ UNCHANGED <<tree, config, junk, phase, user>>
        /\ at' = x \/ at' = y
    BY <1>8 DEF Fretr, Fstor, LoggedIn, Stay
  <2>2. Kept(x, at) /\ Kept(y, at)
    BY <1>1, <2>1, RetrievalKept, StorageKept
  <2> HIDE DEF x, y
  <2> QED
    BY <1>1, <2>1, <2>2 DEF Facts, Kept
<1> QED
  BY <1>3, <1>4, <1>5, <1>6, <1>7, <1>8 DEF Session

LEMMA SessionFacts == Facts /\ Session => Facts'
<1> SUFFICES ASSUME Facts, Session PROVE Facts'
  OBVIOUS
<1>1. /\ phase = "session" /\ UNCHANGED <<tree, config, junk, phase>>
      /\ user' \in User \cup {Empty} /\ Good(at')
  BY SessionGood
<1>2. Good(at)'
  BY <1>1 DEF Good, Steady, FoundAgain, PlaceOK, Phys
<1> QED
  BY <1>1, <1>2 DEF Facts, TreeOK

LEMMA NextFacts == Facts /\ [Next]_vars => Facts'
<1> SUFFICES ASSUME Facts, [Next]_vars PROVE Facts'
  OBVIOUS
<1>1. Next => ReloadConfigFile \/ Fork \/ Session
  BY DEF Next, Session
<1>2. CASE UNCHANGED vars
  BY <1>2 DEF vars, Facts, TreeOK, Good, Steady, FoundAgain, PlaceOK, Phys
<1> QED
  BY <1>1, <1>2, ReloadFacts, ForkFacts, SessionFacts

\* The tree, the place and the parts of the state are what they should be, whatever
\* vfs.cfg holds and however the user moves (VFS.cpp: LoadConfigFile, ChangeDir).
THEOREM PlaceInvariant == Spec => []PlaceInv
<1>1. Spec => []Facts
  BY InitFacts, NextFacts, PTL DEF Spec
<1>2. Facts => PlaceInv
  BY FactsArePlaceInv
<1> QED
  BY <1>1, <1>2, PTL

\* The tree stays closed upwards, and the place stays in it.
THEOREM TypeCorrect == Spec => []TypeOK
<1>1. PlaceInv => TypeOK
  BY DEF PlaceInv
<1> QED
  BY <1>1, PlaceInvariant, PTL

\* The check of CurrentDir (VFS.cpp:817-824) never fails: where the user is on the disk
\* begins like the directory of the node, by whatever links and commands he came there.
THEOREM NodeOwns == Spec => []NodeOwnsDir
<1>1. Facts => NodeOwnsDir
  BY PlaceOKIs DEF Facts, Good, NodeOwnsDir
<1>2. PlaceInv => NodeOwnsDir
  BY <1>1, FactsArePlaceInv
<1> QED
  BY <1>2, PlaceInvariant, PTL

\* Whatever files vfs.cfg the server reads, the tree is the one that the last of them
\* describes up to its first mistake (VFS.cpp:162-371, 484-499).
THEOREM TreeConfigured == Spec => []TreeAsConfigured
<1> DEFINE D == AsDescribed(tree, config)
<1>1. Init => D
  <2> SUFFICES ASSUME Init PROVE D
    OBVIOUS
  <2>1. /\ config \in Configuration /\ junk \in SUBSET Right
        /\ tree = LoadConfigFile(config, <<>>, junk).tree
    BY SomeRights, VFSAssumption DEF Init
  <2> QED
    BY <2>1, LoadedIsDescribed, DiskPaths
<1>2. D /\ Facts /\ [Next]_vars => D'
  <2> SUFFICES ASSUME D, Facts, [Next]_vars PROVE D'
    OBVIOUS
  <2>1. CASE ReloadConfigFile
    <3>1. /\ config' \in Configuration /\ junk' \in SUBSET Right /\ at.cwd \in Directory
          /\ tree' = LoadConfigFile(config', at.cwd, junk').tree
      BY <2>1, SomeRights, VFSAssumption DEF ReloadConfigFile, Facts
    <3>2. AsDescribed(LoadConfigFile(config', at.cwd, junk').tree, config')
      BY <3>1, LoadedIsDescribed
    <3> QED
      BY <3>1, <3>2
  <2>2. CASE Fork \/ UNCHANGED vars
    BY <2>2 DEF Fork, vars
  <2>3. CASE Session
    BY <2>3, SessionGood
  <2> QED
    BY <2>1, <2>2, <2>3 DEF Next, Session
<1>3. D => TreeAsConfigured
  BY DescribedIs
<1>4. Spec => []Facts
  BY InitFacts, NextFacts, PTL DEF Spec
<1> QED
  BY <1>1, <1>2, <1>3, <1>4, PTL DEF Spec

\* current_node, current_dir and the working directory tell the same place after any
\* commands: the checks at VFS.cpp:817-824 and 855-862.
THEOREM PlaceIsConsistent == Spec => []PlaceConsistent
<1>1. PlaceInv => DirIsCwd
  BY DEF PlaceInv
<1> QED
  BY <1>1, PlaceInvariant, NodeOwns, PTL DEF PlaceConsistent

-----------------------------------------------------------------------------
(***************************************************************************)
(* Where "." leads.                                                        *)
(***************************************************************************)
\* A path of one name.
LEMMA OnePart ==
  ASSUME TreeOK(tree), NEW p \in Places, NEW n \in Names, n # Empty
  PROVE  ChangeDir(p, <<n>>) = Arrived(p, FollowLink(SimpleCd(p, n)))
<1> DEFINE path == <<n>>
<1>1. path \in Seq(Names) /\ Len(path) = 1 /\ path[1] = n /\ path # <<>>
  BY OneName
<1>2. CutPathIntoParts(path) = path
  BY <1>1 DEF CutPathIntoParts, Last
<1>3. ~BadPath(path)
  <2>1. ToSet(path) = {path[i] : i \in 1..1}
    BY <1>1 DEF ToSet
  <2>2. Empty \notin ToSet(path)
    <3> HIDE DEF path
    <3> QED
      BY <1>1, <2>1
  <2> QED
    BY <1>2, <2>2 DEF BadPath
<1>4. Walked(p, path) = Go(Done(p), n)
  <2> HIDE DEF path
  <2>1. PICK c : /\ Walked(p, path) = c[Len(path)] /\ c[0] = Done(p)
                 /\ \A i \in 1..Len(path) : c[i] = Go(c[i - 1], path[i])
    BY <1>1, WalkedIs
  <2>2. c[1] = Go(c[1 - 1], path[1])
    BY <1>1, <2>1
  <2> QED
    BY <1>1, <2>1, <2>2, SMTT(30)
<1>5. Done(p).ret = 1 /\ Done(p).at = p
  BY DoneType
<1> HIDE DEF path
<1>6. ChangeDir(p, path) = Arrived(p, Go(Done(p), n))
  BY <1>2, <1>3, <1>4 DEF ChangeDir
<1> QED
  BY <1>5, <1>6 DEF Go, path

LEMMA DotLeads ==
  ASSUME TreeOK(tree), NEW p, Good(p)
  PROVE  ChangeDir(p, <<".">>) = Done(Refresh(p))
<1> DEFINE q == Refresh(p)
<1>1. p \in Places /\ PlaceOK(p)
  BY PlaceOKIs DEF Good
<1>2. "." \in Names /\ "." # Empty /\ "." # ".."
  BY Zenon DEF Names, Empty
<1>3. ChangeDir(p, <<".">>) = Arrived(p, FollowLink(SimpleCd(p, ".")))
  BY <1>1, <1>2, OnePart
<1>4. SimpleCd(p, ".") = Done(q)
  BY <1>2 DEF SimpleCd
<1>5. q \in Places /\ PlaceOK(q)
  BY <1>1, RefreshType
<1> HIDE DEF q
<1>6. Done(q).ret = 1 /\ Done(q).at = q
  BY <1>5, DoneType
<1>7. FollowLink(Done(q)) = Done(q)
  BY <1>5, <1>6, PlaceOKIs DEF FollowLink, Text
<1>8. Arrived(p, Done(q)) = Done(q)
  BY <1>6 DEF Arrived
<1> QED
  BY <1>3, <1>4, <1>7, <1>8 DEF q

LEMMA DotIsWhere ==
  ASSUME NEW p, Good(p), FoundAgain(p), CanEnter(Where(p))
  PROVE  Refresh(p).cwd = Where(p)
<1>1. p \in Places /\ PlaceOK(p)
  BY PlaceOKIs DEF Good
<1>2. CASE p.dir = Here
  <2>1. Where(p) = Phys(p) /\ Phys(p) \in Enterable /\ Phys(p) # NoDir
    BY <1>2, DiskAssumption DEF Where, CanEnter, Enterable
  <2>2. Refresh(p) = Chdir(p, Phys(p))
    BY <1>2, <2>1 DEF Refresh
  <2> QED
    BY <1>1, <2>1, <2>2, ChdirType
<1>3. CASE p.dir # Here
  <2> DEFINE q == Refresh(p)
  <2>1. q.node = p.node /\ q.dir = p.dir /\ Steady(q)
    BY <1>1, RefreshType, RefreshSteady
  <2> HIDE DEF q
  <2>2. q.cwd = q.dir
    BY <1>3, <2>1 DEF Steady, FoundAgain, Phys
  <2> QED
    BY <1>3, <2>1, <2>2 DEF Where, q
<1> QED
  BY <1>2, <1>3

\* LIST and RETR look at the same record of an entry, though one takes its absolute name
\* and the other its name in the working directory that CWD "." leads to
\* (VFS.cpp: NextFile, GetFileInfo).
THEOREM ListAgrees == Spec => []ListAgreesWithGet
<1>1. ASSUME Facts PROVE ListAgreesWithGet
  <2> SUFFICES ASSUME LoggedIn, FoundAgain(at), NEW s \in DOMAIN Listing(at)
               PROVE  LET info == GetFileInfo(at, <<s>>)
                      IN  info.ret = 1 /\ Info(info.key) = Listing(at)[s]
    BY DEF ListAgreesWithGet
  <2> DEFINE info == GetFileInfo(at, <<s>>)
             q == Refresh(at)
             names == {Last(x) : x \in Entries(Where(at))}
  <2>1. TreeOK(tree) /\ Good(at) /\ at \in Places
    BY <1>1, PlaceOKIs DEF Facts, Good, LoggedIn
  <2>2. CanEnter(Where(at)) /\ Listing(at)[s] = Info(Target(Where(at), s))
    <3>1. CASE CanEnter(Where(at))
      <4>1. Listing(at) = [n \in names |-> Info(Target(Where(at), n))]
        BY <3>1 DEF Listing
      <4> HIDE DEF names
      <4>2. s \in names
        BY <4>1
      <4> QED
        BY <3>1, <4>1, <4>2
    <3>2. CASE ~CanEnter(Where(at))
      <4>1. Listing(at) = <<>>
        BY <3>2 DEF Listing
      <4>2. DOMAIN <<>> = {}
        OBVIOUS
      <4> QED
        BY <4>1, <4>2
    <3> QED
      BY <3>1, <3>2
  <2>3. q \in Places /\ q.cwd = Where(at)
    BY <2>1, <2>2, RefreshType, DotIsWhere
  <2>4. Dirname(<<s>>) = <<".">> /\ Last(<<s>>) = s
    BY DEF Dirname, Last
  <2> HIDE DEF q
  <2>5. ChangeDir(at, Dirname(<<s>>)) = Done(q)
    BY <2>1, <2>4, DotLeads DEF q
  <2>6. Done(q).ret = 1 /\ Done(q).at = q
    BY <2>3, DoneType
  <2>7. info.ret = 1 /\ info.key = Target(q.cwd, s)
    BY <2>4, <2>5, <2>6 DEF GetFileInfo, InfoFrom
  <2> QED
    BY <2>2, <2>3, <2>7
<1>2. PlaceInv => ListAgreesWithGet
  BY <1>1, FactsArePlaceInv
<1> QED
  BY <1>2, PlaceInvariant, PTL

-----------------------------------------------------------------------------
(***************************************************************************)
(* The way back along the path that PWD shows.                             *)
(***************************************************************************)
Special == {".", "..", "/", Empty}
Plain(s) == \A i \in 1..Len(s) : s[i] \notin Special

\* No virtual directory is called "." or ".." (CutPathIntoParts makes no part "/" or "" of
\* a virtual path, except a "/" at its beginning).
PlainNames ==
  \A conf \in Configs : \A n \in 1..Len(conf.lines) : Plain(conf.lines[n].virt)

LEMMA PlainPart ==
  ASSUME NEW B, NEW s \in Seq(B), Plain(s), NEW n \in 0..Len(s)
  PROVE  Plain(SubSeq(s, 1, n))
<1>1. /\ Len(SubSeq(s, 1, n)) = n /\ \A i \in 1..n : SubSeq(s, 1, n)[i] = s[i]
  BY PrefixOf
<1>2. \A i \in 1..n : i \in 1..Len(s)
  BY LenProperties
<1> QED
  BY <1>1, <1>2 DEF Plain

LEMMA PlainNodes ==
  ASSUME Facts, PlainNames, AsDescribed(tree, config), NEW v \in DOMAIN tree
  PROVE  Plain(v)
<1>1. config \in Configuration /\ config \in Configs
  BY VFSAssumption DEF Facts
<1>2. PICK k \in 0..Len(config.lines) : DescribedBy(tree, config.lines, k)
  BY DEF AsDescribed
<1>3. CASE v = <<>>
  BY <1>3 DEF Plain
<1>4. ASSUME NEW n \in 1..k, NEW i \in 1..Len(config.lines[n].virt),
             v = SubSeq(config.lines[n].virt, 1, i)
      PROVE  Plain(v)
  <2>1. config.lines \in Seq(ConfigLine)
    BY <1>1 DEF Configuration
  <2>2. n \in 1..Len(config.lines)
    BY <2>1, LenProperties
  <2>3. config.lines[n] \in ConfigLine
    BY <2>1, <2>2, ElementOfSeq
  <2>4. Plain(config.lines[n].virt)
    BY <1>1, <2>2, Zenon DEF PlainNames
  <2>5. config.lines[n].virt \in Seq(STRING)
    BY <2>3 DEF ConfigLine
  <2>6. i \in 0..Len(config.lines[n].virt)
    BY <2>5, LenProperties
  <2> QED
    BY <1>4, <2>4, <2>5, <2>6, PlainPart
<1>5. v = <<>> \/ \E n \in 1..k : \E i \in 1..Len(config.lines[n].virt) :
                    v = SubSeq(config.lines[n].virt, 1, i)
  <2>1. v \in {<<>>} \cup UNION {{SubSeq(w, 1, i) : i \in 1..Len(w)} :
                                 w \in {config.lines[n].virt : n \in 1..k}}
    BY <1>2 DEF DescribedBy
  <2> QED
    BY <2>1
<1> QED
  BY <1>3, <1>4, <1>5

LEMMA PlainDirs ==
  ASSUME NEW d \in Directory
  PROVE  Plain(d)
<1>1. d \in Seq(STRING) /\ ToSet(d) \cap Special = {}
  BY DiskPaths, VFSAssumption DEF Special
<1>2. \A i \in 1..Len(d) : d[i] \in ToSet(d)
  BY <1>1, LenProperties DEF ToSet
<1> QED
  BY <1>1, <1>2 DEF Plain

LEMMA PrefixBegins ==
  ASSUME NEW d \in Seq(STRING), NEW e \in Seq(STRING), IsPrefix(d, e)
  PROVE  StringPrefix(d, e)
<1> SUFFICES ASSUME d # <<>> PROVE StringPrefix(d, e)
  BY DEF StringPrefix
<1> DEFINE n == Len(d)
<1>1. n \in Nat \ {0} /\ n \in 1..n /\ n - 1 \in 0..n /\ n \in 0..n /\ n \in 0..Len(d) /\ n - 1 \in 0..Len(d)
  BY LenProperties, EmptySeq
<1>2. n <= Len(e) /\ n - 1 <= Len(e) /\ SubSeq(d, 1, n) = SubSeq(e, 1, n)
  BY LenProperties DEF IsPrefix
<1> HIDE DEF n
<1>3. Agree(d, e, n)
  BY <1>1, <1>2, PrefixEq
<1>4. Agree(d, e, n - 1) /\ d[n] = e[n]
  BY <1>1, <1>3 DEF Agree
<1>5. SubSeq(d, 1, n - 1) = SubSeq(e, 1, n - 1)
  BY <1>1, <1>2, <1>4, PrefixEq
<1> QED
  BY <1>2, <1>4, <1>5 DEF StringPrefix, Front, Last, n

\* The parts of such a path are those that CWD follows.
LEMMA UsualPath ==
  ASSUME NEW c \in Seq(Names), c # <<>>, \A i \in 1..Len(c) : c[i] # Empty
  PROVE  CutPathIntoParts(c) = c /\ ~BadPath(c)
<1>1. Len(c) \in 1..Len(c)
  BY LenProperties, EmptySeq
<1>2. CutPathIntoParts(c) = c
  BY <1>1 DEF CutPathIntoParts, Last
<1>3. Empty \notin ToSet(c)
  BY DEF ToSet
<1> QED
  BY <1>2, <1>3 DEF BadPath

\* From a node to the one below it, if the user may go there.
LEMMA DownTheTree ==
  ASSUME TreeOK(tree), NEW r \in Results, NEW v \in DOMAIN tree, Plain(v), NEW i \in 1..Len(v),
         r.ret = 1 => r.at.dir = Here /\ r.at.node = SubSeq(v, 1, i - 1),
         Go(r, v[i]).ret = 1
  PROVE  Go(r, v[i]).at.dir = Here /\ Go(r, v[i]).at.node = SubSeq(v, 1, i)
<1> DEFINE p == r.at
           s == v[i]
           child == Append(p.node, s)
           m == SimpleCd(p, s)
<1>1. r.ret = 1 /\ p \in Places /\ Go(r, s) = FollowLink(m)
  BY DEF Go, Results
<1>2. p.dir = Here /\ p.node = SubSeq(v, 1, i - 1)
  BY <1>1
<1>3. v \in Seq(STRING) /\ i \in 0..Len(v) /\ i - 1 \in 0..Len(v) /\ s \notin Special
  BY LenProperties DEF TreeOK, Plain
<1>4. child = SubSeq(v, 1, i)
  BY <1>2, <1>3, LenProperties
<1>5. child \in DOMAIN tree
  BY <1>3, <1>4, PrefixClosed
<1> HIDE DEF p, s, child
<1>6. m = IF Has(tree[child], "read") THEN Done(Enter(p, child)) ELSE Fail(p, -2)
  BY <1>2, <1>3, <1>5 DEF SimpleCd, Special, child
<1>7. Enter(p, child) \in Places /\ Enter(p, child).dir = Here /\ Enter(p, child).node = child
  BY <1>1, <1>2, <1>5, EnterType
<1>8. /\ Done(Enter(p, child)).ret = 1 /\ Done(Enter(p, child)).at = Enter(p, child)
      /\ Fail(p, -2).ret = -2 /\ -2 # 1
  BY <1>7, DoneType DEF Fail
<1> HIDE DEF m
<1>9. m.ret # 1 \/ m.at.dir = Here
  BY <1>6, <1>7, <1>8
<1>10. FollowLink(m) = m
  BY <1>9 DEF FollowLink
<1>11. m.ret = 1
  BY <1>1, <1>10 DEF s
<1>12. m.at.dir = Here /\ m.at.node = child
  BY <1>6, <1>7, <1>8, <1>11
<1> QED
  BY <1>1, <1>4, <1>10, <1>12 DEF s

\* From a directory of the disk to the one below it.
LEMMA PhysicalDown ==
  ASSUME NEW p \in Places, NEW s, s \notin Special, Append(p.cwd, s) \in Directory,
         PhysicalCd(p, s).ret = 1
  PROVE  LET q == PhysicalCd(p, s).at
         IN  q \in Places /\ q.node = p.node /\ q.dir = Append(p.cwd, s) /\ q.cwd = q.dir
<1> DEFINE e == Append(p.cwd, s)
           q == [p EXCEPT !.cwd = e, !.dir = e]
           r == PhysicalCd(p, s)
<1>1. p.cwd \in Directory
  BY DEF Places
<1>2. Step(p.cwd, s) = e
  <2>1. p.cwd # NoDir /\ e \notin DOMAIN Link
    BY <1>1, DiskAssumption
  <2> HIDE DEF e
  <2>2. Step(p.cwd, s) = IF e \in DOMAIN Link THEN Link[e] ELSE IF e \in Directory THEN e ELSE NoDir
    BY <2>1 DEF Step, Special, e
  <2> QED
    BY <2>1, <2>2 DEF e
<1> HIDE DEF e
<1>3. r \in {Fail(p, -2), Fail(p, -3)} \/ (CanEnter(e) /\ r = Done(q))
  BY <1>2 DEF PhysicalCd, Special
<1>4. Fail(p, -2).ret = -2 /\ Fail(p, -3).ret = -3 /\ -2 # 1 /\ -3 # 1
  BY DEF Fail
<1> HIDE DEF r
<1>5. CanEnter(e) /\ r = Done(q)
  BY <1>3, <1>4 DEF r
<1>6. q \in Places /\ q.node = p.node /\ q.dir = e /\ q.cwd = e
  BY <1>5 DEF Places, CanEnter, Enterable
<1> HIDE DEF q
<1>7. r.at = q
  BY <1>5, <1>6, DoneType
<1> QED
  BY <1>6, <1>7 DEF e, r

\* After n names of the directory where p is.
On(q, p, n) ==
  /\ q \in Places /\ q.node = p.node
  /\ IF n = Len(Phys(p)) THEN q.dir = Here ELSE q.dir = SubSeq(p.dir, 1, n) /\ q.cwd = q.dir

LEMMA DownTheDisk ==
  ASSUME TreeOK(tree), NEW p, Good(p), OnPath(p), p.dir # Here,
         NEW n \in Len(Phys(p))..(Len(p.dir) - 1), NEW r \in Results,
         r.ret = 1 => On(r.at, p, n), Go(r, p.dir[n + 1]).ret = 1
  PROVE  On(Go(r, p.dir[n + 1]).at, p, n + 1)
<1> DEFINE d == Phys(p)
           s == p.dir[n + 1]
           e == SubSeq(p.dir, 1, n + 1)
           q == r.at
           m == SimpleCd(q, s)
           f == IF q.dir = Here THEN [q EXCEPT !.cwd = Phys(q)] ELSE q
<1>1. /\ p.dir \in Directory /\ p.dir \in Seq(STRING) /\ d \in Seq(STRING) /\ d # NoDir
      /\ FoundAgain(p) /\ d # <<>> /\ IsPrefix(d, p.dir)
      /\ Append(p.node, p.dir[Len(d) + 1]) \notin DOMAIN tree
  <2>1. p \in Places /\ p.dir \in Directory /\ d # NoDir
    BY PlaceOKIs DEF Good, Places, Enterable
  <2>2. d \in Seq(STRING)
    BY <2>1, NodeType DEF Phys, Places
  <2> QED
    BY <2>1, <2>2, DiskPaths DEF OnPath, FoundAgain
<1>2. /\ Len(d) \in Nat /\ Len(p.dir) \in Nat /\ n \in Nat /\ n >= Len(d)
      /\ n \in 0..Len(p.dir) /\ n + 1 \in 1..Len(p.dir) /\ n + 1 \in 0..Len(p.dir) /\ Len(d) # 0
      /\ n + 1 # Len(d)
  BY <1>1, LenProperties, EmptySeq
<1> HIDE DEF d
<1>3. s \notin Special
  BY <1>1, <1>2, PlainDirs DEF Plain
<1>4. e \in Directory /\ e \in Seq(STRING) /\ Len(e) = n + 1 /\ e = Append(SubSeq(p.dir, 1, n), s)
  <2>1. e \in Directory
    BY <1>1, <1>2, PrefixesOnDisk
  <2>2. e \in Seq(STRING) /\ Len(e) = n + 1
    BY <1>1, <1>2, PrefixOf
  <2>3. e = Append(SubSeq(p.dir, 1, n), s)
    BY <1>1, <1>2
  <2> QED
    BY <2>1, <2>2, <2>3
<1>5. StringPrefix(d, e)
  <2>1. Len(d) <= n + 1 /\ SubSeq(d, 1, Len(d)) = SubSeq(p.dir, 1, Len(d)) /\ Len(d) <= Len(p.dir)
        /\ Len(d) \in 0..Len(d) /\ Len(d) \in 0..Len(p.dir) /\ Len(d) <= Len(e)
    BY <1>1, <1>2, <1>4 DEF IsPrefix
  <2>2. \A k \in 1..(n + 1) : e[k] = p.dir[k]
    BY <1>1, <1>2, PrefixOf
  <2>3. Agree(d, p.dir, Len(d))
    BY <1>1, <2>1, PrefixEq
  <2>4. Agree(d, e, Len(d))
    BY <1>2, <2>1, <2>2, <2>3 DEF Agree
  <2> HIDE DEF e
  <2>5. SubSeq(d, 1, Len(d)) = SubSeq(e, 1, Len(d))
    BY <1>1, <1>4, <2>1, <2>4, PrefixEq
  <2>6. IsPrefix(d, e)
    BY <2>1, <2>5 DEF IsPrefix
  <2> QED
    BY <1>1, <1>4, <2>6, PrefixBegins
<1>6. r.ret = 1 /\ q \in Places /\ q.node = p.node /\ Go(r, s) = FollowLink(m) /\ Phys(q) = d
  BY DEF Go, On, Phys, d
<1>7. m.ret = 1 => m = PhysicalCd(f, s) /\ f \in Places /\ f.node = p.node /\ f.cwd = SubSeq(p.dir, 1, n)
  <2>1. CASE n = Len(d)
    <3>1. q.dir = Here /\ f = [q EXCEPT !.cwd = d] /\ Append(q.node, s) \notin DOMAIN tree
      BY <1>1, <1>6, <2>1 DEF On, d
    <3>2. m = IF ~CanEnter(d) THEN Fail(q, -1) ELSE PhysicalCd([q EXCEPT !.cwd = d], s)
      BY <1>1, <1>3, <1>6, <3>1 DEF SimpleCd, Special
    <3>3. Fail(q, -1).ret # 1
      BY DEF Fail
    <3> HIDE DEF m, f
    <3>4. SUFFICES ASSUME m.ret = 1
                   PROVE  m = PhysicalCd(f, s) /\ f \in Places /\ f.node = p.node
                          /\ f.cwd = SubSeq(p.dir, 1, n)
      OBVIOUS
    <3>5. d \in Directory /\ m = PhysicalCd(f, s)
      BY <3>1, <3>2, <3>3, <3>4 DEF CanEnter
    <3>6. f \in Places /\ f.node = q.node /\ f.cwd = d
      BY <1>6, <3>1, <3>5, CwdOnly
    <3>7. d = SubSeq(p.dir, 1, n)
      <4>1. SubSeq(d, 1, Len(d)) = d
        BY <1>1, WholePrefix
      <4> QED
        BY <1>1, <2>1, <4>1 DEF IsPrefix
    <3> QED
      BY <1>6, <3>5, <3>6, <3>7
  <2>2. CASE n # Len(d)
    <3>1. q.dir = SubSeq(p.dir, 1, n) /\ q.cwd = q.dir
      BY <1>6, <2>2 DEF On, d
    <3>2. q.dir \in Directory
      BY <1>1, <1>2, <3>1, PrefixesOnDisk
    <3>3. q.dir # Here
      BY <3>2, DirIsNotHere
    <3>4. m = PhysicalCd(q, s) /\ f = q
      BY <1>3, <3>3 DEF SimpleCd, Special
    <3> QED
      BY <1>6, <3>1, <3>4
  <2> QED
    BY <2>1, <2>2
<1> DEFINE x == PhysicalCd(f, s)
<1>8. m.ret = 1 => x.at \in Places /\ x.at.node = p.node /\ x.at.dir = e /\ x.at.cwd = e
  <2> SUFFICES ASSUME m.ret = 1
               PROVE  x.at \in Places /\ x.at.node = p.node /\ x.at.dir = e /\ x.at.cwd = e
    OBVIOUS
  <2>1. m = x /\ f \in Places /\ f.node = p.node /\ f.cwd = SubSeq(p.dir, 1, n)
    BY <1>7
  <2> HIDE DEF m, f, e, s
  <2>2. Append(f.cwd, s) \in Directory /\ x.ret = 1 /\ Append(f.cwd, s) = e
    BY <1>4, <2>1
  <2> QED
    BY <1>3, <2>1, <2>2, PhysicalDown
<1> HIDE DEF x, f, m, e, s
<1>9. m.ret # 1 => FollowLink(m) = m
  BY DEF FollowLink
<1>10. m.ret = 1
  BY <1>6, <1>9 DEF s
<1>11. m = x /\ m.at \in Places /\ m.at.node = p.node /\ m.at.dir = e /\ m.at.cwd = e
  BY <1>7, <1>8, <1>10 DEF x
<1>12. FollowLink(m) = m
  <2>1. Text(Phys(m.at)) = d
    BY <1>1, <1>11 DEF Text, Phys, d
  <2> QED
    BY <1>5, <1>11, <2>1 DEF FollowLink
<1>13. On(m.at, p, n + 1)
  BY <1>2, <1>11 DEF On, e, d
<1> QED
  BY <1>6, <1>12, <1>13 DEF s

\* What PWD shows of the disk.
Below(p) == IF p.dir = Here THEN <<>> ELSE SubSeq(p.dir, Len(Phys(p)) + 1, Len(p.dir))

LEMMA ShownPath ==
  ASSUME TreeOK(tree), NEW p, Good(p), OnPath(p)
  PROVE  /\ CurrentDir(p) = <<"/">> \o p.node \o Below(p)
         /\ Below(p) \in Seq(STRING)
         /\ p.dir = Here => Len(Below(p)) = 0
         /\ p.dir # Here => /\ p.dir \in Directory /\ Phys(p) \in Seq(STRING)
                            /\ Len(Phys(p)) < Len(p.dir)
                            /\ Len(Below(p)) = Len(p.dir) - Len(Phys(p))
                            /\ \A i \in 1..Len(Below(p)) : Below(p)[i] = p.dir[Len(Phys(p)) + i]
<1>1. CASE p.dir = Here
  <2>1. Below(p) = <<>>
    BY <1>1 DEF Below
  <2>2. CurrentDir(p) = <<"/">> \o p.node \o <<>>
    BY <1>1 DEF CurrentDir
  <2> QED
    BY <1>1, <2>1, <2>2
<1>2. CASE p.dir # Here
  <2> DEFINE d == Phys(p)
             e == p.dir
  <2>1. /\ e \in Directory /\ e \in Seq(STRING) /\ d \in Seq(STRING) /\ d # NoDir
        /\ d # <<>> /\ IsPrefix(d, e) /\ e # d
    <3>1. p \in Places /\ e \in Directory /\ d # NoDir
      BY <1>2, PlaceOKIs DEF Good, Places, Enterable
    <3>2. d \in Seq(STRING)
      BY <3>1, NodeType DEF Phys, Places
    <3> QED
      BY <1>2, <3>1, <3>2, DiskPaths DEF OnPath, FoundAgain
  <2>2. Text(Phys(p)) = d
    BY <2>1 DEF Text
  <2>3. CurrentDir(p) = <<"/">> \o p.node \o Below(p)
    BY <1>2, <2>1, <2>2 DEF CurrentDir, Below
  <2>4. Len(d) \in Nat /\ Len(e) \in Nat /\ Len(d) < Len(e)
    <3>1. Len(d) \in Nat /\ Len(e) \in Nat /\ Len(d) <= Len(e) /\ SubSeq(d, 1, Len(d)) = SubSeq(e, 1, Len(d))
      BY <2>1, LenProperties DEF IsPrefix
    <3>2. SubSeq(d, 1, Len(d)) = d /\ SubSeq(e, 1, Len(e)) = e
      BY <2>1, WholePrefix
    <3>3. Len(d) # Len(e)
      BY <2>1, <3>1, <3>2
    <3> QED
      BY <3>1, <3>3
  <2> HIDE DEF d, e
  <2>5. /\ SubSeq(e, Len(d) + 1, Len(e)) \in Seq(STRING)
        /\ Len(SubSeq(e, Len(d) + 1, Len(e))) = Len(e) - Len(d)
        /\ \A i \in 1..(Len(e) - Len(d)) : SubSeq(e, Len(d) + 1, Len(e))[i] = e[Len(d) + i]
    BY <2>1, <2>4
  <2>6. Below(p) = SubSeq(e, Len(d) + 1, Len(e))
    BY <1>2 DEF Below, d, e
  <2> QED
    BY <1>2, <2>1, <2>3, <2>4, <2>5, <2>6 DEF d, e
<1> QED
  BY <1>1, <1>2

LEMMA Joined ==
  ASSUME NEW B, NEW x \in B, NEW a \in Seq(B), NEW b \in Seq(B)
  PROVE  LET c == <<x>> \o a \o b
         IN  /\ c \in Seq(B) /\ Len(c) = 1 + Len(a) + Len(b) /\ c[1] = x
             /\ \A i \in 1..Len(a) : c[1 + i] = a[i]
             /\ \A i \in 1..Len(b) : c[1 + Len(a) + i] = b[i]
<1> DEFINE f == <<x>> \o a
           g == f \o b
<1>1. Len(a) \in Nat /\ Len(b) \in Nat
  BY LenProperties
<1>2. <<x>> \in Seq(B) /\ Len(<<x>>) = 1 /\ <<x>>[1] = x
  OBVIOUS
<1>3. f \in Seq(B) /\ Len(f) = 1 + Len(a)
      /\ \A i \in 1..(1 + Len(a)) : f[i] = IF i <= 1 THEN <<x>>[i] ELSE a[i - 1]
  BY <1>2, ConcatProperties
<1>4. f[1] = x /\ \A i \in 1..Len(a) : f[1 + i] = a[i]
  <2>1. 1 \in 1..(1 + Len(a)) /\ \A i \in 1..Len(a) : 1 + i \in 1..(1 + Len(a)) /\ ~(1 + i <= 1)
        /\ (1 + i) - 1 = i
    BY <1>1
  <2> HIDE DEF f
  <2> QED
    BY <1>2, <1>3, <2>1
<1> HIDE DEF f
<1>5. g \in Seq(B) /\ Len(g) = Len(f) + Len(b)
      /\ \A i \in 1..(Len(f) + Len(b)) : g[i] = IF i <= Len(f) THEN f[i] ELSE b[i - Len(f)]
  BY <1>3, ConcatProperties
<1> HIDE DEF g
<1>6. g[1] = f[1] /\ (\A i \in 1..Len(a) : g[1 + i] = f[1 + i])
      /\ \A i \in 1..Len(b) : g[1 + Len(a) + i] = b[i]
  <2>1. 1 \in 1..(Len(f) + Len(b)) /\ 1 <= Len(f)
    BY <1>1, <1>3
  <2>2. \A i \in 1..Len(a) : 1 + i \in 1..(Len(f) + Len(b)) /\ 1 + i <= Len(f)
    BY <1>1, <1>3
  <2>3. \A i \in 1..Len(b) : 1 + Len(a) + i \in 1..(Len(f) + Len(b)) /\ ~(1 + Len(a) + i <= Len(f))
                              /\ (1 + Len(a) + i) - Len(f) = i
    BY <1>1, <1>3
  <2> QED
    BY <1>5, <2>1, <2>2, <2>3
<1> QED
  BY <1>3, <1>4, <1>5, <1>6 DEF f, g

\* The first part leads to the root from everywhere.
LEMMA FromTheRoot ==
  ASSUME TreeOK(tree), NEW p \in Places
  PROVE  LET r == Go(Done(p), "/")
         IN  r \in Results /\ r.ret = 1 /\ r.at.dir = Here /\ r.at.node = <<>>
<1> DEFINE h == [p EXCEPT !.dir = Here]
           q == Enter(h, <<>>)
<1>1. <<>> \in DOMAIN tree
  BY DEF TreeOK, Places
<1>2. Done(p).ret = 1 /\ Done(p).at = p
  BY DoneType
<1>3. SimpleCd(p, "/") = Done(q)
  BY DEF SimpleCd
<1>4. h \in Places /\ h.dir = Here
  BY DEF Places
<1> HIDE DEF h
<1>5. q \in Places /\ q.dir = Here /\ q.node = <<>>
  BY <1>1, <1>4, EnterType
<1> HIDE DEF q
<1>6. Done(q) \in Results /\ Done(q).ret = 1 /\ Done(q).at = q
  BY <1>5, DoneType
<1>7. FollowLink(Done(q)) = Done(q)
  BY <1>5, <1>6 DEF FollowLink
<1>8. Go(Done(p), "/") = Done(q)
  BY <1>2, <1>3, <1>7 DEF Go
<1> QED
  BY <1>5, <1>6, <1>8

LEMMA WalkedType ==
  ASSUME TreeOK(tree), NEW p \in Places, NEW n \in Nat, NEW parts, NEW w, w[0] = Done(p),
         \A i \in 1..n : w[i] = Go(w[i - 1], parts[i])
  PROVE  \A i \in 0..n : w[i] \in Results
<1> DEFINE S == {i \in 0..n : w[i] \in Results}
<1>1. 0 \in S
  <2>1. 0 \in 0..n
    OBVIOUS
  <2> QED
    BY <2>1, DoneType
<1>2. ASSUME NEW i \in 1..n, i - 1 \in S PROVE i \in S
  BY <1>2, GoType
<1>3. 0..n \subseteq S
  <2> HIDE DEF S
  <2> QED
    BY <1>1, <1>2, RangeInduction
<1> QED
  BY <1>3

\* From wherever CWD sets out, it ends where the user is now.
LEMMA ShownLeads ==
  ASSUME Facts, phase = "session", PlainNames, AsDescribed(tree, config), OnPath(at),
         NEW p \in Places, ChangeDir(p, CurrentDir(at)).ret = 1
  PROVE  Same(ChangeDir(p, CurrentDir(at)).at, at)
<1> DEFINE c == CurrentDir(at)
           v == at.node
           b == Below(at)
           m == Len(v)
           n == Len(b)
<1>1. TreeOK(tree) /\ Good(at) /\ at \in Places /\ PlaceOK(at)
  BY PlaceOKIs DEF Facts, Good
<1>2. v \in DOMAIN tree /\ v \in Seq(STRING) /\ Plain(v)
  BY <1>1, PlainNodes DEF Places, TreeOK
<1>3. /\ c = <<"/">> \o v \o b /\ b \in Seq(STRING) /\ (at.dir = Here => n = 0)
      /\ at.dir # Here => /\ at.dir \in Directory /\ Phys(at) \in Seq(STRING)
                          /\ Len(Phys(at)) < Len(at.dir) /\ n = Len(at.dir) - Len(Phys(at))
                          /\ \A i \in 1..n : b[i] = at.dir[Len(Phys(at)) + i]
  BY <1>1, ShownPath
<1> HIDE DEF c, b
<1>4. m \in Nat /\ n \in Nat
  BY <1>2, <1>3, LenProperties
<1>5. /\ c \in Seq(Names) /\ Len(c) = 1 + m + n /\ c[1] = "/"
      /\ \A i \in 1..m : c[1 + i] = v[i]
      /\ \A i \in 1..n : c[1 + m + i] = b[i]
  <2>1. v \in Seq(Names) /\ b \in Seq(Names) /\ "/" \in Names
    BY <1>2, <1>3, PathNames DEF Names
  <2> HIDE DEF v
  <2> QED
    BY <1>3, <2>1, Joined
<1> HIDE DEF m, n
<1>6. Plain(b)
  <2>1. CASE at.dir = Here
    BY <1>3, <2>1 DEF Plain, n
  <2>2. CASE at.dir # Here
    <3>1. Len(Phys(at)) \in Nat /\ Len(at.dir) \in Nat
      BY <1>3, <2>2, LenProperties, DiskPaths
    <3>2. \A i \in 1..n : Len(Phys(at)) + i \in 1..Len(at.dir)
      BY <1>3, <2>2, <3>1
    <3> QED
      BY <1>3, <2>2, <3>2, PlainDirs DEF Plain, n
  <2> QED
    BY <2>1, <2>2
<1>7. CutPathIntoParts(c) = c /\ ~BadPath(c)
  <2>1. "/" # Empty
    BY Zenon DEF Empty
  <2>2. ASSUME NEW i \in 1..Len(c) PROVE c[i] # Empty
    <3>1. CASE i = 1
      BY <1>5, <2>1, <3>1
    <3>2. CASE i \in 2..(1 + m)
      <4>1. i - 1 \in 1..m /\ 1 + (i - 1) = i
        BY <1>4, <3>2
      <4>2. c[i] = v[i - 1]
        BY <1>5, <4>1
      <4> QED
        BY <1>2, <4>1, <4>2 DEF Plain, Special, m
    <3>3. CASE i \in (2 + m)..(1 + m + n)
      <4>1. i - m - 1 \in 1..n /\ 1 + m + (i - m - 1) = i
        BY <1>4, <3>3
      <4>2. c[i] = b[i - m - 1]
        BY <1>5, <4>1
      <4> QED
        BY <1>6, <4>1, <4>2 DEF Plain, Special, n
    <3> QED
      BY <1>4, <1>5, <3>1, <3>2, <3>3
  <2>3. c # <<>>
    BY <1>4, <1>5
  <2> QED
    BY <1>5, <2>2, <2>3, UsualPath
<1>8. PICK w : /\ Walked(p, c) = w[Len(c)] /\ w[0] = Done(p)
               /\ \A i \in 1..Len(c) : w[i] = Go(w[i - 1], c[i])
  <2>1. TreeOK(tree) /\ c \in Seq(Names)
    BY <1>1, <1>5
  <2> QED
    BY <2>1, WalkedIs
<1> DEFINE k == 1 + m + n
<1>9. \A i \in 0..k : w[i] \in Results
  <2>1. k \in Nat /\ Len(c) = k
    BY <1>4, <1>5
  <2> HIDE DEF k
  <2> QED
    BY <1>1, <1>8, <2>1, WalkedType
<1>10. ChangeDir(p, c) = w[k] /\ w[k].ret = 1
  <2>1. ChangeDir(p, c) = Arrived(p, w[k])
    BY <1>5, <1>7, <1>8 DEF ChangeDir
  <2>2. Arrived(p, w[k]) = IF w[k].ret = 1 THEN w[k] ELSE Fail(Return(p, w[k].at.cwd), w[k].ret)
    BY DEF Arrived
  <2>3. ChangeDir(p, c).ret = 1
    BY DEF c
  <2> HIDE DEF k
  <2>4. w[k].ret = 1
    BY <2>1, <2>2, <2>3 DEF Fail
  <2> QED
    BY <2>1, <2>2, <2>4
<1> DEFINE S == {i \in 0..m : w[i + 1].ret = 1 => w[i + 1].at.dir = Here /\ w[i + 1].at.node = SubSeq(v, 1, i)}
<1>11. 0 \in S
  <2>1. 0 \in 0..m /\ 1 \in 1..Len(c) /\ SubSeq(v, 1, 0) = <<>>
    BY <1>2, <1>4, <1>5
  <2>2. w[1] = Go(Done(p), "/")
    <3>1. w[1] = Go(w[1 - 1], c[1])
      BY <1>8, <2>1
    <3> QED
      BY <1>5, <1>8, <3>1
  <2>3. w[1].at.dir = Here /\ w[1].at.node = <<>>
    BY <1>1, <2>2, FromTheRoot
  <2>4. 0 + 1 = 1
    OBVIOUS
  <2>5. w[0 + 1].at.dir = Here /\ w[0 + 1].at.node = SubSeq(v, 1, 0)
    BY <2>1, <2>3, <2>4, Zenon
  <2> QED
    BY <2>1, <2>5, Zenon
<1>12. ASSUME NEW i \in 1..m, i - 1 \in S PROVE i \in S
  <2>1. /\ i \in 0..m /\ i + 1 \in 1..Len(c) /\ (i + 1) - 1 = i /\ 1 + i = i + 1 /\ (i - 1) + 1 = i
        /\ i \in 0..k
    BY <1>4, <1>5
  <2>2. w[i].ret = 1 => w[i].at.dir = Here /\ w[i].at.node = SubSeq(v, 1, i - 1)
    BY <1>12, <2>1
  <2>3. w[i + 1] = Go(w[i], v[i])
    BY <1>5, <1>8, <2>1
  <2>4. w[i] \in Results
    BY <1>9, <2>1
  <2> DEFINE r == w[i]
  <2> HIDE DEF r
  <2>5. Go(r, v[i]).ret = 1 => Go(r, v[i]).at.dir = Here /\ Go(r, v[i]).at.node = SubSeq(v, 1, i)
    BY <1>1, <1>2, <2>2, <2>4, DownTheTree DEF r, m
  <2> QED
    BY <2>1, <2>3, <2>5 DEF r
<1>13. m \in S
  <2>1. 0..m \subseteq S
    <3> HIDE DEF S, m
    <3> QED
      BY <1>4, <1>11, <1>12, RangeInduction
  <2>2. m \in 0..m
    BY <1>4
  <2> QED
    BY <2>1, <2>2
<1>14. w[m + 1].ret = 1 => w[m + 1].at.dir = Here /\ w[m + 1].at.node = v
  <2>1. SubSeq(v, 1, m) = v
    BY <1>2, WholePrefix DEF m
  <2> QED
    BY <1>13, <2>1
<1>15. CASE at.dir = Here
  <2>1. k = m + 1
    BY <1>3, <1>4, <1>15
  <2> HIDE DEF k
  <2> QED
    BY <1>10, <1>14, <1>15, <2>1 DEF Same, c
<1>16. CASE at.dir # Here
  <2> DEFINE l == Len(Phys(at))
             e == Len(at.dir)
             T == {j \in 0..n : w[m + 1 + j].ret = 1 => On(w[m + 1 + j].at, at, l + j)}
  <2>0. at.dir \in Seq(STRING)
    BY <1>3, <1>16, DiskPaths
  <2>1. l \in Nat /\ e \in Nat /\ l < e /\ n = e - l
    BY <1>3, <1>16, <2>0, LenProperties DEF n
  <2> HIDE DEF l, e
  <2>2. 0 \in T
    <3>1. 0 \in 0..n /\ m + 1 + 0 = m + 1 /\ l + 0 = l /\ m + 1 \in 0..k
      BY <1>4, <2>1
    <3>2. w[m + 1].at \in Places
      BY <1>9, <3>1 DEF Results
    <3>3. w[m + 1].ret = 1 => On(w[m + 1].at, at, l)
      BY <1>14, <3>2 DEF On, l
    <3> QED
      BY <3>1, <3>3
  <2>3. ASSUME NEW j \in 1..n, j - 1 \in T PROVE j \in T
    <3>1. /\ j \in 0..n /\ m + 1 + j \in 1..Len(c) /\ (m + 1 + j) - 1 = m + j /\ 1 + m + j = m + 1 + j
          /\ m + 1 + (j - 1) = m + j /\ m + j \in 0..k /\ l + (j - 1) \in l..(e - 1)
          /\ (l + (j - 1)) + 1 = l + j
      <4> HIDE DEF n
      <4>1. Len(c) = k /\ k = 1 + m + n
        BY <1>5 DEF k
      <4> HIDE DEF k, c, m
      <4>2. j \in Nat /\ 1 <= j /\ j <= n
        BY <1>4
      <4>3. m + 1 + j \in 1..k /\ m + j \in 0..k
        BY <1>4, <4>1, <4>2
      <4>4. l + (j - 1) \in l..(e - 1) /\ (l + (j - 1)) + 1 = l + j
        BY <1>4, <2>1, <4>2
      <4>5. /\ (m + 1 + j) - 1 = m + j /\ 1 + m + j = m + 1 + j
            /\ m + 1 + (j - 1) = m + j
        BY <1>4, <4>2
      <4> QED
        BY <4>1, <4>3, <4>4, <4>5
    <3> DEFINE r == w[m + j]
               x == l + (j - 1)
    <3>2. r.ret = 1 => On(r.at, at, x)
      BY <2>3, <3>1
    <3>3. w[m + 1 + j] = Go(r, at.dir[l + j])
      BY <1>3, <1>5, <1>8, <1>16, <3>1, ZenonT(40) DEF l
    <3>4. r \in Results /\ x \in l..(e - 1) /\ x + 1 = l + j
      BY <1>9, <3>1
    <3> HIDE DEF r, x
    <3>5. Go(r, at.dir[x + 1]).ret = 1 => On(Go(r, at.dir[x + 1]).at, at, x + 1)
      BY <1>1, <1>16, <3>2, <3>4, DownTheDisk DEF l, e
    <3> QED
      BY <3>1, <3>3, <3>4, <3>5
  <2>4. n \in T
    <3>1. 0..n \subseteq T
      <4> HIDE DEF T, n
      <4> QED
        BY <1>4, <2>2, <2>3, RangeInduction
    <3>2. n \in 0..n
      BY <1>4
    <3> QED
      BY <3>1, <3>2
  <2>5. m + 1 + n = k /\ l + n = e /\ l # e
    BY <1>4, <2>1
  <2>6. On(w[k].at, at, e)
    <3> HIDE DEF k
    <3> QED
      BY <1>10, <2>4, <2>5
  <2>7. SubSeq(at.dir, 1, e) = at.dir
    BY <2>0, WholePrefix DEF e
  <2> HIDE DEF k
  <2>8. w[k].at.node = v /\ w[k].at.dir = at.dir
    BY <2>5, <2>6, <2>7 DEF On, l
  <2> QED
    BY <1>10, <2>8 DEF Same, c
<1> QED
  BY <1>15, <1>16

\* What begins like d still does without its last name, unless it was d itself.
LEMMA FrontBelow ==
  ASSUME NEW d \in Seq(STRING), NEW e \in Seq(STRING), IsPrefix(d, e), Len(d) < Len(e),
         Front(e) # d
  PROVE  /\ Front(e) \in Seq(STRING) /\ IsPrefix(d, Front(e))
         /\ Front(e)[Len(d) + 1] = e[Len(d) + 1]
<1> DEFINE f == Front(e)
           n == Len(d)
           k == Len(e) - 1
<1>1. n \in Nat /\ k \in 0..Len(e) /\ n <= k /\ n \in 0..Len(d) /\ Len(e) \in Nat /\ e # <<>>
  BY LenProperties, EmptySeq
<1>2. f = SubSeq(e, 1, k)
  BY DEF Front
<1>3. f \in Seq(STRING) /\ Len(f) = k /\ \A i \in 1..k : f[i] = e[i]
  BY <1>1, <1>2, PrefixOf
<1>4. n <= Len(e) /\ SubSeq(d, 1, n) = SubSeq(e, 1, n)
  BY <1>1 DEF IsPrefix
<1> HIDE DEF f, k
<1>5. Agree(d, e, n)
  BY <1>1, <1>4, PrefixEq
<1>6. Agree(d, f, n)
  BY <1>1, <1>3, <1>5 DEF Agree
<1>7. SubSeq(d, 1, n) = SubSeq(f, 1, n)
  BY <1>1, <1>3, <1>6, PrefixEq
<1>8. IsPrefix(d, f)
  BY <1>1, <1>3, <1>7 DEF IsPrefix
<1>9. n < k
  <2>1. SubSeq(d, 1, n) = d
    BY WholePrefix
  <2>2. SubSeq(f, 1, k) = f
    BY <1>3, WholePrefix
  <2> QED
    BY <1>1, <1>7, <2>1, <2>2 DEF f
<1>10. n + 1 \in 1..k
  BY <1>1, <1>9 DEF k
<1> QED
  BY <1>3, <1>8, <1>10 DEF f

\* CDUP leads from a place that PWD has a path for to another.
LEMMA UpLeads ==
  ASSUME TreeOK(tree), NEW p, Good(p), OnPath(p), ChangeDir(p, <<"..">>).ret = 1
  PROVE  OnPath(ChangeDir(p, <<"..">>).at)
<1> DEFINE m == SimpleCd(p, "..")
           r == FollowLink(m)
<1>1. p \in Places /\ PlaceOK(p)
  BY PlaceOKIs DEF Good
<1>2. ChangeDir(p, <<"..">>) = Arrived(p, r)
  <2>1. ".." \in Names /\ ".." # Empty
    BY Zenon DEF Names, Empty
  <2> QED
    BY <1>1, <2>1, OnePart
<1> HIDE DEF r
<1>3. r.ret = 1 /\ ChangeDir(p, <<"..">>) = r
  <2>1. Arrived(p, r) = IF r.ret = 1 THEN r ELSE Fail(Return(p, r.at.cwd), r.ret)
    BY DEF Arrived
  <2> QED
    BY <1>2, <2>1 DEF Fail
<1> HIDE DEF m
<1>4. m.ret = 1
  BY <1>3 DEF FollowLink, r
<1>5. CASE p.dir = Here
  <2> DEFINE q == [p EXCEPT !.node = Front(p.node)]
  <2>1. m \in {Fail(p, -5), Done(q)}
    BY <1>5 DEF SimpleCd, m
  <2>2. q.dir = Here /\ Done(q).at = q /\ Fail(p, -5).ret # 1
    BY <1>1, <1>5 DEF Places, Done, Fail
  <2> HIDE DEF q
  <2>3. m.at.dir = Here
    BY <1>4, <2>1, <2>2
  <2>4. r = m
    BY <2>3 DEF FollowLink, r
  <2> QED
    BY <1>3, <2>3, <2>4 DEF OnPath
<1>6. CASE p.dir # Here
  <2> DEFINE d == Phys(p)
             e == p.dir
             q == [p EXCEPT !.cwd = Front(e), !.dir = IF Front(e) = d THEN Here ELSE Front(e)]
  <2>1. /\ e \in Directory /\ e \in Seq(STRING) /\ d \in Seq(STRING) /\ d # NoDir
        /\ d # <<>> /\ IsPrefix(d, e) /\ Len(d) < Len(e) /\ p.cwd = e
        /\ Append(p.node, e[Len(d) + 1]) \notin DOMAIN tree
    <3>1. d # NoDir
      BY <1>1, <1>6, PlaceOKIs
    <3>2. /\ e \in Directory /\ d \in Seq(STRING) /\ Len(d) < Len(e)
      BY <1>6, ShownPath
    <3>3. FoundAgain(p) /\ Append(p.node, e[Len(d) + 1]) \notin DOMAIN tree
      BY <1>6 DEF OnPath
    <3>4. d # <<>> /\ IsPrefix(d, e) /\ p.cwd = e
      BY <1>6, <3>3 DEF FoundAgain, Good, Steady
    <3> QED
      BY <3>1, <3>2, <3>3, <3>4, DiskPaths
  <2>2. Step(e, "..") = Front(e)
    <3>1. e # NoDir
      BY <2>1, DiskAssumption
    <3>2. e # <<>>
      BY <2>1, LenProperties, EmptySeq
    <3> QED
      BY <3>1, <3>2 DEF Step
  <2>3. m = PhysicalCd(p, "..")
    BY <1>6 DEF SimpleCd, m
  <2>4. m \in {Fail(p, -2), Fail(p, -3), Done(q)}
    BY <2>1, <2>2, <2>3 DEF PhysicalCd
  <2>5. q.node = p.node /\ q.dir = IF Front(e) = d THEN Here ELSE Front(e)
    BY <1>1 DEF Places
  <2> HIDE DEF q
  <2>6. Done(q).at = q /\ Fail(p, -2).ret # 1 /\ Fail(p, -3).ret # 1
    BY DEF Done, Fail
  <2>7. m.at = q
    BY <1>4, <2>4, <2>6
  <2>8. CASE q.dir = Here
    <3>1. r = m
      BY <2>7, <2>8 DEF FollowLink, r
    <3> QED
      BY <1>3, <2>7, <2>8, <3>1 DEF OnPath
  <2>9. CASE q.dir # Here
    <3>1. q.dir = Front(e) /\ Front(e) # d /\ Phys(q) = d
      BY <2>5, <2>9 DEF Phys
    <3> HIDE DEF d, e
    <3>2. Front(e) \in Seq(STRING) /\ IsPrefix(d, Front(e)) /\ Front(e)[Len(d) + 1] = e[Len(d) + 1]
      BY <2>1, <3>1, FrontBelow
    <3>3. OnPath(q)
      BY <2>1, <2>5, <3>1, <3>2 DEF OnPath, FoundAgain
    <3>4. StringPrefix(Text(Phys(q)), q.dir)
      BY <2>1, <3>1, <3>2, PrefixBegins DEF Text
    <3>5. r = m
      BY <2>7, <3>4 DEF FollowLink, r
    <3> QED
      BY <1>3, <2>7, <3>3, <3>5
  <2> QED
    BY <2>8, <2>9
<1> QED
  BY <1>5, <1>6

\* PWD shows where the user is: the way back along its answer ends there, for any disk,
\* any links, any rights and any commands before (VFS.cpp: CurrentDir, ChangeDir).
THEOREM RoundTrips ==
  ASSUME PlainNames
  PROVE  Spec => []RoundTrip
<1>1. ASSUME Facts, TreeAsConfigured PROVE RoundTrip
  <2> SUFFICES ASSUME LoggedIn, OnPath(at)
               PROVE  /\ Back.ret = 1 => Same(Back.at, at)
                      /\ ChangeDir(at, <<"..">>).ret = 1 => OnPath(ChangeDir(at, <<"..">>).at)
    BY DEF RoundTrip
  <2>1. TreeOK(tree) /\ Good(at) /\ at \in Places /\ phase = "session"
    BY <1>1, PlaceOKIs DEF Facts, Good, LoggedIn
  <2>2. AsDescribed(tree, config)
    BY <1>1, DescribedIs
  <2>3. Back.ret = 1 => Same(Back.at, at)
    BY <1>1, <2>1, <2>2, ShownLeads DEF Back
  <2>4. ChangeDir(at, <<"..">>).ret = 1 => OnPath(ChangeDir(at, <<"..">>).at)
    BY <2>1, UpLeads
  <2> QED
    BY <2>3, <2>4
<1>2. PlaceInv /\ TreeAsConfigured => RoundTrip
  BY <1>1, FactsArePlaceInv
<1> QED
  BY <1>2, PlaceInvariant, TreeConfigured, PTL

-----------------------------------------------------------------------------
(***************************************************************************)
(* An absolute path leads to the same place from everywhere: the working   *)
(* directory of a node makes no difference to what follows.                *)
(***************************************************************************)
Alike(p, q) == Same(p, q) /\ (p.dir # Here => p.cwd = q.cwd)

BothAlike(r, x) == r.ret = x.ret /\ Alike(r.at, x.at)

LEMMA PlaceParts ==
  ASSUME NEW p \in Places, NEW q \in Places, p.node = q.node, p.dir = q.dir, p.cwd = q.cwd
  PROVE  p = q
  BY DEF Places

LEMMA InNode ==
  ASSUME NEW p \in Places, NEW q \in Places, Same(p, q), p.dir = Here, NEW d
  PROVE  BothAlike(Done(Chdir(p, d)), Done(Chdir(q, d)))
<1>1. /\ Chdir(p, d) \in Places /\ Chdir(p, d).node = p.node /\ Chdir(p, d).dir = Here
      /\ Chdir(q, d) \in Places /\ Chdir(q, d).node = q.node /\ Chdir(q, d).dir = Here
  BY ChdirType DEF Same
<1>2. Done(Chdir(p, d)).ret = 1 /\ Done(Chdir(q, d)).ret = 1
      /\ Done(Chdir(p, d)).at = Chdir(p, d) /\ Done(Chdir(q, d)).at = Chdir(q, d)
  BY DEF Done
<1> QED
  BY <1>1, <1>2 DEF BothAlike, Alike, Same

LEMMA FailAlike ==
  ASSUME NEW p, NEW q, Alike(p, q), NEW n
  PROVE  BothAlike(Fail(p, n), Fail(q, n))
  BY DEF BothAlike, Fail

LEMMA AlikeSelf == \A r : BothAlike(r, r)
  BY DEF BothAlike, Alike, Same

LEMMA SimpleCdAlike ==
  ASSUME TreeOK(tree), NEW p \in Places, NEW q \in Places, Alike(p, q), NEW s
  PROVE  BothAlike(SimpleCd(p, s), SimpleCd(q, s))
<1> DEFINE child == Append(p.node, s)
<1>1. p.node = q.node /\ p.dir = q.dir /\ p.node \in DOMAIN tree /\ Phys(p) = Phys(q)
  BY DEF Alike, Same, Places, Phys
<1>2. CASE p.dir # Here
  <2>1. p = q
    BY <1>1, <1>2, PlaceParts DEF Alike
  <2> QED
    BY <2>1, AlikeSelf
<1>3. CASE p.dir = Here /\ s = ".."
  <2> DEFINE u == [p EXCEPT !.node = Front(p.node)]
             v == [q EXCEPT !.node = Front(q.node)]
  <2>1. /\ SimpleCd(p, s) = IF p.node = <<>> THEN Fail(p, -5) ELSE Done(u)
        /\ SimpleCd(q, s) = IF q.node = <<>> THEN Fail(q, -5) ELSE Done(v)
    BY <1>1, <1>3 DEF SimpleCd
  <2>2. u.node = v.node /\ u.dir = Here /\ v.dir = Here
    BY <1>1, <1>3 DEF Places
  <2> HIDE DEF u, v
  <2>3. BothAlike(Done(u), Done(v))
    BY <2>2 DEF BothAlike, Done, Alike, Same
  <2>4. BothAlike(Fail(p, -5), Fail(q, -5))
    BY FailAlike
  <2> QED
    BY <1>1, <2>1, <2>3, <2>4
<1>4. CASE p.dir = Here /\ s = "."
  <2>1. SimpleCd(p, s) = Done(Refresh(p)) /\ SimpleCd(q, s) = Done(Refresh(q))
    BY <1>4 DEF SimpleCd
  <2>2. CASE Phys(p) = NoDir
    <3>1. Refresh(p) = p /\ Refresh(q) = q
      BY <1>1, <2>2 DEF Refresh
    <3>2. BothAlike(Done(p), Done(q))
      BY DEF BothAlike, Done
    <3> QED
      BY <2>1, <3>1, <3>2
  <2>3. CASE Phys(p) # NoDir
    <3>1. Refresh(p) = Chdir(p, Phys(p)) /\ Refresh(q) = Chdir(q, Phys(p))
      BY <1>1, <1>4, <2>3 DEF Refresh
    <3>2. BothAlike(Done(Chdir(p, Phys(p))), Done(Chdir(q, Phys(p))))
      BY <1>4, InNode DEF Alike
    <3> QED
      BY <2>1, <3>1, <3>2
  <2> QED
    BY <2>2, <2>3
<1>5. ASSUME NEW v \in DOMAIN tree, p.dir = Here
      PROVE  BothAlike(Done(Enter(p, v)), Done(Enter(q, v)))
  <2> DEFINE x == [p EXCEPT !.node = v]
             y == [q EXCEPT !.node = v]
  <2>1. x \in Places /\ y \in Places /\ Same(x, y) /\ x.dir = Here
    BY <1>1, <1>5 DEF Places, Same
  <2>2. Enter(p, v) = Chdir(x, tree[v].phys) /\ Enter(q, v) = Chdir(y, tree[v].phys)
    BY DEF Enter
  <2> HIDE DEF x, y
  <2> QED
    BY <2>1, <2>2, InNode
<1>6. CASE p.dir = Here /\ s = "/"
  <2>1. [p EXCEPT !.dir = Here] = p /\ [q EXCEPT !.dir = Here] = q
    BY <1>1, <1>6 DEF Places
  <2>2. SimpleCd(p, s) = Done(Enter(p, <<>>)) /\ SimpleCd(q, s) = Done(Enter(q, <<>>))
    BY <1>6, <2>1 DEF SimpleCd
  <2>3. <<>> \in DOMAIN tree
    BY <1>1 DEF TreeOK
  <2> QED
    BY <1>5, <1>6, <2>2, <2>3
<1>7. CASE p.dir = Here /\ s \notin {"..", ".", "/"} /\ child \in DOMAIN tree
  <2>1. /\ SimpleCd(p, s) = IF Has(tree[child], "read") THEN Done(Enter(p, child)) ELSE Fail(p, -2)
        /\ SimpleCd(q, s) = IF Has(tree[child], "read") THEN Done(Enter(q, child)) ELSE Fail(q, -2)
    BY <1>1, <1>7 DEF SimpleCd
  <2>2. BothAlike(Done(Enter(p, child)), Done(Enter(q, child)))
    BY <1>5, <1>7
  <2>3. BothAlike(Fail(p, -2), Fail(q, -2))
    BY FailAlike
  <2> HIDE DEF child
  <2> QED
    BY <2>1, <2>2, <2>3
<1>8. CASE p.dir = Here /\ s \notin {"..", ".", "/"} /\ child \notin DOMAIN tree
  <2> DEFINE d == Phys(p)
             x == [p EXCEPT !.cwd = d]
             y == [q EXCEPT !.cwd = d]
  <2>1. /\ SimpleCd(p, s) = IF d = NoDir THEN Fail(p, -3)
                            ELSE IF ~CanEnter(d) THEN Fail(p, -1) ELSE PhysicalCd(x, s)
        /\ SimpleCd(q, s) = IF d = NoDir THEN Fail(q, -3)
                            ELSE IF ~CanEnter(d) THEN Fail(q, -1) ELSE PhysicalCd(y, s)
    BY <1>1, <1>8 DEF SimpleCd
  <2>2. x = y
    BY <1>1 DEF Places
  <2>3. BothAlike(PhysicalCd(x, s), PhysicalCd(y, s))
    <3> HIDE DEF x, y
    <3> QED
      BY <2>2, AlikeSelf
  <2>4. BothAlike(Fail(p, -3), Fail(q, -3)) /\ BothAlike(Fail(p, -1), Fail(q, -1))
    BY FailAlike
  <2> HIDE DEF d, x, y
  <2> QED
    BY <2>1, <2>3, <2>4
<1> QED
  BY <1>2, <1>3, <1>4, <1>6, <1>7, <1>8

LEMMA GoAlike ==
  ASSUME TreeOK(tree), NEW r \in Results, NEW x \in Results, BothAlike(r, x), NEW s
  PROVE  BothAlike(Go(r, s), Go(x, s))
<1>1. r.ret = x.ret /\ r.at \in Places /\ x.at \in Places /\ Alike(r.at, x.at)
  BY DEF BothAlike, Results
<1>2. CASE r.ret # 1
  BY <1>1, <1>2 DEF Go
<1>3. CASE r.ret = 1
  <2> DEFINE m == SimpleCd(r.at, s)
             n == SimpleCd(x.at, s)
  <2>1. BothAlike(m, n)
    BY <1>1, SimpleCdAlike
  <2>2. m \in Results /\ n \in Results
    BY <1>1, SimpleCdStepped DEF Stepped
  <2>3. Go(r, s) = FollowLink(m) /\ Go(x, s) = FollowLink(n)
    BY <1>1, <1>3 DEF Go
  <2> HIDE DEF m, n
  <2>4. BothAlike(FollowLink(m), FollowLink(n))
    <3>1. CASE m.ret # 1 \/ m.at.dir = Here
      <4>1. n.ret # 1 \/ n.at.dir = Here
        BY <2>1, <3>1 DEF BothAlike, Alike, Same
      <4>2. FollowLink(m) = m /\ FollowLink(n) = n
        BY <3>1, <4>1 DEF FollowLink
      <4> QED
        BY <2>1, <4>2
    <3>2. CASE m.ret = 1 /\ m.at.dir # Here
      <4>1. m.at = n.at
        BY <2>1, <2>2, <3>2, PlaceParts DEF BothAlike, Alike, Same, Results
      <4>2. m = n
        BY <2>1, <2>2, <4>1 DEF BothAlike, Results
      <4> QED
        BY <4>2, AlikeSelf
    <3> QED
      BY <3>1, <3>2
  <2> QED
    BY <2>3, <2>4
<1> QED
  BY <1>2, <1>3

LEMMA WalkedAlike ==
  ASSUME TreeOK(tree), NEW p \in Places, NEW q \in Places,
         NEW parts \in Seq(Names), parts # <<>>, parts[1] = "/"
  PROVE  Walked(p, parts).ret = Walked(q, parts).ret
<1> DEFINE n == Len(parts)
<1>1. n \in Nat /\ n # 0
  BY LenProperties, EmptySeq
<1>2. PICK c : /\ Walked(p, parts) = c[n] /\ c[0] = Done(p)
               /\ \A i \in 1..n : c[i] = Go(c[i - 1], parts[i])
  BY WalkedIs
<1>3. PICK e : /\ Walked(q, parts) = e[n] /\ e[0] = Done(q)
               /\ \A i \in 1..n : e[i] = Go(e[i - 1], parts[i])
  BY WalkedIs
<1> HIDE DEF n
<1>4. \A i \in 0..n : c[i] \in Results /\ e[i] \in Results
  BY <1>1, <1>2, <1>3, WalkedType, ZenonT(40)
<1> DEFINE S == {i \in 0..n : i # 0 => BothAlike(c[i], e[i])}
<1>5. 0 \in S
  BY <1>1
<1>6. ASSUME NEW i \in 1..n, i - 1 \in S PROVE i \in S
  <2>1. i \in 0..n /\ i - 1 \in 0..n
    BY <1>1
  <2>2. c[i] = Go(c[i - 1], parts[i]) /\ e[i] = Go(e[i - 1], parts[i])
    BY <1>2, <1>3
  <2>3. CASE i = 1
    <3>1. c[1] = Go(Done(p), "/") /\ e[1] = Go(Done(q), "/")
      BY <1>2, <1>3, <2>2, <2>3
    <3>2. /\ c[1].ret = 1 /\ c[1].at.dir = Here /\ c[1].at.node = <<>>
          /\ e[1].ret = 1 /\ e[1].at.dir = Here /\ e[1].at.node = <<>>
      BY <3>1, FromTheRoot
    <3>3. BothAlike(c[1], e[1])
      BY <3>2 DEF BothAlike, Alike, Same
    <3> QED
      BY <2>1, <2>3, <3>3
  <2>4. CASE i # 1
    <3>1. i - 1 # 0 /\ BothAlike(c[i - 1], e[i - 1])
      BY <1>6, <2>4
    <3> QED
      BY <1>4, <2>1, <2>2, <3>1, GoAlike
  <2> QED
    BY <2>3, <2>4
<1>7. 0..n \subseteq S
  <2> HIDE DEF S
  <2> QED
    BY <1>1, <1>5, <1>6, RangeInduction
<1>8. BothAlike(c[n], e[n])
  <2>1. n \in 0..n
    BY <1>1
  <2> QED
    BY <1>1, <1>7, <2>1
<1> QED
  BY <1>2, <1>3, <1>8 DEF BothAlike, n

\* The slash at the beginning of a path is its first part.
LEMMA CutHead ==
  ASSUME NEW path \in Seq(Names), path # <<>>, path[1] = "/"
  PROVE  CutPathIntoParts(path) # <<>> /\ CutPathIntoParts(path)[1] = "/"
<1>1. CASE Last(path) # Empty
  BY <1>1 DEF CutPathIntoParts
<1>2. CASE Last(path) = Empty
  <2>0. "/" # Empty
    BY Zenon DEF Empty
  <2>1. Len(path) \in Nat /\ Len(path) # 0 /\ Len(path) # 1
    BY <1>2, <2>0, LenProperties, EmptySeq DEF Last
  <2> DEFINE f == Front(path)
  <2>2. f \in Seq(Names) /\ Len(f) = Len(path) - 1 /\ \A i \in 1..Len(f) : f[i] = path[i]
    BY FrontType
  <2>3. CutPathIntoParts(path) = f
    BY <1>2 DEF CutPathIntoParts
  <2> HIDE DEF f
  <2>4. 1 \in 1..Len(f) /\ Len(f) # 0
    BY <2>1, <2>2
  <2>5. f # <<>>
    BY <2>2, <2>4, EmptySeq
  <2> QED
    BY <2>2, <2>3, <2>4, <2>5
<1> QED
  BY <1>1, <1>2

LEMMA AbsoluteLeads ==
  ASSUME TreeOK(tree), NEW p \in Places, NEW q \in Places,
         NEW path \in Seq(Names), path # <<>>, path[1] = "/", ChangeDir(p, path).ret = 1
  PROVE  ChangeDir(q, path).ret = 1
<1> DEFINE parts == CutPathIntoParts(path)
           u == Walked(p, parts)
           v == Walked(q, parts)
<1>1. parts \in Seq(Names) /\ parts # <<>> /\ parts[1] = "/"
  BY CutType, CutHead
<1>2. ChangeDir(p, path) = IF BadPath(path) THEN Fail(p, -6) ELSE Arrived(p, u)
  BY DEF ChangeDir
<1>3. ChangeDir(q, path) = IF BadPath(path) THEN Fail(q, -6) ELSE Arrived(q, v)
  BY DEF ChangeDir
<1> HIDE DEF parts
<1>4. u.ret = v.ret
  BY <1>1, WalkedAlike
<1> HIDE DEF u, v
<1>5. ~BadPath(path) /\ ChangeDir(p, path) = Arrived(p, u)
  <2>1. Fail(p, -6).ret = -6 /\ -6 # 1
    BY DEF Fail
  <2> QED
    BY <1>2, <2>1
<1>6. u.ret = 1
  <2>1. Arrived(p, u) = IF u.ret = 1 THEN u ELSE Fail(Return(p, u.at.cwd), u.ret)
    BY DEF Arrived
  <2>2. Arrived(p, u).ret = 1
    BY <1>5
  <2> QED
    BY <2>1, <2>2 DEF Fail
<1>7. ChangeDir(q, path) = v
  BY <1>3, <1>4, <1>5, <1>6 DEF Arrived
<1> QED
  BY <1>4, <1>6, <1>7

-----------------------------------------------------------------------------
(***************************************************************************)
(* What moves the user.                                                    *)
(***************************************************************************)
LEMMA SameTwice ==
  \A p, q, r : Same(p, q) /\ Same(q, r) => Same(p, r)
  BY DEF Same

\* LIST comes back, if the path that PWD shows can be followed at all.
LEMMA ListReturns ==
  ASSUME Facts, phase = "session", PlainNames, AsDescribed(tree, config), OnPath(at),
         Back.ret = 1, NEW path \in Paths, Flist(path)
  PROVE  Same(at', at)
<1> DEFINE p == IsDir(at, path).at
           r == ChangeDir(p, path)
           c == CurrentDir(at)
           back == ChangeDir(r.at, c)
           x == GetFileInfo(p, path).at
<1>1. TreeOK(tree) /\ Good(at) /\ at \in Places
  BY PlaceOKIs DEF Facts, Good
<1>2. path \in Seq(Names) /\ path # <<>> /\ CutPathIntoParts(path) # <<>>
  BY PathType
<1>3. Kept(p, at)
  BY <1>1, <1>2, IsDirKept
<1>4. p \in Places /\ Same(p, at)
  BY <1>3 DEF Kept, Same
<1>5. at' = x \/ (r.ret # 1 /\ at' = r.at) \/ (r.ret = 1 /\ at' = back.at)
  BY DEF Flist, ListDir, ListFile
<1> HIDE DEF p
<1>6. Kept(x, p)
  BY <1>1, <1>2, <1>4, GetFileInfoKept
<1>7. r.at \in Places /\ (r.ret # 1 => Kept(r.at, p))
  BY <1>1, <1>2, <1>4, ChangeDirChanges DEF Changes, Results
<1>8. c \in Seq(Names) /\ c # <<>> /\ c[1] = "/"
  <2>1. c = <<"/">> \o at.node \o Below(at) /\ Below(at) \in Seq(STRING)
    BY <1>1, ShownPath
  <2>2. at.node \in Seq(Names) /\ Below(at) \in Seq(Names) /\ "/" \in Names
    BY <1>1, <2>1, PathNames DEF Places, TreeOK, Names
  <2> DEFINE v == at.node
             b == Below(at)
  <2> HIDE DEF v, b, c
  <2>3. c \in Seq(Names) /\ Len(c) = 1 + Len(v) + Len(b) /\ c[1] = "/"
    BY <2>1, <2>2, Joined DEF v, b
  <2>4. Len(v) \in Nat /\ Len(b) \in Nat
    BY <2>2, LenProperties DEF v, b
  <2> QED
    BY <2>3, <2>4, EmptySeq
<1> HIDE DEF r, x
<1>9. back.ret = 1
  <2>1. ChangeDir(at, c).ret = 1
    BY DEF Back
  <2> HIDE DEF c
  <2> QED
    BY <1>1, <1>7, <1>8, <2>1, AbsoluteLeads
<1>10. Same(back.at, at)
  BY <1>7, <1>9, ShownLeads
<1> HIDE DEF back
<1>11. Same(x, p) /\ (r.ret # 1 => Same(r.at, p))
  BY <1>6, <1>7 DEF Kept, Same
<1> QED
  BY <1>4, <1>5, <1>10, <1>11, SameTwice

\* CWD and CDUP.
LEMMA MoveFails ==
  ASSUME Facts, phase = "session", NEW path \in Seq(Names), Moved(ChangeDir(at, path))
  PROVE  Same(at', at) \/ reply' = 250
<1> DEFINE r == ChangeDir(at, path)
<1>1. TreeOK(tree) /\ at \in Places
  BY PlaceOKIs DEF Facts, Good
<1>2. r.ret # 1 => Kept(r.at, at)
  BY <1>1, ChangeDirChanges DEF Changes
<1> HIDE DEF r
<1>3. at' = r.at /\ reply' = IF r.ret = 1 THEN 250 ELSE 550
  BY DEF Moved, Answer, r
<1> QED
  BY <1>2, <1>3 DEF Kept, Same

\* Only CWD and CDUP that were answered with 250, REIN, and a LIST whose connection
\* failed move the user (VFS.cpp:734, ftpcommands.cpp: Flist).
THEOREM UserStaysPut ==
  ASSUME PlainNames
  PROVE  Spec => StaysPut
<1> DEFINE Put == ~Same(at', at) /\ LoggedIn /\ Back.ret = 1 /\ OnPath(at) => reply' \in {220, 250, 426}
<1>1. ASSUME Facts, TreeAsConfigured, [Next]_vars PROVE Put \/ UNCHANGED vars
  <2> SUFFICES ASSUME Next, LoggedIn, Back.ret = 1, OnPath(at)
               PROVE  Same(at', at) \/ reply' \in {220, 250, 426}
    BY <1>1, Zenon
  <2>1. TreeOK(tree) /\ Good(at) /\ at \in Places /\ phase = "session" /\ user # Empty
    BY <1>1, PlaceOKIs DEF Facts, Good, LoggedIn
  <2>2. AsDescribed(tree, config)
    BY <1>1, DescribedIs
  <2>3. <<"..">> \in Seq(Names)
    BY OneName DEF Names
  <2>4. CASE ReloadConfigFile \/ Fork
    BY <2>1, <2>4 DEF ReloadConfigFile, Fork
  <2>5. CASE Frein
    BY <2>5 DEF Frein
  <2>6. CASE Fcdup
    BY <1>1, <2>1, <2>3, <2>6, MoveFails DEF Fcdup
  <2>7. ASSUME NEW u \in User, Fpass(u) PROVE FALSE
    BY <2>1, <2>7 DEF Fpass
  <2>8. ASSUME NEW path \in Paths, Fcwd(path) PROVE Same(at', at) \/ reply' = 250
    BY <1>1, <2>1, <2>8, PathType, MoveFails DEF Fcwd
  <2>9. ASSUME NEW path \in Paths, Flist(path) PROVE Same(at', at)
    BY <1>1, <2>1, <2>2, <2>9, ListReturns
  <2>10. ASSUME NEW path \in Paths, FlistFails(path) PROVE reply' = 426
    BY <2>10 DEF FlistFails
  <2>11. ASSUME NEW path \in FilePaths, Fretr(path) PROVE Same(at', at)
    <3>1. Kept(Retrieval(at, path).at, at)
      BY <2>1, RetrievalKept
    <3>2. at' = Retrieval(at, path).at
      BY <2>11 DEF Fretr
    <3> QED
      BY <3>1, <3>2 DEF Kept, Same
  <2>12. ASSUME NEW path \in FilePaths, Fstor(path) PROVE Same(at', at)
    <3>1. Kept(Storage(at, path).at, at)
      BY <2>1, StorageKept
    <3>2. at' = Storage(at, path).at
      BY <2>12 DEF Fstor
    <3> QED
      BY <3>1, <3>2 DEF Kept, Same
  <2> DEFINE goal == Same(at', at) \/ reply' \in {220, 250, 426}
  <2>13. reply' \in {250, 426} => goal
    OBVIOUS
  <2>14. ASSUME NEW path \in Paths, Fcwd(path) \/ Flist(path) \/ FlistFails(path) PROVE goal
    <3>1. CASE Fcwd(path)
      BY <2>8, <3>1
    <3>2. CASE Flist(path)
      BY <2>9, <3>2
    <3>3. CASE FlistFails(path)
      BY <2>10, <3>3
    <3> QED
      BY <2>14, <3>1, <3>2, <3>3
  <2>15. ASSUME NEW path \in FilePaths, Fretr(path) \/ Fstor(path) PROVE goal
    BY <2>11, <2>12, <2>15
  <2>16. Fcdup => goal
    BY <2>6, <2>13
  <2>17. Frein => goal
    BY <2>5
  <2>18. ReloadConfigFile \/ Fork => goal
    BY <2>4
  <2> HIDE DEF goal
  <2>19. goal
    <3>1. Next => \/ ReloadConfigFile \/ Fork \/ Frein \/ Fcdup
                  \/ \E u \in User : Fpass(u)
                  \/ \E path \in Paths : Fcwd(path) \/ Flist(path) \/ FlistFails(path)
                  \/ \E path \in FilePaths : Fretr(path) \/ Fstor(path)
      BY Zenon DEF Next
    <3> QED
      BY <2>7, <2>14, <2>15, <2>16, <2>17, <2>18, <3>1, Zenon
  <2> QED
    BY <2>19, Zenon DEF goal
<1>2. PlaceInv /\ TreeAsConfigured /\ [Next]_vars => Put \/ UNCHANGED vars
  BY <1>1, FactsArePlaceInv
<1>3. Spec => [][Put]_vars
  BY <1>2, PlaceInvariant, TreeConfigured, PTL DEF Spec
<1> QED
  BY <1>3 DEF StaysPut

-----------------------------------------------------------------------------
(***************************************************************************)
(* The text of a path against the walk along it.                           *)
(***************************************************************************)
\* One part after another.
LEMMA OneMore ==
  ASSUME NEW B, NEW parts \in Seq(B), NEW s \in B
  PROVE  LET more == Append(parts, s)
         IN  /\ more \in Seq(B) /\ Len(more) = Len(parts) + 1 /\ more # <<>>
             /\ more[Len(parts) + 1] = s /\ \A i \in 1..Len(parts) : more[i] = parts[i]
             /\ Front(more) = parts /\ Last(more) = s
<1> DEFINE more == Append(parts, s)
<1>1. Len(parts) \in Nat
  BY LenProperties
<1>2. /\ more \in Seq(B) /\ Len(more) = Len(parts) + 1
      /\ more[Len(parts) + 1] = s /\ \A i \in 1..Len(parts) : more[i] = parts[i]
  OBVIOUS
<1> HIDE DEF more
<1>3. more # <<>>
  BY <1>1, <1>2, EmptySeq
<1>4. Front(more) \in Seq(B) /\ Len(Front(more)) = Len(more) - 1
      /\ \A i \in 1..Len(Front(more)) : Front(more)[i] = more[i]
  BY <1>2, <1>3, FrontType
<1>5. Front(more) = parts
  BY <1>1, <1>2, <1>4, SeqEqual
<1> QED
  BY <1>2, <1>3, <1>5 DEF Last, more

LEMMA LastMore ==
  ASSUME NEW B, NEW parts \in Seq(B), parts # <<>>
  PROVE  parts = Append(Front(parts), Last(parts)) /\ Front(parts) \in Seq(B) /\ Last(parts) \in B
<1> DEFINE f == Front(parts)
           more == Append(f, Last(parts))
<1>1. Len(parts) \in Nat /\ Len(parts) # 0
  BY LenProperties, EmptySeq
<1>2. f \in Seq(B) /\ Len(f) = Len(parts) - 1 /\ \A i \in 1..Len(f) : f[i] = parts[i]
  BY FrontType
<1>3. Last(parts) \in B /\ Last(parts) = parts[Len(parts)]
  BY LastName DEF Last
<1> HIDE DEF f
<1>4. /\ more \in Seq(B) /\ Len(more) = Len(f) + 1 /\ more[Len(f) + 1] = Last(parts)
      /\ \A i \in 1..Len(f) : more[i] = f[i]
  BY <1>2, <1>3, OneMore
<1> HIDE DEF more
<1>5. Len(more) = Len(parts)
  BY <1>1, <1>2, <1>4
<1>6. ASSUME NEW i \in 1..Len(parts) PROVE more[i] = parts[i]
  <2>1. i \in 1..Len(f) \/ i = Len(parts)
    BY <1>1, <1>2
  <2>2. Len(f) + 1 = Len(parts)
    BY <1>1, <1>2
  <2> QED
    BY <1>2, <1>3, <1>4, <2>1, <2>2
<1>7. more = parts
  BY <1>4, <1>5, <1>6, SeqEqual
<1> QED
  BY <1>2, <1>3, <1>7 DEF more, f

LEMMA NextPrefix ==
  ASSUME NEW B, NEW parts \in Seq(B), NEW i \in 1..Len(parts)
  PROVE  /\ SubSeq(parts, 1, i) = Append(SubSeq(parts, 1, i - 1), parts[i])
         /\ SubSeq(parts, 1, i - 1) \in Seq(B) /\ parts[i] \in B
         /\ Len(SubSeq(parts, 1, i - 1)) = i - 1
<1> DEFINE x == SubSeq(parts, 1, i)
<1>1. Len(parts) \in Nat /\ i \in 0..Len(parts) /\ i - 1 \in 0..Len(parts)
  BY LenProperties
<1>2. x \in Seq(B) /\ Len(x) = i /\ \A k \in 1..i : x[k] = parts[k]
  BY <1>1, PrefixOf
<1>3. Front(x) = SubSeq(parts, 1, i - 1) /\ x # <<>>
  BY FrontOf
<1> HIDE DEF x
<1>4. Last(x) = parts[i]
  BY <1>2 DEF Last
<1>5. x = Append(Front(x), Last(x)) /\ Front(x) \in Seq(B) /\ Last(x) \in B
  BY <1>2, <1>3, LastMore
<1>6. Len(SubSeq(parts, 1, i - 1)) = i - 1
  BY <1>1, PrefixOf
<1> QED
  BY <1>3, <1>4, <1>5, <1>6 DEF x

LEMMA WalkedMore ==
  ASSUME TreeOK(tree), NEW p \in Places, NEW B, NEW parts \in Seq(B), NEW s \in B
  PROVE  Walked(p, Append(parts, s)) = Go(Walked(p, parts), s)
<1> DEFINE n == Len(parts)
           more == Append(parts, s)
<1>1. n \in Nat
  BY LenProperties
<1>2. /\ more \in Seq(B) /\ Len(more) = n + 1 /\ more[n + 1] = s
      /\ \A i \in 1..n : more[i] = parts[i]
  BY OneMore
<1> HIDE DEF more
<1>3. PICK c : /\ Walked(p, parts) = c[n] /\ c[0] = Done(p)
               /\ \A i \in 1..n : c[i] = Go(c[i - 1], parts[i])
  BY WalkedIs
<1>4. PICK e : /\ Walked(p, more) = e[Len(more)] /\ e[0] = Done(p)
               /\ \A i \in 1..Len(more) : e[i] = Go(e[i - 1], more[i])
  BY <1>2, WalkedIs
<1> DEFINE S == {i \in 0..n : c[i] = e[i]}
<1>5. 0 \in S
  BY <1>1, <1>3, <1>4
<1>6. ASSUME NEW i \in 1..n, i - 1 \in S PROVE i \in S
  <2>1. i \in 0..n /\ i \in 1..Len(more) /\ c[i - 1] = e[i - 1] /\ more[i] = parts[i]
    BY <1>1, <1>2, <1>6
  <2>2. c[i] = Go(c[i - 1], parts[i]) /\ e[i] = Go(e[i - 1], more[i])
    BY <1>3, <1>4, <2>1
  <2> QED
    BY <2>1, <2>2
<1>7. n \in S
  <2>1. n \in 0..n
    BY <1>1
  <2>2. 0..n \subseteq S
    <3> HIDE DEF S, n
    <3> QED
      BY <1>1, <1>5, <1>6, RangeInduction
  <2> QED
    BY <2>1, <2>2
<1>8. n + 1 \in 1..Len(more) /\ (n + 1) - 1 = n
  BY <1>1, <1>2
<1>9. e[n + 1] = Go(e[n], s)
  BY <1>2, <1>4, <1>8
<1> QED
  BY <1>2, <1>3, <1>4, <1>7, <1>9 DEF more

LEMMA ResolveMore ==
  ASSUME NEW d \in Somewhere, NEW B, NEW names \in Seq(B), NEW s \in B
  PROVE  Resolve(d, Append(names, s)) = Step(Resolve(d, names), s)
<1> DEFINE n == Len(names)
           more == Append(names, s)
<1>1. n \in Nat
  BY LenProperties
<1>2. /\ more \in Seq(B) /\ Len(more) = n + 1 /\ more[n + 1] = s
      /\ \A i \in 1..n : more[i] = names[i]
  BY OneMore
<1> HIDE DEF more
<1>3. PICK c : Stepwise(c, d, names)
  BY ResolveIs
<1>4. PICK e : Stepwise(e, d, more)
  BY <1>2, ResolveIs
<1> DEFINE S == {i \in 0..n : c[i] = e[i]}
<1>5. 0 \in S
  BY <1>1, <1>3, <1>4 DEF Stepwise
<1>6. ASSUME NEW i \in 1..n, i - 1 \in S PROVE i \in S
  <2>1. i \in 0..n /\ i \in 1..Len(more) /\ c[i - 1] = e[i - 1] /\ more[i] = names[i]
    BY <1>1, <1>2, <1>6
  <2>2. c[i] = Step(c[i - 1], names[i]) /\ e[i] = Step(e[i - 1], more[i])
    BY <1>3, <1>4, <2>1 DEF Stepwise
  <2> QED
    BY <2>1, <2>2
<1>7. n \in S
  <2>1. n \in 0..n
    BY <1>1
  <2>2. 0..n \subseteq S
    <3> HIDE DEF S, n
    <3> QED
      BY <1>1, <1>5, <1>6, RangeInduction
  <2> QED
    BY <2>1, <2>2
<1>8. n + 1 \in 1..Len(more) /\ (n + 1) - 1 = n
  BY <1>1, <1>2
<1>9. e[n + 1] = Step(e[n], s)
  BY <1>2, <1>4, <1>8 DEF Stepwise
<1> QED
  BY <1>2, <1>3, <1>4, <1>7, <1>9 DEF more, Stepwise

\* A directory is found by its own name: its name has no link in it.
LEMMA PlainStep ==
  ASSUME NEW d \in Directory, NEW s, s \notin Special, Append(d, s) \in Directory
  PROVE  Step(d, s) = Append(d, s)
<1>1. d # NoDir /\ Append(d, s) \notin DOMAIN Link
  BY DiskAssumption
<1>2. s # "." /\ s # ".."
  BY DEF Special
<1> QED
  BY <1>1, <1>2 DEF Step

LEMMA ResolveSelf ==
  ASSUME NEW d \in Directory
  PROVE  Resolve(<<>>, d) = d
<1> DEFINE n == Len(d)
           S == {i \in 0..n : Resolve(<<>>, SubSeq(d, 1, i)) = SubSeq(d, 1, i)}
<1>1. d \in Seq(STRING) /\ n \in Nat /\ <<>> \in Directory /\ <<>> \in Somewhere
  BY DiskPaths, LenProperties DEF Somewhere
<1>2. 0 \in S
  <2>1. 0 \in 0..n
    BY <1>1
  <2>2. SubSeq(d, 1, 0) = <<>>
    BY <1>1, <2>1, PrefixOf, EmptySeq
  <2> QED
    BY <1>1, <2>1, <2>2, ResolveType, PrefixOf
<1>3. ASSUME NEW i \in 1..n, i - 1 \in S PROVE i \in S
  <2> DEFINE x == SubSeq(d, 1, i - 1)
             s == d[i]
  <2>1. i \in 0..n /\ i - 1 \in 0..n /\ Resolve(<<>>, x) = x
    BY <1>1, <1>3
  <2>2. SubSeq(d, 1, i) = Append(x, s) /\ x \in Seq(STRING) /\ s \in STRING
    BY <1>1, NextPrefix
  <2>3. x \in Directory /\ Append(x, s) \in Directory
    BY <2>1, <2>2, PrefixesOnDisk
  <2>4. s \notin Special
    BY PlainDirs DEF Plain
  <2> HIDE DEF x, s
  <2>5. Resolve(<<>>, Append(x, s)) = Step(Resolve(<<>>, x), s)
    BY <1>1, <2>2, ResolveMore, Zenon
  <2> QED
    BY <2>1, <2>2, <2>3, <2>4, <2>5, PlainStep
<1>4. n \in S
  <2>1. n \in 0..n
    BY <1>1
  <2>2. 0..n \subseteq S
    <3> HIDE DEF S, n
    <3> QED
      BY <1>1, <1>2, <1>3, RangeInduction
  <2> QED
    BY <2>1, <2>2
<1> QED
  BY <1>1, <1>4, WholePrefix

\* Nothing can be reached by name in a directory that is closed.
LEMMA ClosedStep ==
  ASSUME NEW d \in Closed, NEW s \in Names, s \notin {".", ".."}
  PROVE  Step(d, s) = NoDir
<1> DEFINE e == Append(d, s)
<1>1. d \in Directory /\ d \in Seq(STRING) /\ d # NoDir
  BY DiskAssumption
<1>2. Step(d, s) = IF e \in DOMAIN Link THEN Link[e] ELSE IF e \in Directory THEN e ELSE NoDir
  BY <1>1 DEF Step
<1>3. Front(e) = d /\ e # <<>>
  <2>1. d \in Seq(Names)
    BY <1>1, PathNames
  <2> QED
    BY <2>1, OneMore
<1> HIDE DEF e
<1>4. e \notin DOMAIN Link /\ e \notin Directory
  BY <1>3, DiskAssumption
<1> QED
  BY <1>2, <1>4

-----------------------------------------------------------------------------
(***************************************************************************)
(* The conversion of a path, part by part.                                 *)
(***************************************************************************)
Ways == [node : DOMAIN tree, rest : Seq(Names)]
AtNode(v) == [node |-> v, rest |-> <<>>]

LEMMA FurtherType ==
  ASSUME TreeOK(tree), NEW w \in Ways, NEW s \in Names
  PROVE  Further(w, s) \in Ways
<1>1. w.node \in DOMAIN tree /\ w.rest \in Seq(Names)
  BY DEF Ways
<1>2. <<s>> \in Seq(Names) /\ Append(w.rest, s) \in Seq(Names)
  BY <1>1, OneName, OneMore
<1>3. w.node # <<>> => Front(w.node) \in DOMAIN tree
  BY <1>1 DEF TreeOK
<1>4. [w EXCEPT !.rest = Append(@, s)] \in Ways
  BY <1>2 DEF Ways
<1>5. w.node # <<>> => [w EXCEPT !.node = Front(@)] \in Ways
  BY <1>3 DEF Ways
<1>6. Append(w.node, s) \in DOMAIN tree => [w EXCEPT !.node = Append(@, s)] \in Ways
  BY DEF Ways
<1>7. [w EXCEPT !.rest = <<s>>] \in Ways
  BY <1>2 DEF Ways
<1>8. CASE w.rest # <<>>
  BY <1>4, <1>8 DEF Further
<1>9. CASE w.rest = <<>> /\ s = "."
  BY <1>9 DEF Further
<1>10. CASE w.rest = <<>> /\ s = ".."
  <2>1. Further(w, s) = IF w.node = <<>> THEN w ELSE [w EXCEPT !.node = Front(@)]
    BY <1>10 DEF Further
  <2> QED
    BY <1>5, <2>1
<1>11. CASE w.rest = <<>> /\ s # "." /\ s # ".."
  <2>1. Further(w, s) = IF Append(w.node, s) \in DOMAIN tree THEN [w EXCEPT !.node = Append(@, s)]
                        ELSE [w EXCEPT !.rest = <<s>>]
    BY <1>11 DEF Further
  <2> QED
    BY <1>6, <1>7, <2>1
<1> QED
  BY <1>8, <1>9, <1>10, <1>11

Convertwise(c, v, parts) ==
  /\ Along(v, parts) = c[Len(parts)] /\ c[0] = AtNode(v)
  /\ \A i \in 1..Len(parts) : c[i] = Further(c[i - 1], parts[i])
  /\ \A i \in 0..Len(parts) : c[i] \in Ways

LEMMA AlongIs ==
  ASSUME TreeOK(tree), NEW v \in DOMAIN tree, NEW parts \in Seq(Names)
  PROVE  \E c : Convertwise(c, v, parts)
<1> DEFINE n == Len(parts)
           b == AtNode(v)
           step == [x \in Ways \X (1..n) |-> Further(x[1], parts[x[2]])]
           Goes(c) == c = [i \in 0..n |-> IF i = 0 THEN b ELSE Further(c[i - 1], parts[i])]
           c == CHOOSE c : Goes(c)
<1>1. n \in Nat /\ \A i \in 1..n : parts[i] \in Names
  BY LenProperties, ElementOfSeq
<1>2. b \in Ways
  <2>1. <<>> \in Seq(Names)
    OBVIOUS
  <2> QED
    BY <2>1 DEF Ways, AtNode
<1>3. step \in [Ways \X (1..n) -> Ways]
  BY <1>1, FurtherType
<1>4. PICK f \in [0..n -> Ways] : Recursion(f, b, n, step)
  <2>1. n \in Nat /\ b \in Ways /\ step \in [Ways \X (1..n) -> Ways]
    BY <1>1, <1>2, <1>3
  <2> HIDE DEF step, n, b
  <2> QED
    BY <2>1, RecursionExists
<1>5. ASSUME NEW i \in 0..n
      PROVE  f[i] = IF i = 0 THEN b ELSE Further(f[i - 1], parts[i])
  <2>1. f[i] = IF i = 0 THEN b ELSE step[<<f[i - 1], i>>]
    BY <1>4, Zenon DEF Recursion
  <2>2. i # 0 => i \in 1..n /\ i - 1 \in 0..n
    BY <1>1
  <2>3. i # 0 => step[<<f[i - 1], i>>] = Further(f[i - 1], parts[i])
    BY <2>2
  <2> HIDE DEF step, b
  <2> QED
    BY <2>1, <2>3
<1>6. f = [i \in 0..n |-> f[i]]
  OBVIOUS
<1>7. Goes(f)
  BY <1>5, <1>6, Zenon
<1>8. Along(v, parts) = c[n]
  BY Zenon DEF Along, AtNode
<1>9. Goes(c)
  BY <1>7, Zenon
<1> HIDE DEF c
<1>10. \A i \in 0..n : c[i] = IF i = 0 THEN b ELSE Further(c[i - 1], parts[i])
  BY <1>9, Zenon
<1>11. 0 \in 0..n /\ \A i \in 1..n : i \in 0..n /\ i # 0
  BY <1>1
<1>12. c[0] = b /\ \A i \in 1..n : c[i] = Further(c[i - 1], parts[i])
  BY <1>10, <1>11, Zenon
<1> DEFINE S == {i \in 0..n : c[i] \in Ways}
<1>13. 0 \in S
  BY <1>2, <1>11, <1>12
<1>14. ASSUME NEW i \in 1..n, i - 1 \in S PROVE i \in S
  BY <1>1, <1>11, <1>12, <1>14, FurtherType
<1>15. 0..n \subseteq S
  <2> HIDE DEF S, n
  <2> QED
    BY <1>1, <1>13, <1>14, RangeInduction
<1> QED
  BY <1>8, <1>12, <1>15 DEF Convertwise

LEMMA AlongType ==
  ASSUME TreeOK(tree), NEW v \in DOMAIN tree, NEW parts \in Seq(Names)
  PROVE  Along(v, parts) \in Ways
<1>1. PICK c : Convertwise(c, v, parts)
  BY AlongIs
<1>2. Len(parts) \in 0..Len(parts)
  BY LenProperties
<1> QED
  BY <1>1, <1>2 DEF Convertwise

LEMMA AlongMore ==
  ASSUME TreeOK(tree), NEW v \in DOMAIN tree, NEW parts \in Seq(Names), NEW s \in Names
  PROVE  /\ Along(v, Append(parts, s)) = Further(Along(v, parts), s)
         /\ Along(v, parts) \in Ways
<1> DEFINE n == Len(parts)
           more == Append(parts, s)
<1>1. n \in Nat
  BY LenProperties
<1>2. /\ more \in Seq(Names) /\ Len(more) = n + 1 /\ more[n + 1] = s
      /\ \A i \in 1..n : more[i] = parts[i]
  BY OneMore
<1> HIDE DEF more
<1>3. PICK c : Convertwise(c, v, parts)
  BY AlongIs
<1>4. PICK e : Convertwise(e, v, more)
  BY <1>2, AlongIs
<1> DEFINE S == {i \in 0..n : c[i] = e[i]}
<1>5. 0 \in S
  BY <1>1, <1>3, <1>4 DEF Convertwise
<1>6. ASSUME NEW i \in 1..n, i - 1 \in S PROVE i \in S
  <2>1. i \in 0..n /\ i \in 1..Len(more) /\ c[i - 1] = e[i - 1] /\ more[i] = parts[i]
    BY <1>1, <1>2, <1>6
  <2>2. c[i] = Further(c[i - 1], parts[i]) /\ e[i] = Further(e[i - 1], more[i])
    BY <1>3, <1>4, <2>1 DEF Convertwise
  <2> QED
    BY <2>1, <2>2
<1>7. n \in S /\ n \in 0..n
  <2>1. n \in 0..n
    BY <1>1
  <2>2. 0..n \subseteq S
    <3> HIDE DEF S, n
    <3> QED
      BY <1>1, <1>5, <1>6, RangeInduction
  <2> QED
    BY <2>1, <2>2
<1>8. n + 1 \in 1..Len(more) /\ (n + 1) - 1 = n
  BY <1>1, <1>2
<1>9. e[n + 1] = Further(e[n], s)
  BY <1>2, <1>4, <1>8 DEF Convertwise
<1> QED
  BY <1>2, <1>3, <1>4, <1>7, <1>9 DEF more, Convertwise

-----------------------------------------------------------------------------
(***************************************************************************)
(* Where a step of the walk leads, on the disk.                            *)
(***************************************************************************)
\* The working directory is the directory of the disk where the place is.
Standing(q, d) == q.cwd = d /\ Where(q) = d

LEMMA PhysicalCdStands ==
  ASSUME NEW p \in Places, NEW s, PhysicalCd(p, s).ret = 1
  PROVE  LET to == Step(p.cwd, s)
             q  == PhysicalCd(p, s).at
         IN  CanEnter(to) /\ q \in Places /\ Standing(q, to) /\ PhysicalCd(p, s) = Done(q)
<1> DEFINE to == Step(p.cwd, s)
           q == [p EXCEPT !.cwd = to, !.dir = IF s = ".." /\ to = Phys(p) THEN Here ELSE to]
           r == PhysicalCd(p, s)
<1>1. r \in {Fail(p, -2), Fail(p, -3)} \/ (CanEnter(to) /\ r = Done(q))
  BY DEF PhysicalCd
<1>2. Fail(p, -2).ret # 1 /\ Fail(p, -3).ret # 1
  BY DEF Fail
<1>3. CanEnter(to) /\ r = Done(q)
  BY <1>1, <1>2
<1>4. to \in Enterable /\ to \in Directory
  BY <1>3 DEF CanEnter, Enterable
<1> HIDE DEF to, r
<1>5. q \in Places /\ q.node = p.node /\ q.cwd = to
      /\ q.dir = IF s = ".." /\ to = Phys(p) THEN Here ELSE to
  BY <1>4 DEF Places
<1> HIDE DEF q
<1>6. to # Here
  BY <1>4, DirIsNotHere
<1>7. Where(q) = to
  BY <1>5, <1>6 DEF Where, Phys
<1>8. r.at = q
  BY <1>3, <1>5, DoneType
<1> QED
  BY <1>3, <1>5, <1>7, <1>8 DEF Standing, to, r

LEMMA FollowLinkHere ==
  ASSUME NEW q \in Places, q.dir = Here
  PROVE  FollowLink(Done(q)) = Done(q)
<1>1. Done(q).at = q
  BY DoneType
<1> QED
  BY <1>1 DEF FollowLink

LEMMA FollowLinkStands ==
  ASSUME TreeOK(tree), NEW p \in Places, NEW d, Standing(p, d), FollowLink(Done(p)).ret = 1
  PROVE  Standing(FollowLink(Done(p)).at, d)
<1> DEFINE owner == DirSecurityCheck(tree, p.dir)
           f == FollowLink(Done(p))
           q == [p EXCEPT !.node = owner, !.dir = IF p.dir = tree[owner].phys THEN Here ELSE p.dir]
<1>1. Done(p).ret = 1 /\ Done(p).at = p
  BY DoneType
<1>2. f = IF p.dir = Here \/ StringPrefix(Text(Phys(p)), p.dir) THEN Done(p)
          ELSE IF Owners(tree, p.dir) = {} THEN Fail(p, -6) ELSE Done(q)
  BY <1>1 DEF FollowLink
<1>3. CASE p.dir = Here \/ StringPrefix(Text(Phys(p)), p.dir)
  BY <1>1, <1>2, <1>3
<1>4. CASE ~(p.dir = Here \/ StringPrefix(Text(Phys(p)), p.dir))
  <2>1. Owners(tree, p.dir) # {} /\ f = Done(q)
    <3>1. Fail(p, -6).ret # 1
      BY DEF Fail
    <3> QED
      BY <1>2, <1>4, <3>1
  <2>2. owner \in Owners(tree, p.dir)
    BY <2>1, DirSecurityCheckIsOwner
  <2> HIDE DEF owner, f
  <2>3. owner \in DOMAIN tree
    BY <2>2 DEF Owners
  <2>4. /\ q \in Places /\ q.node = owner /\ q.cwd = p.cwd
        /\ q.dir = IF p.dir = tree[owner].phys THEN Here ELSE p.dir
    BY <2>3 DEF Places
  <2> HIDE DEF q
  <2>5. f.at = q
    BY <2>1, <2>4, DoneType
  <2>6. Where(q) = p.dir
    BY <1>4, <2>4 DEF Where, Phys
  <2>7. Where(p) = p.dir
    BY <1>4 DEF Where
  <2> QED
    BY <2>4, <2>5, <2>6, <2>7 DEF Standing, f
<1> QED
  BY <1>3, <1>4

\* From a directory of the disk a name leads to another one.
LEMMA OnTheDisk ==
  ASSUME TreeOK(tree), NEW p \in Places, NEW s, FollowLink(PhysicalCd(p, s)).ret = 1
  PROVE  CanEnter(Step(p.cwd, s)) /\ Standing(FollowLink(PhysicalCd(p, s)).at, Step(p.cwd, s))
<1>1. PhysicalCd(p, s).ret = 1
  BY DEF FollowLink, Fail
<1> QED
  BY <1>1, PhysicalCdStands, FollowLinkStands

-----------------------------------------------------------------------------
(***************************************************************************)
(* The conversion, one part further.                                       *)
(***************************************************************************)
Rooted(parts) == parts # <<>> /\ parts[1] = "/"

Way(p, parts) == IF Rooted(parts) THEN Along(<<>>, Tail(parts)) ELSE Along(p.node, parts)

\* What is made of the parts, if there are any or the place is on the disk.
Converted(p, parts) ==
  IF Rooted(parts) \/ p.dir = Here THEN Text(tree[Way(p, parts).node].phys) \o Way(p, parts).rest
  ELSE p.dir \o parts

LEMMA HeadIs ==
  ASSUME NEW B, NEW parts \in Seq(B), parts # <<>>
  PROVE  Head(parts) = parts[1] /\ Tail(parts) \in Seq(B)
  OBVIOUS

LEMMA ConversionIs ==
  ASSUME TreeOK(tree), NEW p \in Places, NEW parts \in Seq(Names)
  PROVE  /\ OnNodes(p, parts) <=> (Rooted(parts) \/ p.dir = Here) /\ Way(p, parts).rest = <<>>
         /\ \A path : CutPathIntoParts(path) = parts /\ parts # <<>> /\ ~BadPath(path)
              => ConvertToPhysicalPath(p, path) = Converted(p, parts)
<1>1. parts # <<>> => Head(parts) = parts[1]
  BY HeadIs
<1>2. OnNodes(p, parts) <=> (Rooted(parts) \/ p.dir = Here) /\ Way(p, parts).rest = <<>>
  BY <1>1 DEF OnNodes, Rooted, Way
<1>3. ASSUME NEW path, CutPathIntoParts(path) = parts, parts # <<>>, ~BadPath(path)
      PROVE  ConvertToPhysicalPath(p, path) = Converted(p, parts)
  BY <1>1, <1>3 DEF ConvertToPhysicalPath, Converted, Rooted, Way, Walk
<1> QED
  BY <1>2, <1>3

LEMMA TailMore ==
  ASSUME NEW B, NEW parts \in Seq(B), parts # <<>>, NEW s \in B
  PROVE  Tail(Append(parts, s)) = Append(Tail(parts), s) /\ Tail(parts) \in Seq(B)
  OBVIOUS

LEMMA WayMore ==
  ASSUME TreeOK(tree), NEW p \in Places, NEW parts \in Seq(Names), NEW s \in Names,
         s # "/" \/ parts # <<>>
  PROVE  /\ Way(p, Append(parts, s)) = Further(Way(p, parts), s) /\ Way(p, parts) \in Ways
         /\ Rooted(Append(parts, s)) <=> Rooted(parts)
<1> DEFINE more == Append(parts, s)
<1>1. <<>> \in DOMAIN tree /\ p.node \in DOMAIN tree
  BY DEF TreeOK, Places
<1>2. Rooted(more) <=> Rooted(parts)
  <2>1. Len(parts) \in Nat /\ (parts = <<>> <=> Len(parts) = 0) /\ more # <<>>
    BY LenProperties, EmptySeq, OneMore
  <2>2. CASE parts = <<>>
    BY <2>1, <2>2, OneMore DEF Rooted
  <2>3. CASE parts # <<>>
    <3>1. 1 \in 1..Len(parts)
      BY <2>1, <2>3
    <3>2. more[1] = parts[1]
      BY <3>1, OneMore
    <3> QED
      BY <2>1, <2>3, <3>2 DEF Rooted
  <2> QED
    BY <2>2, <2>3
<1>3. CASE Rooted(parts)
  <2>1. Tail(more) = Append(Tail(parts), s) /\ Tail(parts) \in Seq(Names)
    BY <1>3, TailMore DEF Rooted
  <2> HIDE DEF more
  <2> QED
    BY <1>1, <1>2, <1>3, <2>1, AlongMore DEF Way, more
<1>4. CASE ~Rooted(parts)
  BY <1>1, <1>2, <1>4, AlongMore DEF Way
<1> QED
  BY <1>2, <1>3, <1>4

LEMMA WayStart ==
  ASSUME TreeOK(tree), NEW p \in Places
  PROVE  /\ Way(p, <<>>) = AtNode(p.node) /\ ~Rooted(<<>>)
         /\ Way(p, <<"/">>) = AtNode(<<>>) /\ Rooted(<<"/">>)
<1>1. ASSUME NEW v \in DOMAIN tree PROVE Along(v, <<>>) = AtNode(v)
  <2>1. <<>> \in Seq(Names) /\ Len(<<>>) = 0
    OBVIOUS
  <2>2. PICK c : Convertwise(c, v, <<>>)
    BY <2>1, AlongIs
  <2> QED
    BY <2>1, <2>2 DEF Convertwise
<1>2. <<>> \in DOMAIN tree /\ p.node \in DOMAIN tree
  BY DEF TreeOK, Places
<1>3. ~Rooted(<<>>)
  BY DEF Rooted
<1>4. Rooted(<<"/">>) /\ Tail(<<"/">>) = <<>>
  BY DEF Rooted
<1> QED
  BY <1>1, <1>2, <1>3, <1>4 DEF Way

LEMMA JoinMore ==
  ASSUME NEW B, NEW a \in Seq(B), NEW b \in Seq(B), NEW s \in B
  PROVE  a \o Append(b, s) = Append(a \o b, s) /\ a \o b \in Seq(B) /\ a \o <<>> = a
         /\ a \o <<s>> = Append(a, s)
  OBVIOUS

LEMMA NodeText ==
  ASSUME TreeOK(tree), NEW v \in DOMAIN tree
  PROVE  Text(tree[v].phys) \in Seq(Names)
<1>1. tree[v].phys \in Seq(Names) /\ <<>> \in Seq(Names)
  BY NodeType, PathNames
<1> QED
  BY <1>1 DEF Text

\* On nodes the text is the directory of the last of them, and a name that is none leaves
\* the nodes.
LEMMA ConvertedNode ==
  ASSUME TreeOK(tree), NEW p \in Places, NEW parts \in Seq(Names), OnNodes(p, parts)
  PROVE  /\ Way(p, parts) \in Ways
         /\ Converted(p, parts) = Text(tree[Way(p, parts).node].phys)
         /\ parts # <<>> \/ p.dir = Here
<1>1. <<>> \in DOMAIN tree /\ p.node \in DOMAIN tree
  BY DEF TreeOK, Places
<1>2. (Rooted(parts) \/ p.dir = Here) /\ Way(p, parts).rest = <<>>
  BY ConversionIs
<1>3. Way(p, parts) \in Ways
  <2>1. parts # <<>> => Tail(parts) \in Seq(Names)
    BY HeadIs
  <2> QED
    BY <1>1, <2>1, AlongType DEF Way, Rooted
<1>4. Way(p, parts).node \in DOMAIN tree
  BY <1>3 DEF Ways
<1>5. Text(tree[Way(p, parts).node].phys) \o <<>> = Text(tree[Way(p, parts).node].phys)
  BY <1>4, NodeText
<1> QED
  BY <1>2, <1>3, <1>5 DEF Converted, Rooted

-----------------------------------------------------------------------------
LEMMA NodeMore ==
  ASSUME TreeOK(tree), NEW p \in Places, NEW parts \in Seq(Names), OnNodes(p, parts),
         NEW s \in Names, s # "/" \/ parts # <<>>
  PROVE  LET n == Way(p, parts).node
             more == Append(parts, s)
         IN  /\ s = "." => OnNodes(p, more) /\ Way(p, more).node = n
             /\ s = ".." /\ n # <<>> => OnNodes(p, more) /\ Way(p, more).node = Front(n)
             /\ s \notin {".", ".."} /\ Append(n, s) \in DOMAIN tree
                  => OnNodes(p, more) /\ Way(p, more).node = Append(n, s)
             /\ s \notin {".", ".."} /\ Append(n, s) \notin DOMAIN tree
                  => ~OnNodes(p, more) /\ Converted(p, more) = Append(Text(tree[n].phys), s)
<1> DEFINE more == Append(parts, s)
           w == Way(p, parts)
           x == Way(p, more)
           n == w.node
<1>1. more \in Seq(Names)
  BY OneMore
<1>2. x = Further(w, s) /\ w \in Ways /\ (Rooted(more) <=> Rooted(parts))
  BY WayMore
<1>3. w.rest = <<>> /\ (Rooted(more) \/ p.dir = Here)
  BY <1>2, ConversionIs
<1> HIDE DEF more
<1>4. OnNodes(p, more) <=> x.rest = <<>>
  BY <1>1, <1>3, ConversionIs
<1>5. Converted(p, more) = Text(tree[x.node].phys) \o x.rest
  BY <1>3 DEF Converted
<1>6. w = [node |-> n, rest |-> <<>>] /\ n \in DOMAIN tree
  BY <1>2, <1>3 DEF Ways
<1> HIDE DEF w, x
<1>7. CASE s = "."
  BY <1>2, <1>3, <1>4, <1>7 DEF Further, w, x, more
<1>8. CASE s = ".."
  <2>1. n # <<>> => x = [w EXCEPT !.node = Front(n)]
    BY <1>2, <1>3, <1>8 DEF Further
  <2>2. n # <<>> => x.node = Front(n) /\ x.rest = <<>>
    BY <1>6, <2>1
  <2> QED
    BY <1>4, <1>8, <2>2 DEF w, x, more
<1>9. CASE s \notin {".", ".."} /\ Append(n, s) \in DOMAIN tree
  <2>1. x = [w EXCEPT !.node = Append(n, s)]
    BY <1>2, <1>3, <1>9 DEF Further
  <2>2. x.node = Append(n, s) /\ x.rest = <<>>
    BY <1>6, <2>1
  <2> QED
    BY <1>4, <1>9, <2>2 DEF w, x, more
<1>10. CASE s \notin {".", ".."} /\ Append(n, s) \notin DOMAIN tree
  <2>1. x = [w EXCEPT !.rest = <<s>>]
    BY <1>2, <1>3, <1>10 DEF Further
  <2>2. x.node = n /\ x.rest = <<s>>
    BY <1>6, <2>1
  <2>3. <<s>> # <<>>
    OBVIOUS
  <2>4. Text(tree[n].phys) \o <<s>> = Append(Text(tree[n].phys), s)
    BY <1>6, NodeText, JoinMore
  <2> QED
    BY <1>4, <1>5, <1>10, <2>2, <2>3, <2>4 DEF w, x, more
<1> QED
  BY <1>7, <1>8, <1>9, <1>10

\* On the disk every part is added to the text.
LEMMA DiskMore ==
  ASSUME TreeOK(tree), NEW p \in Places, NEW parts \in Seq(Names), ~OnNodes(p, parts),
         NEW s \in Names, s # "/" \/ parts # <<>>
  PROVE  LET more == Append(parts, s)
         IN  /\ ~OnNodes(p, more) /\ Converted(p, more) = Append(Converted(p, parts), s)
             /\ Converted(p, parts) \in Seq(Names)
<1> DEFINE more == Append(parts, s)
           w == Way(p, parts)
           x == Way(p, more)
<1>1. more \in Seq(Names)
  BY OneMore
<1>2. x = Further(w, s) /\ w \in Ways /\ (Rooted(more) <=> Rooted(parts))
  BY WayMore
<1> HIDE DEF more
<1>3. CASE Rooted(parts) \/ p.dir = Here
  <2>1. w.rest # <<>> /\ w.rest \in Seq(Names) /\ w.node \in DOMAIN tree
    BY <1>2, <1>3, ConversionIs DEF Ways
  <2> HIDE DEF w, x
  <2>2. x = [w EXCEPT !.rest = Append(w.rest, s)]
    BY <1>2, <2>1 DEF Further
  <2>3. x.node = w.node /\ x.rest = Append(w.rest, s)
    BY <1>2, <2>2 DEF Ways
  <2>4. x.rest # <<>>
    BY <2>1, <2>3, OneMore
  <2>5. ~OnNodes(p, more)
    BY <1>1, <2>4, ConversionIs DEF x
  <2> DEFINE d == Text(tree[w.node].phys)
  <2>6. d \in Seq(Names)
    BY <2>1, NodeText
  <2>7. Converted(p, parts) = d \o w.rest /\ Converted(p, more) = d \o x.rest
    BY <1>2, <1>3, <2>3 DEF Converted, w, x
  <2> HIDE DEF d
  <2>8. d \o Append(w.rest, s) = Append(d \o w.rest, s) /\ d \o w.rest \in Seq(Names)
    BY <2>1, <2>6, JoinMore
  <2> QED
    BY <2>3, <2>5, <2>7, <2>8 DEF more
<1>4. CASE ~Rooted(parts) /\ p.dir # Here
  <2>1. ~OnNodes(p, more)
    BY <1>1, <1>2, <1>4, ConversionIs
  <2>2. Converted(p, parts) = p.dir \o parts /\ Converted(p, more) = p.dir \o more
    BY <1>2, <1>4 DEF Converted
  <2>3. p.dir \in Seq(Names)
    BY <1>4, DiskPaths, PathNames DEF Places, Enterable
  <2>4. ASSUME NEW d \in Seq(Names)
        PROVE  d \o Append(parts, s) = Append(d \o parts, s) /\ d \o parts \in Seq(Names)
    BY JoinMore
  <2>5. p.dir \o Append(parts, s) = Append(p.dir \o parts, s) /\ p.dir \o parts \in Seq(Names)
    BY <2>3, <2>4, Zenon
  <2> QED
    BY <2>1, <2>2, <2>5 DEF more
<1> QED
  BY <1>3, <1>4

-----------------------------------------------------------------------------
(***************************************************************************)
(* The walk and the conversion keep up with each other.                    *)
(***************************************************************************)
\* After these parts from p: in the same node, where the process is if it can be and did
\* not come from below; or in the directory of the disk that the text names.
Leads(p, parts, q) ==
  IF OnNodes(p, parts)
  THEN /\ q.dir = Here /\ q.node = Way(p, parts).node
       /\ parts # <<>> /\ Last(parts) # ".." /\ CanEnter(Phys(q)) => q.cwd = Phys(q)
  ELSE LET d == Resolve(<<>>, Converted(p, parts))
       IN  CanEnter(d) /\ Where(q) = d /\ (parts # <<>> \/ FoundAgain(q) => q.cwd = d)

LEMMA LeadsNowhere ==
  ASSUME TreeOK(tree), NEW p, Good(p)
  PROVE  Leads(p, <<>>, p)
<1>1. p \in Places /\ PlaceOK(p) /\ Steady(p)
  BY PlaceOKIs DEF Good
<1>2. Way(p, <<>>) = AtNode(p.node) /\ ~Rooted(<<>>) /\ <<>> \in Seq(Names)
  BY <1>1, WayStart
<1>3. OnNodes(p, <<>>) <=> p.dir = Here
  <2>1. OnNodes(p, <<>>) <=> (Rooted(<<>>) \/ p.dir = Here) /\ Way(p, <<>>).rest = <<>>
    BY <1>1, <1>2, ConversionIs, Zenon
  <2> QED
    BY <1>2, <2>1 DEF AtNode
<1>4. CASE p.dir = Here
  BY <1>2, <1>3, <1>4 DEF Leads, AtNode
<1>5. CASE p.dir # Here
  <2>1. p.dir \in Directory /\ CanEnter(p.dir) /\ Where(p) = p.dir
    BY <1>1, <1>5 DEF Places, Enterable, CanEnter, Where
  <2>2. Converted(p, <<>>) = p.dir \o <<>> /\ p.dir \o <<>> = p.dir
    BY <1>2, <1>5, <2>1, DiskPaths, JoinMore DEF Converted
  <2>3. Resolve(<<>>, p.dir) = p.dir
    BY <2>1, ResolveSelf
  <2>4. FoundAgain(p) => p.cwd = p.dir
    BY <1>1, <1>5 DEF Steady
  <2> QED
    BY <1>3, <1>5, <2>1, <2>2, <2>3, <2>4 DEF Leads
<1> QED
  BY <1>4, <1>5

-----------------------------------------------------------------------------
LEMMA EnterStands ==
  ASSUME NEW p \in Places, NEW v \in DOMAIN tree, p.dir = Here
  PROVE  LET x == Enter(p, v)
         IN  /\ x \in Places /\ x.dir = Here /\ x.node = v
             /\ CanEnter(Phys(x)) => x.cwd = Phys(x)
<1> DEFINE q == [p EXCEPT !.node = v]
           x == Enter(p, v)
<1>1. x \in Places /\ x.dir = Here /\ x.node = v
  BY EnterType
<1>2. q \in Places /\ x = Chdir(q, tree[v].phys)
  BY DEF Places, Enter
<1> HIDE DEF q
<1>3. x.cwd = IF tree[v].phys \in Enterable THEN tree[v].phys ELSE q.cwd
  BY <1>2, ChdirType
<1>4. Phys(x) = tree[v].phys
  BY <1>1 DEF Phys
<1> HIDE DEF x
<1> QED
  BY <1>1, <1>3, <1>4 DEF CanEnter, Enterable, x

\* The first part.
LEMMA LeadsToRoot ==
  ASSUME TreeOK(tree), NEW p \in Places, NEW q \in Places
  PROVE  Leads(p, <<"/">>, Go(Done(q), "/").at)
<1> DEFINE x == [q EXCEPT !.dir = Here]
           e == Enter(x, <<>>)
<1>1. Done(q).ret = 1 /\ Done(q).at = q /\ <<>> \in DOMAIN tree
  BY DoneType DEF TreeOK, Places
<1>2. x \in Places /\ x.dir = Here
  BY DEF Places
<1>3. SimpleCd(q, "/") = Done(e)
  <2>1. "/" # ".." /\ "/" # "."
    OBVIOUS
  <2> QED
    BY <2>1 DEF SimpleCd
<1> HIDE DEF x
<1>4. e \in Places /\ e.dir = Here /\ e.node = <<>> /\ (CanEnter(Phys(e)) => e.cwd = Phys(e))
  BY <1>1, <1>2, EnterStands
<1> HIDE DEF e
<1>5. Go(Done(q), "/").at = e
  BY <1>1, <1>3, <1>4, FollowLinkHere, DoneType DEF Go
<1>6. OnNodes(p, <<"/">>) /\ Way(p, <<"/">>).node = <<>>
  <2>1. <<"/">> \in Seq(Names)
    BY OneName DEF Names
  <2>2. Way(p, <<"/">>) = AtNode(<<>>) /\ Rooted(<<"/">>)
    BY WayStart
  <2>3. OnNodes(p, <<"/">>) <=> (Rooted(<<"/">>) \/ p.dir = Here) /\ Way(p, <<"/">>).rest = <<>>
    BY <2>1, ConversionIs, Zenon
  <2> QED
    BY <2>2, <2>3 DEF AtNode
<1> QED
  BY <1>4, <1>5, <1>6 DEF Leads

\* From a node.
LEMMA LeadsFromNode ==
  ASSUME TreeOK(tree), NEW p \in Places, NEW parts \in Seq(Names), NEW s \in Names, s # "/",
         NEW q, Good(q), OnNodes(p, parts), Leads(p, parts, q), Go(Done(q), s).ret = 1
  PROVE  Leads(p, Append(parts, s), Go(Done(q), s).at)
<1> DEFINE more == Append(parts, s)
           g == Go(Done(q), s)
           m == SimpleCd(q, s)
           n == Way(p, parts).node
           child == Append(n, s)
<1>1. q \in Places /\ Done(q).ret = 1 /\ Done(q).at = q
  BY PlaceOKIs, DoneType DEF Good
<1>2. q.dir = Here /\ q.node = n
  BY DEF Leads
<1>3. g = FollowLink(m)
  BY <1>1 DEF Go
<1>4. more # <<>> /\ Last(more) = s
  BY OneMore
<1>5. /\ s = "." => OnNodes(p, more) /\ Way(p, more).node = n
      /\ s = ".." /\ n # <<>> => OnNodes(p, more) /\ Way(p, more).node = Front(n)
      /\ s \notin {".", ".."} /\ child \in DOMAIN tree
           => OnNodes(p, more) /\ Way(p, more).node = child
      /\ s \notin {".", ".."} /\ child \notin DOMAIN tree
           => ~OnNodes(p, more) /\ Converted(p, more) = Append(Text(tree[n].phys), s)
  BY NodeMore
<1>6. g.ret = 1 /\ (m.ret # 1 => g = m)
  BY <1>3 DEF FollowLink
<1>7. n \in DOMAIN tree /\ tree[n].phys = Phys(q)
  BY <1>1, <1>2 DEF Places, Phys
<1> HIDE DEF more, g, n
<1>8. CASE s = "."
  <2> DEFINE x == Refresh(q)
  <2>1. "." # ".." /\ "." # "/"
    OBVIOUS
  <2>2. m = Done(x)
    BY <1>8, <2>1 DEF SimpleCd
  <2>3. x \in Places /\ x.dir = Here /\ x.node = n
    BY <1>1, <1>2, RefreshType
  <2>4. CanEnter(Phys(q)) => x.cwd = Phys(q)
    BY <1>2, DotIsWhere DEF FoundAgain, Where
  <2> HIDE DEF x, m
  <2>5. g.at = x
    BY <1>3, <2>2, <2>3, FollowLinkHere, DoneType
  <2>6. Phys(x) = Phys(q)
    BY <1>2, <2>3 DEF Phys
  <2> QED
    BY <1>5, <1>8, <2>3, <2>4, <2>5, <2>6 DEF Leads, g, more
<1>9. CASE s = ".."
  <2> DEFINE x == [q EXCEPT !.node = Front(n)]
  <2>1. m = IF n = <<>> THEN Fail(q, -5) ELSE Done(x)
    BY <1>2, <1>9 DEF SimpleCd
  <2> HIDE DEF m
  <2>2. n # <<>> /\ m = Done(x)
    BY <1>6, <2>1 DEF Fail
  <2>3. Front(n) \in DOMAIN tree
    BY <1>7, <2>2 DEF TreeOK
  <2>4. x \in Places /\ x.dir = Here /\ x.node = Front(n)
    BY <1>1, <1>2, <2>3 DEF Places
  <2> HIDE DEF x
  <2>5. g.at = x
    BY <1>3, <2>2, <2>4, FollowLinkHere, DoneType
  <2> QED
    BY <1>4, <1>5, <1>9, <2>2, <2>4, <2>5 DEF Leads, g, more
<1>10. CASE s \notin {".", ".."} /\ child \in DOMAIN tree
  <2> DEFINE x == Enter(q, child)
  <2>1. m = IF Has(tree[child], "read") THEN Done(x) ELSE Fail(q, -2)
    BY <1>2, <1>10 DEF SimpleCd
  <2> HIDE DEF m
  <2>2. m = Done(x)
    BY <1>6, <2>1 DEF Fail
  <2>3. x \in Places /\ x.dir = Here /\ x.node = child /\ (CanEnter(Phys(x)) => x.cwd = Phys(x))
    BY <1>1, <1>2, <1>10, EnterStands
  <2> HIDE DEF x, child
  <2>4. g.at = x
    BY <1>3, <2>2, <2>3, FollowLinkHere, DoneType
  <2> QED
    BY <1>5, <1>10, <2>3, <2>4 DEF Leads, g, more
<1>11. CASE s \notin {".", ".."} /\ child \notin DOMAIN tree
  <2> DEFINE d == Phys(q)
             x == [q EXCEPT !.cwd = d]
  <2>1. m = IF d = NoDir THEN Fail(q, -3) ELSE IF ~CanEnter(d) THEN Fail(q, -1)
            ELSE PhysicalCd(x, s)
    BY <1>2, <1>11 DEF SimpleCd
  <2> HIDE DEF m
  <2>2. d # NoDir /\ CanEnter(d) /\ m = PhysicalCd(x, s)
    BY <1>6, <2>1 DEF Fail
  <2>3. d \in Directory
    BY <2>2 DEF CanEnter
  <2> HIDE DEF d
  <2>4. x \in Places /\ x.cwd = d
    BY <1>1, <2>3, CwdOnly
  <2> HIDE DEF x
  <2>5. CanEnter(Step(d, s)) /\ Standing(g.at, Step(d, s))
    BY <1>3, <1>6, <2>2, <2>4, OnTheDisk
  <2>6. ~OnNodes(p, more) /\ Converted(p, more) = Append(d, s)
    BY <1>5, <1>7, <1>11, <2>2 DEF Text, d
  <2>7. Resolve(<<>>, Append(d, s)) = Step(d, s)
    <3>1. d \in Seq(Names) /\ <<>> \in Somewhere
      BY <2>3, DiskPaths, PathNames DEF Somewhere
    <3>2. Resolve(<<>>, Append(d, s)) = Step(Resolve(<<>>, d), s)
      BY <3>1, ResolveMore, Zenon
    <3> QED
      BY <2>3, <3>2, ResolveSelf
  <2> QED
    BY <2>5, <2>6, <2>7 DEF Leads, Standing, g, more
<1> QED
  BY <1>8, <1>9, <1>10, <1>11

\* From a directory of the disk.
LEMMA LeadsFromDisk ==
  ASSUME TreeOK(tree), NEW p \in Places, NEW parts \in Seq(Names), NEW s \in Names, s # "/",
         NEW q, Good(q), ~OnNodes(p, parts), Leads(p, parts, q), Go(Done(q), s).ret = 1,
         s = "." \/ parts = <<>> => FoundAgain(q),
         ~(q.dir = Here /\ (s = ".." \/ Append(q.node, s) \in DOMAIN tree))
  PROVE  Leads(p, Append(parts, s), Go(Done(q), s).at)
<1> DEFINE more == Append(parts, s)
           g == Go(Done(q), s)
           m == SimpleCd(q, s)
           text == Converted(p, parts)
           d == Resolve(<<>>, text)
<1>1. q \in Places /\ PlaceOK(q) /\ Done(q).ret = 1 /\ Done(q).at = q
  BY PlaceOKIs, DoneType DEF Good
<1>2. CanEnter(d) /\ Where(q) = d /\ q.cwd = d
  BY DEF Leads
<1>3. g = FollowLink(m) /\ g.ret = 1
  BY <1>1 DEF Go
<1>4. ~OnNodes(p, more) /\ Converted(p, more) = Append(text, s) /\ text \in Seq(Names)
  BY DiskMore
<1>5. Resolve(<<>>, Append(text, s)) = Step(d, s)
  <2>1. <<>> \in Somewhere
    BY DiskPaths DEF Somewhere
  <2> HIDE DEF text
  <2> QED
    BY <1>4, <2>1, ResolveMore
<1>6. more # <<>>
  BY OneMore
<1> HIDE DEF more, g, text, d
<1>7. Leads(p, more, g.at) <=> CanEnter(Step(d, s)) /\ Standing(g.at, Step(d, s))
  BY <1>4, <1>5, <1>6 DEF Leads, Standing
<1>8. CASE s = "."
  <2> DEFINE x == Refresh(q)
  <2>1. "." # ".." /\ "." # "/"
    OBVIOUS
  <2>2. m = Done(x)
    BY <1>8, <2>1 DEF SimpleCd
  <2>3. x \in Places /\ x.dir = q.dir /\ x.node = q.node
    BY <1>1, RefreshType
  <2>4. x.cwd = d
    BY <1>2, <1>8, DotIsWhere
  <2> HIDE DEF x, m
  <2>5. Standing(x, d)
    BY <1>2, <2>3, <2>4 DEF Standing, Where, Phys
  <2>6. Standing(g.at, d)
    BY <1>3, <2>2, <2>3, <2>5, FollowLinkStands
  <2>7. Step(d, s) = d
    BY <1>8 DEF Step
  <2> QED
    BY <1>2, <1>7, <2>6, <2>7 DEF g, more
<1>9. CASE s # "."
  <2> DEFINE x == [q EXCEPT !.cwd = d]
  <2>1. d \in Directory /\ d # NoDir
    BY <1>2, DiskAssumption DEF CanEnter
  <2>2. x \in Places /\ x.cwd = d
    BY <1>1, <2>1, CwdOnly
  <2>3. m = PhysicalCd(q, s) \/ m = PhysicalCd(x, s)
    <3>1. CASE q.dir = Here
      <4>1. s \notin {"..", ".", "/"} /\ Append(q.node, s) \notin DOMAIN tree
        BY <1>9, <3>1
      <4>2. Phys(q) = d
        BY <1>2, <3>1 DEF Where
      <4>3. m = IF d = NoDir THEN Fail(q, -3) ELSE IF ~CanEnter(d) THEN Fail(q, -1)
                ELSE PhysicalCd(x, s)
        BY <3>1, <4>1, <4>2 DEF SimpleCd
      <4> QED
        BY <1>2, <2>1, <4>3
    <3>2. CASE q.dir # Here
      BY <1>9, <3>2 DEF SimpleCd
    <3> QED
      BY <3>1, <3>2
  <2> HIDE DEF m, x
  <2>4. CanEnter(Step(d, s)) /\ Standing(g.at, Step(d, s))
    BY <1>1, <1>2, <1>3, <2>2, <2>3, OnTheDisk
  <2> QED
    BY <1>7, <2>4 DEF g, more
<1> QED
  BY <1>8, <1>9

-----------------------------------------------------------------------------
\* What Straight asks of each part.
Guarded(p, parts) ==
  \A i \in 1..Len(parts) : \A q \in {Walked(p, SubSeq(parts, 1, i - 1)).at} :
    /\ parts[i] = "." \/ (i = 1 /\ parts[i] # "/") => FoundAgain(q)
    /\ q.dir = Here /\ (parts[i] = ".." \/ Append(q.node, parts[i]) \in DOMAIN tree)
         => OnNodes(p, SubSeq(parts, 1, i - 1))

LEMMA LeadsMore ==
  ASSUME TreeOK(tree), NEW p, Good(p), NEW parts \in Seq(Names), NEW s \in Names,
         s = "/" => parts = <<>>, NEW q, Good(q), Leads(p, parts, q), Go(Done(q), s).ret = 1,
         s = "." \/ (parts = <<>> /\ s # "/") => FoundAgain(q),
         q.dir = Here /\ (s = ".." \/ Append(q.node, s) \in DOMAIN tree) => OnNodes(p, parts)
  PROVE  Leads(p, Append(parts, s), Go(Done(q), s).at)
<1>1. p \in Places /\ q \in Places
  BY PlaceOKIs DEF Good
<1>2. CASE s = "/"
  <2>1. Append(<<>>, "/") = <<"/">>
    OBVIOUS
  <2> QED
    BY <1>1, <1>2, <2>1, LeadsToRoot
<1>3. CASE s # "/" /\ OnNodes(p, parts)
  BY <1>1, <1>3, LeadsFromNode
<1>4. CASE s # "/" /\ ~OnNodes(p, parts)
  BY <1>1, <1>4, LeadsFromDisk
<1> QED
  BY <1>2, <1>3, <1>4

\* As far as a straight way leads, the text of its path names the place.
LEMMA StraightLeads ==
  ASSUME TreeOK(tree), NEW p, Good(p), NEW parts \in Seq(Names),
         \A i \in 2..Len(parts) : parts[i] # "/", Guarded(p, parts), NEW n \in 0..Len(parts),
         Walked(p, SubSeq(parts, 1, n)).ret = 1
  PROVE  /\ Leads(p, SubSeq(parts, 1, n), Walked(p, SubSeq(parts, 1, n)).at)
         /\ Good(Walked(p, SubSeq(parts, 1, n)).at)
<1> DEFINE Pre(i) == SubSeq(parts, 1, i)
           W(i) == Walked(p, Pre(i))
           S == {i \in 0..Len(parts) : W(i).ret = 1 => Leads(p, Pre(i), W(i).at)}
<1>1. p \in Places /\ Len(parts) \in Nat
  BY PlaceOKIs, LenProperties DEF Good
<1>2. ASSUME NEW i \in 0..Len(parts)
      PROVE  W(i) \in Results /\ (W(i).ret = 1 => Good(W(i).at))
  <2>1. Pre(i) \in Seq(Names)
    BY PrefixOf
  <2>2. Underway(W(i), p)
    BY <1>1, <2>1, WalkedUnderway
  <2> QED
    BY <2>2 DEF Underway
<1>3. 0 \in S
  <2>1. 0 \in 0..Len(parts)
    BY <1>1
  <2>2. Pre(0) = <<>>
    BY <2>1, PrefixOf, EmptySeq
  <2>3. W(0) = Done(p)
    <3>1. <<>> \in Seq(Names) /\ Len(<<>>) = 0
      OBVIOUS
    <3>2. PICK c : /\ Walked(p, <<>>) = c[Len(<<>>)] /\ c[0] = Done(p)
                   /\ \A i \in 1..Len(<<>>) : c[i] = Go(c[i - 1], <<>>[i])
      BY <1>1, <3>1, WalkedIs
    <3> QED
      BY <2>2, <3>1, <3>2
  <2>4. W(0).at = p
    BY <1>1, <2>3, DoneType
  <2> QED
    BY <2>1, <2>2, <2>4, LeadsNowhere
<1>4. ASSUME NEW i \in 1..Len(parts), i - 1 \in S PROVE i \in S
  <2> DEFINE pre == Pre(i - 1)
             s == parts[i]
             r == W(i - 1)
             q == r.at
  <2>1. i \in 0..Len(parts) /\ i - 1 \in 0..Len(parts) /\ (r.ret = 1 => Leads(p, pre, q))
    BY <1>1, <1>4
  <2>2. Pre(i) = Append(pre, s) /\ pre \in Seq(Names) /\ s \in Names /\ Len(pre) = i - 1
    BY NextPrefix
  <2>3. r \in Results /\ (r.ret = 1 => Good(q))
    BY <1>2, <2>1
  <2>4. /\ s = "." \/ (i = 1 /\ s # "/") => FoundAgain(q)
        /\ q.dir = Here /\ (s = ".." \/ Append(q.node, s) \in DOMAIN tree) => OnNodes(p, pre)
    <3>1. \A x \in {Walked(p, SubSeq(parts, 1, i - 1)).at} :
            /\ parts[i] = "." \/ (i = 1 /\ parts[i] # "/") => FoundAgain(x)
            /\ x.dir = Here /\ (parts[i] = ".." \/ Append(x.node, parts[i]) \in DOMAIN tree)
                 => OnNodes(p, SubSeq(parts, 1, i - 1))
      BY DEF Guarded
    <3> QED
      BY <3>1, Zenon
  <2>5. pre = <<>> <=> i = 1
    <3>1. Len(pre) = 0 <=> i = 1
      BY <1>1, <2>2
    <3> HIDE DEF pre
    <3> QED
      BY <2>2, <3>1, EmptySeq
  <2>6. s = "/" => pre = <<>>
    <3>1. i # 1 => i \in 2..Len(parts)
      BY <1>1
    <3> QED
      BY <2>5, <3>1
  <2>7. W(i) = Go(r, s)
    <3>1. Walked(p, Append(pre, s)) = Go(Walked(p, pre), s)
      <4> HIDE DEF pre, s
      <4> QED
        BY <1>1, <2>2, WalkedMore
    <3> QED
      BY <2>2, <3>1, Zenon
  <2> SUFFICES ASSUME W(i).ret = 1 PROVE Leads(p, Pre(i), W(i).at)
    BY <2>1
  <2> HIDE DEF pre, s, r
  <2>8. r.ret = 1
    BY <2>7 DEF Go
  <2>9. Go(r, s) = Go(Done(q), s)
    <3>1. q \in Places
      BY <2>3 DEF Results
    <3>2. Done(q).ret = 1 /\ Done(q).at = q
      BY <3>1, DoneType
    <3> QED
      BY <2>8, <3>2 DEF Go
  <2>10. Go(Done(q), s).ret = 1
    BY <2>7, <2>9
  <2>11. Leads(p, Append(pre, s), Go(Done(q), s).at)
    BY <2>1, <2>2, <2>3, <2>4, <2>5, <2>6, <2>8, <2>10, LeadsMore
  <2> QED
    BY <2>2, <2>7, <2>9, <2>11
<1>5. 0..Len(parts) \subseteq S
  <2> HIDE DEF S
  <2> QED
    BY <1>1, <1>3, <1>4, RangeInduction
<1> QED
  BY <1>2, <1>5

-----------------------------------------------------------------------------
(***************************************************************************)
(* The directories of the nodes.                                           *)
(***************************************************************************)
\* None, one that can be entered, or one that is closed, as it is written in vfs.cfg.
Backing(d) == d = NoDir \/ CanEnter(d) \/ Resolve(<<>>, d) \in Closed
Written(d) == Relative(d) \/ Backing(d)

Placed(t) == \A v \in DOMAIN t : Written(t[v].phys)
Backed(t) == \A v \in DOMAIN t : Backing(t[v].phys)

LEMMA LineWritten ==
  ASSUME NEW line \in ConfigLine
  PROVE  Written(LineDir(line))
<1>1. line.phys \in Seq(STRING)
  BY DEF ConfigLine
<1>2. Resolve(<<>>, line.phys) \in Directory \cup {NoDir}
  BY <1>1, DiskPaths, ResolveType DEF Somewhere
<1> QED
  BY <1>2 DEF LineDir, Written, Backing, CanEnter

LEMMA NonePlaced ==
  ASSUME NEW conf \in Configuration, NEW cwd \in Directory, NEW j \in SUBSET Right
  PROVE  Placed(NoneLoaded(conf, cwd, j).tree)
<1> DEFINE root == CheckDir(conf.root, cwd)
           d == Resolve(<<>>, conf.root)
           t == NoneLoaded(conf, cwd, j).tree
<1>1. t = IF root.ok THEN Root(root.path, j) ELSE <<>>
  BY DEF NoneLoaded
<1>2. conf.root \in Seq(STRING)
  BY DEF Configuration
<1>3. d \in Directory \cup {NoDir}
  BY <1>2, DiskPaths, ResolveType DEF Somewhere
<1>4. root.ok => Written(root.path)
  BY <1>3 DEF CheckDir, Written, Backing, CanEnter
<1> HIDE DEF root, t
<1>5. CASE root.ok
  <2>1. DOMAIN t = {<<>>} /\ t[<<>>].phys = root.path
    BY <1>1, <1>5 DEF Root
  <2> QED
    BY <1>4, <1>5, <2>1 DEF Placed, t
<1>6. CASE ~root.ok
  <2>1. DOMAIN t = {}
    BY <1>1, <1>6
  <2> QED
    BY <2>1 DEF Placed, t
<1> QED
  BY <1>5, <1>6

LEMMA AddDirectoryPlaced ==
  ASSUME NEW t \in Trees, NEW line \in ConfigLine, NEW phys \in Seq(STRING), NEW n \in Nat,
         Placed(t), Written(phys)
  PROVE  Placed(AddDirectory(t, line, phys, n))
<1> DEFINE u == AddDirectory(t, line, phys, n)
<1>1. Adds(u, t, line, phys, n)
  BY AddDirectoryIs
<1> HIDE DEF u
<1> SUFFICES ASSUME NEW v \in DOMAIN u PROVE Written(u[v].phys)
  BY DEF Placed, u
<1>2. CASE v \in DOMAIN t
  <2>1. u[v] = IF v = line.virt THEN [t[v] EXCEPT !.phys = phys] ELSE t[v]
    BY <1>1, <1>2 DEF Adds
  <2>2. t[v] \in Node
    BY <1>2, TreesDef
  <2>3. u[v].phys \in {phys, t[v].phys}
    BY <2>1, <2>2 DEF Node
  <2> QED
    BY <1>2, <2>3 DEF Placed
<1>3. CASE v \notin DOMAIN t
  <2>1. u[v] = NewNode(line, phys, n, v)
    BY <1>1, <1>3 DEF Adds
  <2>2. u[v].phys \in {phys, NoDir}
    BY <2>1 DEF NewNode
  <2> QED
    BY <2>2 DEF Written, Backing
<1> QED
  BY <1>2, <1>3

LEMMA LoadedPlaced ==
  ASSUME NEW conf \in Configuration, NEW cwd \in Directory, NEW j \in SUBSET Right
  PROVE  Placed(LoadConfigFile(conf, cwd, j).tree)
<1> DEFINE n == Len(conf.lines)
<1>1. PICK c : Loads(c, conf, cwd, j) /\ LoadConfigFile(conf, cwd, j) = c[n]
  BY LoadIs
<1>2. n \in Nat /\ \A i \in 1..n : conf.lines[i] \in ConfigLine
  <2>1. conf.lines \in Seq(ConfigLine)
    BY DEF Configuration
  <2> QED
    BY <2>1, LenProperties, ElementOfSeq
<1> DEFINE S == {i \in 0..n : Placed(c[i].tree)}
<1>3. 0 \in S
  BY <1>1, <1>2, NonePlaced DEF Loads
<1>4. ASSUME NEW i \in 1..n, i - 1 \in S PROVE i \in S
  <2> DEFINE r == c[i - 1]
             s == c[i]
             line == conf.lines[i]
  <2>1. i \in 0..n /\ i \in Nat /\ i - 1 \in 0..n /\ Placed(r.tree) /\ line \in ConfigLine
    BY <1>2, <1>4
  <2>2. r \in Loaded
    BY <1>1, <2>1, LoadsGood DEF GoodLoad
  <2>3. s = ReadLine(r, line, i)
    BY <1>1 DEF Loads
  <2> HIDE DEF r, s, line
  <2>4. Reads(s, r, line, i)
    BY <2>1, <2>2, <2>3, ReadLineReads
  <2>5. s.tree = r.tree \/ s.tree = AddDirectory(r.tree, line, LineDir(line), i)
    <3>1. CASE s = r
      BY <3>1
    <3>2. CASE \E wd \in Directory : s = [r EXCEPT !.ok = FALSE, !.cwd = wd]
      BY <2>2, <3>2 DEF Loaded
    <3>3. CASE \E wd \in Directory : s = [ok |-> TRUE, cwd |-> wd,
                                            tree |-> AddDirectory(r.tree, line, LineDir(line), i)]
      BY <3>3
    <3> QED
      BY <2>4, <3>1, <3>2, <3>3 DEF Reads
  <2>6. Placed(AddDirectory(r.tree, line, LineDir(line), i))
    <3>1. r.tree \in Trees /\ LineDir(line) \in Seq(STRING) /\ Written(LineDir(line))
      BY <2>1, <2>2, LineWritten, LineDirType DEF Loaded
    <3> QED
      BY <2>1, <3>1, AddDirectoryPlaced
  <2> QED
    BY <2>1, <2>5, <2>6 DEF s
<1>5. n \in S
  <2>1. n \in 0..n
    BY <1>2
  <2>2. 0..n \subseteq S
    <3> HIDE DEF S, n
    <3> QED
      BY <1>2, <1>3, <1>4, RangeInduction
  <2> QED
    BY <2>1, <2>2
<1> QED
  BY <1>1, <1>5

\* Whatever is reloaded; the tree of a session has no relative directory.
OfSession == Placed(tree) /\ (phase = "session" => AbsoluteOnly)

LEMMA AlwaysBacked == Spec => [](phase = "session" => Backed(tree))
<1>1. Init => OfSession
  <2> SUFFICES ASSUME Init PROVE OfSession
    OBVIOUS
  <2>1. /\ config \in Configuration /\ junk \in SUBSET Right
        /\ tree = LoadConfigFile(config, <<>>, junk).tree
    BY SomeRights, VFSAssumption DEF Init
  <2>2. Placed(tree) /\ phase = "server"
    BY <2>1, LoadedPlaced, DiskPaths DEF Init
  <2> QED
    BY <2>2 DEF OfSession
<1>2. OfSession /\ Facts /\ [Next]_vars => OfSession'
  <2> SUFFICES ASSUME OfSession, Facts, [Next]_vars PROVE OfSession'
    OBVIOUS
  <2>1. CASE ReloadConfigFile
    <3>1. /\ config' \in Configuration /\ junk' \in SUBSET Right /\ at.cwd \in Directory
          /\ tree' = LoadConfigFile(config', at.cwd, junk').tree
      BY <2>1, SomeRights, VFSAssumption DEF ReloadConfigFile, Facts
    <3>2. Placed(tree') /\ phase' = "server"
      BY <2>1, <3>1, LoadedPlaced DEF ReloadConfigFile
    <3> QED
      BY <3>2 DEF OfSession
  <2>2. CASE Fork
    BY <2>2 DEF Fork, OfSession, AbsoluteOnly
  <2>3. CASE Session
    <3>1. tree' = tree /\ phase' = phase
      BY <2>3, SessionGood
    <3> QED
      BY <3>1 DEF OfSession, AbsoluteOnly
  <2>4. CASE UNCHANGED vars
    BY <2>4 DEF vars, OfSession, AbsoluteOnly
  <2> QED
    BY <2>1, <2>2, <2>3, <2>4 DEF Next, Session
<1>3. OfSession => (phase = "session" => Backed(tree))
  BY DEF OfSession, AbsoluteOnly, Placed, Written, Backed
<1>4. Spec => []Facts
  BY InitFacts, NextFacts, PTL DEF Spec
<1> QED
  BY <1>1, <1>2, <1>3, <1>4, PTL DEF Spec

-----------------------------------------------------------------------------
(***************************************************************************)
(* Where a straight way ends.                                              *)
(***************************************************************************)
LEMMA FrontIs ==
  ASSUME NEW B, NEW parts \in Seq(B), parts # <<>>
  PROVE  /\ SubSeq(parts, 1, Len(parts) - 1) = Front(parts)
         /\ Len(parts) - 1 \in 0..Len(parts) /\ Len(parts) \in 0..Len(parts)
<1>1. Len(parts) \in Nat /\ Len(parts) # 0
  BY LenProperties, EmptySeq
<1> QED
  BY <1>1 DEF Front

\* The whole of a straight way, and all but its last part.
LEMMA StraightEnds ==
  ASSUME TreeOK(tree), NEW p, Good(p), NEW parts \in Seq(Names), parts # <<>>,
         \A i \in 2..Len(parts) : parts[i] # "/", Straight(p, parts)
  PROVE  /\ Walked(p, parts).ret = 1 =>
              /\ Leads(p, parts, Walked(p, parts).at) /\ Good(Walked(p, parts).at)
              /\ Walked(p, Front(parts)).ret = 1
         /\ Walked(p, Front(parts)).ret = 1 =>
              /\ Leads(p, Front(parts), Walked(p, Front(parts)).at)
              /\ Good(Walked(p, Front(parts)).at)
<1> DEFINE f == Front(parts)
           s == Last(parts)
<1>1. Guarded(p, parts)
  BY DEF Straight, Guarded
<1>2. SubSeq(parts, 1, Len(parts) - 1) = f /\ SubSeq(parts, 1, Len(parts)) = parts
      /\ Len(parts) - 1 \in 0..Len(parts) /\ Len(parts) \in 0..Len(parts)
  BY FrontIs, WholePrefix
<1>3. parts = Append(f, s) /\ f \in Seq(Names) /\ s \in Names
  BY LastMore
<1>4. p \in Places
  BY PlaceOKIs DEF Good
<1>5. Walked(p, parts) = Go(Walked(p, f), s)
  <2>1. Walked(p, Append(f, s)) = Go(Walked(p, f), s)
    <3> HIDE DEF f, s
    <3> QED
      BY <1>3, <1>4, WalkedMore
  <2> QED
    BY <1>3, <2>1, Zenon
<1>6. Walked(p, parts).ret = 1 => Walked(p, f).ret = 1
  BY <1>5 DEF Go
<1>7. ASSUME NEW n \in 0..Len(parts), Walked(p, SubSeq(parts, 1, n)).ret = 1
      PROVE  /\ Leads(p, SubSeq(parts, 1, n), Walked(p, SubSeq(parts, 1, n)).at)
             /\ Good(Walked(p, SubSeq(parts, 1, n)).at)
  BY <1>1, <1>7, StraightLeads
<1> HIDE DEF f
<1>8. Walked(p, parts).ret = 1 => Leads(p, parts, Walked(p, parts).at) /\ Good(Walked(p, parts).at)
  BY <1>2, <1>7
<1>9. Walked(p, f).ret = 1 => Leads(p, f, Walked(p, f).at) /\ Good(Walked(p, f).at)
  BY <1>2, <1>7
<1> QED
  BY <1>6, <1>8, <1>9 DEF f

\* A straight way does not end with a step up from a node.
LEMMA NotUp ==
  ASSUME TreeOK(tree), NEW p, Good(p), NEW parts \in Seq(Names), parts # <<>>,
         \A i \in 2..Len(parts) : parts[i] # "/", Straight(p, parts),
         Walked(p, Front(parts)).ret = 1, Last(parts) = ".."
  PROVE  ~OnNodes(p, parts) /\ ~OnNodes(p, Front(parts))
<1> DEFINE f == Front(parts)
<1>1. Leads(p, f, Walked(p, f).at)
  BY StraightEnds
<1>2. Walked(p, f).at.dir # Here
  BY DEF Straight
<1>3. parts = Append(f, "..") /\ f \in Seq(Names) /\ ".." \in Names /\ ".." # "/"
  BY LastMore
<1>4. p \in Places
  BY PlaceOKIs DEF Good
<1>5. ~OnNodes(p, f)
  BY <1>1, <1>2 DEF Leads
<1>6. ~OnNodes(p, Append(f, ".."))
  <2> HIDE DEF f
  <2> QED
    BY <1>3, <1>4, <1>5, DiskMore
<1> QED
  BY <1>3, <1>5, <1>6

\* A directory of a node that is entered by its text is the one that is written there.
LEMMA BackingIs ==
  ASSUME NEW d, Backing(d), d # NoDir, CanEnter(Resolve(<<>>, d))
  PROVE  CanEnter(d) /\ Resolve(<<>>, d) = d
<1>1. CanEnter(d)
  BY DEF Backing, CanEnter
<1> QED
  BY <1>1, ResolveSelf DEF CanEnter

LEMMA DirParts ==
  ASSUME NEW path \in FilePaths, Empty \notin ToSet(CutPathIntoParts(Dirname(path)))
  PROVE  LET parts == CutPathIntoParts(Dirname(path))
         IN  /\ parts \in Seq(Names) /\ parts # <<>> /\ ~BadPath(Dirname(path))
             /\ \A i \in 2..Len(parts) : parts[i] # "/"
             /\ Len(path) = 1 => Dirname(path) = <<".">> /\ parts = <<".">>
             /\ path \in Seq(Names) /\ path # <<>> /\ Last(path) \in Names
<1> DEFINE dir == Dirname(path)
           parts == CutPathIntoParts(dir)
<1>1. path \in Seq(STRING) /\ path # <<>> /\ path[1] # Empty /\ path \in Seq(Names)
      /\ \A i \in 2..Len(path) : path[i] # "/"
  BY PathType, VFSAssumption
<1>2. Last(path) \in Names
  BY <1>1, LastName
<1>3. ~BadPath(dir)
  BY DEF BadPath
<1>4. dir \in Seq(Names) /\ parts \in Seq(Names)
  BY <1>1, DirnameType, CutType
<1>5. CASE Len(path) = 1
  <2>1. dir = <<".">>
    BY <1>5 DEF Dirname
  <2>2. <<".">> # <<>> /\ Last(<<".">>) = "." /\ Len(<<".">>) = 1
    BY DEF Last
  <2>3. "." # Empty
    BY Zenon DEF Empty
  <2>4. parts = <<".">>
    BY <2>1, <2>2, <2>3 DEF CutPathIntoParts
  <2> HIDE DEF dir, parts
  <2>5. parts # <<>> /\ \A i \in 2..Len(parts) : parts[i] # "/"
    BY <2>2, <2>4
  <2> QED
    BY <1>1, <1>2, <1>3, <1>4, <2>1, <2>4, <2>5 DEF dir, parts
<1>6. CASE Len(path) # 1
  <2>1. dir = Front(path) /\ Len(path) \in Nat /\ Len(path) # 0
    BY <1>1, <1>6, LenProperties, EmptySeq DEF Dirname
  <2>2. /\ dir \in Seq(STRING) /\ Len(dir) = Len(path) - 1
        /\ \A i \in 1..Len(dir) : dir[i] = path[i]
    BY <1>1, <2>1, FrontType
  <2> HIDE DEF dir
  <2>3. dir # <<>> /\ dir[1] # Empty
    <3>1. 1 \in 1..Len(dir)
      BY <1>6, <2>1, <2>2
    <3> QED
      BY <1>1, <2>2, <3>1, EmptySeq
  <2>4. parts # <<>>
    BY <2>2, <2>3, CutSome
  <2>5. Len(parts) <= Len(dir) /\ \A i \in 1..Len(parts) : parts[i] = dir[i]
    <3>1. CASE parts = dir
      BY <2>1, <2>2, <3>1
    <3>2. CASE parts = Front(dir)
      <4>1. Len(Front(dir)) = Len(dir) - 1 /\ \A i \in 1..Len(Front(dir)) : Front(dir)[i] = dir[i]
        BY <2>2, <2>3, FrontType
      <4> QED
        BY <2>1, <2>2, <3>2, <4>1
    <3> QED
      BY <3>1, <3>2 DEF CutPathIntoParts
  <2> HIDE DEF parts
  <2>6. ASSUME NEW i \in 2..Len(parts) PROVE parts[i] # "/"
    <3>1. Len(parts) \in Nat
      BY <1>4, LenProperties DEF dir, parts
    <3>2. i \in 1..Len(parts) /\ i \in 1..Len(dir) /\ i \in 2..Len(path)
      BY <2>1, <2>2, <2>5, <3>1
    <3> QED
      BY <1>1, <2>2, <2>5, <3>2
  <2> QED
    BY <1>1, <1>2, <1>3, <1>4, <1>6, <2>4, <2>6 DEF dir, parts
<1> QED
  BY <1>5, <1>6

\* The text of the directory of a path.
DirText(p, path) ==
  IF Len(path) = 1 THEN Text(Where(p)) ELSE ConvertToPhysicalPath(p, Dirname(path))

LEMMA DirTextIs ==
  ASSUME TreeOK(tree), NEW p \in Places, NEW path \in FilePaths,
         Empty \notin ToSet(CutPathIntoParts(Dirname(path)))
  PROVE  LET parts == CutPathIntoParts(Dirname(path))
         IN  /\ OnNodes(p, parts) => DirText(p, path) = Text(tree[Way(p, parts).node].phys)
             /\ ~OnNodes(p, parts) =>
                  Resolve(<<>>, DirText(p, path)) = Resolve(<<>>, Converted(p, parts))
             /\ DirText(p, path) \in Seq(Names)
<1> DEFINE parts == CutPathIntoParts(Dirname(path))
<1>1. /\ parts \in Seq(Names) /\ parts # <<>> /\ ~BadPath(Dirname(path))
      /\ Len(path) = 1 => parts = <<".">>
  BY DirParts
<1>2. ConvertToPhysicalPath(p, Dirname(path)) = Converted(p, parts)
  BY <1>1, ConversionIs
<1>3. OnNodes(p, parts) => Converted(p, parts) = Text(tree[Way(p, parts).node].phys)
                           /\ Way(p, parts).node \in DOMAIN tree
  BY <1>1, ConvertedNode DEF Ways
<1> HIDE DEF parts
<1>4. CASE Len(path) # 1
  <2>1. DirText(p, path) = Converted(p, parts)
    BY <1>2, <1>4 DEF DirText
  <2>2. ~OnNodes(p, parts) => Converted(p, parts) \in Seq(Names)
    <3> DEFINE s == "."
    <3>1. s \in Names /\ (s # "/" \/ parts # <<>>)
      BY <1>1 DEF Names
    <3> QED
      BY <1>1, <3>1, DiskMore
  <2>3. OnNodes(p, parts) => Converted(p, parts) \in Seq(Names)
    BY <1>3, NodeText
  <2> QED
    BY <1>3, <2>1, <2>2, <2>3 DEF parts
<1>5. CASE Len(path) = 1
  <2>1. parts = <<".">> /\ DirText(p, path) = Text(Where(p))
    BY <1>1, <1>5 DEF DirText
  <2>2. <<>> \in Seq(Names) /\ "." \in Names /\ "." # "/" /\ Append(<<>>, ".") = <<".">>
    BY DEF Names
  <2>3. Way(p, <<>>) = AtNode(p.node) /\ ~Rooted(<<>>)
    BY WayStart
  <2>4. OnNodes(p, <<>>) <=> p.dir = Here
    <3>1. OnNodes(p, <<>>) <=> (Rooted(<<>>) \/ p.dir = Here) /\ Way(p, <<>>).rest = <<>>
      BY <2>2, ConversionIs, Zenon
    <3> QED
      BY <2>3, <3>1 DEF AtNode
  <2>5. CASE p.dir = Here
    <3>1. OnNodes(p, Append(<<>>, ".")) /\ Way(p, Append(<<>>, ".")).node = Way(p, <<>>).node
      BY <2>2, <2>4, <2>5, NodeMore
    <3>2. OnNodes(p, parts) /\ Way(p, parts).node = p.node
      BY <2>1, <2>2, <2>3, <3>1 DEF AtNode
    <3>3. DirText(p, path) = Text(tree[p.node].phys) /\ p.node \in DOMAIN tree
      BY <2>1, <2>5 DEF Where, Phys, Places
    <3>4. DirText(p, path) \in Seq(Names)
      BY <3>3, NodeText
    <3> QED
      BY <3>2, <3>3, <3>4 DEF parts
  <2>6. CASE p.dir # Here
    <3>1. p.dir \in Directory /\ p.dir # NoDir
      BY <2>6, DiskAssumption DEF Places, Enterable
    <3>2. p.dir \in Seq(Names)
      BY <3>1, DiskPaths, PathNames
    <3>3. DirText(p, path) = p.dir
      BY <2>1, <2>6, <3>1 DEF Where, Text
    <3>4. Converted(p, <<>>) = p.dir \o <<>> /\ p.dir \o <<>> = p.dir
      BY <2>3, <2>6, <3>2, JoinMore DEF Converted
    <3>5. ~OnNodes(p, Append(<<>>, ".")) /\ Converted(p, Append(<<>>, ".")) = Append(Converted(p, <<>>), ".")
      BY <2>2, <2>4, <2>6, DiskMore
    <3>6. ~OnNodes(p, parts) /\ Converted(p, parts) = Append(p.dir, ".")
      BY <2>1, <2>2, <3>4, <3>5
    <3>7. Resolve(<<>>, Append(p.dir, ".")) = Step(Resolve(<<>>, p.dir), ".")
      <4>1. <<>> \in Somewhere
        BY DiskPaths DEF Somewhere
      <4> QED
        BY <2>2, <3>2, <4>1, ResolveMore, Zenon
    <3>8. Step(p.dir, ".") = p.dir
      BY DEF Step
    <3>9. Resolve(<<>>, p.dir) = p.dir
      BY <3>1, ResolveSelf
    <3> QED
      BY <3>2, <3>3, <3>6, <3>7, <3>8, <3>9 DEF parts
  <2> QED
    BY <2>5, <2>6
<1> QED
  BY <1>4, <1>5

-----------------------------------------------------------------------------
(***************************************************************************)
(* RETR.                                                                   *)
(***************************************************************************)
LEMMA FileIs ==
  /\ NoDir \notin File
  /\ \A f \in File : f \notin Directory \cup DOMAIN Link
<1>1. Empty \in ToSet(NoDir)
  BY DEF ToSet, NoDir
<1> QED
  BY <1>1, VFSAssumption

\* Where CWD leads along the parts of a path.
LEMMA ChangeDirWalks ==
  ASSUME NEW p, NEW path, ~BadPath(path), ChangeDir(p, path).ret = 1
  PROVE  LET w == Walked(p, CutPathIntoParts(path))
         IN  ChangeDir(p, path) = w /\ w.ret = 1
  BY DEF ChangeDir, Arrived, Fail

\* A place at the end of a straight way that leads to the directory of the text.
LEMMA EndsInDirectory ==
  ASSUME TreeOK(tree), Backed(tree), NEW p, Good(p), NEW path \in FilePaths,
         Straight(p, CutPathIntoParts(Dirname(path))),
         ChangeDir(p, Dirname(path)).ret = 1, Where(ChangeDir(p, Dirname(path)).at) # NoDir,
         CanEnter(Resolve(<<>>, DirText(p, path)))
  PROVE  ChangeDir(p, Dirname(path)).at.cwd = Resolve(<<>>, DirText(p, path))
<1> DEFINE dir == Dirname(path)
           parts == CutPathIntoParts(dir)
           w == Walked(p, parts)
           q == w.at
           text == DirText(p, path)
<1>1. Empty \notin ToSet(parts)
  BY DEF Straight
<1>2. /\ parts \in Seq(Names) /\ parts # <<>> /\ ~BadPath(dir)
      /\ \A i \in 2..Len(parts) : parts[i] # "/"
  BY <1>1, DirParts
<1>3. p \in Places
  BY PlaceOKIs DEF Good
<1>4. ChangeDir(p, dir) = w /\ w.ret = 1
  BY <1>2, ChangeDirWalks
<1> HIDE DEF parts
<1>5. Leads(p, parts, q) /\ Good(q) /\ Walked(p, Front(parts)).ret = 1
  BY <1>2, <1>4, StraightEnds DEF parts
<1>6. /\ OnNodes(p, parts) => text = Text(tree[Way(p, parts).node].phys)
      /\ ~OnNodes(p, parts) => Resolve(<<>>, text) = Resolve(<<>>, Converted(p, parts))
  BY <1>1, <1>3, DirTextIs DEF parts
<1> HIDE DEF w, text, dir
<1>7. CASE ~OnNodes(p, parts)
  BY <1>2, <1>4, <1>5, <1>6, <1>7 DEF Leads, text, dir
<1>8. CASE OnNodes(p, parts)
  <2> DEFINE d == Phys(q)
  <2>1. q.dir = Here /\ q.node = Way(p, parts).node
    BY <1>5, <1>8 DEF Leads
  <2>2. d # NoDir /\ text = d
    BY <1>4, <1>6, <1>8, <2>1 DEF Where, Phys, Text, dir
  <2>3. Backing(d)
    <3>1. q.node \in DOMAIN tree
      BY <1>5, PlaceOKIs DEF Good, Places
    <3> QED
      BY <3>1 DEF Backed, Phys
  <2> HIDE DEF d
  <2>4. CanEnter(d) /\ Resolve(<<>>, d) = d
    BY <2>2, <2>3, BackingIs DEF text
  <2>5. Last(parts) # ".."
    BY <1>2, <1>5, <1>8, NotUp DEF parts, dir
  <2>6. q.cwd = d
    BY <1>2, <1>5, <1>8, <2>4, <2>5 DEF Leads, d
  <2> QED
    BY <1>4, <2>2, <2>4, <2>6 DEF text, dir
<1> QED
  BY <1>7, <1>8

LEMMA OpenedIs ==
  ASSUME NEW text \in Seq(Names), NEW f \in Names, Opened(Append(text, f)) # NoDir
  PROVE  /\ CanEnter(Resolve(<<>>, text))
         /\ Opened(Append(text, f)) = Target(Resolve(<<>>, text), f)
<1>1. Front(Append(text, f)) = text /\ Last(Append(text, f)) = f
  BY OneMore
<1> QED
  BY <1>1 DEF Opened

LEMMA RetrievalChecked ==
  ASSUME Facts, Backed(tree), phase = "session", NEW path \in FilePaths,
         Retrieval(at, path).used \in File, Where(ChangeDir(at, Dirname(path)).at) # NoDir,
         Straight(at, CutPathIntoParts(Dirname(path)))
  PROVE  Retrieval(at, path).checked = Retrieval(at, path).used
<1> DEFINE r == ChangeDir(at, Dirname(path))
           f == Last(path)
           text == DirText(at, path)
           info == GetFileInfo(at, path)
           d == Resolve(<<>>, text)
<1>1. TreeOK(tree) /\ Good(at) /\ at \in Places
  BY PlaceOKIs DEF Facts, Good
<1>2. f \in Names /\ text \in Seq(Names)
  BY <1>1, DirParts, DirTextIs DEF Straight
<1>3. Retrieval(at, path).checked = info.key
      /\ Retrieval(at, path).used = IF Permitted(info) THEN Opened(info.path) ELSE NoDir
  BY DEF Retrieval, RetrievalOf
<1>4. info = InfoFrom(at, path, r)
  BY DEF GetFileInfo
<1> HIDE DEF info, r, f
<1>5. Permitted(info) /\ Opened(info.path) \in File /\ Opened(info.path) # NoDir
  BY <1>3, FileIs
<1>6. info.ret = 1
  BY <1>5 DEF Permitted
<1>7. r.ret = 1
  BY <1>4, <1>6 DEF InfoFrom
<1>8. info.key = Target(r.at.cwd, f) /\ info.path = Append(text, f)
  BY <1>4, <1>7 DEF InfoFrom, DirText, f
<1> HIDE DEF text
<1>9. CanEnter(d) /\ Opened(info.path) = Target(d, f)
  BY <1>2, <1>5, <1>8, OpenedIs
<1>10. r.at.cwd = d
  BY <1>1, <1>7, <1>9, EndsInDirectory DEF r, text
<1> QED
  BY <1>3, <1>5, <1>8, <1>9, <1>10

\* The file that RETR sends is the one whose record was looked at, for any disk, any links,
\* any tree and any path, if the way is straight (VFS.cpp: GetFileInfo).
THEOREM RetrSends == Spec => []RetrSendsChecked
<1>1. Facts /\ Backed(tree) => RetrSendsChecked
  BY RetrievalChecked DEF RetrSendsChecked, LoggedIn
<1>2. PlaceInv /\ (phase = "session" => Backed(tree)) => RetrSendsChecked
  BY <1>1, FactsArePlaceInv DEF RetrSendsChecked, LoggedIn
<1> QED
  BY <1>2, PlaceInvariant, AlwaysBacked, PTL

-----------------------------------------------------------------------------
(***************************************************************************)
(* STOR.                                                                   *)
(***************************************************************************)
\* A name that leads to a directory is not a file's.
LEMMA TargetIsStep ==
  ASSUME NEW d \in Directory, NEW s, CanEnter(Step(d, s))
  PROVE  Target(d, s) = Step(d, s)
<1> DEFINE e == Append(d, s)
<1>1. d \in Seq(STRING) /\ NoDir \notin Directory /\ d # NoDir
  BY DiskAssumption
<1>2. ASSUME e \in File PROVE FALSE
  <2>1. s \in ToSet(e)
    <3>1. Len(e) = Len(d) + 1 /\ e[Len(d) + 1] = s
      BY <1>1
    <3>2. Len(d) + 1 \in DOMAIN e
      BY <1>1, <3>1
    <3> QED
      BY <3>1, <3>2 DEF ToSet
  <2>2. s \notin {".", ".."}
    BY <1>2, <2>1, VFSAssumption
  <2>3. e \notin Directory \cup DOMAIN Link
    BY <1>2, FileIs
  <2> HIDE DEF e
  <2>4. Step(d, s) = NoDir
    BY <1>1, <2>2, <2>3 DEF Step, e
  <2> QED
    BY <1>1, <2>4 DEF CanEnter
<1> QED
  BY <1>2 DEF Target

\* The parts of the directory, and the place above it.
LEMMA PlaceAbove ==
  ASSUME TreeOK(tree), NEW p, Good(p), NEW parts \in Seq(Names), parts # <<>>,
         \A i \in 2..Len(parts) : parts[i] # "/", Straight(p, parts),
         ChangeDir(p, Front(parts)).ret = 1
  PROVE  LET q == ChangeDir(p, Front(parts)).at
         IN  /\ Good(q) /\ Leads(p, Front(parts), q) /\ q = Walked(p, Front(parts)).at
             /\ Walked(p, Front(parts)).ret = 1
             /\ Len(parts) = 1 => q = p
<1>1. p \in Places /\ Empty \notin ToSet(parts)
  BY PlaceOKIs DEF Good, Straight
<1>2. /\ Front(parts) \in Seq(Names) /\ Len(Front(parts)) = Len(parts) - 1
      /\ \A i \in 1..Len(Front(parts)) : Front(parts)[i] = parts[i]
  BY FrontType
<1>3. Len(parts) \in Nat /\ Len(parts) > 0 /\ \A i \in 1..Len(parts) : parts[i] # Empty
  <2>1. \A i \in 1..Len(parts) : parts[i] # Empty
    BY <1>1 DEF ToSet
  <2> QED
    BY <2>1
<1> DEFINE front == Front(parts)
<1>4. CASE Len(parts) = 1
  <2>1. front = <<>>
    BY <1>2, <1>4
  <2>2. Walked(p, <<>>) = Done(p)
    <3>1. PICK c : /\ Walked(p, <<>>) = c[Len(<<>>)] /\ c[0] = Done(p)
                   /\ \A i \in 1..Len(<<>>) : c[i] = Go(c[i - 1], <<>>[i])
      <4>1. <<>> \in Seq(Names)
        OBVIOUS
      <4> QED
        BY <1>1, <4>1, WalkedIs
    <3> QED
      BY <3>1
  <2>3. CutPathIntoParts(<<>>) = <<>>
    BY DEF CutPathIntoParts
  <2>4. ~BadPath(<<>>)
    BY <2>3 DEF BadPath, ToSet
  <2>5. ChangeDir(p, front) = Walked(p, front) /\ Walked(p, front) = Done(p)
    <3>1. ChangeDir(p, front).ret = 1
      OBVIOUS
    <3> QED
      BY <2>1, <2>2, <2>3, <2>4 DEF ChangeDir, Arrived, Done
  <2>6. ChangeDir(p, front).at = p
    BY <2>5 DEF Done
  <2>7. Leads(p, front, p)
    BY <2>1, LeadsNowhere
  <2> QED
    BY <2>5, <2>6, <2>7
<1>5. CASE Len(parts) # 1
  <2>1. front # <<>> /\ \A i \in 1..Len(front) : front[i] # Empty
    <3>1. Len(front) # 0
      BY <1>2, <1>3, <1>5
    <3>2. \A i \in 1..Len(front) : front[i] # Empty
      BY <1>2, <1>3
    <3> QED
      BY <3>1, <3>2
  <2>2. CutPathIntoParts(front) = front /\ ~BadPath(front)
    BY <1>2, <2>1, UsualPath
  <2>3. ChangeDir(p, front) = Walked(p, front) /\ Walked(p, front).ret = 1
    BY <2>2, ChangeDirWalks
  <2>4. Leads(p, front, Walked(p, front).at) /\ Good(Walked(p, front).at)
    BY <2>3, StraightEnds
  <2> QED
    BY <1>5, <2>3, <2>4
<1> QED
  BY <1>4, <1>5

\* A directory that is a node's: the text is the node's directory.
LEMMA NodeBelow ==
  ASSUME TreeOK(tree), NEW p, Good(p), NEW parts \in Seq(Names), parts # <<>>,
         Straight(p, parts), NEW q, q = Walked(p, Front(parts)).at, Leads(p, Front(parts), q),
         q.dir = Here, Append(q.node, Last(parts)) \in DOMAIN tree,
         Last(parts) \notin {".", "..", "/"}
  PROVE  Converted(p, parts) = Text(tree[Append(q.node, Last(parts))].phys)
<1> DEFINE front == Front(parts)
           s == Last(parts)
<1>1. p \in Places
  BY PlaceOKIs DEF Good
<1>2. parts = Append(front, s) /\ front \in Seq(Names) /\ s \in Names
  BY LastMore
<1>3. SubSeq(parts, 1, Len(parts) - 1) = front /\ Len(parts) \in 1..Len(parts)
      /\ parts[Len(parts)] = s
  <2>1. Len(parts) \in Nat /\ Len(parts) # 0
    OBVIOUS
  <2>2. Len(parts) \in 1..Len(parts)
    BY <2>1
  <2> QED
    BY <2>2, FrontIs DEF Last
<1>4. OnNodes(p, front)
  <2>1. \A x \in {Walked(p, SubSeq(parts, 1, Len(parts) - 1)).at} :
          x.dir = Here /\ Append(x.node, parts[Len(parts)]) \in DOMAIN tree
            => OnNodes(p, SubSeq(parts, 1, Len(parts) - 1))
    BY <1>3 DEF Straight
  <2> QED
    BY <1>3, <2>1
<1>5. q.node = Way(p, front).node
  BY <1>4 DEF Leads
<1> HIDE DEF front, s
<1>6. OnNodes(p, parts) /\ Way(p, parts).node = Append(q.node, s)
  BY <1>1, <1>2, <1>4, <1>5, NodeMore, ZenonT(40) DEF s
<1> QED
  BY <1>1, <1>6, ConvertedNode DEF s

\* A directory that is none: its record is looked up where the text leads.
LEMMA RecordBelow ==
  ASSUME TreeOK(tree), Backed(tree), NEW p, Good(p), NEW front \in Seq(Names), NEW s \in Names,
         s # "/", NEW q, Good(q), Leads(p, front, q), FoundAgain(q), Where(q) # NoDir,
         ~(q.dir = Here /\ Append(q.node, s) \in DOMAIN tree), s = ".." => ~OnNodes(p, front),
         CanEnter(Resolve(<<>>, Converted(p, Append(front, s))))
  PROVE  Target(Refresh(q).cwd, s) = Resolve(<<>>, Converted(p, Append(front, s)))
<1> DEFINE more == Append(front, s)
           into == Resolve(<<>>, Converted(p, more))
           d == Where(q)
<1>1. p \in Places /\ q \in Places /\ q.node \in DOMAIN tree
  BY PlaceOKIs DEF Good, Places
<1>2. <<>> \in Somewhere /\ NoDir \notin Directory
  BY DiskAssumption DEF Somewhere
<1>3. ASSUME CanEnter(d), into = Step(d, s) PROVE Target(Refresh(q).cwd, s) = into
  <2>1. Refresh(q).cwd = d
    BY <1>3, DotIsWhere
  <2>2. d \in Directory /\ CanEnter(Step(d, s))
    BY <1>3 DEF CanEnter
  <2> QED
    BY <1>3, <2>1, <2>2, TargetIsStep
<1>4. CASE ~OnNodes(p, front)
  <2> DEFINE text == Converted(p, front)
  <2>1. Converted(p, more) = Append(text, s) /\ text \in Seq(Names)
    BY <1>1, <1>4, DiskMore
  <2>2. CanEnter(Resolve(<<>>, text)) /\ d = Resolve(<<>>, text)
    BY <1>4 DEF Leads
  <2> HIDE DEF text
  <2>3. into = Step(d, s)
    BY <1>2, <2>1, <2>2, ResolveMore
  <2> QED
    BY <1>3, <2>2, <2>3
<1>5. CASE OnNodes(p, front)
  <2>1. q.dir = Here /\ q.node = Way(p, front).node
    BY <1>5 DEF Leads
  <2>2. d = Phys(q) /\ d # NoDir /\ d = tree[q.node].phys /\ Text(d) = d
    BY <2>1 DEF Where, Phys, Text
  <2>3. Backing(d) /\ d \in Seq(Names)
    <3>1. Backing(d)
      BY <1>1, <2>2 DEF Backed
    <3>2. d \in Seq(STRING)
      BY <1>1, <2>2, NodeType
    <3> QED
      BY <3>1, <3>2, PathNames
  <2> HIDE DEF d
  <2>4. CASE s = "."
    <3>1. OnNodes(p, more) /\ Way(p, more).node = q.node
      BY <1>1, <1>5, <2>1, <2>4, NodeMore
    <3>2. Converted(p, more) = d
      <4>1. more \in Seq(Names)
        BY OneMore
      <4> QED
        BY <1>1, <2>2, <3>1, <4>1, ConvertedNode
    <3>3. CanEnter(d) /\ into = d
      BY <2>2, <2>3, <3>2, BackingIs
    <3>4. Step(d, s) = d
      BY <2>2, <2>4 DEF Step
    <3> QED
      BY <1>3, <3>3, <3>4
  <2>5. CASE s # "."
    <3>1. s \notin {".", ".."} /\ Append(q.node, s) \notin DOMAIN tree
      BY <1>5, <2>1, <2>5
    <3>2. Converted(p, more) = Append(d, s)
      BY <1>1, <1>5, <2>1, <2>2, <3>1, NodeMore
    <3>3. into = Step(Resolve(<<>>, d), s)
      BY <1>2, <2>3, <3>2, ResolveMore
    <3>4. Resolve(<<>>, d) \notin Closed
      BY <1>2, <3>1, <3>3, ClosedStep DEF CanEnter
    <3>5. CanEnter(d)
      BY <2>2, <2>3, <3>4 DEF Backing
    <3>6. Resolve(<<>>, d) = d
      BY <3>5, ResolveSelf DEF CanEnter
    <3> QED
      BY <1>3, <3>3, <3>5, <3>6
  <2> QED
    BY <2>4, <2>5
<1> QED
  BY <1>4, <1>5

\* What AllowedToWriteToDir() looks at.
LEMMA RecordOf ==
  ASSUME TreeOK(tree), NEW p, NEW q, Good(q), NEW s
  PROVE  KeyRights(p, GetFileInfo(q, <<s>>)).checked = Target(Refresh(q).cwd, s)
<1>1. Dirname(<<s>>) = <<".">> /\ Last(<<s>>) = s
  BY DEF Dirname, Last
<1>2. ChangeDir(q, <<".">>) = Done(Refresh(q))
  BY DotLeads
<1> QED
  BY <1>1, <1>2 DEF KeyRights, GetFileInfo, InfoFrom, Done

LEMMA NodeRightsIs ==
  \A p, v : NodeRights(p, v).checked = tree[v].phys
  BY DEF NodeRights

LEMMA RightsOfNode ==
  ASSUME NEW p, NEW there, NEW s, NEW short \in BOOLEAN, Append(there.node, s) \in DOMAIN tree,
         short \/ there.dir = Here
  PROVE  RightsFrom(p, there, s, short).checked = tree[Append(there.node, s)].phys
<1> DEFINE rights == NodeRights(IF short THEN p ELSE Return(p, there.cwd), Append(there.node, s))
<1>1. RightsFrom(p, there, s, short) =
        [rights EXCEPT !.ok = @ /\ tree[Append(there.node, s)].phys # NoDir]
  BY DEF RightsFrom
<1>2. rights.checked = tree[Append(there.node, s)].phys
  BY NodeRightsIs
<1>3. \A b : [rights EXCEPT !.ok = b].checked = rights.checked
  BY DEF NodeRights
<1> HIDE DEF rights
<1> QED
  BY <1>1, <1>2, <1>3

LEMMA RightsOfRecord ==
  ASSUME NEW p, NEW there, NEW s, NEW short,
         ~(Append(there.node, s) \in DOMAIN tree /\ (short \/ there.dir = Here))
  PROVE  RightsFrom(p, there, s, short) = KeyRights(p, GetFileInfo(there, <<s>>))
  BY Zenon DEF RightsFrom

LEMMA AllowedIs ==
  ASSUME NEW p, NEW path, NEW parts, parts = CutPathIntoParts(path)
  PROVE  /\ parts = <<"/">> => AllowedToWriteToDir(p, path) = NodeRights(p, <<>>)
         /\ parts = Here /\ p.dir = Here => AllowedToWriteToDir(p, path) = NodeRights(p, p.node)
         /\ parts # <<"/">> /\ ~(parts = Here /\ p.dir = Here) =>
              AllowedToWriteToDir(p, path) =
                RightsFrom(p, IF Len(parts) = 1 THEN p ELSE ChangeDir(p, Front(parts)).at,
                           Last(parts), Len(parts) = 1)
<1>1. Here # <<"/">>
  BY DEF Here
<1>2. CASE parts = <<"/">>
  BY <1>1, <1>2, Zenon DEF AllowedToWriteToDir
<1>3. CASE parts = Here /\ p.dir = Here
  BY <1>1, <1>3, Zenon DEF AllowedToWriteToDir
<1>4. CASE parts # <<"/">> /\ ~(parts = Here /\ p.dir = Here)
  BY <1>4, Zenon DEF AllowedToWriteToDir
<1> QED
  BY <1>1, <1>2, <1>3, <1>4, Zenon

\* The directory of a node, if the text is that.
LEMMA NodeWritten ==
  ASSUME Backed(tree), NEW v \in DOMAIN tree, tree[v].phys # NoDir,
         CanEnter(Resolve(<<>>, Text(tree[v].phys)))
  PROVE  Resolve(<<>>, Text(tree[v].phys)) = tree[v].phys
<1>1. Backing(tree[v].phys) /\ Text(tree[v].phys) = tree[v].phys
  BY DEF Backed, Text
<1> QED
  BY <1>1, BackingIs

LEMMA StorageChecked ==
  ASSUME Facts, Backed(tree), PlainNames, AsDescribed(tree, config), phase = "session",
         NEW path \in FilePaths, NEW parts, parts = CutPathIntoParts(Dirname(path)),
         NEW x, x = Storage(at, path), x.used # NoDir, x.checked # NoDir,
         Straight(at, parts),
         NEW above, above = ChangeDir(at, Front(parts)), above.ret = 1,
         parts = <<"/">> \/ (FoundAgain(above.at)
           /\ (Append(above.at.node, Last(parts)) \in DOMAIN tree \/ Where(above.at) # NoDir)),
         ~(Append(above.at.node, Last(parts)) \in DOMAIN tree /\ Len(parts) = 1 /\ at.dir # Here)
  PROVE  x.checked = x.used
<1> DEFINE dir == Dirname(path)
           rights == AllowedToWriteToDir(at, dir)
           into == Resolve(<<>>, Converted(at, parts))
           q == above.at
           s == Last(parts)
           front == Front(parts)
<1>1. TreeOK(tree) /\ Good(at) /\ at \in Places /\ at.node \in DOMAIN tree
  BY PlaceOKIs DEF Facts, Good, Places
<1>2. Empty \notin ToSet(parts)
  BY DEF Straight
<1>3. /\ parts \in Seq(Names) /\ parts # <<>> /\ ~BadPath(dir)
      /\ \A i \in 2..Len(parts) : parts[i] # "/"
  BY <1>2, DirParts
<1>4. into = Resolve(<<>>, ConvertToPhysicalPath(at, dir))
  BY <1>1, <1>3, ConversionIs
<1>5. x = StorageIn(into, rights)
  <2>1. dir = IF Len(path) = 1 THEN <<".">> ELSE Front(path)
    BY DEF Dirname
  <2> QED
    BY <1>4, <2>1 DEF Storage
<1> HIDE DEF into, rights
<1>6. x.checked = rights.checked /\ x.used = into /\ CanEnter(into)
  BY <1>5 DEF StorageIn
<1>7. rights.checked # NoDir
  BY <1>6
<1>8. SUFFICES rights.checked = into
  BY <1>6
<1>9. /\ parts = Append(front, s) /\ front \in Seq(Names) /\ s \in Names
      /\ s = parts[Len(parts)] /\ Len(parts) \in Nat /\ Len(parts) > 0
  <2>1. Len(parts) \in Nat /\ Len(parts) # 0
    BY <1>3
  <2> QED
    BY <1>3, <2>1, LastMore DEF Last
<1>10. ASSUME NEW v \in DOMAIN tree, rights.checked = tree[v].phys,
              Converted(at, parts) = Text(tree[v].phys)
       PROVE  rights.checked = into
  BY <1>6, <1>7, <1>10, NodeWritten DEF into
<1>11. CASE parts = <<"/">>
  <2>1. rights.checked = tree[<<>>].phys
    <3>1. rights = NodeRights(at, <<>>)
      BY <1>11, AllowedIs DEF rights
    <3> QED
      BY <3>1, NodeRightsIs
  <2>2. <<>> \in DOMAIN tree
    BY <1>1 DEF TreeOK
  <2>3. Converted(at, parts) = Text(tree[<<>>].phys)
    <3>1. Way(at, parts) = AtNode(<<>>) /\ Rooted(parts)
      BY <1>1, <1>11, WayStart
    <3>2. OnNodes(at, parts)
      BY <1>1, <1>3, <3>1, ConversionIs DEF AtNode
    <3> QED
      BY <1>1, <1>3, <3>1, <3>2, ConvertedNode DEF AtNode
  <2> QED
    BY <1>10, <2>1, <2>2, <2>3
<1>12. CASE parts = Here /\ at.dir = Here
  <2>1. rights.checked = tree[at.node].phys
    <3>1. rights = NodeRights(at, at.node)
      BY <1>12, AllowedIs DEF rights
    <3> QED
      BY <3>1, NodeRightsIs
  <2>2. Converted(at, parts) = Text(tree[at.node].phys)
    <3>1. Way(at, <<>>) = AtNode(at.node)
      BY <1>1, WayStart
    <3>2. OnNodes(at, <<>>) /\ <<>> \in Seq(Names)
      <4>1. <<>> \in Seq(Names) /\ Way(at, <<>>).rest = <<>>
        BY <3>1 DEF AtNode
      <4> QED
        BY <1>1, <1>12, <4>1, ConversionIs
    <3>3. "." \in Names /\ parts = Append(<<>>, ".")
      BY <1>12 DEF Names, Here
    <3>4. OnNodes(at, parts) /\ Way(at, parts).node = at.node
      <4>1. Way(at, <<>>).node = at.node /\ "." # "/"
        BY <3>1 DEF AtNode
      <4>2. OnNodes(at, Append(<<>>, ".")) /\ Way(at, Append(<<>>, ".")).node = Way(at, <<>>).node
        BY <1>1, <3>2, <3>3, <4>1, NodeMore
      <4> QED
        BY <3>3, <4>1, <4>2
    <3> QED
      BY <1>1, <1>3, <3>4, ConvertedNode
  <2> QED
    BY <1>1, <1>10, <2>1, <2>2
<1>13. CASE parts # <<"/">> /\ ~(parts = Here /\ at.dir = Here)
  <2> DEFINE short == Len(parts) = 1
             child == Append(q.node, s)
  <2>1. /\ Good(q) /\ Leads(at, front, q) /\ q = Walked(at, front).at
        /\ Walked(at, front).ret = 1
        /\ short => q = at
    BY <1>1, <1>3, PlaceAbove
  <2>2. rights = RightsFrom(at, q, s, short)
    <3>1. rights = RightsFrom(at, IF short THEN at ELSE ChangeDir(at, front).at, s, short)
      BY <1>13, AllowedIs DEF rights
    <3>2. (IF short THEN at ELSE ChangeDir(at, front).at) = q
      BY <2>1
    <3> QED
      BY <3>1, <3>2
  <2>3. FoundAgain(q) /\ (child \in DOMAIN tree \/ Where(q) # NoDir)
    BY <1>13
  <2>4. s # "/"
    <3>1. CASE Len(parts) = 1
      <4>1. parts = <<parts[1]>>
        BY <1>3, <3>1
      <4> QED
        BY <1>9, <1>13, <3>1, <4>1
    <3>2. CASE Len(parts) # 1
      BY <1>3, <1>9, <3>2
    <3> QED
      BY <3>1, <3>2
  <2>5. CASE child \in DOMAIN tree /\ (short \/ q.dir = Here)
    <3>1. q.dir = Here
      <4>1. CASE short
        BY <2>1, <2>5, <4>1
      <4>2. CASE ~short
        BY <2>5, <4>2
      <4> QED
        BY <4>1, <4>2
    <3>2. s \notin {".", "..", "/"}
      <4>1. Plain(child)
        BY <2>5, PlainNodes
      <4>2. q.node \in Seq(STRING)
        BY <1>1, <2>1, PlaceOKIs DEF Good, Places, TreeOK
      <4>3. Len(q.node) + 1 \in 1..Len(child) /\ child[Len(q.node) + 1] = s
        BY <4>2
      <4> QED
        BY <4>1, <4>3 DEF Plain, Special
    <3>3. Converted(at, parts) = Text(tree[child].phys)
      BY <1>1, <1>3, <2>1, <2>5, <3>1, <3>2, NodeBelow
    <3>4. rights.checked = tree[child].phys
      <4>1. short \in BOOLEAN
        OBVIOUS
      <4> HIDE DEF short
      <4>2. RightsFrom(at, q, s, short).checked = tree[child].phys
        BY <2>5, <4>1, RightsOfNode
      <4> QED
        BY <2>2, <4>2
    <3> QED
      BY <1>10, <2>5, <3>3, <3>4
  <2>6. CASE ~(child \in DOMAIN tree /\ (short \/ q.dir = Here))
    <3>1. rights.checked = Target(Refresh(q).cwd, s)
      <4>1. rights = KeyRights(at, GetFileInfo(q, <<s>>))
        <5> HIDE DEF short
        <5> QED
          BY <2>2, <2>6, RightsOfRecord
      <4> QED
        BY <1>1, <2>1, <4>1, RecordOf
    <3>2. s = ".." => ~OnNodes(at, front)
      BY <1>1, <1>3, <2>1, NotUp, Zenon
    <3>3. ~(q.dir = Here /\ child \in DOMAIN tree)
      BY <2>6
    <3>4. Where(q) # NoDir
      <4>1. CASE child \notin DOMAIN tree
        BY <2>3, <4>1
      <4>2. CASE child \in DOMAIN tree
        <5>1. q.dir # Here
          BY <3>3, <4>2
        <5>2. q.dir \in Directory
          BY <2>1, <5>1, PlaceOKIs DEF Good, Places, Enterable
        <5> QED
          BY <5>1, <5>2, DiskAssumption DEF Where
      <4> QED
        BY <4>1, <4>2
    <3>5. CanEnter(Resolve(<<>>, Converted(at, Append(front, s))))
      BY <1>6, <1>9 DEF into
    <3> HIDE DEF front, s, q, short
    <3>6. Target(Refresh(q).cwd, s) = Resolve(<<>>, Converted(at, Append(front, s)))
      BY <1>1, <1>9, <2>1, <2>3, <2>4, <3>2, <3>3, <3>4, <3>5, RecordBelow
    <3> QED
      BY <1>9, <3>1, <3>6 DEF into
  <2> QED
    BY <2>5, <2>6
<1> QED
  BY <1>11, <1>12, <1>13

\* The directory that STOR writes into is the one whose rights were looked at, for any
\* disk, any links, any tree and any path, if the way is straight and the place above the
\* directory is reached and found again (VFS.cpp: AllowedToWriteToDir).
THEOREM StorWrites ==
  ASSUME PlainNames
  PROVE  Spec => []StorWritesChecked
<1>1. ASSUME Facts, Backed(tree), TreeAsConfigured PROVE StorWritesChecked
  <2>1. AsDescribed(tree, config)
    BY <1>1, DescribedIs
  <2> QED
    BY <1>1, <2>1, StorageChecked DEF StorWritesChecked, LoggedIn
<1>2. PlaceInv /\ (phase = "session" => Backed(tree)) /\ TreeAsConfigured => StorWritesChecked
  BY <1>1, FactsArePlaceInv DEF StorWritesChecked, LoggedIn
<1> QED
  BY <1>2, PlaceInvariant, AlwaysBacked, TreeConfigured, PTL
================================================================================
