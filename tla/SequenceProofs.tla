---------------------------- MODULE SequenceProofs ----------------------------
(***************************************************************************)
(* Induction over natural numbers, and what it shows of sequences: prefixes *)
(* and the flattening of a sequence of sequences.                          *)
(***************************************************************************)
EXTENDS Integers, SequencesExt, SequenceTheorems, WellFoundedInduction, TLAPS

\* Induction, for a set in the place of a predicate.
LEMMA SetInduction ==
  ASSUME NEW S, 0 \in S, \A n \in Nat : n \in S => n + 1 \in S
  PROVE  Nat \subseteq S
<1> SUFFICES ASSUME Nat \ S # {} PROVE FALSE
  OBVIOUS
<1>1. PICK x \in Nat \ S : \A y \in Nat \ S : <<y, x>> \notin OpToRel(<, Nat)
  <2>1. IsWellFoundedOn(OpToRel(<, Nat), Nat)
    BY NatLessThanWellFounded
  <2> HIDE DEF OpToRel
  <2> QED
    BY <2>1, WFMin
<1>2. x # 0 /\ x - 1 \in Nat
  OBVIOUS
<1>3. x - 1 \notin S
  BY <1>2
<1>4. <<x - 1, x>> \in OpToRel(<, Nat)
  BY <1>2 DEF OpToRel
<1> QED
  BY <1>1, <1>2, <1>3, <1>4

\* Induction over sequences: members are put in front.
LEMMA HeadAndTail ==
  ASSUME NEW B, NEW s \in Seq(B), s # <<>>
  PROVE  Head(s) \in B /\ Tail(s) \in Seq(B) /\ s = <<Head(s)>> \o Tail(s)
         /\ Len(s) = Len(Tail(s)) + 1
  OBVIOUS

LEMMA SequenceInduction ==
  ASSUME NEW B, NEW S, <<>> \in S,
         \A b \in B : \A s \in Seq(B) : s \in S => <<b>> \o s \in S
  PROVE  Seq(B) \subseteq S
<1> DEFINE Q(n) == \A s \in Seq(B) : Len(s) = n => s \in S
           N == {n \in Nat : Q(n)}
<1>1. Q(0)
  BY EmptySeq
<1>2. ASSUME NEW n \in Nat, Q(n) PROVE Q(n + 1)
  <2> SUFFICES ASSUME NEW s \in Seq(B), Len(s) = n + 1 PROVE s \in S
    OBVIOUS
  <2>1. s # <<>>
    BY EmptySeq
  <2>2. Head(s) \in B /\ Tail(s) \in Seq(B) /\ s = <<Head(s)>> \o Tail(s) /\ Len(Tail(s)) = n
    BY <2>1, HeadAndTail, LenProperties
  <2>3. Tail(s) \in S
    BY <1>2, <2>2
  <2> QED
    BY <2>2, <2>3, Zenon
<1> HIDE DEF Q
<1>3. Nat \subseteq N
  <2>1. 0 \in N /\ \A n \in Nat : n \in N => n + 1 \in N
    BY <1>1, <1>2
  <2> HIDE DEF N
  <2> QED
    BY <2>1, SetInduction
<1>4. ASSUME NEW s \in Seq(B) PROVE s \in S
  <2>1. Q(Len(s))
    BY <1>3
  <2> QED
    BY <2>1 DEF Q
<1> QED
  BY <1>4

-----------------------------------------------------------------------------
Recursion(f, b, n, step) == \A i \in 0..n : f[i] = IF i = 0 THEN b ELSE step[<<f[i - 1], i>>]

\* A function that is defined by recursion on 0..n exists: step takes f[i - 1] and i to f[i].
LEMMA RecursionExists ==
  ASSUME NEW A, NEW b \in A, NEW n \in Nat, NEW step \in [A \X (1..n) -> A]
  PROVE  \E f \in [0..n -> A] : Recursion(f, b, n, step)
<1> DEFINE Part(f, k) == \A i \in 0..k : f[i] = IF i = 0 THEN b ELSE step[<<f[i - 1], i>>]
           Found(k) == \E f \in [0..k -> A] : Part(f, k)
           S == {k \in Nat : k <= n => Found(k)}
<1>1. Found(0)
  <2> DEFINE f == [i \in 0..0 |-> b]
  <2>1. f \in [0..0 -> A] /\ Part(f, 0)
    OBVIOUS
  <2> QED
    BY <2>1
<1>2. ASSUME NEW k \in Nat, k + 1 <= n, Found(k) PROVE Found(k + 1)
  <2>1. PICK f \in [0..k -> A] : Part(f, k)
    BY <1>2
  <2> DEFINE g == [i \in 0..(k + 1) |-> IF i <= k THEN f[i] ELSE step[<<f[k], i>>]]
  <2>2. f[k] \in A /\ k + 1 \in 1..n
    BY <1>2
  <2>3. step[<<f[k], k + 1>>] \in A
    BY <2>2
  <2>4. g \in [0..(k + 1) -> A]
    <3>1. ASSUME NEW i \in 0..(k + 1) PROVE (IF i <= k THEN f[i] ELSE step[<<f[k], i>>]) \in A
      <4>1. CASE i <= k
        BY <4>1
      <4>2. CASE ~(i <= k)
        <5>1. i = k + 1
          BY <4>2
        <5> QED
          BY <2>3, <4>2, <5>1
      <4> QED
        BY <4>1, <4>2
    <3> QED
      BY <3>1
  <2>5. ASSUME NEW i \in 0..(k + 1)
        PROVE  g[i] = IF i = 0 THEN b ELSE step[<<g[i - 1], i>>]
    <3>1. CASE i <= k
      <4>1. i \in 0..k /\ (i # 0 => i - 1 \in 0..k /\ i - 1 \in 0..(k + 1))
        BY <3>1
      <4>2. f[i] = IF i = 0 THEN b ELSE step[<<f[i - 1], i>>]
        BY <2>1, <4>1, Zenon
      <4>3. g[i] = f[i] /\ (i # 0 => g[i - 1] = f[i - 1])
        BY <4>1
      <4> HIDE DEF g
      <4> QED
        BY <4>2, <4>3
    <3>2. CASE i = k + 1
      <4>1. g[k + 1] = step[<<f[k], k + 1>>] /\ g[k] = f[k]
        OBVIOUS
      <4>2. i # 0 /\ i - 1 = k
        BY <3>2
      <4> HIDE DEF g
      <4> QED
        BY <3>2, <4>1, <4>2
    <3> QED
      BY <3>1, <3>2
  <2>6. Part(g, k + 1)
    BY <2>5
  <2> HIDE DEF g
  <2> QED
    BY <2>4, <2>6
<1> HIDE DEF Found
<1>3. Nat \subseteq S
  <2>1. 0 \in S /\ \A k \in Nat : k \in S => k + 1 \in S
    BY <1>1, <1>2
  <2> HIDE DEF S
  <2> QED
    BY <2>1, SetInduction
<1>4. Found(n)
  BY <1>3
<1>5. PICK f \in [0..n -> A] : Part(f, n)
  BY <1>4 DEF Found
<1> QED
  BY <1>5 DEF Recursion

\* What holds at first and is kept by every step holds at the end.
LEMMA RangeInduction ==
  ASSUME NEW n \in Nat, NEW S, 0 \in S, \A i \in 1..n : i - 1 \in S => i \in S
  PROVE  0..n \subseteq S
<1> DEFINE N == {k \in Nat : k <= n => k \in S}
<1>1. 0 \in N
  OBVIOUS
<1>2. ASSUME NEW k \in Nat, k \in N PROVE k + 1 \in N
  <2>1. k + 1 <= n => k + 1 \in 1..n /\ (k + 1) - 1 = k
    OBVIOUS
  <2> QED
    BY <1>2, <2>1
<1> HIDE DEF N
<1>3. Nat \subseteq N
  BY <1>1, <1>2, SetInduction
<1> QED
  BY <1>3 DEF N

-----------------------------------------------------------------------------
(***************************************************************************)
(* FlattenSeq.                                                             *)
(***************************************************************************)
\* f[i] is the concatenation of the first i members of seqs.
Flattens(f, seqs) ==
  f = [i \in 1..Len(seqs) |-> IF i = 1 THEN seqs[i] ELSE f[i - 1] \o seqs[i]]

LEMMA FlattensExists ==
  ASSUME NEW B, NEW seqs \in Seq(Seq(B))
  PROVE  \E f \in [1..Len(seqs) -> Seq(B)] : Flattens(f, seqs)
<1> DEFINE Part(f, n) ==
      \A i \in 1..n : f[i] = IF i = 1 THEN seqs[i] ELSE f[i - 1] \o seqs[i]
           Found(n) == \E f \in [1..n -> Seq(B)] : Part(f, n)
           S == {n \in Nat : n <= Len(seqs) => Found(n)}
<1>1. Found(0)
  <2> DEFINE f == [i \in 1..0 |-> <<>>]
  <2>1. f \in [1..0 -> Seq(B)]
    BY EmptySeq
  <2>2. Part(f, 0)
    OBVIOUS
  <2> QED
    BY <2>1, <2>2
<1>2. ASSUME NEW n \in Nat, n + 1 <= Len(seqs), Found(n) PROVE Found(n + 1)
  <2>1. PICK f \in [1..n -> Seq(B)] : Part(f, n)
    BY <1>2
  <2> DEFINE g == [i \in 1..(n + 1) |->
                     IF i <= n THEN f[i] ELSE IF i = 1 THEN seqs[i] ELSE f[i - 1] \o seqs[i]]
  <2>2. g \in [1..(n + 1) -> Seq(B)]
    BY <1>2
  <2>3. ASSUME NEW i \in 1..(n + 1)
        PROVE  g[i] = IF i = 1 THEN seqs[i] ELSE g[i - 1] \o seqs[i]
    <3>1. CASE i <= n
      <4>1. i \in 1..n /\ (i # 1 => i - 1 \in 1..n /\ i - 1 \in 1..(n + 1))
        BY <3>1
      <4>2. f[i] = IF i = 1 THEN seqs[i] ELSE f[i - 1] \o seqs[i]
        BY <2>1, <4>1, Zenon
      <4>3. g[i] = f[i] /\ (i # 1 => g[i - 1] = f[i - 1])
        BY <4>1
      <4> HIDE DEF g
      <4> QED
        BY <4>2, <4>3
    <3>2. CASE i = n + 1
      BY <3>2
    <3> QED
      BY <3>1, <3>2
  <2>4. Part(g, n + 1)
    BY <2>3
  <2> HIDE DEF g
  <2> QED
    BY <2>2, <2>4
<1> HIDE DEF Found
<1>3. Nat \subseteq S
  <2>1. 0 \in S /\ \A n \in Nat : n \in S => n + 1 \in S
    BY <1>1, <1>2
  <2> HIDE DEF S
  <2> QED
    BY <2>1, SetInduction
<1>4. Found(Len(seqs))
  BY <1>3
<1>5. PICK f \in [1..Len(seqs) -> Seq(B)] : Part(f, Len(seqs))
  BY <1>4 DEF Found
<1>6. f = [i \in 1..Len(seqs) |-> f[i]]
  OBVIOUS
<1>7. f = [i \in 1..Len(seqs) |-> IF i = 1 THEN seqs[i] ELSE f[i - 1] \o seqs[i]]
  BY <1>5, <1>6, Zenon
<1> QED
  BY <1>7 DEF Flattens

\* FlattenSeq is the last value of that function.
LEMMA FlattenIs ==
  ASSUME NEW B, NEW seqs \in Seq(Seq(B)), seqs # <<>>
  PROVE  \E f \in [1..Len(seqs) -> Seq(B)] :
           /\ f[1] = seqs[1]
           /\ \A i \in 1..(Len(seqs) - 1) : f[i + 1] = f[i] \o seqs[i + 1]
           /\ FlattenSeq(seqs) = f[Len(seqs)]
<1> DEFINE c == CHOOSE f : Flattens(f, seqs)
<1>1. FlattenSeq(seqs) = c[Len(seqs)]
  BY EmptySeq DEF FlattenSeq, Flattens
<1>2. Flattens(c, seqs)
  BY FlattensExists
<1> HIDE DEF c
<1>3. c = [i \in 1..Len(seqs) |-> IF i = 1 THEN seqs[i] ELSE c[i - 1] \o seqs[i]]
  BY <1>2 DEF Flattens
<1>4. \A i \in 1..Len(seqs) : c[i] = IF i = 1 THEN seqs[i] ELSE c[i - 1] \o seqs[i]
  BY <1>3, Zenon
<1>5. 1 \in 1..Len(seqs) /\ seqs \in [1..Len(seqs) -> Seq(B)]
  BY EmptySeq
<1>6. c[1] = seqs[1]
  BY <1>4, <1>5, Zenon
<1>7. ASSUME NEW i \in 1..(Len(seqs) - 1) PROVE c[i + 1] = c[i] \o seqs[i + 1]
  <2>1. i + 1 \in 1..Len(seqs) /\ i + 1 # 1 /\ (i + 1) - 1 = i
    OBVIOUS
  <2>2. c[i + 1] = c[(i + 1) - 1] \o seqs[i + 1]
    BY <1>4, <2>1, Zenon
  <2> QED
    BY <2>1, <2>2
<1>8. c \in [1..Len(seqs) -> Seq(B)]
  <2> DEFINE S == {n \in Nat : n + 1 \in 1..Len(seqs) => c[n + 1] \in Seq(B)}
  <2>1. 0 \in S
    BY <1>5, <1>6
  <2>2. ASSUME NEW n \in Nat, n \in S PROVE n + 1 \in S
    <3> SUFFICES ASSUME (n + 1) + 1 \in 1..Len(seqs) PROVE c[(n + 1) + 1] \in Seq(B)
      OBVIOUS
    <3>1. n + 1 \in 1..(Len(seqs) - 1)
      OBVIOUS
    <3>2. c[(n + 1) + 1] = c[n + 1] \o seqs[(n + 1) + 1]
      BY <1>7, <3>1, Zenon
    <3>3. c[n + 1] \in Seq(B) /\ seqs[(n + 1) + 1] \in Seq(B)
      BY <2>2, <1>5
    <3> QED
      BY <3>2, <3>3, ConcatProperties
  <2>3. Nat \subseteq S
    <3> HIDE DEF S
    <3> QED
      BY <2>1, <2>2, SetInduction
  <2>4. ASSUME NEW i \in 1..Len(seqs) PROVE c[i] \in Seq(B)
    <3>1. i - 1 \in S /\ (i - 1) + 1 = i
      BY <2>3
    <3> QED
      BY <3>1
  <2>5. c = [i \in 1..Len(seqs) |-> c[i]]
    BY <1>3, Zenon
  <2> QED
    BY <2>4, <2>5
<1> QED
  BY <1>1, <1>6, <1>7, <1>8

LEMMA FlattenType ==
  ASSUME NEW B, NEW seqs \in Seq(Seq(B))
  PROVE  FlattenSeq(seqs) \in Seq(B) /\ (seqs = <<>> => FlattenSeq(seqs) = <<>>)
<1>1. CASE seqs = <<>>
  BY <1>1, EmptySeq DEF FlattenSeq
<1>2. CASE seqs # <<>>
  <2>1. Len(seqs) \in 1..Len(seqs)
    BY <1>2, EmptySeq
  <2> QED
    <3>1. PICK f \in [1..Len(seqs) -> Seq(B)] : FlattenSeq(seqs) = f[Len(seqs)]
      BY <1>2, FlattenIs, Zenon
    <3> QED
      BY <1>2, <2>1, <3>1
<1> QED
  BY <1>1, <1>2

\* The first member comes first.
LEMMA FlattenCons ==
  ASSUME NEW B, NEW seqs \in Seq(Seq(B)), NEW x \in Seq(B)
  PROVE  FlattenSeq(<<x>> \o seqs) = x \o FlattenSeq(seqs)
<1> DEFINE more == <<x>> \o seqs
<1>0. \A u, v \in Seq(B) : (x \o u) \o v = x \o (u \o v)
  BY ConcatAssociative
<1>1. /\ more \in Seq(Seq(B)) /\ more # <<>> /\ Len(more) = Len(seqs) + 1
      /\ more[1] = x /\ \A i \in 1..Len(seqs) : more[i + 1] = seqs[i]
  OBVIOUS
<1> HIDE DEF more
<1>2. PICK g \in [1..Len(more) -> Seq(B)] :
         /\ g[1] = more[1]
         /\ \A i \in 1..(Len(more) - 1) : g[i + 1] = g[i] \o more[i + 1]
         /\ FlattenSeq(more) = g[Len(more)]
  BY <1>1, FlattenIs
<1>3. CASE seqs = <<>>
  <2>1. FlattenSeq(more) = x /\ FlattenSeq(seqs) = <<>>
    <3>1. Len(more) = 1
      BY <1>1, <1>3, EmptySeq
    <3>2. FlattenSeq(more) = x
      BY <1>1, <1>2, <3>1
    <3> QED
      BY <1>3, <3>2, FlattenType
  <2> QED
    BY <2>1, ConcatEmptySeq DEF more
<1>4. CASE seqs # <<>>
  <2>1. PICK f \in [1..Len(seqs) -> Seq(B)] :
          /\ f[1] = seqs[1]
          /\ \A i \in 1..(Len(seqs) - 1) : f[i + 1] = f[i] \o seqs[i + 1]
          /\ FlattenSeq(seqs) = f[Len(seqs)]
    BY <1>4, FlattenIs
  <2> DEFINE Q(n) == n + 1 \in 1..Len(seqs) => g[(n + 1) + 1] = x \o f[n + 1]
             S == {n \in Nat : Q(n)}
  <2>2. Q(0)
    <3>1. 1 \in 1..Len(seqs) /\ 1 \in 1..(Len(more) - 1)
      BY <1>1, <1>4, EmptySeq
    <3>2. g[1 + 1] = g[1] \o more[1 + 1] /\ more[1 + 1] = seqs[1]
      BY <1>1, <1>2, <3>1, Zenon
    <3>3. g[1 + 1] = x \o f[1]
      BY <1>1, <1>2, <2>1, <3>2, Zenon
    <3>4. 0 + 1 = 1
      OBVIOUS
    <3> QED
      BY <3>3, <3>4, Zenon
  <2>3. ASSUME NEW n \in Nat, Q(n) PROVE Q(n + 1)
    <3> SUFFICES ASSUME (n + 1) + 1 \in 1..Len(seqs)
                 PROVE  g[((n + 1) + 1) + 1] = x \o f[(n + 1) + 1]
      OBVIOUS
    <3>1. /\ (n + 1) + 1 \in 1..(Len(more) - 1) /\ n + 1 \in 1..(Len(seqs) - 1)
          /\ n + 1 \in 1..Len(seqs)
      BY <1>1
    <3>2. /\ g[((n + 1) + 1) + 1] = g[(n + 1) + 1] \o more[((n + 1) + 1) + 1]
          /\ more[((n + 1) + 1) + 1] = seqs[(n + 1) + 1]
      BY <1>1, <1>2, <3>1, Zenon
    <3>3. f[(n + 1) + 1] = f[n + 1] \o seqs[(n + 1) + 1] /\ f[n + 1] \in Seq(B)
      BY <2>1, <3>1, Zenon
    <3>4. g[(n + 1) + 1] = x \o f[n + 1]
      BY <2>3, <3>1
    <3>5. seqs[(n + 1) + 1] \in Seq(B)
      BY ElementOfSeq
    <3>6. (x \o f[n + 1]) \o seqs[(n + 1) + 1] = x \o (f[n + 1] \o seqs[(n + 1) + 1])
      BY <1>0, <3>3, <3>5, Zenon
    <3> QED
      BY <3>2, <3>3, <3>4, <3>6, Zenon
  <2>4. g[Len(seqs) + 1] = x \o f[Len(seqs)]
    <3>1. Len(seqs) \in 1..Len(seqs)
      BY <1>4, EmptySeq
    <3> HIDE DEF Q
    <3>2. Nat \subseteq S
      <4>1. 0 \in S /\ \A n \in Nat : n \in S => n + 1 \in S
        BY <2>2, <2>3
      <4> HIDE DEF S
      <4> QED
        BY <4>1, SetInduction
    <3>3. Q(Len(seqs) - 1) /\ (Len(seqs) - 1) + 1 = Len(seqs)
      BY <3>1, <3>2
    <3> QED
      BY <3>1, <3>3, Zenon DEF Q
  <2> QED
    BY <1>1, <1>2, <2>1, <2>4 DEF more
<1> QED
  BY <1>3, <1>4

====
