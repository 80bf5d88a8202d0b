--------------------------- MODULE SequenceLemmas ---------------------------
(* What FlattenSeq and SetToSeq of the community modules return, for sequences *)
(* and sets of any size.  The library's induction theorems take an operator,   *)
(* so what holds of every length is shown by its least counterexample.         *)
EXTENDS SequencesExt, FiniteSets, WellFoundedInduction, SequenceTheorems, FiniteSetTheorems, TLAPS

(* A set of natural numbers that is not empty has a least element. *)
LEMMA LeastNumber == ASSUME NEW S \in SUBSET Nat, S # {} PROVE \E n \in S : \A m \in S : n <= m
<1>1. PICK n \in S : \A m \in S : <<m, n>> \notin OpToRel(<, Nat)
    BY NatLessThanWellFounded, WFMin
<1>2. \A m \in S : m \in Nat /\ n \in Nat /\ ~(m < n)
    BY <1>1 DEF OpToRel
<1> QED BY <1>2

(* FlattenSeq by its function: what it has made of the first i sequences. *)
FlatFcn(ss) == CHOOSE f : f = [i \in 1..Len(ss) |-> IF i = 1 THEN ss[i] ELSE f[i - 1] \o ss[i]]
FlatTo(f, ss, n) == f = [i \in 1..n |-> IF i = 1 THEN ss[i] ELSE f[i - 1] \o ss[i]]

\* FlattenSeq is that function's last value.
LEMMA FlatFcnIs ==
    ASSUME NEW ss, Len(ss) \in Nat, Len(ss) # 0
    PROVE  /\ FlattenSeq(ss) = FlatFcn(ss)[Len(ss)]
           /\ FlatTo(FlatFcn(ss), ss, Len(ss))
<1>1. FlattenSeq(ss) = FlatFcn(ss)[Len(ss)]
    BY DEF FlattenSeq, FlatFcn
<1> DEFINE N == Len(ss)
           Bad == {n \in 1..N : ~ \E f : FlatTo(f, ss, n)}
<1>2. ASSUME Bad # {} PROVE FALSE
    <2>0. Bad \in SUBSET Nat
        OBVIOUS
    <2>1. PICK n \in Bad : \A m \in Bad : n <= m
        <3> HIDE DEF Bad
        <3> QED BY <1>2, <2>0, LeastNumber
    <2>2. n \in 1..N /\ ~ \E f : FlatTo(f, ss, n)
        BY <2>1
    <2>3. CASE n = 1
        <3> DEFINE f == [i \in 1..1 |-> ss[i]]
        <3>1. FlatTo(f, ss, 1)
            BY DEF FlatTo
        <3> QED BY <2>2, <2>3, <3>1
    <2>4. CASE n # 1
        <3>1. n - 1 \in 1..N /\ ~(n <= n - 1)
            BY <2>2, <2>4
        <3>2. n - 1 \notin Bad
            BY <2>1, <3>1
        <3>3. PICK g : FlatTo(g, ss, n - 1)
            BY <3>1, <3>2
        <3> DEFINE f == [i \in 1..n |-> IF i = n THEN g[n - 1] \o ss[n] ELSE g[i]]
        <3>4. \A i \in 1..(n - 1) : g[i] = IF i = 1 THEN ss[i] ELSE g[i - 1] \o ss[i]
            BY <3>3 DEF FlatTo
        <3>5. ASSUME NEW i \in 1..n PROVE f[i] = IF i = 1 THEN ss[i] ELSE f[i - 1] \o ss[i]
            <4>1. CASE i = n
                <5>0. n - 1 \in 1..n /\ n - 1 # n
                    BY <2>2, <2>4
                <5>1. f[n] = g[n - 1] \o ss[n]
                    BY <4>1
                <5>2. f[n - 1] = g[n - 1]
                    BY <5>0
                <5> QED BY <2>4, <4>1, <5>1, <5>2
            <4>2. CASE i # n
                <5>1. i \in 1..(n - 1) /\ f[i] = g[i]
                    BY <2>2, <4>2
                <5>2. CASE i = 1
                    BY <3>4, <5>1, <5>2
                <5>3. CASE i # 1
                    <6>1. i - 1 \in 1..n /\ i - 1 # n
                        BY <2>2, <5>1, <5>3
                    <6>2. f[i - 1] = g[i - 1]
                        BY <6>1
                    <6> QED BY <3>4, <5>1, <5>3, <6>2
                <5> QED BY <5>2, <5>3
            <4> QED BY <4>1, <4>2
        <3>6. f = [i \in 1..n |-> IF i = 1 THEN ss[i] ELSE f[i - 1] \o ss[i]]
            <4>1. f = [i \in 1..n |-> f[i]]
                OBVIOUS
            <4> HIDE DEF f
            <4> QED BY <3>5, <4>1
        <3>7. FlatTo(f, ss, n)
            BY <3>6 DEF FlatTo
        <3> QED BY <2>2, <3>7
    <2> QED BY <2>3, <2>4
<1>3. \E f : FlatTo(f, ss, N)
    BY <1>2
<1>4. FlatTo(FlatFcn(ss), ss, N)
    BY <1>3 DEF FlatFcn, FlatTo
<1> QED BY <1>1, <1>4

\* Concatenation is associative.
Regroups(q, y, z) == (q \o y) \o z = q \o (y \o z)

\* Stated of the operator, so that a proof about many sequences says which three.
LEMMA Regrouped ==
    ASSUME NEW E, NEW q \in Seq(E), NEW y \in Seq(E), NEW z \in Seq(E)
    PROVE  Regroups(q, y, z)
BY ConcatAssociative DEF Regroups

\* A sequence is a concatenation when it has the elements of one.
LEMMA ConcatFrom ==
    ASSUME NEW S, NEW a \in Seq(S), NEW b \in Seq(S), NEW c \in Seq(S), Len(c) = Len(a) + Len(b),
           \A i \in 1..Len(a) : c[i] = a[i], \A i \in 1..Len(b) : c[Len(a) + i] = b[i]
    PROVE  c = a \o b
<1> DEFINE d == a \o b
<1>1. /\ d \in Seq(S) /\ Len(d) = Len(a) + Len(b) /\ Len(a) \in Nat /\ Len(b) \in Nat
      /\ \A i \in 1..(Len(a) + Len(b)) : d[i] = IF i <= Len(a) THEN a[i] ELSE b[i - Len(a)]
    BY ConcatProperties
<1>2. ASSUME NEW i \in 1..Len(c) PROVE c[i] = d[i]
    <2>1. CASE i <= Len(a)
        BY <1>1, <2>1
    <2>2. CASE ~(i <= Len(a))
        <3>1. i - Len(a) \in 1..Len(b) /\ Len(a) + (i - Len(a)) = i
            BY <1>1, <2>2
        <3>2. c[i] = b[i - Len(a)]
            BY <3>1
        <3> QED BY <1>1, <2>2, <3>2
    <2> QED BY <2>1, <2>2
<1> HIDE DEF d
<1> QED BY <1>1, <1>2, SeqEqual DEF d

(* What FlattenSeq makes of sequences over E: it has all their elements,    *)
(* each after those that precede it in its own sequence.                    *)
Joins(s, ss, n) ==
    /\ \A p \in DOMAIN s : \E k \in 1..n : \E j \in DOMAIN ss[k] :
          s[p] = ss[k][j] /\ \A i \in 1..(j - 1) : \E q \in 1..(p - 1) : s[q] = ss[k][i]
    /\ \A k \in 1..n : \A j \in DOMAIN ss[k] : \E p \in DOMAIN s : s[p] = ss[k][j]

\* One more sequence joins its elements after those there are.
LEMMA JoinOne ==
    ASSUME NEW E, NEW ss, NEW n \in Nat, NEW s \in Seq(E), Joins(s, ss, n), ss[n + 1] \in Seq(E)
    PROVE  s \o ss[n + 1] \in Seq(E) /\ Joins(s \o ss[n + 1], ss, n + 1)
<1> DEFINE t == ss[n + 1]
           c == s \o t
<1>1. /\ Len(s) \in Nat /\ Len(t) \in Nat /\ c \in Seq(E) /\ Len(c) = Len(s) + Len(t)
      /\ DOMAIN s = 1..Len(s) /\ DOMAIN t = 1..Len(t) /\ DOMAIN c = 1..(Len(s) + Len(t))
    OBVIOUS
<1>2. /\ \A i \in 1..Len(s) : c[i] = s[i]
      /\ \A i \in 1..Len(t) : c[Len(s) + i] = t[i]
    OBVIOUS
<1> HIDE DEF c
<1>3. ASSUME NEW p \in DOMAIN c
      PROVE  \E k \in 1..(n + 1) : \E j \in DOMAIN ss[k] :
               c[p] = ss[k][j] /\ \A i \in 1..(j - 1) : \E q \in 1..(p - 1) : c[q] = ss[k][i]
    <2>1. CASE p <= Len(s)
        <3>1. p \in DOMAIN s /\ c[p] = s[p]
            BY <1>1, <1>2, <2>1
        <3>2a. PICK k \in 1..n : \E j \in DOMAIN ss[k] :
                s[p] = ss[k][j] /\ \A i \in 1..(j - 1) : \E q \in 1..(p - 1) : s[q] = ss[k][i]
            BY <3>1 DEF Joins
        <3>2. PICK j \in DOMAIN ss[k] :
                s[p] = ss[k][j] /\ \A i \in 1..(j - 1) : \E q \in 1..(p - 1) : s[q] = ss[k][i]
            BY <3>2a
        <3>3. \A q \in 1..(p - 1) : c[q] = s[q]
            BY <1>1, <1>2, <3>1
        <3>4. k \in 1..(n + 1)
            OBVIOUS
        <3>5. \A i \in 1..(j - 1) : \E q \in 1..(p - 1) : c[q] = ss[k][i]
            BY <3>2, <3>3
        <3> QED BY <3>1, <3>2, <3>4, <3>5
    <2>2. CASE p > Len(s)
        <3> DEFINE j == p - Len(s)
        <3>1. j \in DOMAIN t /\ p = Len(s) + j /\ j \in 1..Len(t)
            BY <1>1, <2>2
        <3>2. c[p] = t[j]
            BY <1>2, <3>1
        <3>3. ASSUME NEW i \in 1..(j - 1) PROVE \E q \in 1..(p - 1) : c[q] = t[i]
            <4>1. Len(s) + i \in 1..(p - 1) /\ i \in 1..Len(t)
                BY <1>1, <3>1
            <4>2. c[Len(s) + i] = t[i]
                BY <1>2, <4>1
            <4> QED BY <4>1, <4>2
        <3>4. n + 1 \in 1..(n + 1)
            OBVIOUS
        <3> QED BY <3>1, <3>2, <3>3, <3>4
    <2> QED BY <1>1, <2>1, <2>2
<1>4. ASSUME NEW k \in 1..(n + 1), NEW j \in DOMAIN ss[k] PROVE \E p \in DOMAIN c : c[p] = ss[k][j]
    <2>1. CASE k \in 1..n
        <3>1. PICK p \in DOMAIN s : s[p] = ss[k][j]
            BY <2>1 DEF Joins
        <3>2. p \in DOMAIN c /\ c[p] = s[p]
            BY <1>1, <1>2
        <3> QED BY <3>1, <3>2
    <2>2. CASE k = n + 1
        <3>1. j \in 1..Len(t)
            BY <1>1, <2>2
        <3>2. Len(s) + j \in DOMAIN c /\ c[Len(s) + j] = t[j]
            BY <1>1, <1>2, <3>1
        <3> QED BY <2>2, <3>2
    <2> QED BY <2>1, <2>2
<1>5. Joins(c, ss, n + 1)
    BY <1>3, <1>4 DEF Joins
<1> QED BY <1>1, <1>5 DEF c

\* FlattenSeq joins them all.
LEMMA FlattenJoins ==
    ASSUME NEW E, NEW ss \in Seq(Seq(E))
    PROVE  FlattenSeq(ss) \in Seq(E) /\ Joins(FlattenSeq(ss), ss, Len(ss))
<1> DEFINE N == Len(ss)
           f == FlatFcn(ss)
<1>0. N \in Nat /\ DOMAIN ss = 1..N /\ \A k \in 1..N : ss[k] \in Seq(E)
    OBVIOUS
<1>1. CASE N = 0
    <2>1. FlattenSeq(ss) = <<>> /\ ss = <<>>
        BY <1>1 DEF FlattenSeq
    <2>2. Joins(<<>>, ss, 0)
        BY DEF Joins
    <2> QED BY <1>1, <2>1, <2>2
<1>2. CASE N # 0
    <2>1. FlattenSeq(ss) = f[N] /\ FlatTo(f, ss, N)
        BY <1>0, <1>2, FlatFcnIs
    <2>2. \A i \in 1..N : f[i] = IF i = 1 THEN ss[i] ELSE f[i - 1] \o ss[i]
        BY <2>1 DEF FlatTo
    <2> HIDE DEF f
    <2> DEFINE Good(n) == f[n] \in Seq(E) /\ Joins(f[n], ss, n)
               Bad == {n \in 1..N : ~Good(n)}
    <2>3. ASSUME Bad # {} PROVE FALSE
        <3>0. Bad \in SUBSET Nat
            BY <1>0
        <3>1. PICK n \in Bad : \A m \in Bad : n <= m
            <4> HIDE DEF Bad
            <4> QED BY <2>3, <3>0, LeastNumber
        <3>2. n \in 1..N /\ ~Good(n)
            BY <3>1
        <3>3. CASE n = 1
            <4>1. f[1] = ss[1] /\ ss[1] \in Seq(E)
                BY <1>0, <1>2, <2>2
            <4>2. Joins(ss[1], ss, 1)
                <5>1. Len(ss[1]) \in Nat /\ DOMAIN ss[1] = 1..Len(ss[1])
                    BY <4>1
                <5>2. \A p \in DOMAIN ss[1] : \A i \in 1..(p - 1) : \E q \in 1..(p - 1) : ss[1][q] = ss[1][i]
                    OBVIOUS
                <5>3. \A k \in 1..1 : k = 1
                    OBVIOUS
                <5>4. 1 \in 1..1
                    OBVIOUS
                <5> QED BY <5>1, <5>2, <5>3, <5>4 DEF Joins
            <4> QED BY <3>2, <3>3, <4>1, <4>2
        <3>4. CASE n # 1
            <4>1. n - 1 \in 1..N /\ n - 1 \in Nat /\ ~(n <= n - 1) /\ (n - 1) + 1 = n
                BY <1>0, <3>2, <3>4
            <4>2. Good(n - 1)
                BY <3>1, <4>1
            <4>3. f[n] = f[n - 1] \o ss[n] /\ ss[n] \in Seq(E)
                BY <1>0, <2>2, <3>2, <3>4
            <4>4. Good(n)
                BY <4>1, <4>2, <4>3, JoinOne
            <4> QED BY <3>2, <4>4
        <3> QED BY <3>3, <3>4
    <2>4. Good(N)
        BY <1>0, <1>2, <2>3
    <2> QED BY <2>1, <2>4
<1> QED BY <1>1, <1>2

\* Of no sequences it makes nothing.
LEMMA FlattenNone == FlattenSeq(<<>>) = <<>>
BY DEF FlattenSeq

\* One more sequence comes at the end.
LEMMA FlattenMore ==
    ASSUME NEW E, NEW ss \in Seq(Seq(E)), NEW x \in Seq(E)
    PROVE  FlattenSeq(ss \o <<x>>) = FlattenSeq(ss) \o x
<1> DEFINE N == Len(ss)
           a == ss \o <<x>>
           f == FlatFcn(ss)
           g == FlatFcn(a)
<1>1. /\ N \in Nat /\ Len(a) = N + 1 /\ a[N + 1] = x
      /\ \A i \in 1..N : a[i] = ss[i]
    OBVIOUS
<1>2. FlattenSeq(a) = g[N + 1] /\ FlatTo(g, a, N + 1)
    <2> HIDE DEF a
    <2>1. Len(a) \in Nat /\ Len(a) # 0
        BY <1>1
    <2> QED BY <1>1, <2>1, FlatFcnIs
<1> HIDE DEF a, g, f
<1>3. \A i \in 1..(N + 1) : g[i] = IF i = 1 THEN a[i] ELSE g[i - 1] \o a[i]
    BY <1>2 DEF FlatTo
<1>4. CASE N = 0
    <2>1. g[1] = x
        BY <1>1, <1>3, <1>4
    <2>2. ss = <<>>
        BY <1>4
    <2>3. FlattenSeq(ss) = <<>>
        BY <2>2, FlattenNone
    <2>4. <<>> \o x = x
        BY ConcatEmptySeq
    <2> QED BY <1>2, <1>4, <2>1, <2>3, <2>4 DEF a
<1>5. CASE N # 0
    <2>1. FlattenSeq(ss) = f[N] /\ FlatTo(f, ss, N)
        BY <1>1, <1>5, FlatFcnIs DEF f
    <2>2. \A i \in 1..N : f[i] = IF i = 1 THEN ss[i] ELSE f[i - 1] \o ss[i]
        BY <2>1 DEF FlatTo
    <2> DEFINE Bad == {n \in 1..N : g[n] # f[n]}
    <2>3. ASSUME Bad # {} PROVE FALSE
        <3>0. Bad \in SUBSET Nat
            BY <1>1
        <3>1. PICK n \in Bad : \A m \in Bad : n <= m
            <4> HIDE DEF Bad
            <4> QED BY <2>3, <3>0, LeastNumber
        <3>2. n \in 1..N /\ g[n] # f[n] /\ n \in 1..(N + 1) /\ a[n] = ss[n]
            BY <1>1, <3>1
        <3>3. CASE n = 1
            BY <1>3, <2>2, <3>2, <3>3
        <3>4. CASE n # 1
            <4>1. n - 1 \in 1..N /\ ~(n <= n - 1)
                BY <1>1, <3>2, <3>4
            <4>2. g[n - 1] = f[n - 1]
                BY <3>1, <4>1
            <4> QED BY <1>3, <2>2, <3>2, <3>4, <4>2
        <3> QED BY <3>3, <3>4
    <2>4. g[N] = f[N]
        <3>1. N \in 1..N
            BY <1>1, <1>5
        <3>2. g[N] # f[N] => N \in Bad
            BY <3>1
        <3> HIDE DEF Bad
        <3> QED BY <2>3, <3>2
    <2>5. g[N + 1] = g[N] \o a[N + 1]
        <3>1. N + 1 \in 1..(N + 1) /\ N + 1 # 1 /\ (N + 1) - 1 = N
            BY <1>1, <1>5
        <3> QED BY <1>3, <3>1
    <2> QED BY <1>1, <1>2, <2>1, <2>4, <2>5 DEF a
<1> QED BY <1>4, <1>5

\* The step of the next lemma.
SeqsOf(E) == Seq(Seq(E))
LEMMA FlattenStep ==
    ASSUME NEW E, NEW ss \in SeqsOf(E), NEW p \in SeqsOf(E), NEW x \in Seq(E),
           FlattenSeq(ss \o p) = FlattenSeq(ss) \o FlattenSeq(p)
    PROVE  FlattenSeq(ss \o (p \o <<x>>)) = FlattenSeq(ss) \o FlattenSeq(p \o <<x>>)
<1>1. ss \o (p \o <<x>>) = (ss \o p) \o <<x>>
    BY DEF SeqsOf
<1>2. ss \o p \in Seq(Seq(E))
    BY DEF SeqsOf
<1>3. FlattenSeq((ss \o p) \o <<x>>) = FlattenSeq(ss \o p) \o x
    BY <1>2, FlattenMore
<1>4. FlattenSeq(p \o <<x>>) = FlattenSeq(p) \o x
    BY FlattenMore DEF SeqsOf
<1>5. PICK u \in Seq(E), v \in Seq(E) : u = FlattenSeq(ss) /\ v = FlattenSeq(p)
    BY FlattenJoins DEF SeqsOf
<1>6. Regroups(u, v, x)
    BY Regrouped
<1> QED BY <1>1, <1>3, <1>4, <1>5, <1>6 DEF Regroups

\* And so does what more sequences make.
LEMMA FlattenConcat ==
    ASSUME NEW E, NEW ss \in Seq(Seq(E)), NEW tt \in Seq(Seq(E))
    PROVE  FlattenSeq(ss \o tt) = FlattenSeq(ss) \o FlattenSeq(tt)
<1> DEFINE N == Len(tt)
           To(n) == SubSeq(tt, 1, n)
           Good(n) == FlattenSeq(ss \o To(n)) = FlattenSeq(ss) \o FlattenSeq(To(n))
           Bad == {n \in 0..N : ~Good(n)}
<1>1. N \in Nat /\ \A k \in 1..N : tt[k] \in Seq(E)
    OBVIOUS
<1>2. \A n \in 0..N : To(n) \in Seq(Seq(E))
    OBVIOUS
<1>3. ASSUME Bad # {} PROVE FALSE
    <2>0. Bad \in SUBSET Nat
        BY <1>1
    <2>1. PICK n \in Bad : \A m \in Bad : n <= m
        <3> HIDE DEF Bad
        <3> QED BY <1>3, <2>0, LeastNumber
    <2>2. n \in 0..N /\ ~Good(n)
        BY <2>1
    <2>3. CASE n = 0
        <3>1. To(0) = <<>>
            BY SubSeqEmpty
        <3>2. ss \o <<>> = ss
            BY ConcatEmptySeq
        <3>3. FlattenSeq(ss) \in Seq(E)
            BY FlattenJoins
        <3>4. FlattenSeq(ss) \o <<>> = FlattenSeq(ss)
            BY <3>3, ConcatEmptySeq
        <3>5. Good(0)
            BY <3>1, <3>2, <3>4, FlattenNone
        <3> QED BY <2>2, <2>3, <3>5
    <2>4. CASE n # 0
        <3>1. n \in 1..N /\ n - 1 \in 0..N /\ ~(n <= n - 1)
            BY <1>1, <2>2, <2>4
        <3>2. Good(n - 1)
            BY <2>1, <3>1
        <3> DEFINE p == To(n - 1)
                   x == tt[n]
        <3>3. To(n) = p \o <<x>>
            <4>1. 1 \in 1..N /\ n \in 1..N
                BY <1>1, <3>1
            <4> QED BY <4>1, SubSeqRecursiveSecond
        <3>4. p \in Seq(Seq(E)) /\ x \in Seq(E)
            BY <1>1, <1>2, <3>1
        <3> HIDE DEF p, x
        <3>5. FlattenSeq(ss \o p) = FlattenSeq(ss) \o FlattenSeq(p)
            BY <3>2 DEF p
        <3>6. FlattenSeq(ss \o (p \o <<x>>)) = FlattenSeq(ss) \o FlattenSeq(p \o <<x>>)
            BY <3>4, <3>5, FlattenStep DEF SeqsOf
        <3>7. Good(n)
            BY <3>3, <3>6
        <3> QED BY <2>2, <3>7
    <2> QED BY <2>3, <2>4
<1>4. Good(N)
    <2>1. N \in 0..N
        BY <1>1
    <2>2. ~Good(N) => N \in Bad
        BY <2>1
    <2> HIDE DEF Bad
    <2> QED BY <1>3, <2>2
<1>5. To(N) = tt
    BY SubSeqFull
<1> QED BY <1>4, <1>5

(* A finite set is listed by SetToSeq. *)
LEMMA SetListed ==
    ASSUME NEW S, IsFiniteSet(S)
    PROVE  /\ Cardinality(S) \in Nat
           /\ SetToSeq(S) \in [1..Cardinality(S) -> S]
           /\ SetToSeq(S) \in Seq(S) /\ Len(SetToSeq(S)) = Cardinality(S)
           /\ \A x \in S : \E k \in 1..Cardinality(S) : SetToSeq(S)[k] = x
<1> DEFINE n == Cardinality(S)
           f == SetToSeq(S)
<1>1. n \in Nat /\ ExistsBijection(1..n, S)
    BY FS_CardinalityType
<1>2. \E g \in [1..n -> S] : IsInjective(g)
    BY <1>1 DEF ExistsBijection, Bijection, Injection
<1>3. f \in [1..n -> S] /\ IsInjective(f)
    <2>1. f = CHOOSE g \in [1..n -> S] : IsInjective(g)
        BY DEF SetToSeq
    <2> HIDE DEF f, n
    <2> QED BY <1>2, <2>1
<1> HIDE DEF f
<1>4. f \in Injection(1..n, S)
    BY <1>3 DEF Injection
<1>5. IsFiniteSet(1..n) /\ Cardinality(1..n) = n
    BY <1>1, FS_Interval
<1>6. f \in Surjection(1..n, S)
    BY <1>4, <1>5, FS_Injection
<1>7. f \in Seq(S) /\ Len(f) = n
    BY <1>1, <1>3
<1> QED BY <1>1, <1>3, <1>6, <1>7 DEF Surjection, f
=============================================================================
