----------------------------- MODULE FoldLemmas -----------------------------
(***************************************************************************)
(* Folds over sequences, for the proofs.  FoldLeft is defined by recursion *)
(* over the subsets of the indices; a proof wants its intermediate values, *)
(* one for each prefix.                                                    *)
(***************************************************************************)
EXTENDS Integers, Sequences, SequencesExt, FiniteSetTheorems, TLAPS

\* A non-empty set of naturals has a least element.  (Intervals 0 .. m are
\* ordered by strict inclusion, which is well-founded.)
LEMMA LeastNatural ==
    ASSUME NEW S \in SUBSET Nat, S # {}
    PROVE  \E n \in S : \A m \in S : n <= m
<1>1. PICK k \in S : TRUE
  OBVIOUS
<1> DEFINE I == 0 .. k
<1> DEFINE R == StrictSubsetOrdering(I)
<1> DEFINE T == {0 .. m : m \in {j \in S : j <= k}}
<1>2. IsWellFoundedOn(R, FiniteSubsetsOf(I))
  BY FS_StrictSubsetOrderingWellFounded
<1>3. T \subseteq FiniteSubsetsOf(I) /\ T # {}
  <2>1. ASSUME NEW m \in S, m <= k
        PROVE  0 .. m \in FiniteSubsetsOf(I)
    <3>1. IsFiniteSet(0 .. m)
      BY FS_Interval
    <3>2. 0 .. m \in SUBSET I
      BY <2>1
    <3> QED  BY <3>1, <3>2 DEF FiniteSubsetsOf
  <2>2. 0 .. k \in T
    BY <1>1
  <2> QED  BY <2>1, <2>2
<1>4. PICK x \in T : \A y \in T : ~ (<<y, x>> \in R)
  <2> HIDE DEF R, T, I
  <2> QED  BY <1>2, <1>3, WFMin
<1>5. PICK n \in S : n <= k /\ x = 0 .. n
  BY <1>4
<1>6. ASSUME NEW m \in S, m < n
      PROVE  FALSE
  <2>1. 0 .. m \in T
    BY <1>5, <1>6
  <2>2. 0 .. m \subseteq x /\ 0 .. m # x /\ x \subseteq I
    <3>1. n \in 0 .. n /\ n \notin 0 .. m
      BY <1>6
    <3> QED  BY <1>5, <1>6, <3>1
  <2>3. <<0 .. m, x>> \in R
    BY <2>2 DEF StrictSubsetOrdering
  <2> QED  BY <2>1, <2>3, <1>4
<1> QED
  BY <1>6

\* Induction up to n: a set that holds 0, and with every number the next one.
LEMMA UpTo ==
    ASSUME NEW n \in Nat, NEW S, 0 \in S,
           \A k \in 1 .. n : k - 1 \in S => k \in S
    PROVE  \A k \in 0 .. n : k \in S
<1> DEFINE B == {k \in 0 .. n : k \notin S}
<1>1. SUFFICES ASSUME B # {} PROVE FALSE
  OBVIOUS
<1>2. B \in SUBSET Nat
  OBVIOUS
<1>3. PICK k \in B : \A m \in B : k <= m
  <2> HIDE DEF B
  <2> QED  BY <1>1, <1>2, LeastNatural
<1>4. k \in 1 .. n
  BY <1>3
<1>5. k - 1 \in 0 .. n /\ k - 1 \notin B
  BY <1>3, <1>4
<1> QED
  BY <1>3, <1>4, <1>5

\* The largest element of a set of indices that ends with k.
LEMMA MaxIs ==
    ASSUME NEW k \in Nat, NEW S \in SUBSET (1 .. k), k \in S
    PROVE  Max(S) = k
<1>1. \A y \in S : k >= y
  OBVIOUS
<1>2. \A x \in S : (\A y \in S : x >= y) => x = k
  OBVIOUS
<1> QED
  BY <1>1, <1>2 DEF Max

\* A non-empty set of indices has a largest one.
LEMMA MaxExists ==
    ASSUME NEW n \in Nat, NEW S \in SUBSET (1 .. n), S # {}
    PROVE  Max(S) \in S /\ Max(S) \in 1 .. n
<1> DEFINE B == {m \in 0 .. n : \A y \in S : y <= m}
<1>1. B \in SUBSET Nat /\ n \in B
  OBVIOUS
<1>2. PICK k \in B : \A m \in B : k <= m
  <2> HIDE DEF B
  <2> QED  BY <1>1, LeastNatural
<1>3. k \in S
  <2> SUFFICES ASSUME k \notin S PROVE FALSE
    OBVIOUS
  <2>1. \A y \in S : y <= k - 1
    BY <1>2
  <2>2. k - 1 \in 0 .. n
    <3>1. PICK y \in S : y \in 1 .. n
      OBVIOUS
    <3>2. y <= k - 1 /\ k \in 0 .. n
      BY <1>2, <2>1
    <3> QED  BY <3>1, <3>2
  <2> QED  BY <1>2, <2>1, <2>2
<1>4. S \in SUBSET (1 .. k)
  BY <1>2
<1> QED
  BY <1>3, <1>4, MaxIs

\* f solves the recursion of a fold over the subsets of 1 .. n.
Solves(f, n, X, base, step) ==
    /\ f \in [SUBSET (1 .. n) -> X]
    /\ f[{}] = base
    /\ \A S \in SUBSET (1 .. n) :
          S # {} => f[S] = step[Max(S)][f[S \ {Max(S)}]]

\* There is such a solution.
LEMMA RecursionSolved ==
    ASSUME NEW n \in Nat, NEW X, NEW base \in X, NEW step \in [1 .. n -> [X -> X]]
    PROVE  \E f : Solves(f, n, X, base, step)
<1> DEFINE Sol(f, m) == Solves(f, m, X, base, step)
           G == {m \in 0 .. n : \E f : Sol(f, m)}
<1>1. 0 \in G
  <2> DEFINE f == [S \in SUBSET (1 .. 0) |-> base]
  <2>1. \A S \in SUBSET (1 .. 0) : S = {}
    OBVIOUS
  <2>2. Sol(f, 0)
    BY <2>1 DEF Solves
  <2> HIDE DEF f, Sol
  <2> QED  BY <2>2
<1>2. ASSUME NEW k \in 1 .. n, k - 1 \in G
      PROVE  k \in G
  <2>1. PICK g : Sol(g, k - 1)
    BY <1>2
  <2> DEFINE f == [S \in SUBSET (1 .. k) |->
                     IF k \in S THEN step[k][g[S \ {k}]] ELSE g[S]]
  <2>2. \A S \in SUBSET (1 .. k) : S \ {k} \in SUBSET (1 .. k - 1)
    OBVIOUS
  <2>3. \A S \in SUBSET (1 .. k) : k \notin S => S \in SUBSET (1 .. k - 1)
    OBVIOUS
  <2>4. f \in [SUBSET (1 .. k) -> X]
    <3> SUFFICES ASSUME NEW S \in SUBSET (1 .. k)
                 PROVE  (IF k \in S THEN step[k][g[S \ {k}]] ELSE g[S]) \in X
      OBVIOUS
    <3>1. CASE k \in S
      <4>1. g[S \ {k}] \in X
        BY <2>1, <2>2 DEF Solves
      <4> QED  BY <3>1, <4>1
    <3>2. CASE k \notin S
      BY <2>1, <2>3, <3>2 DEF Solves
    <3> QED  BY <3>1, <3>2
  <2>5. f[{}] = base
    BY <2>1 DEF Solves
  <2>6. ASSUME NEW S \in SUBSET (1 .. k), S # {}
        PROVE  f[S] = step[Max(S)][f[S \ {Max(S)}]]
    <3>1. CASE k \in S
      <4>1. Max(S) = k
        BY <3>1, MaxIs
      <4>2. f[S] = step[k][g[S \ {k}]]
        BY <3>1
      <4>3. f[S \ {k}] = g[S \ {k}]
        OBVIOUS
      <4> HIDE DEF f
      <4> QED  BY <4>1, <4>2, <4>3
    <3>2. CASE k \notin S
      <4>1. S \in SUBSET (1 .. k - 1) /\ S \ {Max(S)} \in SUBSET (1 .. k)
            /\ k \notin S \ {Max(S)}
        BY <2>3, <3>2
      <4>2. f[S] = g[S] /\ f[S \ {Max(S)}] = g[S \ {Max(S)}]
        BY <4>1, <3>2
      <4>3. g[S] = step[Max(S)][g[S \ {Max(S)}]]
        BY <2>1, <2>6, <4>1 DEF Solves
      <4> HIDE DEF f
      <4> QED  BY <4>2, <4>3
    <3> QED  BY <3>1, <3>2
  <2> QED
    <3> HIDE DEF f
    <3>1. Sol(f, k)
      BY <2>4, <2>5, <2>6 DEF Solves
    <3> HIDE DEF Sol
    <3> QED  BY <3>1
<1>3. \A k \in 0 .. n : k \in G
  <2> HIDE DEF G
  <2> QED  BY <1>1, <1>2, UpTo
<1>4. \E f : Sol(f, n)
  <2> HIDE DEF Sol
  <2> QED  BY <1>3
<1> QED
  BY <1>4

\* The values of a fold, prefix by prefix.
IsRun(r, n, X, base, step) ==
    /\ r \in [0 .. n -> X]
    /\ r[0] = base
    /\ \A k \in 1 .. n : r[k] = step[k][r[k - 1]]


\* f satisfies the recursion wherever its values are in X.
Recurs(f, n, X, base, step) ==
    /\ f[{}] = base
    /\ \A S \in SUBSET (1 .. n) :
          S # {} /\ f[S \ {Max(S)}] \in X => f[S] = step[Max(S)][f[S \ {Max(S)}]]

\* What satisfies the recursion of a fold has the run among its values.
LEMMA RunOfRecursion ==
    ASSUME NEW n \in Nat, NEW X, NEW base \in X, NEW step \in [1 .. n -> [X -> X]],
           NEW f, Recurs(f, n, X, base, step)
    PROVE  \E r : IsRun(r, n, X, base, step) /\ r[n] = f[1 .. n]
<1> DEFINE r == [k \in 0 .. n |-> f[1 .. k]]
           G == {k \in 0 .. n : r[k] \in X /\ (k > 0 => r[k] = step[k][r[k - 1]])}
<1>1. 1 .. 0 = {} /\ r[0] = base
  BY DEF Recurs
<1>2. 0 \in G
  BY <1>1
<1>3. ASSUME NEW k \in 1 .. n, k - 1 \in G
      PROVE  k \in G
  <2>1. k \in 1 .. k /\ 1 .. k \in SUBSET (1 .. k) /\ 1 .. k \in SUBSET (1 .. n)
    OBVIOUS
  <2>2. Max(1 .. k) = k
    BY <2>1, MaxIs
  <2>3. (1 .. k) \ {k} = 1 .. k - 1
    OBVIOUS
  <2>4. r[k - 1] = f[1 .. k - 1] /\ r[k - 1] \in X /\ r[k] = f[1 .. k]
    BY <1>3
  <2>5. f[1 .. k] = step[k][f[1 .. k - 1]]
    BY <2>1, <2>2, <2>3, <2>4 DEF Recurs
  <2>6. step[k][r[k - 1]] \in X
    BY <2>4
  <2> QED  BY <2>4, <2>5, <2>6
<1>4. \A k \in 0 .. n : k \in G
  <2> HIDE DEF G
  <2> QED  BY <1>2, <1>3, UpTo
<1>5. r \in [0 .. n -> X]
  BY <1>4
<1>6. \A k \in 1 .. n : r[k] = step[k][r[k - 1]]
  BY <1>4
<1>7. r[n] = f[1 .. n]
  OBVIOUS
<1> HIDE DEF r
<1>8. IsRun(r, n, X, base, step)
  BY <1>1, <1>5, <1>6 DEF IsRun
<1> QED
  BY <1>7, <1>8

\* There is a run.
LEMMA RunExists ==
    ASSUME NEW n \in Nat, NEW X, NEW base \in X, NEW step \in [1 .. n -> [X -> X]]
    PROVE  \E r : IsRun(r, n, X, base, step)
<1>1. PICK f : Solves(f, n, X, base, step)
  BY RecursionSolved
<1>2. Recurs(f, n, X, base, step)
  BY <1>1 DEF Solves, Recurs
<1> QED
  BY <1>2, RunOfRecursion

-----------------------------------------------------------------------------
(* Sequences.                                                              *)

\* Concatenation is associative.  (Named, so that it can be cited next to
\* sequences of sequences.)
Assoc(a, b, c) == (a \o b) \o c = a \o (b \o c)
\* Concatenation is associative.
LEMMA ConcatAssoc == \A T : \A a, b, c \in Seq(T) : Assoc(a, b, c)
BY SMT DEF Assoc

\* The empty sequence is neutral.
LEMMA ConcatEmpty ==
    ASSUME NEW T, NEW a \in Seq(T)
    PROVE  <<>> \in Seq(T) /\ a \o <<>> = a /\ <<>> \o a = a
OBVIOUS

\* The elements of a concatenation.
LEMMA ConcatAt ==
    ASSUME NEW T, NEW a \in Seq(T), NEW b \in Seq(T)
    PROVE  /\ a \o b \in Seq(T) /\ Len(a \o b) = Len(a) + Len(b)
           /\ \A i \in 1 .. Len(a) : (a \o b)[i] = a[i]
           /\ \A i \in 1 .. Len(b) : (a \o b)[Len(a) + i] = b[i]
OBVIOUS

\* The first element and the others, the last one and the others.
LEMMA TailFacts ==
    ASSUME NEW T, NEW s \in Seq(T), s # <<>>
    PROVE  /\ Len(s) >= 1 /\ Head(s) = s[1] /\ s[1] \in T
           /\ Tail(s) \in Seq(T) /\ Len(Tail(s)) = Len(s) - 1
           /\ \A i \in 1 .. Len(Tail(s)) : Tail(s)[i] = s[i + 1] /\ i + 1 \in 1 .. Len(s)
OBVIOUS

\* A non-empty sequence is its front and its last element.
LEMMA FrontFacts ==
    ASSUME NEW T, NEW s \in Seq(T), s # <<>>
    PROVE  /\ Len(s) >= 1 /\ Last(s) = s[Len(s)] /\ s[Len(s)] \in T
           /\ Front(s) \in Seq(T) /\ Len(Front(s)) = Len(s) - 1
           /\ \A i \in 1 .. Len(s) - 1 : Front(s)[i] = s[i]
<1> DEFINE n == Len(s) - 1
<1>1. n \in Nat /\ Len(s) = n + 1 /\ n + 1 \in 1 .. Len(s)
  OBVIOUS
<1>2. Front(s) = SubSeq(s, 1, n) /\ Last(s) = s[Len(s)] /\ s[Len(s)] \in T
  BY <1>1 DEF Front, Last
<1> HIDE DEF n
<1>3. /\ SubSeq(s, 1, n) \in Seq(T) /\ Len(SubSeq(s, 1, n)) = n
      /\ \A i \in 1 .. n : SubSeq(s, 1, n)[i] = s[i]
  BY <1>1
<1> QED
  BY <1>1, <1>2, <1>3

\* A sequence is its two parts.  (Named, for the provers to match.)
Rejoins(s, n, T) ==
    /\ SubSeq(s, 1, n) \in Seq(T) /\ Len(SubSeq(s, 1, n)) = n
    /\ SubSeq(s, n + 1, Len(s)) \in Seq(T) /\ Len(SubSeq(s, n + 1, Len(s))) = Len(s) - n
    /\ SubSeq(s, 1, n) \o SubSeq(s, n + 1, Len(s)) = s

\* A sequence is its first n elements followed by the others.
LEMMA SplitRejoins ==
    ASSUME NEW T, NEW s \in Seq(T), NEW n \in 0 .. Len(s)
    PROVE  Rejoins(s, n, T)
<1> DEFINE a == SubSeq(s, 1, n)
           b == SubSeq(s, n + 1, Len(s))
<1>1. /\ a \in Seq(T) /\ Len(a) = n /\ b \in Seq(T) /\ Len(b) = Len(s) - n
      /\ \A i \in 1 .. n : a[i] = s[i]
      /\ \A i \in 1 .. Len(s) - n : b[i] = s[n + i]
  OBVIOUS
<1> HIDE DEF a, b
<1> DEFINE c == a \o b
<1>2. /\ c \in Seq(T) /\ Len(c) = Len(a) + Len(b)
      /\ \A i \in 1 .. Len(a) : c[i] = a[i]
      /\ \A i \in 1 .. Len(b) : c[Len(a) + i] = b[i]
  BY <1>1, ConcatAt
<1> HIDE DEF c
<1>3. Len(c) = Len(s)
  BY <1>1, <1>2
<1>4. ASSUME NEW i \in 1 .. Len(s) PROVE c[i] = s[i]
  <2>1. CASE i <= n
    BY <1>1, <1>2, <2>1
  <2>2. CASE i > n
    <3> DEFINE j == i - n
    <3>1. j \in 1 .. Len(b) /\ i = n + j /\ j \in 1 .. Len(s) - n
      BY <1>1, <2>2
    <3>2. i = Len(a) + j
      BY <1>1, <3>1
    <3> HIDE DEF j
    <3>3. c[Len(a) + j] = b[j] /\ b[j] = s[n + j]
      BY <1>1, <1>2, <3>1
    <3> QED  BY <3>1, <3>2, <3>3
  <2> QED  BY <2>1, <2>2
<1>5. c = s
  BY <1>2, <1>3, <1>4
<1> QED
  BY <1>1, <1>5 DEF Rejoins, a, b, c

\* a is what follows the first k elements of h.
Rest(h, k, a) ==
    /\ Len(h) = k + Len(a)
    /\ \A i \in 1 .. Len(a) : a[i] = h[k + i]

\* A sequence that follows the first k elements of h is h from there on.
LEMMA RestIs ==
    ASSUME NEW T, NEW h \in Seq(T), NEW k \in Nat, NEW a \in Seq(T)
    PROVE  Rest(h, k, a) <=> k <= Len(h) /\ a = SubSeq(h, k + 1, Len(h))
<1> DEFINE z == SubSeq(h, k + 1, Len(h))
<1>1. k <= Len(h) => /\ z \in Seq(T) /\ Len(z) = Len(h) - k
                     /\ \A i \in 1 .. Len(h) - k : z[i] = h[k + i]
  OBVIOUS
<1>2. Len(h) \in Nat /\ Len(a) \in Nat
  OBVIOUS
<1> HIDE DEF z
<1>3. ASSUME k <= Len(h), a = z
      PROVE  Rest(h, k, a)
  BY <1>1, <1>2, <1>3 DEF Rest
<1>4. ASSUME Rest(h, k, a)
      PROVE  k <= Len(h) /\ a = z
  <2>1. Len(h) = k + Len(a) /\ \A i \in 1 .. Len(a) : a[i] = h[k + i]
    BY <1>4 DEF Rest
  <2>2. k <= Len(h) /\ Len(h) - k = Len(a)
    BY <1>2, <2>1
  <2>3. Len(z) = Len(a) /\ z \in Seq(T) /\ \A i \in 1 .. Len(a) : z[i] = a[i]
    BY <1>1, <2>1, <2>2
  <2>4. a = z
    BY <2>3
  <2> QED  BY <2>2, <2>4
<1> QED
  BY <1>3, <1>4 DEF z

\* More at both ends.
LEMMA RestGrows ==
    ASSUME NEW T, NEW h \in Seq(T), NEW k \in Nat, NEW a \in Seq(T), NEW x \in Seq(T),
           Rest(h, k, a)
    PROVE  Rest(h \o x, k, a \o x)
<1> DEFINE g == h \o x
           b == a \o x
<1>1. /\ g \in Seq(T) /\ Len(g) = Len(h) + Len(x)
      /\ \A i \in 1 .. Len(h) : g[i] = h[i]
      /\ \A i \in 1 .. Len(x) : g[Len(h) + i] = x[i]
  BY ConcatAt
<1>2. /\ b \in Seq(T) /\ Len(b) = Len(a) + Len(x)
      /\ \A i \in 1 .. Len(a) : b[i] = a[i]
      /\ \A i \in 1 .. Len(x) : b[Len(a) + i] = x[i]
  BY ConcatAt
<1>3. Len(h) \in Nat /\ Len(a) \in Nat /\ Len(x) \in Nat
  OBVIOUS
<1>4. Len(h) = k + Len(a) /\ \A i \in 1 .. Len(a) : a[i] = h[k + i]
  BY DEF Rest
<1> HIDE DEF g, b
<1>5. ASSUME NEW i \in 1 .. Len(b) PROVE b[i] = g[k + i]
  <2>1. CASE i <= Len(a)
    <3>1. i \in 1 .. Len(a) /\ k + i \in 1 .. Len(h)
      BY <1>3, <1>4, <2>1
    <3> QED  BY <1>1, <1>2, <1>4, <3>1
  <2>2. CASE i > Len(a)
    <3> DEFINE j == i - Len(a)
    <3>1. j \in 1 .. Len(x) /\ i = Len(a) + j /\ k + i = Len(h) + j
      BY <1>2, <1>3, <1>4, <2>2
    <3> HIDE DEF j
    <3> QED  BY <1>1, <1>2, <3>1
  <2> QED  BY <1>3, <2>1, <2>2
<1>6. Len(g) = k + Len(b)
  BY <1>1, <1>2, <1>3, <1>4
<1>7. Rest(g, k, b)
  BY <1>5, <1>6 DEF Rest
<1> QED
  BY <1>7 DEF g, b

\* Less at the end.
LEMMA RestLoses ==
    ASSUME NEW T, NEW h \in Seq(T), NEW k \in Nat, NEW a \in Seq(T), NEW x \in Seq(T),
           Rest(h, k, a \o x)
    PROVE  Len(x) <= Len(h) /\ Rest(SubSeq(h, 1, Len(h) - Len(x)), k, a)
<1> DEFINE g == SubSeq(h, 1, Len(h) - Len(x))
           b == a \o x
<1>1. /\ b \in Seq(T) /\ Len(b) = Len(a) + Len(x)
      /\ \A i \in 1 .. Len(a) : b[i] = a[i]
  BY ConcatAt
<1>2. Len(h) \in Nat /\ Len(a) \in Nat /\ Len(x) \in Nat
  OBVIOUS
<1>3. Len(h) = k + Len(b) /\ \A i \in 1 .. Len(b) : b[i] = h[k + i]
  BY DEF Rest
<1> HIDE DEF b
<1>4. Len(x) <= Len(h) /\ Len(h) - Len(x) = k + Len(a)
  BY <1>1, <1>2, <1>3
<1>5. Len(g) = k + Len(a) /\ \A i \in 1 .. k + Len(a) : g[i] = h[i]
  BY <1>2, <1>4
<1> HIDE DEF g
<1>6. ASSUME NEW i \in 1 .. Len(a) PROVE a[i] = g[k + i]
  <2>1. i \in 1 .. Len(b) /\ k + i \in 1 .. k + Len(a)
    BY <1>1, <1>2
  <2> QED  BY <1>1, <1>3, <1>5, <2>1
<1>7. Rest(g, k, a)
  BY <1>5, <1>6 DEF Rest
<1> QED
  BY <1>4, <1>7 DEF g

\* Less at the beginning.
LEMMA RestShrinks ==
    ASSUME NEW T, NEW h \in Seq(T), NEW k \in Nat, NEW x \in Seq(T), NEW a \in Seq(T),
           Rest(h, k, x \o a)
    PROVE  Rest(h, k + Len(x), a)
<1> DEFINE b == x \o a
<1>1. /\ b \in Seq(T) /\ Len(b) = Len(x) + Len(a)
      /\ \A i \in 1 .. Len(a) : b[Len(x) + i] = a[i]
  BY ConcatAt
<1>2. Len(h) \in Nat /\ Len(a) \in Nat /\ Len(x) \in Nat
  OBVIOUS
<1>3. Len(h) = k + Len(b) /\ \A i \in 1 .. Len(b) : b[i] = h[k + i]
  BY DEF Rest
<1> HIDE DEF b
<1>4. ASSUME NEW i \in 1 .. Len(a) PROVE a[i] = h[(k + Len(x)) + i]
  <2>1. Len(x) + i \in 1 .. Len(b) /\ k + (Len(x) + i) = (k + Len(x)) + i
    BY <1>1, <1>2
  <2>2. b[Len(x) + i] = h[k + (Len(x) + i)]
    BY <1>3, <2>1
  <2> QED  BY <1>1, <2>1, <2>2
<1>5. Len(h) = (k + Len(x)) + Len(a)
  BY <1>1, <1>2, <1>3
<1> QED
  BY <1>4, <1>5 DEF Rest

\* The end of the rest is a rest, too.
LEMMA RestSuffix ==
    ASSUME NEW T, NEW h \in Seq(T), NEW k \in Nat, NEW a \in Seq(T), NEW j \in 0 .. Len(a),
           Rest(h, k, a)
    PROVE  /\ SubSeq(a, j + 1, Len(a)) \in Seq(T)
           /\ Len(SubSeq(a, j + 1, Len(a))) = Len(a) - j
           /\ Rest(h, k + j, SubSeq(a, j + 1, Len(a)))
<1> DEFINE b == SubSeq(a, j + 1, Len(a))
<1>1. /\ b \in Seq(T) /\ Len(b) = Len(a) - j
      /\ \A i \in 1 .. Len(a) - j : b[i] = a[j + i]
  OBVIOUS
<1>2. Len(h) \in Nat /\ Len(a) \in Nat /\ Len(h) = k + Len(a)
  BY DEF Rest
<1>3. \A i \in 1 .. Len(a) : a[i] = h[k + i]
  BY DEF Rest
<1> HIDE DEF b
<1>4. ASSUME NEW i \in 1 .. Len(b) PROVE b[i] = h[(k + j) + i]
  <2>1. j + i \in 1 .. Len(a) /\ i \in 1 .. Len(a) - j /\ k + (j + i) = (k + j) + i
    BY <1>1, <1>2
  <2> QED  BY <1>1, <1>3, <2>1
<1>5. Len(h) = (k + j) + Len(b)
  BY <1>1, <1>2
<1>6. Rest(h, k + j, b)
  BY <1>4, <1>5 DEF Rest
<1> QED
  BY <1>1, <1>6 DEF b

\* The first index that satisfies a test.
LEMMA MinExists ==
    ASSUME NEW S \in SUBSET Nat, S # {}
    PROVE  Min(S) \in S /\ \A y \in S : Min(S) <= y
<1>1. \E x \in S : \A y \in S : x <= y
  BY LeastNatural
<1> QED
  BY <1>1 DEF Min

-----------------------------------------------------------------------------
(* FlattenSeq, the concatenation of a sequence of sequences.               *)

\* The concatenations of the first ones.
Flattens(r, s, T) ==
    /\ r \in [0 .. Len(s) -> Seq(T)]
    /\ r[0] = <<>>
    /\ \A k \in 1 .. Len(s) : r[k] = r[k - 1] \o s[k]

\* There are such.
LEMMA FlattensExists ==
    ASSUME NEW T, NEW s \in Seq(Seq(T))
    PROVE  \E r : Flattens(r, s, T)
<1> DEFINE step == [k \in 1 .. Len(s) |-> [a \in Seq(T) |-> a \o s[k]]]
<1>1. step \in [1 .. Len(s) -> [Seq(T) -> Seq(T)]]
  <2> SUFFICES ASSUME NEW k \in 1 .. Len(s), NEW a \in Seq(T)
               PROVE  a \o s[k] \in Seq(T)
    OBVIOUS
  <2>1. s[k] \in Seq(T)
    OBVIOUS
  <2> QED  BY <2>1
<1>2. \A k \in 1 .. Len(s) : \A a \in Seq(T) : step[k][a] = a \o s[k]
  OBVIOUS
<1>3. Len(s) \in Nat /\ <<>> \in Seq(T)
  OBVIOUS
<1> HIDE DEF step
<1>4. PICK r : IsRun(r, Len(s), Seq(T), <<>>, step)
  BY <1>1, <1>3, RunExists
<1>5. \A k \in 1 .. Len(s) : k - 1 \in 0 .. Len(s)
  BY <1>3
<1>6. Flattens(r, s, T)
  BY <1>2, <1>4, <1>5 DEF IsRun, Flattens
<1> QED
  BY <1>6

\* FlattenSeq is the last of them.
LEMMA FlattenIs ==
    ASSUME NEW T, NEW s \in Seq(Seq(T)), NEW r, Flattens(r, s, T)
    PROVE  FlattenSeq(s) = r[Len(s)]
<1> DEFINE n == Len(s)
           Eq(f) == f = [i \in 1 .. n |-> IF i = 1 THEN s[i] ELSE f[i - 1] \o s[i]]
           flatten == CHOOSE f : Eq(f)
<1>1. n \in Nat
  OBVIOUS
<1>2. CASE n = 0
  <2>1. s = <<>>
    BY <1>2
  <2> QED  BY <1>2, <2>1 DEF FlattenSeq, Flattens
<1>3. CASE n # 0
  <2>1. FlattenSeq(s) = flatten[n]
    BY <1>3 DEF FlattenSeq
  <2>2. ASSUME NEW i \in 1 .. n
        PROVE  r[i] = IF i = 1 THEN s[i] ELSE r[i - 1] \o s[i]
    <3>1. r[i] = r[i - 1] \o s[i]
      BY DEF Flattens
    <3>2. CASE i = 1
      <4>1. r[i - 1] = <<>>
        BY <3>2 DEF Flattens
      <4>2. s[i] \in Seq(T)
        OBVIOUS
      <4>3. <<>> \o s[i] = s[i]
        BY <4>2
      <4> HIDE DEF n
      <4> QED  BY <3>1, <3>2, <4>1, <4>3
    <3> QED  BY <3>1, <3>2
  <2>20. Eq([k \in 1 .. n |-> r[k]])
    <3> SUFFICES ASSUME NEW i \in 1 .. n
                 PROVE  r[i] = IF i = 1 THEN s[i] ELSE [k \in 1 .. n |-> r[k]][i - 1] \o s[i]
      OBVIOUS
    <3>1. i # 1 => i - 1 \in 1 .. n
      BY <1>1
    <3> HIDE DEF n
    <3> QED  BY <2>2, <3>1
  <2>3. Eq(flatten)
    <3> HIDE DEF Eq
    <3> QED  BY <2>20
  <2> HIDE DEF flatten
  <2>4. \A k \in 0 .. n : k \in {j \in 0 .. n : j > 0 => flatten[j] = r[j]}
    <3> DEFINE S == {j \in 0 .. n : j > 0 => flatten[j] = r[j]}
    <3>1. 0 \in S
      BY <1>1
    <3>2. ASSUME NEW k \in 1 .. n, k - 1 \in S
          PROVE  k \in S
      <4>1. flatten[k] = IF k = 1 THEN s[k] ELSE flatten[k - 1] \o s[k]
        BY <2>3
      <4>2. r[k] = IF k = 1 THEN s[k] ELSE r[k - 1] \o s[k]
        BY <2>2
      <4>3. k # 1 => flatten[k - 1] = r[k - 1]
        BY <3>2, <1>1
      <4>4. k \in 0 .. n
        BY <1>1
      <4> QED  BY <4>1, <4>2, <4>3, <4>4
    <3> HIDE DEF S, n
    <3>3. \A k \in 0 .. n : k \in S
      BY <1>1, <3>1, <3>2, UpTo
    <3> QED  BY <3>3 DEF S
  <2>5. flatten[n] = r[n]
    BY <1>1, <1>3, <2>4
  <2> QED  BY <2>1, <2>5
<1> QED
  BY <1>2, <1>3

\* The concatenation of none.
LEMMA FlattenEmpty == FlattenSeq(<<>>) = <<>>
BY DEF FlattenSeq

\* One more at the end.
LEMMA FlattenAppend ==
    ASSUME NEW T, NEW s \in Seq(Seq(T)), NEW x \in Seq(T)
    PROVE  FlattenSeq(s) \in Seq(T) /\ FlattenSeq(Append(s, x)) = FlattenSeq(s) \o x
<1> DEFINE d == Append(s, x)
           n == Len(s)
<1>1. /\ d \in Seq(Seq(T)) /\ Len(d) = n + 1 /\ n \in Nat /\ d[n + 1] = x
      /\ \A i \in 1 .. n : d[i] = s[i]
  OBVIOUS
<1> HIDE DEF d
<1>2. PICK q : Flattens(q, s, T)
  BY FlattensExists
<1>3. FlattenSeq(s) = q[n] /\ q[n] \in Seq(T)
  <2>1. FlattenSeq(s) = q[n]
    BY <1>2, FlattenIs
  <2>2. q \in [0 .. Len(s) -> Seq(T)]
    BY <1>2 DEF Flattens
  <2>3. Len(s) \in Nat
    OBVIOUS
  <2> QED  BY <2>1, <2>2, <2>3
<1> HIDE DEF n
<1> DEFINE r == [k \in 0 .. n + 1 |-> IF k = n + 1 THEN q[n] \o x ELSE q[k]]
<1>4. Flattens(r, d, T)
  <2>1. q \in [0 .. n -> Seq(T)] /\ q[0] = <<>> /\ \A k \in 1 .. n : q[k] = q[k - 1] \o s[k]
    BY <1>2 DEF Flattens, n
  <2>2. q[n] \o x \in Seq(T)
    BY <1>3
  <2>3. r \in [0 .. n + 1 -> Seq(T)] /\ r[0] = <<>>
    <3> HIDE DEF d
    <3>1. 0 \in 0 .. n + 1 /\ 0 # n + 1
      BY <1>1
    <3>2. \A k \in 0 .. n + 1 : k # n + 1 => k \in 0 .. n
      BY <1>1
    <3> QED  BY <2>1, <2>2, <3>1, <3>2
  <2>4. ASSUME NEW k \in 1 .. n + 1
        PROVE  r[k] = r[k - 1] \o d[k]
    <3>1. k \in 0 .. n + 1 /\ k - 1 \in 0 .. n + 1 /\ k - 1 # n + 1
      BY <1>1
    <3>2. r[k - 1] = q[k - 1]
      BY <3>1
    <3>3. CASE k = n + 1
      <4>1. r[k] = q[n] \o x /\ k - 1 = n
        BY <3>1, <3>3, <1>1
      <4> HIDE DEF r
      <4> QED  BY <3>2, <3>3, <4>1, <1>1
    <3>4. CASE k # n + 1
      <4>1. r[k] = q[k] /\ k \in 1 .. n
        BY <3>1, <3>4, <1>1
      <4> HIDE DEF r
      <4> QED  BY <3>2, <4>1, <2>1, <1>1
    <3> QED  BY <3>3, <3>4
  <2> HIDE DEF r
  <2> QED  BY <1>1, <2>3, <2>4 DEF Flattens
<1>5. FlattenSeq(d) = r[n + 1]
  <2> HIDE DEF r
  <2> QED  BY <1>1, <1>4, FlattenIs
<1>6. r[n + 1] = q[n] \o x
  BY <1>1
<1> HIDE DEF r
<1> QED
  BY <1>3, <1>5, <1>6 DEF d

\* The first one is the head of the whole.
LEMMA FlattenHead ==
    ASSUME NEW T, NEW s \in Seq(Seq(T)), s # <<>>
    PROVE  FlattenSeq(s) = Head(s) \o FlattenSeq(Tail(s))
<1> DEFINE d == Tail(s)
           m == Len(d)
           x == Head(s)
<1>1. /\ d \in Seq(Seq(T)) /\ m \in Nat /\ Len(s) = m + 1
      /\ x \in Seq(T) /\ x = s[1]
      /\ \A i \in 1 .. m : d[i] = s[i + 1] /\ d[i] \in Seq(T)
  OBVIOUS
<1>2. PICK r : Flattens(r, s, T)
  BY FlattensExists
<1>3. PICK q : Flattens(q, d, T)
  <2> HIDE DEF d
  <2> QED  BY <1>1, FlattensExists
<1>4. FlattenSeq(s) = r[Len(s)] /\ FlattenSeq(d) = q[m]
  <2> HIDE DEF d
  <2> QED  BY <1>1, <1>2, <1>3, FlattenIs
<1> HIDE DEF d, x
<1>5. /\ r[0] = <<>> /\ \A k \in 1 .. m + 1 : r[k] = r[k - 1] \o s[k]
      /\ q \in [0 .. m -> Seq(T)] /\ q[0] = <<>> /\ \A k \in 1 .. m : q[k] = q[k - 1] \o d[k]
  BY <1>1, <1>2, <1>3 DEF Flattens
<1>50. m \in Nat /\ x \in Seq(T) /\ Len(s) = m + 1
  BY <1>1
<1>51. s[1] = x /\ \A i \in 1 .. m : s[i + 1] = d[i] /\ d[i] \in Seq(T)
  BY <1>1
<1> HIDE DEF m
<1> DEFINE S == {k \in 0 .. m : r[k + 1] = x \o q[k]}
<1>6. 0 \in S
  <2>1. r[1] = r[0] \o s[1]
    <3>1. 1 \in 1 .. m + 1 /\ 1 - 1 = 0
      BY <1>50
    <3>2. r[1] = r[1 - 1] \o s[1]
      BY <1>5, <3>1, Zenon
    <3> QED  BY <3>1, <3>2
  <2>2. <<>> \o x = x /\ x \o <<>> = x
    BY <1>50, ConcatEmpty
  <2>3. r[0 + 1] = x \o q[0]
    BY <1>51, <1>5, <2>1, <2>2
  <2> QED  BY <1>50, <2>3
<1>7. ASSUME NEW k \in 1 .. m, k - 1 \in S
      PROVE  k \in S
  <2>0. k - 1 \in 0 .. m /\ k \in 1 .. m + 1 /\ k + 1 \in 1 .. m + 1 /\ (k - 1) + 1 = k
        /\ (k + 1) - 1 = k /\ k \in 0 .. m
    BY <1>50
  <2>1. r[k] = x \o q[k - 1]
    BY <1>7, <2>0
  <2>2. r[k + 1] = r[k] \o s[k + 1]
    BY <1>5, <2>0
  <2>3. q[k] = q[k - 1] \o d[k] /\ q[k - 1] \in Seq(T)
    BY <1>5, <2>0
  <2>4. s[k + 1] = d[k] /\ d[k] \in Seq(T)
    BY <1>51
  <2>5. Assoc(x, q[k - 1], d[k])
    BY <1>50, <2>3, <2>4, ConcatAssoc, Zenon
  <2>6. r[k + 1] = x \o q[k]
    BY <2>1, <2>2, <2>3, <2>4, <2>5 DEF Assoc
  <2> QED  BY <2>0, <2>6
<1>8. \A k \in 0 .. m : k \in S
  <2> HIDE DEF S
  <2> QED  BY <1>50, <1>6, <1>7, UpTo
<1>9. r[m + 1] = x \o q[m]
  <2>1. m \in 0 .. m
    BY <1>50
  <2> QED  BY <1>8, <2>1
<1> QED
  BY <1>4, <1>50, <1>9 DEF d, x, m

\* The whole is the concatenation of a prefix, and of the rest.
LEMMA FlattenSplit ==
    ASSUME NEW T, NEW s \in Seq(Seq(T)), NEW n \in 0 .. Len(s)
    PROVE  /\ FlattenSeq(SubSeq(s, 1, n)) \in Seq(T)
           /\ FlattenSeq(SubSeq(s, n + 1, Len(s))) \in Seq(T)
           /\ FlattenSeq(s) = FlattenSeq(SubSeq(s, 1, n)) \o FlattenSeq(SubSeq(s, n + 1, Len(s)))
<1> DEFINE l == Len(s)
           pre(k) == SubSeq(s, 1, k)
           post(k) == SubSeq(s, k + 1, l)
           S == {k \in 0 .. l : FlattenSeq(s) = FlattenSeq(pre(k)) \o FlattenSeq(post(k))}
<1>1. l \in Nat
  OBVIOUS
<1>2. \A k \in 0 .. l : pre(k) \in Seq(Seq(T)) /\ post(k) \in Seq(Seq(T))
  BY <1>1
<1>3. \A a \in Seq(Seq(T)) : FlattenSeq(a) \in Seq(T)
  <2> TAKE a \in Seq(Seq(T))
  <2>1. <<>> \in Seq(T)
    OBVIOUS
  <2> QED  BY <2>1, FlattenAppend
<1>4. 0 \in S
  <2>1. pre(0) = <<>> /\ post(0) = s
    BY <1>1
  <2>2. FlattenSeq(s) \in Seq(T)
    BY <1>3
  <2>3. FlattenSeq(s) = <<>> \o FlattenSeq(s)
    BY <2>2, ConcatEmpty
  <2> HIDE DEF pre, post
  <2>4. FlattenSeq(s) = FlattenSeq(pre(0)) \o FlattenSeq(post(0))
    BY <2>1, <2>3, FlattenEmpty
  <2>5. 0 \in 0 .. l
    BY <1>1
  <2> HIDE DEF l
  <2> QED  BY <2>4, <2>5
<1>5. ASSUME NEW k \in 1 .. l, k - 1 \in S
      PROVE  k \in S
  <2>1. /\ post(k - 1) # <<>> /\ Head(post(k - 1)) = s[k] /\ Tail(post(k - 1)) = post(k)
        /\ pre(k) = Append(pre(k - 1), s[k]) /\ s[k] \in Seq(T)
        /\ k - 1 \in 0 .. l /\ k \in 0 .. l
    <3>1. k - 1 \in 0 .. l /\ k \in 0 .. l /\ (k - 1) + 1 = k
      BY <1>1
    <3>2. post(k - 1) # <<>> /\ Head(post(k - 1)) = s[k]
      <4>1. Len(post(k - 1)) = l - k + 1 /\ post(k - 1)[1] = s[k]
        BY <1>1, <3>1
      <4> DEFINE p == post(k - 1)
      <4>2. p \in Seq(Seq(T)) /\ Len(p) # 0
        BY <1>1, <1>2, <3>1, <4>1
      <4> HIDE DEF p
      <4>3. p # <<>> /\ Head(p) = p[1]
        BY <4>2
      <4> QED  BY <4>1, <4>3 DEF p
    <3>3. Tail(post(k - 1)) = post(k)
      BY <1>1, <3>1
    <3>4. pre(k) = Append(pre(k - 1), s[k])
      BY <1>1, <3>1
    <3> QED  BY <3>1, <3>2, <3>3, <3>4
  <2> HIDE DEF pre, post, l
  <2>2. FlattenSeq(post(k - 1)) = s[k] \o FlattenSeq(post(k))
    BY <1>2, <2>1, FlattenHead
  <2>3. FlattenSeq(pre(k)) = FlattenSeq(pre(k - 1)) \o s[k]
    BY <1>2, <2>1, FlattenAppend
  <2>4. FlattenSeq(s) = FlattenSeq(pre(k - 1)) \o FlattenSeq(post(k - 1))
    BY <1>5
  <2> DEFINE a == FlattenSeq(pre(k - 1))
             b == FlattenSeq(post(k))
  <2>5. a \in Seq(T) /\ b \in Seq(T)
    BY <1>2, <1>3, <2>1
  <2>6. Assoc(a, s[k], b)
    <3>1. s[k] \in Seq(T)
      BY <2>1
    <3> HIDE DEF a, b
    <3> QED  BY <3>1, <2>5, ConcatAssoc, Zenon
  <2>7. FlattenSeq(s) = FlattenSeq(pre(k)) \o FlattenSeq(post(k))
    BY <2>2, <2>3, <2>4, <2>6 DEF Assoc
  <2> QED  BY <2>1, <2>7
<1>6. n \in S
  <2>1. \A k \in 0 .. l : k \in S
    <3> HIDE DEF S, l
    <3> QED  BY <1>1, <1>4, <1>5, UpTo
  <2> QED  BY <2>1
<1> QED
  BY <1>2, <1>3, <1>6

-----------------------------------------------------------------------------
(* What the elements of a sequence hold, put together.                     *)

\* The same facts about FlattenSeq, behind a name: the provers get lost in
\* sequences of sequences.
TextsOf(T) == Seq(T)

\* FlattenSeq of a sequence of texts and one more.
LEMMA TextsAppend ==
    ASSUME NEW T, NEW s \in Seq(TextsOf(T)), NEW x \in TextsOf(T)
    PROVE  FlattenSeq(s) \in TextsOf(T) /\ FlattenSeq(Append(s, x)) = FlattenSeq(s) \o x
BY FlattenAppend DEF TextsOf

\* FlattenSeq of a sequence of texts begins with the first.
LEMMA TextsHead ==
    ASSUME NEW T, NEW s \in Seq(TextsOf(T)), s # <<>>
    PROVE  FlattenSeq(s) = Head(s) \o FlattenSeq(Tail(s))
BY FlattenHead DEF TextsOf

SplitsAt(s, n, T) ==
    /\ FlattenSeq(SubSeq(s, 1, n)) \in TextsOf(T)
    /\ FlattenSeq(SubSeq(s, n + 1, Len(s))) \in TextsOf(T)
    /\ FlattenSeq(s) = FlattenSeq(SubSeq(s, 1, n)) \o FlattenSeq(SubSeq(s, n + 1, Len(s)))

\* FlattenSeq of a sequence of texts can be taken apart at any of them.
LEMMA TextsSplit ==
    ASSUME NEW T, NEW s \in Seq(TextsOf(T)), NEW n \in 0 .. Len(s)
    PROVE  SplitsAt(s, n, T)
BY FlattenSplit DEF TextsOf, SplitsAt

\* (Named for the same reason.)
IsMap(h, A, B) == h \in [A -> B]

Mapped(h, a) == [i \in DOMAIN a |-> h[a[i]]]
Gathered(h, a) == FlattenSeq(Mapped(h, a))

\* Mapping goes element by element.
LEMMA MappedFacts ==
    ASSUME NEW A, NEW B, NEW h, IsMap(h, A, B), NEW a \in Seq(A)
    PROVE  /\ Mapped(h, a) \in Seq(B) /\ Len(Mapped(h, a)) = Len(a)
           /\ \A i \in 1 .. Len(a) : Mapped(h, a)[i] = h[a[i]]
BY DEF Mapped, IsMap

\* One more element is mapped to one more.
LEMMA MappedAppend ==
    ASSUME NEW A, NEW B, NEW h, IsMap(h, A, B), NEW a \in Seq(A), NEW x \in A
    PROVE  Mapped(h, Append(a, x)) = Append(Mapped(h, a), h[x])
<1> DEFINE b == Append(a, x)
           u == Mapped(h, b)
           v == Mapped(h, a)
           n == Len(a)
           w == h[x]
<1>1. b \in Seq(A) /\ Len(b) = n + 1 /\ n \in Nat
      /\ \A i \in 1 .. n + 1 : b[i] = IF i = n + 1 THEN x ELSE a[i]
  OBVIOUS
<1> HIDE DEF b
<1>2. u \in Seq(B) /\ Len(u) = n + 1 /\ \A i \in 1 .. n + 1 : u[i] = h[b[i]]
  BY <1>1, MappedFacts
<1>3. v \in Seq(B) /\ Len(v) = n /\ \A i \in 1 .. n : v[i] = h[a[i]]
  BY MappedFacts
<1>4. w \in B
  BY DEF IsMap
<1>5. \A i \in 1 .. n + 1 : u[i] = IF i = n + 1 THEN w ELSE v[i]
  BY <1>1, <1>2, <1>3
<1> HIDE DEF u, v, w, n
<1>6. u = Append(v, w)
  BY <1>1, <1>2, <1>3, <1>4, <1>5
<1> QED
  BY <1>6 DEF u, v, w, b

\* A part is mapped to that part.
MapsPart(h, a, m, k) == Mapped(h, SubSeq(a, m, k)) = SubSeq(Mapped(h, a), m, k)

\* Mapping a part of a sequence is the part of its mapping.
LEMMA MappedSubSeq ==
    ASSUME NEW A, NEW B, NEW h, IsMap(h, A, B), NEW a \in Seq(A),
           NEW m \in Nat, m >= 1, NEW k \in Nat, k <= Len(a)
    PROVE  MapsPart(h, a, m, k)
<1> DEFINE b == SubSeq(a, m, k)
           u == Mapped(h, b)
           v == Mapped(h, a)
           n == Len(a)
           l == IF m <= k THEN k - m + 1 ELSE 0
<1>1. /\ b \in Seq(A) /\ Len(b) = l /\ n \in Nat /\ l \in Nat /\ k <= n
      /\ \A i \in 1 .. l : b[i] = a[m + i - 1] /\ m + i - 1 \in 1 .. n
  OBVIOUS
<1>10. l = IF m <= k THEN k - m + 1 ELSE 0
  OBVIOUS
<1> HIDE DEF b, l
<1>11. b \in Seq(A) /\ Len(b) = l
  BY <1>1
<1>2. u \in Seq(B) /\ Len(u) = l /\ \A i \in 1 .. l : u[i] = h[b[i]]
  BY <1>11, MappedFacts
<1>3. v \in Seq(B) /\ Len(v) = n /\ \A i \in 1 .. n : v[i] = h[a[i]]
  BY MappedFacts
<1> HIDE DEF u, v, n
<1>5. \A i \in 1 .. l : u[i] = v[m + i - 1]
  BY <1>1, <1>2, <1>3
<1>6. u = SubSeq(v, m, k)
  <2> DEFINE y == SubSeq(v, m, k)
  <2>1. y \in Seq(B) /\ Len(y) = l /\ \A i \in 1 .. l : y[i] = v[m + i - 1]
    BY <1>1, <1>10, <1>3
  <2> HIDE DEF y
  <2>2. \A i \in 1 .. l : u[i] = y[i]
    BY <1>5, <2>1
  <2>3. u = y
    BY <1>1, <1>2, <2>1, <2>2
  <2> QED  BY <2>3 DEF y
<1> QED
  BY <1>6 DEF MapsPart, u, v, b

\* What is gathered, an element at a time, and part by part.
Gathers(h, a, A, T) ==
    /\ Gathered(h, a) \in TextsOf(T)
    /\ \A x \in A : Gathered(h, Append(a, x)) = Gathered(h, a) \o h[x]
    /\ a # <<>> => Gathered(h, a) = h[Head(a)] \o Gathered(h, Tail(a))

\* The texts that elements map to, gathered: empty for none, and element by
\* element.
LEMMA GatheredFacts ==
    ASSUME NEW A, NEW T, NEW h, IsMap(h, A, TextsOf(T)), NEW a \in Seq(A)
    PROVE  Gathers(h, a, A, T)
<1> DEFINE v == Mapped(h, a)
<1>1. v \in Seq(TextsOf(T)) /\ Len(v) = Len(a) /\ \A i \in 1 .. Len(a) : v[i] = h[a[i]]
  BY MappedFacts
<1>2. \A x \in A : h[x] \in TextsOf(T)
  BY DEF IsMap
<1>3. <<>> \in TextsOf(T)
  BY DEF TextsOf
<1>4. Gathered(h, a) \in TextsOf(T)
  <2> HIDE DEF v
  <2> QED  BY <1>1, <1>3, TextsAppend DEF Gathered, v
<1>5. ASSUME NEW x \in A
      PROVE  Gathered(h, Append(a, x)) = Gathered(h, a) \o h[x]
  <2>1. Mapped(h, Append(a, x)) = Append(v, h[x])
    BY MappedAppend
  <2> HIDE DEF v
  <2> QED  BY <1>1, <1>2, <2>1, TextsAppend DEF Gathered, v
<1>6. ASSUME a # <<>>
      PROVE  Gathered(h, a) = h[Head(a)] \o Gathered(h, Tail(a))
  <2>1. Len(a) \in Nat /\ Len(a) # 0 /\ Tail(a) = SubSeq(a, 2, Len(a)) /\ Head(a) = a[1]
    BY <1>6
  <2>2. MapsPart(h, a, 2, Len(a))
    <3>1. 2 \in Nat /\ 2 >= 1 /\ Len(a) <= Len(a)
      BY <2>1
    <3> QED  BY <2>1, <3>1, MappedSubSeq
  <2>20. Mapped(h, Tail(a)) = SubSeq(v, 2, Len(a))
    BY <2>1, <2>2 DEF MapsPart
  <2> HIDE DEF v
  <2>3. v # <<>> /\ Head(v) = v[1] /\ Tail(v) = SubSeq(v, 2, Len(v))
    BY <1>1, <2>1
  <2>4. v[1] = h[Head(a)]
    BY <1>1, <2>1
  <2>5. FlattenSeq(v) = Head(v) \o FlattenSeq(Tail(v))
    BY <1>1, <2>3, TextsHead
  <2>6. Tail(v) = Mapped(h, Tail(a))
    BY <1>1, <2>20, <2>3
  <2> QED  BY <2>3, <2>4, <2>5, <2>6 DEF Gathered, v
<1> QED
  BY <1>4, <1>5, <1>6 DEF Gathers

\* They can be taken apart at any element.
LEMMA GatheredSplit ==
    ASSUME NEW A, NEW T, NEW h, IsMap(h, A, TextsOf(T)), NEW a \in Seq(A), NEW n \in 0 .. Len(a)
    PROVE  /\ Gathered(h, SubSeq(a, 1, n)) \in TextsOf(T)
           /\ Gathered(h, SubSeq(a, n + 1, Len(a))) \in TextsOf(T)
           /\ Gathered(h, a) = Gathered(h, SubSeq(a, 1, n))
                                 \o Gathered(h, SubSeq(a, n + 1, Len(a)))
<1> DEFINE v == Mapped(h, a)
           l == Len(a)
<1>1. v \in Seq(TextsOf(T)) /\ Len(v) = l
  BY MappedFacts
<1>2. 1 \in Nat /\ n + 1 \in Nat /\ n + 1 >= 1 /\ l \in Nat /\ n \in Nat /\ n <= l /\ l <= l
  OBVIOUS
<1>3. MapsPart(h, a, 1, n)
  BY <1>2, MappedSubSeq
<1>4. MapsPart(h, a, n + 1, l)
  BY <1>2, MappedSubSeq
<1>5. SplitsAt(v, n, T)
  <2> HIDE DEF v
  <2> QED  BY <1>1, TextsSplit
<1> QED
  BY <1>1, <1>3, <1>4, <1>5 DEF Gathered, MapsPart, SplitsAt
=============================================================================
