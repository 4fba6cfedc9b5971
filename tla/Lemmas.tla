-------------------------------- MODULE Lemmas --------------------------------
(***************************************************************************)
(* What the proofs of several components need: induction in a form that    *)
(* speaks of a set, not of a predicate, so that every prover can use it;   *)
(* that the functions which the folds and FlattenSeq of the community      *)
(* modules define by recursion exist, and what they compute; which         *)
(* elements Front, Append and \o leave where; and what privileges_guard    *)
(* does on its own, for all credentials.                                   *)
(***************************************************************************)
EXTENDS Credentials, Sequences, SequencesExt, FiniteSetsExt, SequenceTheorems,
        WellFoundedInduction, TLAPS

\* Induction: a set that has 0 and, with a number, the next one has all of them.
LEMMA Induction ==
  ASSUME NEW T, 0 \in T, \A n \in Nat : n \in T => n + 1 \in T
  PROVE  Nat \subseteq T
<1> SUFFICES ASSUME Nat \ T # {} PROVE FALSE
  OBVIOUS
<1> DEFINE R == OpToRel(<, Nat)
<1>1. PICK x \in Nat \ T : \A y \in Nat \ T : ~(<<y, x>> \in R)
  <2>1. IsWellFoundedOn(R, Nat)
    BY NatLessThanWellFounded
  <2> HIDE DEF R
  <2> QED BY <2>1, WFMin
<1>2. \A y \in Nat \ T : ~(y < x)
  BY <1>1 DEF OpToRel
<1>3. x # 0 /\ x - 1 \in Nat /\ x - 1 < x
  OBVIOUS
<1>4. x - 1 \in T
  BY <1>2, <1>3
<1>5. (x - 1) + 1 \in T
  BY <1>3, <1>4
<1> QED BY <1>3, <1>5

\* The same up to a number.
LEMMA InductionTo ==
  ASSUME NEW m \in Nat, NEW T, 0 \in T, \A n \in 0 .. m - 1 : n \in T => n + 1 \in T
  PROVE  0 .. m \subseteq T
<1> DEFINE U == {n \in Nat : n <= m => n \in T}
<1>1. 0 \in U
  OBVIOUS
<1>2. \A n \in Nat : n \in U => n + 1 \in U
  OBVIOUS
<1> HIDE DEF U
<1>3. Nat \subseteq U
  BY <1>1, <1>2, Induction
<1> QED BY <1>3 DEF U

-----------------------------------------------------------------------------
(* Quotients and remainders by a number that is not known.                 *)

\* What they are.
LEMMA Division ==
  ASSUME NEW a \in Nat, NEW d \in Nat \ {0}
  PROVE  a \div d \in Nat /\ a % d \in 0 .. d - 1 /\ a = d * (a \div d) + (a % d)
  OBVIOUS

\* Within an interval of d numbers the remainder goes up with the number.
LEMMA SameQuotient ==
  ASSUME NEW a \in Nat, NEW w \in Nat, NEW d \in Nat \ {0}, (a + w) \div d = a \div d
  PROVE  (a + w) % d = (a % d) + w
<1> DEFINE q == d * (a \div d)
<1>1. q \in Int /\ a % d \in Int /\ a = q + (a % d)
  BY Division
<1>2. (a + w) % d \in Int /\ a + w = q + ((a + w) % d)
  <2> DEFINE e == a + w
  <2>1. e \in Nat
    OBVIOUS
  <2> HIDE DEF e
  <2>2. e % d \in 0 .. d - 1 /\ e = d * (e \div d) + (e % d)
    BY <2>1, Division
  <2> QED BY <2>2 DEF e
<1> HIDE DEF q
<1> QED BY <1>1, <1>2

\* A quotient of nothing.
LEMMA ZeroQuotient ==
  ASSUME NEW a \in Nat, NEW d \in Nat \ {0}
  PROVE  a \div d = 0 <=> a < d
  OBVIOUS

\* The bounds of a quotient.
LEMMA QuotientBound ==
  ASSUME NEW a \in Nat, NEW d \in Nat \ {0}
  PROVE  a \div d \in 0 .. a /\ 0 \div d = 0 /\ 0 % d = 0
  OBVIOUS

\* A larger number has no smaller quotient.
LEMMA DivMonotonic ==
  ASSUME NEW a \in Nat, NEW b \in Nat, NEW d \in Nat \ {0}, a <= b
  PROVE  a \div d <= b \div d
  OBVIOUS

\* Where a new interval begins.
LEMMA DivStep ==
  ASSUME NEW a \in Nat \ {0}, NEW d \in Nat \ {0}
  PROVE  (a - 1) \div d = IF a % d = 0 THEN (a \div d) - 1 ELSE a \div d
  OBVIOUS
-----------------------------------------------------------------------------
(* Positions, and the folds over them.                                     *)

\* A set of positions that is not empty has a last one.
LEMMA LastPosition ==
  ASSUME NEW n \in Nat, NEW s \in SUBSET (1 .. n), s # {}
  PROVE  Max(s) \in s /\ \A k \in s : k <= Max(s)
<1> DEFINE T == {m \in Nat : \A u \in SUBSET (1 .. m) : u # {} => \E x \in u : \A y \in u : x >= y}
<1>1. 0 \in T
  <2>1. \A u \in SUBSET (1 .. 0) : u = {}
    OBVIOUS
  <2> QED BY <2>1
<1>2. ASSUME NEW m \in Nat, m \in T PROVE m + 1 \in T
  <2> SUFFICES ASSUME NEW u \in SUBSET (1 .. m + 1), u # {}
               PROVE  \E x \in u : \A y \in u : x >= y
    OBVIOUS
  <2>1. CASE m + 1 \in u
    BY <2>1
  <2>2. CASE m + 1 \notin u
    <3>1. u \in SUBSET (1 .. m)
      BY <2>2
    <3> QED BY <1>2, <3>1
  <2> QED BY <2>1, <2>2
<1> HIDE DEF T
<1>3. Nat \subseteq T
  BY <1>1, <1>2, Induction
<1>4. \E x \in s : \A y \in s : x >= y
  BY <1>3 DEF T
<1> QED BY <1>4 DEF Max

\* A set of numbers that is not empty has a first one.
LEMMA FirstPosition ==
  ASSUME NEW s \in SUBSET Nat, s # {}
  PROVE  Min(s) \in s /\ \A k \in s : Min(s) <= k
<1> DEFINE R == OpToRel(<, Nat)
<1>1. PICK x \in s : \A y \in s : ~(<<y, x>> \in R)
  <2>1. IsWellFoundedOn(R, Nat)
    BY NatLessThanWellFounded
  <2> HIDE DEF R
  <2> QED BY <2>1, WFMin
<1>2. ASSUME NEW y \in s PROVE x <= y
  <2>1. x \in Nat /\ y \in Nat /\ ~(<<y, x>> \in R)
    BY <1>1
  <2>2. ~(y < x)
    BY <2>1 DEF OpToRel
  <2>3. x \in Nat /\ y \in Nat
    BY <2>1
  <2> HIDE DEF R
  <2> QED BY <2>2, <2>3
<1> HIDE DEF R
<1> QED BY <1>1, <1>2 DEF Min

\* The greatest of some numbers up to n, if n is one of them.
LEMMA LastIsTop ==
  ASSUME NEW n \in Nat, NEW s \in SUBSET (1 .. n), n \in s
  PROVE  Max(s) = n
<1>1. Max(s) \in s /\ n <= Max(s)
  BY LastPosition
<1>2. Max(s) \in 1 .. n
  BY <1>1
<1> QED BY <1>1, <1>2

\* The position of a prefix that the folds choose.
LEMMA LastOfPrefix ==
  ASSUME NEW k \in Nat \ {0}
  PROVE  Max(1 .. k) = k /\ (1 .. k) \ {k} = 1 .. k - 1 /\ 1 .. k # {}
<1>1. 1 .. k # {} /\ (1 .. k) \ {k} = 1 .. k - 1
  OBVIOUS
<1>2. Max(1 .. k) \in 1 .. k /\ \A j \in 1 .. k : j <= Max(1 .. k)
  BY <1>1, LastPosition
<1> QED BY <1>1, <1>2

\* f is a fold over the positions of each set s, from the last one down: G makes
\* the next result of the last one and a position.
FoldsWith(f, n, T, b, G) ==
  /\ f \in [SUBSET (1 .. n) -> T]
  /\ \A s \in SUBSET (1 .. n) : f[s] = IF s = {} THEN b ELSE G[<<f[s \ {Max(s)}], Max(s)>>]

\* This recursion has a solution.
LEMMA FoldExists ==
  ASSUME NEW n \in Nat, NEW T, NEW b \in T, NEW G \in [T \X (1 .. n) -> T]
  PROVE  \E f : FoldsWith(f, n, T, b, G)
<1> USE DEF FoldsWith
<1> DEFINE Solves(f, m) == FoldsWith(f, m, T, b, G)
           U == {m \in Nat : \E f : Solves(f, m)}
<1>1. 0 \in U
  <2>1. Solves([s \in {{}} |-> b], 0)
    OBVIOUS
  <2> QED BY <2>1
<1>2. ASSUME NEW m \in 0 .. n - 1, m \in U PROVE m + 1 \in U
  <2>1. PICK f : Solves(f, m)
    BY <1>2
  <2> DEFINE g == [s \in SUBSET (1 .. m + 1) |->
                     IF m + 1 \in s THEN G[<<f[s \ {m + 1}], m + 1>>] ELSE f[s]]
  <2>2. \A s \in SUBSET (1 .. m + 1) : m + 1 \notin s => s \in SUBSET (1 .. m)
    OBVIOUS
  <2>3. \A s \in SUBSET (1 .. m + 1) : s \ {m + 1} \in SUBSET (1 .. m)
    OBVIOUS
  <2>4. g \in [SUBSET (1 .. m + 1) -> T]
    <3>1. ASSUME NEW s \in SUBSET (1 .. m + 1)
          PROVE  (IF m + 1 \in s THEN G[<<f[s \ {m + 1}], m + 1>>] ELSE f[s]) \in T
      BY <2>1, <2>2, <2>3
    <3> QED BY <3>1
  <2>5. ASSUME NEW s \in SUBSET (1 .. m + 1)
        PROVE  g[s] = IF s = {} THEN b ELSE G[<<g[s \ {Max(s)}], Max(s)>>]
    <3>1. CASE m + 1 \in s
      <4>1. Max(s) = m + 1
        <5>1. m + 1 \in Nat
          OBVIOUS
        <5> QED BY <3>1, <5>1, LastIsTop
      <4>2. g[s \ {m + 1}] = f[s \ {m + 1}]
        BY <2>3
      <4> QED BY <3>1, <4>1, <4>2
    <3>2. CASE m + 1 \notin s
      <4>1. s \in SUBSET (1 .. m) /\ g[s] = f[s]
        BY <3>2, <2>2
      <4>2. g[s \ {Max(s)}] = f[s \ {Max(s)}]
        <5>1. /\ s \ {Max(s)} \in SUBSET (1 .. m)
              /\ s \ {Max(s)} \in SUBSET (1 .. m + 1)
              /\ m + 1 \notin s \ {Max(s)}
          BY <3>2, <4>1
        <5> QED BY <5>1
      <4> QED BY <2>1, <4>1, <4>2
    <3> QED BY <3>1, <3>2
  <2> HIDE DEF g
  <2>6. Solves(g, m + 1)
    BY <2>4, <2>5
  <2>7. m + 1 \in Nat
    OBVIOUS
  <2> HIDE DEF Solves
  <2> QED BY <2>6, <2>7
<1> HIDE DEF U
<1>3. 0 .. n \subseteq U
  BY <1>1, <1>2, InductionTo
<1>4. n \in U
  BY <1>3
<1> QED BY <1>4 DEF U
-----------------------------------------------------------------------------
\* A function on the first m positions is a sequence.
LEMMA FunctionIsSeq ==
  ASSUME NEW S, NEW m \in Nat, NEW f \in [1 .. m -> S]
  PROVE  f \in Seq(S) /\ Len(f) = m
OBVIOUS

\* A sequence that something was appended to is not empty.
LEMMA AppendNotEmpty ==
  ASSUME NEW S, NEW s \in Seq(S), NEW e \in S
  PROVE  Append(s, e) # <<>>
<1>1. Len(Append(s, e)) = Len(s) + 1 /\ Len(s) \in Nat
  OBVIOUS
<1> QED BY <1>1, EmptySeq

\* One element of a sequence is replaced.
LEMMA Replaced ==
  ASSUME NEW S, NEW s \in Seq(S), NEW n \in Nat, Len(s) = n, NEW i \in 1 .. n, NEW e \in S
  PROVE  LET t == [s EXCEPT ![i] = e]
         IN  t \in Seq(S) /\ Len(t) = n /\ t[i] = e /\ \A k \in 1 .. n : k # i => t[k] = s[k]
OBVIOUS

\* What SequencesExt!Front does to a nonempty sequence.
LEMMA FrontProperties ==
  ASSUME NEW S, NEW s \in Seq(S), s # <<>>
  PROVE  /\ Len(s) \in Nat \ {0}
         /\ Front(s) \in Seq(S)
         /\ Len(Front(s)) = Len(s) - 1
         /\ \A k \in 1 .. Len(s) - 1 : Front(s)[k] = s[k]
<1>1. Len(s) \in Nat \ {0} /\ \A k \in 1 .. Len(s) : s[k] \in S
  OBVIOUS
<1>2. \A k \in 1 .. Len(s) - 1 : s[k] \in S
  BY <1>1
<1>3. /\ Front(s) \in Seq(S)
      /\ Len(Front(s)) = IF 1 <= Len(s) - 1 THEN (Len(s) - 1) - 1 + 1 ELSE 0
      /\ \A k \in 1 .. (Len(s) - 1) - 1 + 1 : Front(s)[k] = s[1 + k - 1]
  BY <1>1, <1>2, SubSeqProperties DEF Front
<1>4. \A k \in 1 .. Len(s) - 1 : Front(s)[k] = s[k]
  BY <1>1, <1>3
<1>5. Len(Front(s)) = Len(s) - 1
  <2> DEFINE n == Len(s)
             m == Len(Front(s))
  <2>1. n \in Nat \ {0} /\ m = IF 1 <= n - 1 THEN (n - 1) - 1 + 1 ELSE 0
    BY <1>1, <1>3
  <2> HIDE DEF n, m
  <2>2. m = n - 1
    BY <2>1
  <2> QED BY <2>2 DEF n, m
<1>6. Front(s) \in Seq(S)
  BY <1>3
<1> QED BY <1>1, <1>4, <1>5, <1>6
-----------------------------------------------------------------------------
(* FlattenSeq, by its prefixes.                                            *)

\* f has what the first k sequences of q give one behind the other, for each k.
Flattens(f, q, S) ==
  /\ f \in [0 .. Len(q) -> Seq(S)]
  /\ f[0] = <<>>
  /\ \A k \in 1 .. Len(q) : f[k] = f[k - 1] \o q[k]

\* There is such an f.
LEMMA FlattensExists ==
  ASSUME NEW S, NEW q \in Seq(Seq(S))
  PROVE  \E f : Flattens(f, q, S)
<1> DEFINE n == Len(q)
           Solves(f, m) == /\ f \in [0 .. m -> Seq(S)]
                           /\ f[0] = <<>>
                           /\ \A k \in 1 .. m : f[k] = f[k - 1] \o q[k]
           U == {m \in Nat : \E f : Solves(f, m)}
<1>1. n \in Nat /\ \A k \in 1 .. n : q[k] \in Seq(S)
  OBVIOUS
<1> HIDE DEF n
<1>2. 0 \in U
  <2>1. <<>> \in Seq(S)
    BY EmptySeq
  <2>2. Solves([k \in 0 .. 0 |-> <<>>], 0)
    BY <2>1
  <2> QED BY <2>2
<1>3. ASSUME NEW m \in 0 .. n - 1, m \in U PROVE m + 1 \in U
  <2>1. PICK f : Solves(f, m)
    BY <1>3
  <2> DEFINE g == [k \in 0 .. m + 1 |-> IF k = m + 1 THEN f[m] \o q[m + 1] ELSE f[k]]
  <2>2. f[m] \in Seq(S) /\ q[m + 1] \in Seq(S)
    BY <1>1, <2>1
  <2>3. f[m] \o q[m + 1] \in Seq(S)
    BY <2>2, ConcatProperties
  <2> DEFINE e == f[m] \o q[m + 1]
  <2>4. g = [k \in 0 .. m + 1 |-> IF k = m + 1 THEN e ELSE f[k]]
    OBVIOUS
  <2> HIDE DEF e, g
  <2>5. g \in [0 .. m + 1 -> Seq(S)] /\ g[0] = <<>>
    <3>1. e \in Seq(S)
      BY <2>3 DEF e
    <3> QED BY <2>1, <2>4, <3>1
  <2>6. ASSUME NEW k \in 1 .. m + 1 PROVE g[k] = g[k - 1] \o q[k]
    <3>1. CASE k = m + 1
      <4>1. g[k] = e /\ g[k - 1] = f[m]
        BY <2>4, <3>1
      <4> QED BY <3>1, <4>1 DEF e
    <3>2. CASE k # m + 1
      <4>1. k \in 1 .. m /\ k - 1 \in 0 .. m + 1 /\ k - 1 # m + 1
        BY <3>2
      <4>2. g[k] = f[k] /\ g[k - 1] = f[k - 1]
        BY <2>4, <4>1
      <4> QED BY <2>1, <4>1, <4>2
    <3> QED BY <3>1, <3>2
  <2>7. Solves(g, m + 1)
    BY <2>5, <2>6, Zenon
  <2>8. m + 1 \in Nat
    OBVIOUS
  <2> HIDE DEF Solves
  <2> QED BY <2>7, <2>8
<1> HIDE DEF U
<1>4. 0 .. n \subseteq U
  BY <1>1, <1>2, <1>3, InductionTo
<1>5. n \in U
  BY <1>1, <1>4
<1> QED BY <1>5 DEF U, Flattens, n

\* The last value of f is what FlattenSeq gives.
LEMMA Flattened ==
  ASSUME NEW S, NEW q \in Seq(Seq(S))
  PROVE  \E f : Flattens(f, q, S) /\ FlattenSeq(q) = f[Len(q)]
<1> DEFINE n == Len(q)
<1>1. n \in Nat /\ \A k \in 1 .. n : q[k] \in Seq(S)
  OBVIOUS
<1>2. CASE n = 0
  <2>1. q = <<>>
    BY <1>2, EmptySeq
  <2>2. PICK f : Flattens(f, q, S)
    BY FlattensExists
  <2>3. FlattenSeq(q) = q
    BY <1>2 DEF FlattenSeq
  <2>4. f[n] = <<>>
    BY <1>2, <2>2 DEF Flattens
  <2> QED BY <2>1, <2>2, <2>3, <2>4
<1>3. CASE n # 0
  <2> DEFINE Rec(f) == f = [i \in 1 .. n |-> IF i = 1 THEN q[i] ELSE f[i - 1] \o q[i]]
             c == CHOOSE f : Rec(f)
  <2>1. PICK f : Flattens(f, q, S)
    BY FlattensExists
  <2>2. FlattenSeq(q) = c[n]
    BY <1>3 DEF FlattenSeq
  <2>3. Rec([i \in 1 .. n |-> f[i]])
    <3> DEFINE h == [i \in 1 .. n |-> f[i]]
    <3>1. ASSUME NEW i \in 1 .. n PROVE h[i] = IF i = 1 THEN q[i] ELSE h[i - 1] \o q[i]
      <4>1. f[i] = f[i - 1] \o q[i]
        BY <2>1 DEF Flattens
      <4>2. CASE i = 1
        <5>1. f[i - 1] = <<>>
          BY <2>1, <4>2 DEF Flattens
        <5>2. <<>> \o q[i] = q[i]
          BY <1>1, ConcatEmptySeq
        <5> QED BY <4>1, <4>2, <5>1, <5>2
      <4>3. CASE i # 1
        <5>1. i - 1 \in 1 .. n
          BY <1>1, <4>3
        <5> QED BY <4>1, <4>3, <5>1
      <4> QED BY <4>2, <4>3
    <3> QED BY <3>1
  <2> HIDE DEF Rec
  <2>4. Rec(c)
    BY <2>3
  <2> HIDE DEF c
  <2> DEFINE U == {k \in Nat : k >= 1 => c[k] = f[k]}
  <2>5. 0 \in U
    OBVIOUS
  <2>6. ASSUME NEW k \in 0 .. n - 1, k \in U PROVE k + 1 \in U
    <3>1. k + 1 \in 1 .. n /\ (k + 1) - 1 = k /\ k + 1 \in Nat
      BY <1>1
    <3>2. c[k + 1] = IF k + 1 = 1 THEN q[k + 1] ELSE c[k] \o q[k + 1]
      BY <2>4, <3>1 DEF Rec
    <3>3. f[k + 1] = f[k] \o q[k + 1]
      BY <2>1, <3>1 DEF Flattens
    <3>4. CASE k = 0
      <4>1. f[k] = <<>> /\ q[k + 1] \in Seq(S)
        BY <1>1, <2>1, <3>1, <3>4 DEF Flattens
      <4>2. <<>> \o q[k + 1] = q[k + 1]
        BY <4>1, ConcatEmptySeq
      <4>3. c[k + 1] = f[k + 1]
        BY <3>2, <3>3, <3>4, <4>1, <4>2
      <4> QED BY <3>1, <4>3
    <3>5. CASE k # 0
      <4>1. c[k] = f[k]
        BY <2>6, <3>5
      <4>2. k + 1 # 1
        BY <3>5
      <4>3. c[k + 1] = f[k + 1]
        BY <3>2, <3>3, <4>1, <4>2
      <4> QED BY <3>1, <4>3
    <3> QED BY <3>4, <3>5
  <2> HIDE DEF U
  <2>7. 0 .. n \subseteq U
    BY <1>1, <2>5, <2>6, InductionTo
  <2>8. n \in U
    BY <1>1, <2>7
  <2>9. c[n] = f[n]
    BY <1>1, <1>3, <2>8 DEF U
  <2> QED BY <2>1, <2>2, <2>9
<1> QED BY <1>2, <1>3

\* The elements of two sequences, one behind the other.
LEMMA ConcatMembers ==
  ASSUME NEW S, NEW s \in Seq(S), NEW t \in Seq(S)
  PROVE  ToSet(s \o t) = ToSet(s) \cup ToSet(t)
<1> DEFINE u == s \o t
           m == Len(s)
           n == Len(t)
<1>1. /\ m \in Nat /\ n \in Nat
      /\ DOMAIN s = 1 .. m /\ DOMAIN t = 1 .. n
  OBVIOUS
<1>2. /\ u \in Seq(S)
      /\ DOMAIN u = 1 .. m + n
      /\ \A i \in 1 .. m + n : u[i] = IF i <= m THEN s[i] ELSE t[i - m]
  <2>1. /\ u \in Seq(S) /\ Len(u) = m + n
        /\ \A i \in 1 .. m + n : u[i] = IF i <= m THEN s[i] ELSE t[i - m]
    BY ConcatProperties
  <2>2. DOMAIN u = 1 .. Len(u)
    BY <2>1
  <2> QED BY <2>1, <2>2
<1> HIDE DEF u, m, n
<1>3. ASSUME NEW x \in ToSet(u) PROVE x \in ToSet(s) \cup ToSet(t)
  <2>1. PICK i \in 1 .. m + n : x = u[i]
    BY <1>2 DEF ToSet
  <2>2. CASE i <= m
    BY <1>1, <1>2, <2>1, <2>2 DEF ToSet
  <2>3. CASE ~(i <= m)
    <3>1. i - m \in 1 .. n /\ x = t[i - m]
      BY <1>1, <1>2, <2>1, <2>3
    <3> QED BY <1>1, <3>1 DEF ToSet
  <2> QED BY <2>2, <2>3
<1>4. ASSUME NEW x \in ToSet(s) PROVE x \in ToSet(u)
  <2>1. PICK i \in 1 .. m : x = s[i]
    BY <1>1 DEF ToSet
  <2>2. i \in 1 .. m + n /\ u[i] = x
    BY <1>1, <1>2, <2>1
  <2> QED BY <1>2, <2>2 DEF ToSet
<1>5. ASSUME NEW x \in ToSet(t) PROVE x \in ToSet(u)
  <2>1. PICK i \in 1 .. n : x = t[i]
    BY <1>1 DEF ToSet
  <2>2. i + m \in 1 .. m + n /\ ~(i + m <= m) /\ (i + m) - m = i
    BY <1>1, <2>1
  <2>3. u[i + m] = x
    BY <1>2, <2>1, <2>2
  <2> QED BY <1>2, <2>2, <2>3 DEF ToSet
<1> QED BY <1>3, <1>4, <1>5 DEF u

\* The elements of a sequence, and one more.
LEMMA AppendMembers ==
  ASSUME NEW S, NEW s \in Seq(S), NEW x \in S
  PROVE  ToSet(Append(s, x)) = ToSet(s) \cup {x}
<1>1. Append(s, x) = s \o <<x>> /\ <<x>> \in Seq(S)
  OBVIOUS
<1>2. ToSet(<<x>>) = {x}
  BY DEF ToSet
<1>3. ToSet(s \o <<x>>) = ToSet(s) \cup ToSet(<<x>>)
  <2> DEFINE e == <<x>>
  <2>1. e \in Seq(S)
    BY <1>1
  <2> HIDE DEF e
  <2>2. ToSet(s \o e) = ToSet(s) \cup ToSet(e)
    BY <2>1, ConcatMembers
  <2> QED BY <2>2 DEF e
<1> QED BY <1>1, <1>2, <1>3

\* What FlattenSeq gives is a sequence, of the elements of all of them.
LEMMA FlattenMembers ==
  ASSUME NEW S, NEW q \in Seq(Seq(S))
  PROVE  /\ FlattenSeq(q) \in Seq(S)
         /\ ToSet(FlattenSeq(q)) = UNION {ToSet(q[i]) : i \in DOMAIN q}
<1> DEFINE n == Len(q)
           All(k) == UNION {ToSet(q[i]) : i \in 1 .. k}
<1>1. n \in Nat /\ DOMAIN q = 1 .. n /\ \A k \in 1 .. n : q[k] \in Seq(S)
  OBVIOUS
<1>2. PICK f : Flattens(f, q, S) /\ FlattenSeq(q) = f[n]
  BY Flattened
<1>3. /\ \A k \in 0 .. n : f[k] \in Seq(S)
      /\ f[0] = <<>>
      /\ \A k \in 1 .. n : f[k] = f[k - 1] \o q[k]
  BY <1>2 DEF Flattens
<1> HIDE DEF n
<1> DEFINE U == {k \in Nat : ToSet(f[k]) = All(k)}
<1>4. 0 \in U
  BY <1>3 DEF ToSet
<1>5. ASSUME NEW k \in 0 .. n - 1, k \in U PROVE k + 1 \in U
  <2>1. k + 1 \in 1 .. n /\ (k + 1) - 1 = k /\ k \in 0 .. n /\ k + 1 \in Nat
    BY <1>1
  <2>2. f[k + 1] = f[k] \o q[k + 1] /\ f[k] \in Seq(S) /\ q[k + 1] \in Seq(S)
    BY <1>1, <1>3, <2>1
  <2>3. ToSet(f[k + 1]) = ToSet(f[k]) \cup ToSet(q[k + 1])
    BY <2>2, ConcatMembers
  <2>4. 1 .. k + 1 = (1 .. k) \cup {k + 1}
    BY <2>1
  <2>5. All(k + 1) = All(k) \cup ToSet(q[k + 1])
    BY <2>4, Zenon
  <2> QED BY <1>5, <2>1, <2>3, <2>5
<1> HIDE DEF U
<1>6. 0 .. n \subseteq U
  BY <1>1, <1>4, <1>5, InductionTo
<1>7. n \in U /\ n \in 0 .. n
  BY <1>1, <1>6
<1>8. ToSet(f[n]) = All(n)
  BY <1>7 DEF U
<1> QED BY <1>1, <1>2, <1>3, <1>7, <1>8

-----------------------------------------------------------------------------
(* Folds and FlattenSeq, step by step, and recursion over positions.       *)

\* The sequences of q stand one behind the other in z: the k-th ends at L[k].
Lays(L, q, z) ==
  /\ L \in [0 .. Len(q) -> Nat] /\ L[0] = 0 /\ L[Len(q)] = Len(z)
  /\ \A k \in 1 .. Len(q) : /\ L[k] = L[k - 1] + Len(q[k])
                            /\ \A i \in 1 .. Len(q[k]) : z[L[k - 1] + i] = q[k][i]

\* Where FlattenSeq puts what.
LEMMA FlattenLays ==
  ASSUME NEW S, NEW q \in Seq(Seq(S))
  PROVE  \E L : Lays(L, q, FlattenSeq(q))
<1> DEFINE n == Len(q)
           z == FlattenSeq(q)
<1>1. n \in Nat /\ \A k \in 1 .. n : q[k] \in Seq(S) /\ Len(q[k]) \in Nat
  OBVIOUS
<1>2. PICK f : Flattens(f, q, S) /\ z = f[n]
  BY Flattened
<1>3. /\ \A k \in 0 .. n : f[k] \in Seq(S)
      /\ f[0] = <<>>
      /\ \A k \in 1 .. n : f[k] = f[k - 1] \o q[k]
  BY <1>2 DEF Flattens
<1>4. /\ \A k \in 0 .. n : f[k] \in Seq(S) /\ Len(f[k]) \in Nat
      /\ f[0] = <<>>
      /\ \A k \in 1 .. n : f[k] = f[k - 1] \o q[k]
  <2>1. \A s \in Seq(S) : Len(s) \in Nat
    OBVIOUS
  <2> HIDE DEF n
  <2> QED BY <1>3, <2>1
<1> DEFINE L == [k \in 0 .. n |-> Len(f[k])]
<1> HIDE DEF n, z
<1>5. ASSUME NEW k \in 1 .. n
      PROVE  /\ L[k] = L[k - 1] + Len(q[k])
             /\ \A i \in 1 .. L[k] : f[k][i] = IF i <= L[k - 1] THEN f[k - 1][i] ELSE q[k][i - L[k - 1]]
  <2>1. k - 1 \in 0 .. n /\ k \in 0 .. n
    BY <1>1
  <2> DEFINE s == f[k - 1]
             t == q[k]
  <2>2. s \in Seq(S) /\ t \in Seq(S) /\ f[k] = s \o t /\ L[k] = Len(f[k]) /\ L[k - 1] = Len(s)
    BY <1>1, <1>4, <2>1
  <2> HIDE DEF L, s, t
  <2>3. /\ Len(s \o t) = Len(s) + Len(t)
        /\ \A i \in 1 .. Len(s) + Len(t) : (s \o t)[i] = IF i <= Len(s) THEN s[i] ELSE t[i - Len(s)]
    BY <2>2, ConcatProperties
  <2>4. Len(f[k]) = Len(s) + Len(t)
    BY <2>2, <2>3
  <2>5. \A i \in 1 .. Len(s) + Len(t) : f[k][i] = IF i <= Len(s) THEN s[i] ELSE t[i - Len(s)]
    BY <2>2, <2>3
  <2>6. \A i \in 1 .. L[k] : f[k][i] = IF i <= L[k - 1] THEN s[i] ELSE t[i - L[k - 1]]
    BY <2>2, <2>4, <2>5
  <2> QED BY <2>2, <2>4, <2>6 DEF s, t
<1>6. L \in [0 .. n -> Nat] /\ L[0] = 0 /\ L[n] = Len(z)
  <2>1. L \in [0 .. n -> Nat]
    BY <1>4
  <2>2. 0 \in 0 .. n /\ n \in 0 .. n /\ Len(<<>>) = 0
    BY <1>1
  <2> QED BY <1>2, <1>4, <2>1, <2>2
<1> HIDE DEF L
<1>7. ASSUME NEW k \in 1 .. n, NEW i \in 1 .. L[k] PROVE z[i] = f[k][i]
  <2> DEFINE U == {d \in Nat : k + d <= n => L[k] <= L[k + d] /\ f[k + d][i] = f[k][i]}
  <2>1. 0 \in U
    <3>1. k + 0 = k /\ k \in 0 .. n
      BY <1>1
    <3>2. L[k] \in Nat
      BY <1>6, <3>1
    <3> QED BY <3>1, <3>2
  <2>2. ASSUME NEW d \in Nat, d \in U PROVE d + 1 \in U
    <3> SUFFICES ASSUME k + (d + 1) <= n
                 PROVE  L[k] <= L[k + (d + 1)] /\ f[k + (d + 1)][i] = f[k][i]
      OBVIOUS
    <3> DEFINE a == k + d
               b == k + (d + 1)
    <3>1. b \in 1 .. n /\ b - 1 = a /\ a \in 0 .. n /\ a <= n /\ b \in 0 .. n /\ k \in 0 .. n
      BY <1>1
    <3>2. L[k] <= L[a] /\ f[a][i] = f[k][i]
      BY <2>2, <3>1
    <3> HIDE DEF a, b
    <3>3. L[b] = L[a] + Len(q[b]) /\ Len(q[b]) \in Nat /\ L[a] \in Nat /\ L[k] \in Nat
      BY <1>1, <1>5, <1>6, <3>1
    <3>4. L[k] <= L[b] /\ i \in 1 .. L[b] /\ i <= L[a]
      BY <3>2, <3>3
    <3>5. f[b][i] = f[a][i]
      BY <1>5, <3>1, <3>4
    <3> QED BY <3>2, <3>4, <3>5 DEF b
  <2> HIDE DEF U
  <2>3. Nat \subseteq U
    BY <2>1, <2>2, Induction
  <2>4. n - k \in Nat /\ k + (n - k) = n /\ n <= n
    BY <1>1
  <2>5. f[n][i] = f[k][i]
    BY <2>3, <2>4 DEF U
  <2> QED BY <1>2, <2>5
<1>8. ASSUME NEW k \in 1 .. n, NEW i \in 1 .. Len(q[k]) PROVE z[L[k - 1] + i] = q[k][i]
  <2> DEFINE a == L[k - 1]
             m == Len(q[k])
  <2>1. a \in Nat /\ m \in Nat /\ L[k] = a + m
    <3>1. k - 1 \in 0 .. n
      BY <1>1
    <3> QED BY <1>1, <1>5, <1>6, <3>1
  <2>2. i \in 1 .. m
    OBVIOUS
  <2> HIDE DEF a, m
  <2>3. a + i \in 1 .. L[k] /\ ~(a + i <= a) /\ (a + i) - a = i
    BY <2>1, <2>2
  <2>4. z[a + i] = f[k][a + i]
    BY <1>7, <2>3
  <2>5. f[k][a + i] = IF a + i <= a THEN f[k - 1][a + i] ELSE q[k][(a + i) - a]
    BY <1>5, <2>3 DEF a
  <2> QED BY <2>3, <2>4, <2>5 DEF a
<1> QED BY <1>5, <1>6, <1>8 DEF Lays, n, z

\* What ends where comes before what ends behind it, and there is nothing else.
Ordered(L, q, z) ==
  /\ \A k \in 0 .. Len(q) : \A j \in 0 .. k : L[j] <= L[k]
  /\ \A x \in 1 .. Len(z) : \E k \in 1 .. Len(q) : \E i \in 1 .. Len(q[k]) : x = L[k - 1] + i

\* What stands behind the k-th, and that there is nothing else.
LEMMA LaysOrder ==
  ASSUME NEW S, NEW q \in Seq(Seq(S)), NEW L, NEW z, Lays(L, q, z)
  PROVE  Ordered(L, q, z)
<1> DEFINE n == Len(q)
<1>1. n \in Nat /\ \A k \in 1 .. n : Len(q[k]) \in Nat
  OBVIOUS
<1>2. /\ L \in [0 .. n -> Nat] /\ L[0] = 0 /\ L[n] = Len(z)
      /\ \A k \in 1 .. n : L[k] = L[k - 1] + Len(q[k])
  BY DEF Lays
<1> HIDE DEF n
<1> DEFINE U == {k \in 0 .. n : /\ \A j \in 0 .. k : L[j] <= L[k]
                                /\ \A x \in 1 .. L[k] : \E h \in 1 .. n : \E i \in 1 .. Len(q[h]) : x = L[h - 1] + i}
<1>3. 0 \in U
  <2>1. \A j \in 0 .. 0 : j = 0
    OBVIOUS
  <2> QED BY <1>1, <1>2, <2>1
<1>4. ASSUME NEW k \in 0 .. n - 1, k \in U PROVE k + 1 \in U
  <2>1. k + 1 \in 1 .. n /\ (k + 1) - 1 = k /\ k \in 0 .. n /\ k + 1 \in 0 .. n
    BY <1>1
  <2> DEFINE m == Len(q[k + 1])
             a == L[k]
  <2>2. L[k + 1] = a + m /\ m \in Nat /\ a \in Nat
    BY <1>1, <1>2, <2>1
  <2> HIDE DEF m, a
  <2>3. ASSUME NEW j \in 0 .. k + 1 PROVE L[j] <= L[k + 1]
    <3>1. CASE j = k + 1
      BY <2>2, <3>1
    <3>2. CASE j # k + 1
      <4>1. j \in 0 .. k /\ j \in 0 .. n
        BY <1>1, <2>1, <3>2
      <4>2. L[j] <= a /\ L[j] \in Nat
        BY <1>2, <1>4, <4>1 DEF a
      <4> QED BY <2>2, <4>2
    <3> QED BY <3>1, <3>2
  <2>4. ASSUME NEW x \in 1 .. L[k + 1] PROVE \E h \in 1 .. n : \E i \in 1 .. Len(q[h]) : x = L[h - 1] + i
    <3>1. CASE x <= a
      <4>1. x \in 1 .. a
        BY <2>2, <3>1
      <4> QED BY <1>4, <4>1 DEF a
    <3>2. CASE ~(x <= a)
      <4>1. x - a \in 1 .. m /\ x = a + (x - a)
        BY <2>2, <3>2
      <4>2. x = L[(k + 1) - 1] + (x - a)
        BY <2>1, <4>1 DEF a
      <4> QED BY <2>1, <4>1, <4>2 DEF m
    <3> QED BY <3>1, <3>2
  <2> QED BY <2>1, <2>3, <2>4
<1> HIDE DEF U
<1>5. 0 .. n \subseteq U
  BY <1>1, <1>3, <1>4, InductionTo
<1>6. n \in 0 .. n
  BY <1>1
<1>7. \A x \in 1 .. Len(z) : \E k \in 1 .. n : \E i \in 1 .. Len(q[k]) : x = L[k - 1] + i
  BY <1>2, <1>5, <1>6 DEF U
<1>8. \A k \in 0 .. n : \A j \in 0 .. k : L[j] <= L[k]
  BY <1>5 DEF U
<1> QED BY <1>7, <1>8 DEF Ordered, n

\* Without the last element an extended sequence is what it was.
LEMMA FrontOfAppend ==
  ASSUME NEW S, NEW s \in Seq(S), NEW e \in S
  PROVE  Append(s, e) \in Seq(S) /\ Append(s, e) # <<>> /\ Front(Append(s, e)) = s
<1> DEFINE t == Append(s, e)
<1>1. Len(t) = Len(s) + 1 /\ \A h \in 1 .. Len(s) : t[h] = s[h]
  OBVIOUS
<1>2. t \in Seq(S) /\ t # <<>>
  BY AppendNotEmpty
<1> HIDE DEF t
<1>3. /\ Front(t) \in Seq(S) /\ Len(Front(t)) = Len(t) - 1
      /\ \A h \in 1 .. Len(t) - 1 : Front(t)[h] = t[h]
  BY <1>2, FrontProperties
<1>4. Len(s) \in Nat /\ Len(t) - 1 = Len(s)
  BY <1>1
<1>5. Len(Front(t)) = Len(s) /\ \A h \in 1 .. Len(s) : Front(t)[h] = s[h]
  BY <1>1, <1>3, <1>4
<1>6. Front(t) = s
  BY <1>3, <1>5, SeqEqual
<1> QED BY <1>2, <1>6 DEF t

\* A sequence with one more element.
LEMMA OneMore ==
  ASSUME NEW S, NEW s \in Seq(S), NEW e \in S
  PROVE  /\ Append(s, e) \in Seq(S) /\ Append(s, e) = s \o <<e>>
         /\ Len(Append(s, e)) = Len(s) + 1
         /\ \A i \in 1 .. Len(s) + 1 : Append(s, e)[i] = IF i <= Len(s) THEN s[i] ELSE e
OBVIOUS

\* y is s, and e.
Lengthens(y, s, e) ==
  Len(y) = Len(s) + 1 /\ \A i \in 1 .. Len(s) + 1 : y[i] = IF i <= Len(s) THEN s[i] ELSE e

\* Append() makes a sequence longer like this.
LEMMA Lengthened ==
  ASSUME NEW S, NEW s \in Seq(S), NEW e \in S
  PROVE  Lengthens(Append(s, e), s, e)
  BY OneMore DEF Lengthens

\* it has the results of a fold, where they are of T: G makes the next result of
\* the last one and a position.
Iterates(it, n, T, b, G) ==
  /\ n \in Nat /\ b \in T /\ G \in [T \X (1 .. n) -> T]
  /\ it[{}] = b
  /\ \A s \in SUBSET (1 .. n) :
       s # {} /\ it[s \ {Max(s)}] \in T => it[s] = G[<<it[s \ {Max(s)}], Max(s)>>]

\* z has the values of a fold, one position after the other.
Chain(z, n, T, b, G) ==
  /\ z \in [0 .. n -> T] /\ z[0] = b
  /\ \A h \in 1 .. n : z[h] = G[<<z[h - 1], h>>]

\* The values of a fold, one position after the other.
LEMMA FoldChain ==
  ASSUME NEW it, NEW n, NEW T, NEW b, NEW G, Iterates(it, n, T, b, G)
  PROVE  \E z : Chain(z, n, T, b, G) /\ z[n] = it[1 .. n]
<1>1. n \in Nat /\ b \in T /\ G \in [T \X (1 .. n) -> T]
  BY DEF Iterates
<1>2. 1 .. 0 = {} /\ 0 \in 0 .. n
  BY <1>1
<1>3. ASSUME NEW h \in 1 .. n, it[1 .. h - 1] \in T
      PROVE  it[1 .. h] = G[<<it[1 .. h - 1], h>>] /\ it[1 .. h] \in T
  <2>1. Max(1 .. h) = h /\ (1 .. h) \ {h} = 1 .. h - 1 /\ 1 .. h # {}
    <3>1. h \in Nat \ {0}
      BY <1>1
    <3> QED BY <3>1, LastOfPrefix
  <2>2. 1 .. h \in SUBSET (1 .. n)
    BY <1>1
  <2>3. it[1 .. h] = G[<<it[1 .. h - 1], h>>]
    BY <1>3, <2>1, <2>2 DEF Iterates
  <2>4. <<it[1 .. h - 1], h>> \in T \X (1 .. n)
    BY <1>3
  <2> QED BY <1>1, <2>3, <2>4
<1> DEFINE U == {h \in 0 .. n : it[1 .. h] \in T}
<1>4. 0 \in U
  BY <1>1, <1>2 DEF Iterates
<1>5. ASSUME NEW h \in 0 .. n - 1, h \in U PROVE h + 1 \in U
  <2>1. h + 1 \in 1 .. n /\ (h + 1) - 1 = h /\ h + 1 \in 0 .. n
    BY <1>1
  <2>2. it[1 .. (h + 1) - 1] \in T
    BY <1>5, <2>1
  <2> QED BY <2>1, <2>2, <1>3
<1> HIDE DEF U
<1>6. 0 .. n \subseteq U
  BY <1>1, <1>4, <1>5, InductionTo
<1>7. \A h \in 0 .. n : it[1 .. h] \in T
  BY <1>6 DEF U
<1> DEFINE z == [h \in 0 .. n |-> it[1 .. h]]
<1>8. z \in [0 .. n -> T] /\ z[0] = b /\ z[n] = it[1 .. n]
  BY <1>1, <1>2, <1>7 DEF Iterates
<1>9. ASSUME NEW h \in 1 .. n PROVE z[h] = G[<<z[h - 1], h>>]
  <2>1. h - 1 \in 0 .. n /\ h \in 0 .. n
    BY <1>1
  <2> QED BY <2>1, <1>3, <1>7
<1> HIDE DEF z
<1> QED BY <1>8, <1>9 DEF Chain

\* A run of positions in S that begins at i ends somewhere, and in one place only.
LEMMA RunEnds ==
  ASSUME NEW n \in Nat, NEW i \in 1 .. n + 1, NEW S
  PROVE  /\ \E j \in i .. n + 1 : (j > n \/ j \notin S) /\ \A y \in i .. j - 1 : y \in S
         /\ \A j, l \in i .. n + 1 :
              /\ (j > n \/ j \notin S) /\ \A y \in i .. j - 1 : y \in S
              /\ (l > n \/ l \notin S) /\ \A y \in i .. l - 1 : y \in S
              => j = l
<1> DEFINE E == {j \in i .. n + 1 : j > n \/ j \notin S}
<1>1. E \in SUBSET Nat /\ n + 1 \in E
  OBVIOUS
<1>2. Min(E) \in E /\ \A y \in E : Min(E) <= y
  <2> HIDE DEF E
  <2> QED BY <1>1, FirstPosition
<1> DEFINE j == Min(E)
<1>3. j \in i .. n + 1 /\ (j > n \/ j \notin S)
  BY <1>2
<1>4. \A y \in i .. j - 1 : y \in S
  <2> SUFFICES ASSUME NEW y \in i .. j - 1, y \notin S PROVE FALSE
    OBVIOUS
  <2>1. y \in E
    BY <1>3
  <2>2. j <= y
    BY <1>2, <2>1
  <2>3. j \in Int /\ y \in Int /\ y <= j - 1
    BY <1>3
  <2> HIDE DEF j
  <2> QED BY <2>2, <2>3
<1> HIDE DEF j
<1>5. \E l \in i .. n + 1 : (l > n \/ l \notin S) /\ \A y \in i .. l - 1 : y \in S
  BY <1>3, <1>4
<1>6. \A h, l \in i .. n + 1 :
              /\ (h > n \/ h \notin S) /\ \A y \in i .. h - 1 : y \in S
              /\ (l > n \/ l \notin S) /\ \A y \in i .. l - 1 : y \in S
              => h = l
  <2> SUFFICES ASSUME NEW h \in i .. n + 1, NEW l \in i .. n + 1, 
              (h > n \/ h \notin S) , \A y \in i .. h - 1 : y \in S,
              (l > n \/ l \notin S) , \A y \in i .. l - 1 : y \in S
              PROVE h = l
    OBVIOUS
  <2>1. ~(h < l)
    <3> SUFFICES ASSUME h < l PROVE FALSE
      OBVIOUS
    <3>1. h \in i .. l - 1 /\ ~(h > n)
      OBVIOUS
    <3> QED BY <3>1
  <2>2. ~(l < h)
    <3> SUFFICES ASSUME l < h PROVE FALSE
      OBVIOUS
    <3>1. l \in i .. h - 1 /\ ~(l > n)
      OBVIOUS
    <3> QED BY <3>1
  <2> QED BY <2>1, <2>2
<1> QED BY <1>5, <1>6

\* Induction over the positions of a sequence, from behind its end to the front.
LEMMA InductionDown ==
  ASSUME NEW n \in Nat, NEW U, n + 1 \in U,
         \A i \in 1 .. n : i + 1 .. n + 1 \subseteq U => i \in U
  PROVE  1 .. n + 1 \subseteq U
<1> DEFINE W == {m \in 0 .. n : n + 1 - m .. n + 1 \subseteq U}
<1>1. 0 \in W
  OBVIOUS
<1>2. ASSUME NEW m \in 0 .. n - 1, m \in W PROVE m + 1 \in W
  <2>1. n + 1 - m = n - m + 1 /\ n - m \in 1 .. n /\ n + 1 - (m + 1) = n - m
    OBVIOUS
  <2>2. n - m \in U
    BY <1>2, <2>1
  <2>3. \A x \in n - m .. n + 1 : x = n - m \/ x \in n + 1 - m .. n + 1
    BY <2>1
  <2> QED BY <1>2, <2>1, <2>2, <2>3
<1> HIDE DEF W
<1>3. 0 .. n \subseteq W
  BY <1>1, <1>2, InductionTo
<1>4. n \in W
  BY <1>3
<1>5. n + 1 - n = 1
  OBVIOUS
<1> QED BY <1>4, <1>5 DEF W

\* N goes from each position to one behind it.
Onward(N, n) == N \in [1 .. n -> 1 .. n + 1] /\ \A i \in 1 .. n : N[i] > i

\* f is defined by recursion over positions: G makes its value for one from the
\* position and the value for the next.
RecursWith(f, n, T, b, N, G) ==
  /\ f \in [1 .. n + 1 -> T] /\ f[n + 1] = b
  /\ \A i \in 1 .. n : f[i] = G[<<i, f[N[i]]>>]

\* This recursion has a solution.
LEMMA RecursionExists ==
  ASSUME NEW n \in Nat, NEW T, NEW b \in T, NEW N, Onward(N, n),
         NEW G \in [(1 .. n) \X T -> T]
  PROVE  \E f : RecursWith(f, n, T, b, N, G)
<1>1. N \in [1 .. n -> 1 .. n + 1] /\ \A i \in 1 .. n : N[i] > i
  BY DEF Onward
<1> DEFINE Solves(f, m) == /\ f \in [n + 1 - m .. n + 1 -> T] /\ f[n + 1] = b
                           /\ \A i \in n + 1 - m .. n : f[i] = G[<<i, f[N[i]]>>]
           U == {m \in 0 .. n : \E f : Solves(f, m)}
<1>2. 0 \in U
  <2>1. Solves([i \in n + 1 - 0 .. n + 1 |-> b], 0)
    OBVIOUS
  <2> HIDE DEF Solves
  <2> QED BY <2>1
<1>3. ASSUME NEW m \in 0 .. n - 1, m \in U PROVE m + 1 \in U
  <2>1. PICK f : Solves(f, m)
    BY <1>3
  <2> DEFINE a == n + 1 - (m + 1)
             e == G[<<a, f[N[a]]>>]
             g == [i \in a .. n + 1 |-> IF i = a THEN e ELSE f[i]]
  <2>2. /\ a \in 1 .. n /\ a + 1 = n + 1 - m
        /\ \A i \in a .. n + 1 : i # a => i \in n + 1 - m .. n + 1
        /\ \A i \in a .. n : i # a => i \in n + 1 - m .. n
    OBVIOUS
  <2>3. N[a] \in n + 1 - m .. n + 1 /\ N[a] \in a .. n + 1 /\ N[a] # a
    <3>1. N[a] > a /\ N[a] \in 1 .. n + 1
      BY <1>1, <2>2
    <3>2. a \in Int
      BY <2>2
    <3> HIDE DEF a
    <3> QED BY <2>2, <3>1, <3>2
  <2>4. e \in T
    BY <2>1, <2>2, <2>3
  <2> HIDE DEF a, e
  <2>5. g \in [a .. n + 1 -> T] /\ g[n + 1] = b
    BY <2>1, <2>2, <2>4
  <2>6. ASSUME NEW i \in a .. n PROVE g[i] = G[<<i, g[N[i]]>>]
    <3>1. CASE i = a
      <4>1. g[N[a]] = f[N[a]]
        BY <2>3
      <4>2. a \in a .. n + 1
        BY <2>2
      <4> QED BY <3>1, <4>1, <4>2 DEF e
    <3>2. CASE i # a
      <4>1. i \in n + 1 - m .. n /\ i \in 1 .. n
        BY <2>2, <3>2
      <4>2. N[i] > i /\ N[i] \in 1 .. n + 1
        BY <1>1, <4>1
      <4>3. N[i] \in a .. n + 1 /\ N[i] # a
        BY <2>2, <4>2
      <4>4. g[i] = f[i] /\ g[N[i]] = f[N[i]]
        BY <3>2, <4>3
      <4> QED BY <2>1, <4>1, <4>4
    <3> QED BY <3>1, <3>2
  <2> HIDE DEF g
  <2>7. Solves(g, m + 1)
    BY <2>5, <2>6 DEF a
  <2> HIDE DEF Solves
  <2> QED BY <2>7
<1> HIDE DEF U
<1>4. 0 .. n \subseteq U
  BY <1>2, <1>3, InductionTo
<1>5. n \in U
  BY <1>4
<1>6. PICK f : Solves(f, n)
  BY <1>5 DEF U
<1>7. n + 1 - n = 1
  OBVIOUS
<1> QED BY <1>6, <1>7 DEF RecursWith

\* x is the first position in I, or 0 if there is none.
FirstOf(x, I, n) == /\ x \in 0 .. n /\ (x = 0 <=> I = {})
                    /\ x # 0 => x \in I /\ \A h \in I : x <= h

\* What SelectInSeq() chooses of the positions that pass its test.
LEMMA SelectsFirst ==
  ASSUME NEW n \in Nat, NEW I \in SUBSET (1 .. n)
  PROVE  FirstOf(IF I # {} THEN Min(I) ELSE 0, I, n)
<1>1. CASE I = {}
  BY <1>1 DEF FirstOf
<1>2. CASE I # {}
  <2>1. Min(I) \in I /\ \A h \in I : Min(I) <= h
    BY <1>2, FirstPosition
  <2> DEFINE m == Min(I)
  <2> HIDE DEF m
  <2>2. m \in I /\ \A h \in I : m <= h
    BY <2>1 DEF m
  <2>3. (IF I # {} THEN Min(I) ELSE 0) = m
    BY <1>2 DEF m
  <2>4. m \in 0 .. n /\ m # 0
    BY <2>2
  <2>5. FirstOf(m, I, n)
    BY <1>2, <2>2, <2>4 DEF FirstOf
  <2> QED BY <2>3, <2>5
<1> QED BY <1>1, <1>2

-----------------------------------------------------------------------------
(* drop() and restore() of privileges_guard (base.cpp).                    *)

\* Credentials from which a drop can be undone: real and effective ids agree,
\* and root's saved user id is root's.
WellFormed(c) == /\ c \in Creds
                 /\ c.euid = c.ruid
                 /\ c.egid = c.rgid
                 /\ c.ruid = Root => c.suid = Root

\* A guard that holds g, made when the credentials were e, has brought the process
\* to c: it did nothing, or drop() had an outcome that the guard remembers.
Holds(g, e, c, u) ==
  \/ g = Unarmed /\ c = e
  \/ /\ e.ruid = Root /\ u # Root
     /\ \E ok \in BOOLEAN :
                [ok |-> ok, cred |-> c, guard |-> g] \in DropOutcomes(e, u, Unarmed)

\* A drop() that failed half way: something was changed, but not the user's id.
HalfWay(g) == g # Unarmed /\ g.uid = NoId

\* The four outcomes of drop() on well-formed root credentials, spelled out.
LEMMA DropCases ==
  ASSUME NEW c, WellFormed(c), c.ruid = Root, NEW u \in Ids,
         NEW o \in DropOutcomes(c, u, Unarmed)
  PROVE  \/ o = [ok |-> FALSE, cred |-> c, guard |-> Unarmed]
         \/ o = [ok |-> FALSE, cred |-> SetGroups(c, u),
                 guard |-> [Unarmed EXCEPT !.groups = c.groups]]
         \/ o = [ok |-> FALSE, cred |-> SetGid(SetGroups(c, u), u),
                 guard |-> [Unarmed EXCEPT !.groups = c.groups, !.gid = c.rgid]]
         \/ o = [ok |-> TRUE, cred |-> SetUid(SetGid(SetGroups(c, u), u), u),
                 guard |-> [Unarmed EXCEPT !.groups = c.groups, !.gid = c.rgid, !.uid = c.ruid]]
  BY DEF DropOutcomes

\* What drop() leaves is typed and well formed.
LEMMA DropSound ==
  ASSUME NEW c, WellFormed(c), c.ruid = Root, NEW u \in Ids, u # Root,
         NEW o \in DropOutcomes(c, u, Unarmed)
  PROVE  /\ o.ok \in BOOLEAN
         /\ o.guard \in Guards
         /\ WellFormed(o.cred)
         /\ o.ok => o.cred.euid = u /\ o.cred = ActingFor(u, c)
         /\ ~o.ok => o.cred.euid = c.euid
         /\ o.ok <=> o.guard.uid # NoId
<1>1. CASE o = [ok |-> FALSE, cred |-> c, guard |-> Unarmed]
  BY <1>1, IdsAssumption DEF WellFormed, Creds, Guards, Unarmed, Ids
<1>2. CASE o = [ok |-> FALSE, cred |-> SetGroups(c, u),
                guard |-> [Unarmed EXCEPT !.groups = c.groups]]
  BY <1>2, IdsAssumption DEF WellFormed, Creds, Guards, Unarmed, Ids, SetGroups
<1>3. CASE o = [ok |-> FALSE, cred |-> SetGid(SetGroups(c, u), u),
                guard |-> [Unarmed EXCEPT !.groups = c.groups, !.gid = c.rgid]]
  BY <1>3, IdsAssumption DEF WellFormed, Creds, Guards, Unarmed, Ids, SetGroups, SetGid
<1>4. CASE o = [ok |-> TRUE, cred |-> SetUid(SetGid(SetGroups(c, u), u), u),
                guard |-> [Unarmed EXCEPT !.groups = c.groups, !.gid = c.rgid, !.uid = c.ruid]]
  BY <1>4, IdsAssumption
     DEF WellFormed, Creds, Guards, Unarmed, Ids, SetGroups, SetGid, SetUid, ActingFor
<1> QED BY <1>1, <1>2, <1>3, <1>4, DropCases

\* restore() undoes drop(), whatever drop() managed to do.
LEMMA RestoreUndoesDrop ==
  ASSUME NEW c, WellFormed(c), c.ruid = Root, NEW u \in Ids, u # Root,
         NEW o \in DropOutcomes(c, u, Unarmed)
  PROVE  Restore(o.cred, o.guard) = c
<1>1. CASE o = [ok |-> FALSE, cred |-> c, guard |-> Unarmed]
  BY <1>1, IdsAssumption DEF Unarmed, Restore
<1>2. CASE o = [ok |-> FALSE, cred |-> SetGroups(c, u),
                guard |-> [Unarmed EXCEPT !.groups = c.groups]]
  BY <1>2, IdsAssumption DEF WellFormed, Creds, Unarmed, Ids, SetGroups, Restore, MaySetGroups
<1>3. CASE o = [ok |-> FALSE, cred |-> SetGid(SetGroups(c, u), u),
                guard |-> [Unarmed EXCEPT !.groups = c.groups, !.gid = c.rgid]]
  BY <1>3, IdsAssumption
     DEF WellFormed, Creds, Unarmed, Ids, SetGroups, SetGid, Restore, MaySetGroups, MaySetGid
<1>4. CASE o = [ok |-> TRUE, cred |-> SetUid(SetGid(SetGroups(c, u), u), u),
                guard |-> [Unarmed EXCEPT !.groups = c.groups, !.gid = c.rgid, !.uid = c.ruid]]
  <2> DEFINE d  == SetUid(SetGid(SetGroups(c, u), u), u)
             g  == [Unarmed EXCEPT !.groups = c.groups, !.gid = c.rgid, !.uid = c.ruid]
             c1 == SetUid(d, g.uid)
             c2 == SetGid(c1, g.gid)
  <2>1. /\ g.uid = Root /\ g.gid = c.rgid /\ g.groups = c.groups
        /\ g.gid # NoId /\ g.groups # NoId
    BY IdsAssumption DEF WellFormed, Creds, Ids, Unarmed
  <2>2. d \in Creds /\ d = [c EXCEPT !.ruid = u, !.euid = u, !.rgid = u, !.egid = u, !.groups = u]
    BY DEF WellFormed, Creds, SetGroups, SetGid, SetUid
  <2> HIDE DEF d, g
  <2>3. MaySetUid(d, g.uid)
    BY <2>1, <2>2 DEF WellFormed, Creds, MaySetUid
  <2>4. /\ c1 \in Creds /\ c1.euid = Root
        /\ c1 = [c EXCEPT !.rgid = u, !.egid = u, !.groups = u]
    <3>1. c1 = [d EXCEPT !.ruid = c.ruid, !.euid = c.euid]
      BY <2>1 DEF WellFormed, SetUid
    <3> HIDE DEF c1
    <3> QED BY <3>1, <2>2 DEF WellFormed, Creds
  <2> HIDE DEF c1
  <2>5. MaySetGid(c1, g.gid)
    BY <2>4 DEF MaySetGid
  <2>6. c2 \in Creds /\ c2.euid = Root /\ c2 = [c EXCEPT !.groups = u]
    BY <2>1, <2>4 DEF WellFormed, Creds, SetGid
  <2> HIDE DEF c2
  <2>7. MaySetGroups(c2) /\ SetGroups(c2, g.groups) = c
    BY <2>1, <2>6 DEF WellFormed, Creds, MaySetGroups, SetGroups
  <2>8. Restore(d, g) = SetGroups(c2, g.groups)
    BY <2>1, <2>3, <2>5, <2>7, IdsAssumption DEF Restore, c1, c2
  <2> QED BY <1>4, <2>7, <2>8 DEF d, g
<1> QED BY <1>1, <1>2, <1>3, <1>4, DropCases

\* restore() gives back what the guard's owner started with.
LEMMA RestoreUndoesHeld ==
  ASSUME NEW e, WellFormed(e), NEW u \in Ids, NEW g, NEW c, Holds(g, e, c, u)
  PROVE  Restore(c, g) = e
<1>1. CASE g = Unarmed /\ c = e
  BY <1>1 DEF Restore, Unarmed
<1>2. CASE /\ e.ruid = Root /\ u # Root
           /\ \E ok \in BOOLEAN :
                [ok |-> ok, cred |-> c, guard |-> g] \in DropOutcomes(e, u, Unarmed)
  <2>1. PICK ok \in BOOLEAN : [ok |-> ok, cred |-> c, guard |-> g] \in DropOutcomes(e, u, Unarmed)
    BY <1>2
  <2> QED BY <1>2, <2>1, RestoreUndoesDrop
<1> QED BY <1>1, <1>2 DEF Holds

\* A guard did nothing, or dropped the privileges, or got stuck half way.
LEMMA HoldsCases ==
  ASSUME NEW e, WellFormed(e), NEW u \in Ids, NEW g, NEW c, Holds(g, e, c, u)
  PROVE  /\ WellFormed(c) /\ g \in Guards
         /\ \/ g = Unarmed /\ c = e
            \/ /\ g.uid # NoId /\ e.ruid = Root /\ u # Root
               /\ c = ActingFor(u, e) /\ c.euid = u
            \/ HalfWay(g) /\ c.euid = e.euid
<1>1. CASE g = Unarmed /\ c = e
  BY <1>1 DEF Unarmed, Guards
<1>2. CASE /\ e.ruid = Root /\ u # Root
           /\ \E ok \in BOOLEAN :
                [ok |-> ok, cred |-> c, guard |-> g] \in DropOutcomes(e, u, Unarmed)
  <2>1. PICK ok \in BOOLEAN : [ok |-> ok, cred |-> c, guard |-> g] \in DropOutcomes(e, u, Unarmed)
    BY <1>2
  <2> DEFINE o == [ok |-> ok, cred |-> c, guard |-> g]
  <2>2. o \in DropOutcomes(e, u, Unarmed) /\ o.ok = ok /\ o.cred = c /\ o.guard = g
    BY <2>1
  <2> HIDE DEF o
  <2>3. /\ o.guard \in Guards /\ WellFormed(o.cred)
        /\ o.ok => o.cred.euid = u /\ o.cred = ActingFor(u, e)
        /\ ~o.ok => o.cred.euid = e.euid
        /\ o.ok <=> o.guard.uid # NoId
    BY <1>2, <2>2, DropSound
  <2>4. g = Unarmed => c = e
    <3> SUFFICES ASSUME g = Unarmed PROVE c = e
      OBVIOUS
    <3>1. Restore(c, g) = e
      BY <1>2, <2>2, RestoreUndoesDrop
    <3> QED BY <3>1 DEF Restore, Unarmed
  <2> QED BY <1>2, <2>2, <2>3, <2>4 DEF HalfWay
<1> QED BY <1>1, <1>2 DEF Holds

\* drop_if_feasible(), called by the owner of a guard that is not stuck half way:
\* its outcome is held by the guard; a drop that succeeds leaves a process that
\* acts for the user, unless it was not root's or the user is root.
LEMMA DropHeld ==
  ASSUME NEW e, WellFormed(e), NEW u \in Ids, NEW g, NEW c, Holds(g, e, c, u), ~HalfWay(g),
         NEW o \in DropIfFeasible(c, u, g)
  PROVE  /\ Holds(o.guard, e, o.cred, u)
         /\ o.ok \in BOOLEAN
         /\ o.ok => ~HalfWay(o.guard) /\ (o.cred.ruid = Root => u = Root)
<1>1. WellFormed(c) /\ g \in Guards
  BY HoldsCases
<1>2. CASE c.ruid # Root \/ u = Root
  <2>1. o = [ok |-> TRUE, cred |-> c, guard |-> g]
    BY <1>2 DEF DropIfFeasible
  <2> QED BY <1>2, <2>1
<1>3. CASE c.ruid = Root /\ u # Root
  <2>1. g = Unarmed /\ c = e
    BY <1>1, <1>3, HoldsCases DEF WellFormed
  <2>2. o \in DropOutcomes(e, u, Unarmed)
    BY <1>3, <2>1 DEF DropIfFeasible
  <2>3. /\ o.ok \in BOOLEAN /\ (o.ok <=> o.guard.uid # NoId)
        /\ o.ok => o.cred.euid = u /\ WellFormed(o.cred)
    BY <1>3, <2>1, <2>2, DropSound
  <2>4. o = [ok |-> o.ok, cred |-> o.cred, guard |-> o.guard]
    BY <2>2 DEF DropOutcomes
  <2> QED BY <1>3, <2>1, <2>2, <2>3, <2>4 DEF Holds, HalfWay, WellFormed
<1> QED BY <1>2, <1>3
=============================================================================
