------------------------- MODULE MountRequest_proofs -------------------------
(***************************************************************************)
(* For all worlds, users and settings: what the form shows is what is      *)
(* mounted, and what root's privileges do for a user is what the policy    *)
(* of mount() allows (mainwindow.cpp, mount.cpp, devmap.cpp).              *)
(*                                                                         *)
(* The argument is a row of invariants, each of which rests on the ones    *)
(* before it.  FormInv: the form belongs to the device it names.  Typed    *)
(* and Decided: the types, and that the unit and the options a command is  *)
(* for are the ones it was judged by.  Trees: the file system is one, and  *)
(* every prefix behind create_mountpoint() is a directory.  Allowed: what  *)
(* the privileges are kept for, and that every directory still to be made  *)
(* is outside the system directories; it is kept because a directory that  *)
(* is made turns no other path into one that leads elsewhere.  Shown:      *)
(* what was not modified is what the unit of the device says.  Asked: what *)
(* is to be mounted is the device the form names.                          *)
(*                                                                         *)
(* They rest on lemmas about what the pure code computes: path_walk() goes *)
(* name by name, Lookup() is kept by mkdir(2), contains_opt() finds what   *)
(* items() separates, scan_systemd_units() keeps the order of the files.   *)
(***************************************************************************)
EXTENDS MountRequest, Lemmas, FiniteSetTheorems

(* The names of a path (names()), and the paths path_walk() makes of it.   *)

\* names(): the next symbol of t.
NextName(t, z, i) ==
  CASE t[i] = Slash                       -> z
    [] t[i] # Slash /\ (i = 1 \/ t[i - 1] = Slash) -> Append(z, <<t[i]>>)
    [] OTHER -> [z EXCEPT ![Len(z)] = Append(@, t[i])]

\* It makes texts of texts.
LEMMA NextNameTyped ==
  ASSUME NEW t \in Text, NEW z \in Seq(Text), NEW i \in 1 .. Len(t)
  PROVE  NextName(t, z, i) \in Seq(Text)
<1>1. t[i] \in STRING /\ <<t[i]>> \in Text
  BY DEF Text
<1>2. CASE t[i] = Slash
  BY <1>2 DEF NextName
<1>3. CASE t[i] # Slash /\ (i = 1 \/ t[i - 1] = Slash)
  BY <1>1, <1>3 DEF NextName
<1>4. CASE t[i] # Slash /\ ~(i = 1 \/ t[i - 1] = Slash)
  <2> DEFINE e == [z EXCEPT ![Len(z)] = Append(@, t[i])]
             m == Len(z)
             a == Append(z[m], t[i])
  <2>1. NextName(t, z, i) = e
    BY <1>4 DEF NextName
  <2>2. m \in Nat /\ DOMAIN z = 1 .. m
    OBVIOUS
  <2>3. CASE m = 0
    <3>1. z = <<>>
      BY <2>3, EmptySeq
    <3>2. e = z
      BY <2>2, <2>3, <3>1
    <3> QED BY <2>1, <3>2
  <2>4. CASE m # 0
    <3>1. m \in 1 .. m /\ z[m] \in Text
      BY <2>2, <2>4
    <3>2. a \in Text
      BY <1>1, <3>1 DEF Text
    <3>3. e = [z EXCEPT ![m] = a]
      OBVIOUS
    <3> HIDE DEF a, e, m
    <3> QED BY <2>1, <2>2, <3>1, <3>2, <3>3, Replaced DEF m
  <2> QED BY <2>3, <2>4
<1> QED BY <1>2, <1>3, <1>4

\* names(), symbol by symbol.
LEMMA NamesChain ==
  ASSUME NEW t \in Text
  PROVE  \E z : /\ z \in [0 .. Len(t) -> Seq(Text)]
                /\ z[0] = <<>> /\ names(t) = z[Len(t)]
                /\ \A h \in 1 .. Len(t) : z[h] = NextName(t, z[h - 1], h)
<1> DEFINE n == Len(t)
           T == Seq(Text)
           b == <<>>
           G == [p \in T \X (1 .. n) |-> NextName(t, p[1], p[2])]
           Q == [i \in 1 .. Len(t) |-> i]
           Solves(g) == g = [s \in SUBSET DOMAIN Q |->
                               IF s = {} THEN <<>> ELSE NextName(t, g[s \ {Max(s)}], Q[Max(s)])]
           it == CHOOSE g : Solves(g)
<1>1. n \in Nat /\ DOMAIN Q = 1 .. n /\ b \in T /\ \A i \in 1 .. n : Q[i] = i
  BY DEF Text
<1>2. \A z \in T, i \in 1 .. n : NextName(t, z, i) \in T
  BY NextNameTyped
<1>3. G \in [T \X (1 .. n) -> T]
  <2> HIDE DEF T, n
  <2> QED BY <1>2
<1>4. \A z \in T, i \in 1 .. n : G[<<z, i>>] = NextName(t, z, i)
  <2> HIDE DEF T, n
  <2> QED OBVIOUS
<1> HIDE DEF G, T, n, b, Q
<1>5. PICK f : FoldsWith(f, n, T, b, G)
  BY <1>1, <1>3, FoldExists
<1>6. ASSUME NEW s \in SUBSET (1 .. n), s # {}
      PROVE  f[s] = NextName(t, f[s \ {Max(s)}], Q[Max(s)])
  <2>1. Max(s) \in 1 .. n
    BY <1>1, <1>6, LastPosition
  <2>2. f[s \ {Max(s)}] \in T
    BY <1>5 DEF FoldsWith
  <2>3. f[s] = G[<<f[s \ {Max(s)}], Max(s)>>]
    BY <1>5, <1>6 DEF FoldsWith
  <2>4. Q[Max(s)] = Max(s)
    BY <1>1, <2>1
  <2> QED BY <1>4, <2>1, <2>2, <2>3, <2>4
<1>7. Solves(f)
  BY <1>1, <1>5, <1>6 DEF FoldsWith, b
<1>8. Solves(it)
  <2> HIDE DEF Solves
  <2> QED BY <1>7
<1>9. names(t) = it[DOMAIN Q]
  BY Zenon DEF names, FoldLeft, MapThenFoldSet, NextName, Q
<1> HIDE DEF it
<1>10. it[{}] = b
  BY <1>8 DEF b
<1>11. ASSUME NEW s \in SUBSET (1 .. n), s # {}, it[s \ {Max(s)}] \in T
       PROVE  it[s] = G[<<it[s \ {Max(s)}], Max(s)>>]
  <2>1. Max(s) \in 1 .. n
    BY <1>1, <1>11, LastPosition
  <2>2. it[s] = NextName(t, it[s \ {Max(s)}], Q[Max(s)])
    BY <1>1, <1>8, <1>11
  <2>3. Q[Max(s)] = Max(s)
    BY <1>1, <2>1
  <2> QED BY <1>4, <1>11, <2>1, <2>2, <2>3
<1>12. PICK z : Chain(z, n, T, b, G) /\ z[n] = it[1 .. n]
  <2>1. Iterates(it, n, T, b, G)
    BY <1>1, <1>3, <1>10, <1>11 DEF Iterates
  <2> QED BY <2>1, FoldChain
<1>13. ASSUME NEW h \in 1 .. n PROVE z[h] = NextName(t, z[h - 1], h)
  <2>1. h - 1 \in 0 .. n
    BY <1>1
  <2>2. z[h - 1] \in T
    BY <1>12, <2>1 DEF Chain
  <2> QED BY <1>4, <1>12, <2>2 DEF Chain
<1>14. z \in [0 .. n -> T] /\ z[0] = b
  BY <1>12 DEF Chain
<1> QED BY <1>1, <1>9, <1>12, <1>13, <1>14 DEF n, T, b

\* names() of what a text begins with.
LEMMA NamesOfPrefix ==
  ASSUME NEW t \in Text, NEW z \in [0 .. Len(t) -> Seq(Text)], z[0] = <<>>,
         \A h \in 1 .. Len(t) : z[h] = NextName(t, z[h - 1], h),
         NEW m \in 0 .. Len(t)
  PROVE  names(SubSeq(t, 1, m)) = z[m]
<1> DEFINE n == Len(t)
           u == SubSeq(t, 1, m)
<1>1. n \in Nat /\ m \in Nat /\ m <= n
  BY DEF Text
<1>2. u \in Text /\ Len(u) = m /\ \A h \in 1 .. m : u[h] = t[h]
  BY <1>1 DEF Text
<1> HIDE DEF u, n
<1>3. PICK q : /\ q \in [0 .. Len(u) -> Seq(Text)]
               /\ q[0] = <<>> /\ names(u) = q[Len(u)]
               /\ \A h \in 1 .. Len(u) : q[h] = NextName(u, q[h - 1], h)
  BY <1>2, NamesChain
<1> DEFINE U == {h \in 0 .. m : z[h] = q[h]}
<1>4. 0 \in U
  BY <1>1, <1>3
<1>5. ASSUME NEW h \in 0 .. m - 1, h \in U PROVE h + 1 \in U
  <2>1. h + 1 \in 1 .. m /\ (h + 1) - 1 = h /\ h + 1 \in 1 .. n /\ h + 1 \in 0 .. m
    BY <1>1
  <2>2. h # 0 => h \in 1 .. m
    BY <1>1
  <2>3. u[h + 1] = t[h + 1] /\ (h # 0 => u[h] = t[h])
    BY <1>2, <2>1, <2>2
  <2>4. z[h + 1] = NextName(t, z[h], h + 1) /\ q[h + 1] = NextName(u, q[h], h + 1)
    BY <1>2, <1>3, <2>1 DEF n
  <2>5. NextName(t, z[h], h + 1) = NextName(u, z[h], h + 1)
    <3>1. h + 1 = 1 <=> h = 0
      BY <1>1
    <3> QED BY <2>1, <2>3, <3>1 DEF NextName
  <2>6. z[h] = q[h]
    BY <1>5
  <2> QED BY <2>1, <2>4, <2>5, <2>6
<1> HIDE DEF U
<1>6. 0 .. m \subseteq U
  BY <1>1, <1>4, <1>5, InductionTo
<1>7. m \in U
  BY <1>1, <1>6
<1> QED BY <1>2, <1>3, <1>7 DEF U, u

\* Within a name the names before it stay, and a name is read.
LEMMA NameRead ==
  ASSUME NEW t \in Text, NEW z \in [0 .. Len(t) -> Seq(Text)],
         \A h \in 1 .. Len(t) : z[h] = NextName(t, z[h - 1], h),
         NEW i \in 1 .. Len(t), i = 1 \/ t[i - 1] = Slash,
         NEW l \in i .. Len(t), \A h \in i .. l : t[h] # Slash
  PROVE  z[l] # <<>> /\ Front(z[l]) = z[i - 1]
<1> DEFINE n == Len(t)
           a == z[i - 1]
           m == Len(a) + 1
           U == {d \in Nat : d <= l - i => /\ Len(z[i + d]) = m
                                          /\ \A x \in 1 .. m - 1 : z[i + d][x] = a[x]}
<1>1. n \in Nat /\ i \in Nat \ {0} /\ l \in Nat /\ i <= l /\ l <= n /\ i - 1 \in 0 .. n
  BY DEF Text
<1>2. a \in Seq(Text) /\ m \in Nat \ {0} /\ \A h \in i .. l : <<t[h]>> \in Text /\ t[h] \in STRING
  <2>1. a \in Seq(Text)
    BY <1>1
  <2>2. ASSUME NEW h \in i .. l PROVE <<t[h]>> \in Text /\ t[h] \in STRING
    <3>1. h \in 1 .. n
      BY <1>1
    <3> QED BY <3>1 DEF Text
  <2> HIDE DEF a
  <2> QED BY <2>1, <2>2
<1>3. ASSUME NEW h \in i .. l PROVE z[h] \in Seq(Text) /\ z[h] = NextName(t, z[h - 1], h)
  <2>1. h \in 1 .. n /\ h \in 0 .. n
    BY <1>1
  <2> QED BY <2>1
<1>4. 0 \in U
  <2>1. z[i] = Append(a, <<t[i]>>)
    <3>1. i \in i .. l
      BY <1>1
    <3>2. z[i] = NextName(t, a, i) /\ t[i] # Slash
      BY <1>3, <3>1
    <3> QED BY <3>2 DEF NextName
  <2>2. <<t[i]>> \in Text
    BY <1>1, <1>2
  <2> HIDE DEF a
  <2> QED BY <1>1, <1>2, <2>1, <2>2
<1> HIDE DEF m, a, n
<1>5. ASSUME NEW d \in Nat, d \in U PROVE d + 1 \in U
  <2> SUFFICES ASSUME d + 1 <= l - i PROVE d + 1 \in U
    OBVIOUS
  <2> DEFINE h == i + (d + 1)
             p == z[h - 1]
             e == Append(p[m], t[h])
  <2>1. h \in i .. l /\ h - 1 \in i .. l /\ h - 1 = i + d /\ h # 1 /\ d <= l - i
    BY <1>1
  <2> HIDE DEF h
  <2>2. /\ Len(p) = m /\ p \in Seq(Text)
        /\ \A x \in 1 .. m - 1 : p[x] = a[x]
    BY <1>3, <1>5, <2>1
  <2>3. t[h] # Slash /\ t[h - 1] # Slash
    BY <2>1
  <2>4. z[h] = [p EXCEPT ![m] = e]
    BY <1>3, <2>1, <2>2, <2>3 DEF NextName
  <2>5. m \in 1 .. m /\ e \in Text
    BY <1>2, <2>1, <2>2 DEF Text
  <2> HIDE DEF e, p
  <2>6. /\ Len(z[h]) = m
        /\ \A x \in 1 .. m : x # m => z[h][x] = p[x]
    BY <1>2, <2>2, <2>4, <2>5, Replaced
  <2>7. \A x \in 1 .. m - 1 : x \in 1 .. m /\ x # m
    BY <1>2
  <2> QED BY <2>2, <2>6, <2>7 DEF h
<1> HIDE DEF U
<1>6. l - i \in U /\ l - i \in Nat
  <2>1. Nat \subseteq U
    BY <1>4, <1>5, Induction
  <2>2. l - i \in Nat
    BY <1>1
  <2> QED BY <2>1, <2>2
<1>7. i + (l - i) = l
  BY <1>1
<1>8. Len(z[l]) = m /\ \A x \in 1 .. m - 1 : z[l][x] = a[x]
  BY <1>6, <1>7 DEF U
<1>9. z[l] \in Seq(Text)
  BY <1>1, <1>3
<1>10. z[l] # <<>>
  BY <1>2, <1>8, <1>9
<1>11. /\ Front(z[l]) \in Seq(Text) /\ Len(Front(z[l])) = Len(z[l]) - 1
       /\ \A x \in 1 .. Len(z[l]) - 1 : Front(z[l])[x] = z[l][x]
  BY <1>9, <1>10, FrontProperties
<1>12. Len(Front(z[l])) = Len(a)
  BY <1>2, <1>8, <1>11 DEF m
<1>13. \A x \in 1 .. Len(a) : Front(z[l])[x] = a[x]
  BY <1>2, <1>8, <1>11 DEF m
<1>14. Front(z[l]) = a
  <2> HIDE DEF a
  <2> DEFINE f == Front(z[l])
  <2>1. f \in Seq(Text) /\ Len(f) = Len(a) /\ \A x \in 1 .. Len(a) : f[x] = a[x]
    BY <1>11, <1>12, <1>13
  <2> HIDE DEF f
  <2>2. f = a
    BY <1>2, <2>1, SeqEqual
  <2> QED BY <2>2 DEF f
<1> QED BY <1>10, <1>14 DEF a

\* Separators change nothing.
LEMMA SeparatorsRead ==
  ASSUME NEW t \in Text, NEW v \in [0 .. Len(t) -> Seq(Text)],
         \A h \in 1 .. Len(t) : v[h] = NextName(t, v[h - 1], h),
         NEW l \in 1 .. Len(t) + 1,
         NEW j \in l .. Len(t) + 1, \A h \in l .. j - 1 : t[h] = Slash
  PROVE  v[j - 1] = v[l - 1]
<1> DEFINE n == Len(t)
           U == {d \in Nat : d <= j - l => v[l + d - 1] = v[l - 1]}
<1>1. n \in Nat /\ l \in Nat \ {0} /\ j \in Nat /\ l <= j /\ j <= n + 1
  BY DEF Text
<1>2. 0 \in U
  <2>1. l + 0 - 1 = l - 1
    BY <1>1
  <2> QED BY <2>1
<1>3. ASSUME NEW d \in Nat, d \in U PROVE d + 1 \in U
  <2> SUFFICES ASSUME d + 1 <= j - l PROVE v[l + (d + 1) - 1] = v[l - 1]
    OBVIOUS
  <2>1. l + (d + 1) - 1 = l + d /\ l + d \in 1 .. n /\ l + d \in l .. j - 1 /\ d <= j - l
    BY <1>1
  <2>2. v[l + d] = v[l + d - 1]
    <3>1. t[l + d] = Slash /\ v[l + d] = NextName(t, v[l + d - 1], l + d)
      BY <2>1
    <3> QED BY <3>1 DEF NextName
  <2>3. v[l + d - 1] = v[l - 1]
    BY <1>3, <2>1
  <2> QED BY <2>1, <2>2, <2>3
<1> HIDE DEF U
<1>4. j - l \in U /\ j - l \in Nat
  <2>1. Nat \subseteq U
    BY <1>2, <1>3, Induction
  <2>2. j - l \in Nat
    BY <1>1
  <2> QED BY <2>1, <2>2
<1>5. l + (j - l) - 1 = j - 1
  BY <1>1
<1> QED BY <1>4, <1>5 DEF U

\* q are texts whose names go from those in a, one more each time, to z.
Trail(q, a, z) ==
  /\ q \in Seq(Text)
  /\ \A h \in 1 .. Len(q) : /\ names(q[h]) # <<>>
                            /\ Front(names(q[h])) = IF h = 1 THEN a ELSE names(q[h - 1])
  /\ z = IF Len(q) = 0 THEN a ELSE names(q[Len(q)])

\* A trail with one more text in front.
LEMMA TrailGrows ==
  ASSUME NEW x \in Text, NEW q, NEW a, NEW z, Trail(q, names(x), z), names(x) # <<>>, Front(names(x)) = a
  PROVE  Trail(<<x>> \o q, a, z)
<1> DEFINE w == <<x>> \o q
           n == Len(q)
<1>1. q \in Seq(Text) /\ n \in Nat /\ <<x>> \in Seq(Text)
  BY DEF Trail
<1>2. w \in Seq(Text) /\ Len(w) = n + 1 /\ w[1] = x /\ \A h \in 2 .. n + 1 : w[h] = q[h - 1]
  <2>1. Len(<<x>>) = 1 /\ <<x>>[1] = x
    OBVIOUS
  <2>2. /\ w \in Seq(Text) /\ Len(w) = 1 + n
        /\ \A i \in 1 .. 1 + n : w[i] = IF i <= 1 THEN <<x>>[i] ELSE q[i - 1]
    BY <1>1, <2>1, ConcatProperties
  <2> HIDE DEF w, n
  <2> QED BY <1>1, <2>1, <2>2
<1> HIDE DEF w
<1>3. ASSUME NEW h \in 1 .. n + 1
      PROVE  names(w[h]) # <<>> /\ Front(names(w[h])) = IF h = 1 THEN a ELSE names(w[h - 1])
  <2>1. CASE h = 1
    BY <1>2, <2>1
  <2>2. CASE h = 2
    <3>1. w[h] = q[1] /\ w[h - 1] = x /\ 1 \in 1 .. n
      BY <1>1, <1>2, <2>2
    <3>2. names(q[1]) # <<>> /\ Front(names(q[1])) = names(x)
      BY <3>1 DEF Trail
    <3> QED BY <2>2, <3>1, <3>2
  <2>3. CASE h # 1 /\ h # 2
    <3>1. h \in 2 .. n + 1 /\ h - 1 \in 2 .. n + 1 /\ h - 1 \in 1 .. n /\ h - 1 # 1
      BY <1>1, <2>3
    <3>2. w[h] = q[h - 1] /\ w[h - 1] = q[(h - 1) - 1]
      BY <1>2, <3>1
    <3>3. names(q[h - 1]) # <<>> /\ Front(names(q[h - 1])) = names(q[(h - 1) - 1])
      BY <3>1 DEF Trail
    <3> QED BY <2>3, <3>2, <3>3
  <2> QED BY <2>1, <2>2, <2>3
<1>4. z = names(w[n + 1])
  <2>1. CASE n = 0
    BY <1>2, <2>1 DEF Trail
  <2>2. CASE n # 0
    <3>1. n + 1 \in 2 .. n + 1 /\ (n + 1) - 1 = n
      BY <1>1, <2>2
    <3>2. w[n + 1] = q[n]
      BY <1>2, <3>1
    <3> QED BY <2>2, <3>2 DEF Trail
  <2> QED BY <2>1, <2>2
<1>5. n + 1 # 0
  BY <1>1
<1>6. Trail(w, a, z)
  BY <1>2, <1>3, <1>4, <1>5 DEF Trail
<1> QED BY <1>6 DEF w

\* path_walk(): where the name at i ends, and where the next begins.
NameEnd(t, i) == CHOOSE j \in i .. Len(t) + 1 : /\ j > Len(t) \/ ~(t[j] \notin PathSeps)
                                                /\ \A h \in i .. j - 1 : t[h] \notin PathSeps

SepEnd(t, i)  == CHOOSE j \in i .. Len(t) + 1 : /\ j > Len(t) \/ ~(t[j] \in PathSeps)
                                                /\ \A h \in i .. j - 1 : t[h] \in PathSeps

\* What path_walk() keeps at the name at i: the path up to its end.
Prefix(t, i)  == SubSeq(t, 1, IF NameEnd(t, i) = i THEN NameEnd(t, i) ELSE NameEnd(t, i) - 1)

\* They are places of the text, or the one behind it.
LEMMA EndsFound ==
  ASSUME NEW t \in Text, NEW i \in 1 .. Len(t) + 1
  PROVE  /\ NameEnd(t, i) \in i .. Len(t) + 1
         /\ NameEnd(t, i) > Len(t) \/ t[NameEnd(t, i)] \in PathSeps
         /\ \A h \in i .. NameEnd(t, i) - 1 : t[h] \notin PathSeps
         /\ SepEnd(t, i) \in i .. Len(t) + 1
         /\ SepEnd(t, i) > Len(t) \/ t[SepEnd(t, i)] \notin PathSeps
         /\ \A h \in i .. SepEnd(t, i) - 1 : t[h] \in PathSeps
<1> DEFINE n == Len(t)
           S == {h \in 1 .. n : t[h] \in PathSeps}
           N == {h \in 1 .. n : t[h] \notin PathSeps}
<1>1. n \in Nat /\ i \in 1 .. n + 1
  BY DEF Text
<1>2. \E j \in i .. n + 1 : (j > n \/ j \notin S) /\ \A h \in i .. j - 1 : h \in S
  <2> HIDE DEF S, n
  <2> QED BY <1>1, RunEnds
<1>3. \E j \in i .. n + 1 : (j > n \/ j \notin N) /\ \A h \in i .. j - 1 : h \in N
  <2> HIDE DEF N, n
  <2> QED BY <1>1, RunEnds
<1>4. \E j \in i .. n + 1 : (j > n \/ ~(t[j] \in PathSeps)) /\ \A h \in i .. j - 1 : t[h] \in PathSeps
  <2>1. PICK j \in i .. n + 1 : (j > n \/ j \notin S) /\ \A h \in i .. j - 1 : h \in S
    BY <1>2
  <2>2. j > n \/ ~(t[j] \in PathSeps)
    BY <1>1, <2>1
  <2> QED BY <2>1, <2>2
<1>5. \E j \in i .. n + 1 : (j > n \/ ~(t[j] \notin PathSeps)) /\ \A h \in i .. j - 1 : t[h] \notin PathSeps
  <2>1. PICK j \in i .. n + 1 : (j > n \/ j \notin N) /\ \A h \in i .. j - 1 : h \in N
    BY <1>3
  <2>2. j > n \/ ~(t[j] \notin PathSeps)
    BY <1>1, <2>1
  <2> QED BY <2>1, <2>2
<1>6. /\ SepEnd(t, i) \in i .. Len(t) + 1
      /\ SepEnd(t, i) > Len(t) \/ ~(t[SepEnd(t, i)] \in PathSeps)
      /\ \A h \in i .. SepEnd(t, i) - 1 : t[h] \in PathSeps
  BY <1>4, Zenon DEF SepEnd
<1>7. /\ NameEnd(t, i) \in i .. Len(t) + 1
      /\ NameEnd(t, i) > Len(t) \/ ~(t[NameEnd(t, i)] \notin PathSeps)
      /\ \A h \in i .. NameEnd(t, i) - 1 : t[h] \notin PathSeps
  BY <1>5, Zenon DEF NameEnd
<1> QED BY <1>6, <1>7

\* path_walk(), by what follows each place.
LEMMA WalkRecursion ==
  ASSUME NEW t \in Text
  PROVE  \E f : /\ f \in [1 .. Len(t) + 1 -> Seq(Text)]
                /\ f[Len(t) + 1] = <<>> /\ path_walk(t) = f[1]
                /\ \A i \in 1 .. Len(t) : /\ Prefix(t, i) \in Text
                                          /\ SepEnd(t, NameEnd(t, i)) \in i + 1 .. Len(t) + 1
                                          /\ f[i] = <<Prefix(t, i)>> \o f[SepEnd(t, NameEnd(t, i))]
<1> DEFINE n == Len(t)
           T == Seq(Text)
           b == <<>>
           N == [i \in 1 .. n |-> SepEnd(t, NameEnd(t, i))]
           G == [p \in (1 .. n) \X T |-> <<Prefix(t, p[1])>> \o p[2]]
           Solves(f) == f = [i \in 1 .. Len(t) + 1 |->
                               IF i > Len(t) THEN <<>>
                               ELSE <<Prefix(t, i)>> \o f[SepEnd(t, NameEnd(t, i))]]
<1>1. n \in Nat /\ b \in T /\ \A m \in Nat : SubSeq(t, 1, m) \in Text \/ m > n
  BY DEF Text
<1>2. ASSUME NEW i \in 1 .. n
      PROVE  Prefix(t, i) \in Text /\ SepEnd(t, NameEnd(t, i)) \in i + 1 .. n + 1
  <2> DEFINE l == NameEnd(t, i)
             j == SepEnd(t, l)
  <2>1. l \in i .. n + 1 /\ (l > n \/ t[l] \in PathSeps) /\ l \in 1 .. n + 1
    BY <1>1, EndsFound
  <2>2. j \in l .. n + 1 /\ (j > n \/ t[j] \notin PathSeps)
    BY <1>1, <2>1, EndsFound
  <2>3. l = i => l <= n /\ j # l
    BY <1>1, <2>1, <2>2
  <2>4. Prefix(t, i) = SubSeq(t, 1, IF l = i THEN l ELSE l - 1)
    BY DEF Prefix
  <2> HIDE DEF j, l, n
  <2>5. j \in i + 1 .. n + 1
    BY <1>1, <2>1, <2>2, <2>3
  <2>6. l \in Nat /\ l - 1 \in Nat /\ ~(l - 1 > n) /\ (l = i => ~(l > n))
    BY <1>1, <2>1, <2>3
  <2>7. Prefix(t, i) \in Text
    BY <1>1, <2>4, <2>6
  <2> QED BY <2>5, <2>7 DEF j, l
<1>3. N \in [1 .. n -> 1 .. n + 1] /\ \A i \in 1 .. n : N[i] > i
  BY <1>1, <1>2
<1>4. G \in [(1 .. n) \X T -> T]
  <2>1. ASSUME NEW i \in 1 .. n, NEW q \in T PROVE <<Prefix(t, i)>> \o q \in T
    <3>1. <<Prefix(t, i)>> \in T
      BY <1>2
    <3> QED BY <3>1, ConcatProperties
  <2> HIDE DEF T, n
  <2> QED BY <2>1
<1> HIDE DEF G, N, n, T, b
<1>5. PICK f : RecursWith(f, n, T, b, N, G)
  <2>1. Onward(N, n)
    BY <1>3 DEF Onward
  <2> QED BY <1>1, <1>4, <2>1, RecursionExists
<1>6. ASSUME NEW i \in 1 .. n PROVE f[i] = <<Prefix(t, i)>> \o f[SepEnd(t, NameEnd(t, i))]
  <2>1. N[i] = SepEnd(t, NameEnd(t, i)) /\ N[i] \in 1 .. n + 1
    BY <1>3 DEF N
  <2>2. f[N[i]] \in T
    BY <1>5, <2>1 DEF RecursWith
  <2>3. G[<<i, f[N[i]]>>] = <<Prefix(t, i)>> \o f[N[i]]
    BY <2>2 DEF G
  <2> QED BY <1>5, <2>1, <2>3 DEF RecursWith
<1>7. Solves(f)
  <2>1. ASSUME NEW i \in 1 .. n + 1
        PROVE  f[i] = IF i > n THEN <<>> ELSE <<Prefix(t, i)>> \o f[SepEnd(t, NameEnd(t, i))]
    <3>1. i > n => i = n + 1
      BY <1>1
    <3>2. ~(i > n) => i \in 1 .. n
      BY <1>1
    <3> QED BY <1>5, <1>6, <3>1, <3>2 DEF b, RecursWith
  <2>2. f = [i \in 1 .. n + 1 |-> f[i]]
    BY <1>5 DEF RecursWith
  <2> QED BY <2>1, <2>2 DEF n
<1>8. \A g : Solves(g) => g = f
  <2> SUFFICES ASSUME NEW g, Solves(g) PROVE g = f
    OBVIOUS
  <2> DEFINE U == {i \in 1 .. n + 1 : g[i] = f[i]}
  <2>1. \A i \in 1 .. n + 1 : g[i] = IF i > n THEN <<>> ELSE <<Prefix(t, i)>> \o g[SepEnd(t, NameEnd(t, i))]
    BY DEF n
  <2>2. n + 1 \in U
    <3>1. n + 1 \in 1 .. n + 1 /\ n + 1 > n
      BY <1>1
    <3> QED BY <1>5, <2>1, <3>1 DEF b, RecursWith
  <2>3. ASSUME NEW i \in 1 .. n, i + 1 .. n + 1 \subseteq U PROVE i \in U
    <3>1. i \in 1 .. n + 1 /\ ~(i > n)
      BY <1>1
    <3>2. SepEnd(t, NameEnd(t, i)) \in U
      BY <1>2, <2>3
    <3> QED BY <1>6, <2>1, <3>1, <3>2
  <2> HIDE DEF U
  <2>4. 1 .. n + 1 \subseteq U
    BY <1>1, <2>2, <2>3, InductionDown
  <2>5. \A i \in 1 .. n + 1 : g[i] = f[i]
    BY <2>4 DEF U
  <2>6. g = [i \in 1 .. n + 1 |-> g[i]]
    BY DEF n
  <2>7. f = [i \in 1 .. n + 1 |-> f[i]]
    BY <1>5 DEF RecursWith
  <2> QED BY <2>5, <2>6, <2>7
<1>9. path_walk(t) = f[1]
  <2> DEFINE c == CHOOSE g : Solves(g)
  <2>1. path_walk(t) = c[1]
    BY Zenon DEF path_walk, EndOfRun, NameEnd, SepEnd, Prefix
  <2>2. c = f
    <3> HIDE DEF Solves
    <3> QED BY <1>7, <1>8
  <2> QED BY <2>1, <2>2
<1> QED BY <1>2, <1>5, <1>6, <1>9 DEF RecursWith, n, T, b

\* The walk of a path: w are its prefixes, the first of which has no names and each
\* of the others one name more than the one before.
Walks(w, t) ==
  /\ w \in Seq(Text) /\ Len(w) \in Nat \ {0}
  /\ names(w[1]) = <<>>
  /\ \A h \in 2 .. Len(w) : names(w[h]) # <<>> /\ Front(names(w[h])) = names(w[h - 1])
  /\ names(w[Len(w)]) = names(t)

\* Whatever the names are, there is something to walk.
LEMMA WalkTexts ==
  ASSUME NEW t \in Text, t # <<>>, t[1] = Slash
  PROVE  path_walk(t) \in Seq(Text) /\ Len(path_walk(t)) \in Nat \ {0}
<1>1. Len(t) \in Nat \ {0} /\ 1 \in 1 .. Len(t)
  BY EmptySeq DEF Text
<1>2. PICK f : /\ f \in [1 .. Len(t) + 1 -> Seq(Text)]
               /\ f[Len(t) + 1] = <<>> /\ path_walk(t) = f[1]
               /\ \A i \in 1 .. Len(t) : /\ Prefix(t, i) \in Text
                                         /\ SepEnd(t, NameEnd(t, i)) \in i + 1 .. Len(t) + 1
                                         /\ f[i] = <<Prefix(t, i)>> \o f[SepEnd(t, NameEnd(t, i))]
  BY WalkRecursion
<1> DEFINE x == Prefix(t, 1)
           q == f[SepEnd(t, NameEnd(t, 1))]
<1>3. x \in Text /\ q \in Seq(Text) /\ path_walk(t) = <<x>> \o q
  <2>1. /\ SepEnd(t, NameEnd(t, 1)) \in 1 + 1 .. Len(t) + 1 /\ x \in Text
        /\ f[1] = <<Prefix(t, 1)>> \o f[SepEnd(t, NameEnd(t, 1))]
    BY <1>1, <1>2
  <2>2. SepEnd(t, NameEnd(t, 1)) \in 1 .. Len(t) + 1
    BY <1>1, <2>1
  <2> QED BY <1>2, <2>1, <2>2
<1> HIDE DEF x, q
<1>4. <<x>> \in Seq(Text) /\ Len(<<x>>) = 1 /\ Len(q) \in Nat
  BY <1>3
<1>5. <<x>> \o q \in Seq(Text) /\ Len(<<x>> \o q) = 1 + Len(q)
  BY <1>3, <1>4, ConcatProperties
<1> QED BY <1>3, <1>4, <1>5

\* path_walk() walks every absolute path the way its names go.
LEMMA PathWalked ==
  ASSUME NEW t \in Text, t # <<>>, t[1] = Slash, Backslash \notin ToSet(t)
  PROVE  Walks(path_walk(t), t)
<1> DEFINE n == Len(t)
<1>0. ASSUME NEW i \in 1 .. Len(t) + 1
      PROVE  /\ NameEnd(t, i) \in i .. Len(t) + 1
             /\ NameEnd(t, i) > Len(t) \/ t[NameEnd(t, i)] = Slash
             /\ \A h \in i .. NameEnd(t, i) - 1 : t[h] # Slash
             /\ SepEnd(t, i) \in i .. Len(t) + 1
             /\ SepEnd(t, i) > Len(t) \/ t[SepEnd(t, i)] # Slash
             /\ \A h \in i .. SepEnd(t, i) - 1 : t[h] = Slash
  <2>1. \A h \in 1 .. Len(t) : (t[h] \in PathSeps) = (t[h] = Slash)
    BY DEF ToSet, PathSeps, Text
  <2>2. Len(t) \in Nat
    BY DEF Text
  <2> DEFINE a == NameEnd(t, i)
             b == SepEnd(t, i)
  <2>3. /\ a \in i .. Len(t) + 1
        /\ a > Len(t) \/ t[a] \in PathSeps
        /\ \A h \in i .. a - 1 : t[h] \notin PathSeps
        /\ b \in i .. Len(t) + 1
        /\ b > Len(t) \/ t[b] \notin PathSeps
        /\ \A h \in i .. b - 1 : t[h] \in PathSeps
    BY EndsFound
  <2> HIDE DEF a, b
  <2>4. a > Len(t) \/ t[a] = Slash
    BY <2>1, <2>2, <2>3
  <2>5. b > Len(t) \/ t[b] # Slash
    BY <2>1, <2>2, <2>3
  <2>6. \A h \in i .. a - 1 : t[h] # Slash
    BY <2>1, <2>2, <2>3
  <2>7. \A h \in i .. b - 1 : t[h] = Slash
    BY <2>1, <2>2, <2>3
  <2> QED BY <2>3, <2>4, <2>5, <2>6, <2>7 DEF a, b
<1>1. n \in Nat \ {0} /\ 1 \in 1 .. n
  BY EmptySeq DEF Text
<1>2. PICK z : /\ z \in [0 .. Len(t) -> Seq(Text)]
               /\ z[0] = <<>> /\ names(t) = z[Len(t)]
               /\ \A h \in 1 .. Len(t) : z[h] = NextName(t, z[h - 1], h)
  BY NamesChain
<1>3. PICK f : /\ f \in [1 .. Len(t) + 1 -> Seq(Text)]
               /\ f[Len(t) + 1] = <<>> /\ path_walk(t) = f[1]
               /\ \A i \in 1 .. Len(t) : /\ Prefix(t, i) \in Text
                                         /\ SepEnd(t, NameEnd(t, i)) \in i + 1 .. Len(t) + 1
                                         /\ f[i] = <<Prefix(t, i)>> \o f[SepEnd(t, NameEnd(t, i))]
  BY WalkRecursion
<1> DEFINE Begins(i) == i # 1 /\ t[i - 1] = Slash /\ (i <= n => t[i] # Slash)
           U == {i \in 1 .. n + 1 : Begins(i) => Trail(f[i], z[i - 1], z[n])}
<1>4. n + 1 \in U
  <2>1. f[n + 1] = <<>> /\ (n + 1) - 1 = n /\ n + 1 \in 1 .. n + 1
    BY <1>1, <1>3
  <2>2. Trail(<<>>, z[n], z[n])
    <3>1. Len(<<>>) = 0 /\ <<>> \in Seq(Text)
      OBVIOUS
    <3> QED BY <3>1 DEF Trail
  <2> HIDE DEF n
  <2> QED BY <2>1, <2>2
<1>5. ASSUME NEW i \in 1 .. n, i + 1 .. n + 1 \subseteq U PROVE i \in U
  <2> SUFFICES ASSUME i # 1, t[i - 1] = Slash, i <= n => t[i] # Slash
               PROVE  Trail(f[i], z[i - 1], z[n])
    BY <1>1
  <2> DEFINE l == NameEnd(t, i)
             j == SepEnd(t, l)
             x == SubSeq(t, 1, l - 1)
  <2>1. i <= n /\ t[i] # Slash /\ i \in Nat /\ i - 1 \in 0 .. n
    BY <1>1
  <2>2. l \in i .. n + 1 /\ (l > n \/ t[l] = Slash) /\ \A h \in i .. l - 1 : t[h] # Slash
    BY <1>1, <1>0
  <2>3. l # i /\ l \in 1 .. n + 1 /\ l - 1 \in i .. n /\ l - 1 \in 0 .. n
    BY <1>1, <2>1, <2>2
  <2>4. j \in l .. n + 1 /\ (j > n \/ t[j] # Slash) /\ \A h \in l .. j - 1 : t[h] = Slash
    BY <2>3, <1>0
  <2>5. j \in i + 1 .. n + 1 /\ f[i] = <<x>> \o f[j] /\ x \in Text
    BY <1>3, <2>3 DEF Prefix
  <2>6. names(x) = z[l - 1]
    BY <1>2, <2>3, NamesOfPrefix
  <2>7. z[l - 1] # <<>> /\ Front(z[l - 1]) = z[i - 1]
    BY <1>2, <2>1, <2>2, <2>3, NameRead
  <2>8. z[j - 1] = z[l - 1]
    BY <1>2, <2>3, <2>4, SeparatorsRead
  <2> HIDE DEF l, j, x
  <2>9. Trail(f[j], z[j - 1], z[n])
    <3>1. CASE j > n
      <4>1. j = n + 1
        BY <1>1, <2>4, <3>1
      <4>2. Trail(<<>>, z[n], z[n])
        <5>1. Len(<<>>) = 0 /\ <<>> \in Seq(Text)
          OBVIOUS
        <5> QED BY <5>1 DEF Trail
      <4>3. (n + 1) - 1 = n
        BY <1>1
      <4>4. f[j] = <<>> /\ j - 1 = n
        BY <1>3, <4>1, <4>3
      <4> QED BY <4>2, <4>4
    <3>2. CASE ~(j > n)
      <4>1. j # l /\ j # 1 /\ j - 1 \in l .. j - 1
        BY <1>1, <2>2, <2>3, <2>4, <2>5, <3>2
      <4>2. t[j - 1] = Slash
        BY <2>4, <4>1
      <4>3. Begins(j)
        BY <2>4, <3>2, <4>1, <4>2
      <4>4. j \in U
        BY <1>5, <2>5
      <4> QED BY <4>3, <4>4
    <3> QED BY <3>1, <3>2
  <2>10. Trail(<<x>> \o f[j], z[i - 1], z[n])
    BY <2>5, <2>6, <2>7, <2>8, <2>9, TrailGrows
  <2> QED BY <2>5, <2>10
<1>6. 1 .. n + 1 \subseteq U
  <2>1. n \in Nat
    BY <1>1
  <2> HIDE DEF U, n
  <2> QED BY <1>4, <1>5, <2>1, InductionDown
<1> DEFINE j == SepEnd(t, 1)
           x == SubSeq(t, 1, 1)
<1>7. NameEnd(t, 1) = 1
  <2>1. /\ NameEnd(t, 1) \in 1 .. n + 1
        /\ \A h \in 1 .. NameEnd(t, 1) - 1 : t[h] # Slash
    BY <1>1, <1>0
  <2> QED BY <1>1, <2>1
<1>8. j \in 1 .. n + 1 /\ (j > n \/ t[j] # Slash) /\ \A h \in 1 .. j - 1 : t[h] = Slash
  BY <1>1, <1>0
<1>9. j # 1 /\ path_walk(t) = <<x>> \o f[j] /\ x \in Text /\ j \in 2 .. n + 1
  <2>1. /\ Prefix(t, 1) \in Text /\ SepEnd(t, NameEnd(t, 1)) \in 1 + 1 .. n + 1
        /\ f[1] = <<Prefix(t, 1)>> \o f[SepEnd(t, NameEnd(t, 1))]
    BY <1>1, <1>3
  <2>2. Prefix(t, 1) = x
    BY <1>7 DEF Prefix
  <2>3. j \in 2 .. n + 1
    BY <1>7, <2>1
  <2> HIDE DEF x, j
  <2>4. j # 1
    BY <2>3
  <2> QED BY <1>3, <1>7, <2>1, <2>2, <2>3, <2>4 DEF j
<1>10. z[j - 1] = <<>>
  <2>1. z[j - 1] = z[1 - 1]
    <3>1. 1 \in 1 .. n + 1
      BY <1>1
    <3> HIDE DEF j
    <3> QED BY <1>2, <1>8, <3>1, SeparatorsRead
  <2> QED BY <1>2, <2>1
<1>11. names(x) = <<>>
  <2>1. names(x) = z[1]
    BY <1>1, <1>2, NamesOfPrefix
  <2>2. z[1] = NextName(t, z[1 - 1], 1)
    BY <1>1, <1>2
  <2>3. z[1 - 1] = <<>>
    BY <1>2
  <2> QED BY <2>1, <2>2, <2>3 DEF NextName
<1> HIDE DEF j, x
<1>12. Trail(f[j], <<>>, z[n])
  <2>1. Begins(j)
    <3>1. j - 1 \in 1 .. j - 1 /\ ~(j <= n /\ j > n)
      BY <1>1, <1>9
    <3> QED BY <1>8, <1>9, <3>1
  <2> QED BY <1>6, <1>8, <1>10, <2>1
<1> DEFINE q == f[j]
           m == Len(q)
           w == <<x>> \o q
<1>13. q \in Seq(Text) /\ m \in Nat
  BY <1>12 DEF Trail
<1>14. w \in Seq(Text) /\ Len(w) = m + 1 /\ w[1] = x /\ \A h \in 2 .. m + 1 : w[h] = q[h - 1]
  <2>1. Len(<<x>>) = 1 /\ <<x>>[1] = x /\ <<x>> \in Seq(Text)
    BY <1>9
  <2>2. /\ w \in Seq(Text) /\ Len(w) = 1 + m
        /\ \A i \in 1 .. 1 + m : w[i] = IF i <= 1 THEN <<x>>[i] ELSE q[i - 1]
    BY <1>13, <2>1, ConcatProperties
  <2> HIDE DEF w, m, q
  <2> QED BY <1>13, <2>1, <2>2
<1> HIDE DEF w
<1>15. ASSUME NEW h \in 2 .. m + 1 PROVE names(w[h]) # <<>> /\ Front(names(w[h])) = names(w[h - 1])
  <2>1. h - 1 \in 1 .. m
    BY <1>13
  <2>2. names(q[h - 1]) # <<>> /\ Front(names(q[h - 1])) = IF h - 1 = 1 THEN <<>> ELSE names(q[(h - 1) - 1])
    BY <1>12, <2>1 DEF Trail
  <2>3. CASE h = 2
    BY <1>11, <1>14, <2>2, <2>3
  <2>4. CASE h # 2
    <3>1. h - 1 \in 2 .. m + 1 /\ h - 1 # 1
      BY <1>13, <2>4
    <3> QED BY <1>14, <2>2, <3>1
  <2> QED BY <2>3, <2>4
<1>16. names(w[m + 1]) = z[n]
  <2>1. CASE m = 0
    BY <1>11, <1>12, <1>14, <2>1 DEF Trail
  <2>2. CASE m # 0
    <3>1. m + 1 \in 2 .. m + 1 /\ (m + 1) - 1 = m
      BY <1>13, <2>2
    <3> QED BY <1>12, <1>14, <2>2, <3>1 DEF Trail
  <2> QED BY <2>1, <2>2
<1>17. m + 1 \in Nat \ {0}
  BY <1>13
<1>18. Walks(w, t)
  <2> HIDE DEF q, m
  <2> QED BY <1>2, <1>11, <1>14, <1>15, <1>16, <1>17 DEF Walks, n
<1> QED BY <1>9, <1>18 DEF w

-----------------------------------------------------------------------------
(* The file system: Lookup(), mkdir(2) and what they leave of each other.  *)

\* Lookup(): the next name.
NextPlace(f, u, z, n) ==
  LET p == Append(z.at, n)
  IN CASE z.err # "" -> z
       [] z.err = "" /\ f[z.at].type = "file" -> [z EXCEPT !.err = "ENOTDIR"]
       [] z.err = "" /\ f[z.at].type = "closed" /\ u # Root -> [z EXCEPT !.err = "EACCES"]
       [] z.err = "" /\ f[z.at].type # "file" /\ (f[z.at].type = "closed" => u = Root) ->
            IF n = Dot THEN z
            ELSE IF n = DotDot THEN [z EXCEPT !.at = Parent(@)]
            ELSE IF p \notin DOMAIN f \/ (f[p].type = "link" /\ f[p].to \notin DOMAIN f)
            THEN [z EXCEPT !.err = "ENOENT"]
            ELSE [z EXCEPT !.at = IF f[p].type = "link" THEN f[p].to ELSE p]

\* There is a root, and every place has one above it.
Rooted(f) == <<>> \in DOMAIN f /\ \A p \in DOMAIN f \ {<<>>} : Front(p) \in DOMAIN f

\* Where Lookup() can be: in a place that exists, with or without an error.
Places(f) == [err : {"", "ENOTDIR", "EACCES", "ENOENT"}, at : DOMAIN f]

\* It leads to a place that exists.
LEMMA NextPlaceTyped ==
  ASSUME NEW f, Rooted(f), NEW u, NEW z \in Places(f), NEW n
  PROVE  NextPlace(f, u, z, n) \in Places(f)
<1>1. Parent(z.at) \in DOMAIN f
  BY DEF Parent, Places, Rooted
<1>2. z.at \in DOMAIN f /\ z.err \in {"", "ENOTDIR", "EACCES", "ENOENT"} /\ z = [err |-> z.err, at |-> z.at]
  BY DEF Places
<1> QED BY <1>1, <1>2 DEF NextPlace, Places

\* z are the places the names of a path lead to.
Leads(z, f, u, path) ==
  /\ z \in [0 .. Len(path) -> Places(f)] /\ z[0] = [err |-> "", at |-> <<>>]
  /\ \A h \in 1 .. Len(path) : z[h] = NextPlace(f, u, z[h - 1], path[h])

\* Lookup(), name by name.
LEMMA LookupChain ==
  ASSUME NEW f, Rooted(f), NEW u, NEW path \in Seq(Text)
  PROVE  \E z : Leads(z, f, u, path) /\ Lookup(f, u, path) = z[Len(path)]
<1> DEFINE n == Len(path)
           T == Places(f)
           b == [err |-> "", at |-> <<>>]
           G == [p \in T \X (1 .. n) |-> NextPlace(f, u, p[1], path[p[2]])]
           Solves(g) == g = [s \in SUBSET DOMAIN path |->
                               IF s = {} THEN [err |-> "", at |-> <<>>]
                               ELSE NextPlace(f, u, g[s \ {Max(s)}], path[Max(s)])]
           it == CHOOSE g : Solves(g)
<1>1. n \in Nat /\ DOMAIN path = 1 .. n /\ b \in T
  BY DEF Places, Rooted
<1>2. \A z \in T, i \in 1 .. n : NextPlace(f, u, z, path[i]) \in T
  BY NextPlaceTyped
<1>3. G \in [T \X (1 .. n) -> T]
  <2> HIDE DEF T, n
  <2> QED BY <1>2
<1>4. \A z \in T, i \in 1 .. n : G[<<z, i>>] = NextPlace(f, u, z, path[i])
  <2> HIDE DEF T, n
  <2> QED OBVIOUS
<1> HIDE DEF G, T, n, b
<1>5. PICK h : FoldsWith(h, n, T, b, G)
  BY <1>1, <1>3, FoldExists
<1>6. ASSUME NEW s \in SUBSET (1 .. n), s # {}
      PROVE  h[s] = NextPlace(f, u, h[s \ {Max(s)}], path[Max(s)])
  <2>1. Max(s) \in 1 .. n
    BY <1>1, <1>6, LastPosition
  <2>2. h[s \ {Max(s)}] \in T
    BY <1>5 DEF FoldsWith
  <2>3. h[s] = G[<<h[s \ {Max(s)}], Max(s)>>]
    BY <1>5, <1>6 DEF FoldsWith
  <2> QED BY <1>4, <2>1, <2>2, <2>3
<1>7. Solves(h)
  BY <1>1, <1>5, <1>6 DEF FoldsWith, b
<1>8. Solves(it)
  <2> HIDE DEF Solves
  <2> QED BY <1>7
<1>9. Lookup(f, u, path) = it[DOMAIN path]
  BY Zenon DEF Lookup, FoldLeft, MapThenFoldSet, NextPlace
<1> HIDE DEF it
<1>10. it[{}] = b
  BY <1>8 DEF b
<1>11. ASSUME NEW s \in SUBSET (1 .. n), s # {}, it[s \ {Max(s)}] \in T
       PROVE  it[s] = G[<<it[s \ {Max(s)}], Max(s)>>]
  <2>1. Max(s) \in 1 .. n
    BY <1>1, <1>11, LastPosition
  <2>2. it[s] = NextPlace(f, u, it[s \ {Max(s)}], path[Max(s)])
    BY <1>1, <1>8, <1>11
  <2> QED BY <1>4, <1>11, <2>1, <2>2
<1>12. PICK z : Chain(z, n, T, b, G) /\ z[n] = it[1 .. n]
  <2>1. Iterates(it, n, T, b, G)
    BY <1>1, <1>3, <1>10, <1>11 DEF Iterates
  <2> QED BY <2>1, FoldChain
<1>13. ASSUME NEW y \in 1 .. n PROVE z[y] = NextPlace(f, u, z[y - 1], path[y])
  <2>1. y - 1 \in 0 .. n
    BY <1>1
  <2>2. z[y - 1] \in T
    BY <1>12, <2>1 DEF Chain
  <2> QED BY <1>4, <1>12, <2>2 DEF Chain
<1>14. z \in [0 .. n -> T] /\ z[0] = b
  BY <1>12 DEF Chain
<1> QED BY <1>1, <1>9, <1>12, <1>13, <1>14 DEF n, T, b, Leads

\* Lookup() of a path, by the path without its last name.
LEMMA LookupStep ==
  ASSUME NEW f, Rooted(f), NEW u
  PROVE  /\ Lookup(f, u, <<>>) = [err |-> "", at |-> <<>>]
         /\ \A path \in Seq(Text) :
              /\ Lookup(f, u, path) \in Places(f)
              /\ path # <<>> => Lookup(f, u, path) = NextPlace(f, u, Lookup(f, u, Front(path)), Last(path))
<1>1. Lookup(f, u, <<>>) = [err |-> "", at |-> <<>>]
  <2>1. <<>> \in Seq(Text) /\ Len(<<>>) = 0
    OBVIOUS
  <2>2. PICK z : Leads(z, f, u, <<>>) /\ Lookup(f, u, <<>>) = z[Len(<<>>)]
    BY <2>1, LookupChain
  <2> QED BY <2>1, <2>2 DEF Leads
<1>2. ASSUME NEW path \in Seq(Text)
      PROVE  /\ Lookup(f, u, path) \in Places(f)
             /\ path # <<>> => Lookup(f, u, path) = NextPlace(f, u, Lookup(f, u, Front(path)), Last(path))
  <2> DEFINE n == Len(path)
             q == Front(path)
  <2>1. PICK z : Leads(z, f, u, path) /\ Lookup(f, u, path) = z[Len(path)]
    BY LookupChain
  <2>2. /\ z \in [0 .. n -> Places(f)]
        /\ z[0] = [err |-> "", at |-> <<>>] /\ Lookup(f, u, path) = z[n]
        /\ \A h \in 1 .. n : z[h] = NextPlace(f, u, z[h - 1], path[h])
    BY <2>1 DEF Leads
  <2>3. Lookup(f, u, path) \in Places(f)
    <3>1. n \in 0 .. n
      OBVIOUS
    <3> HIDE DEF n
    <3> QED BY <2>2, <3>1
  <2>4. ASSUME path # <<>>
        PROVE  Lookup(f, u, path) = NextPlace(f, u, Lookup(f, u, Front(path)), Last(path))
    <3>1. /\ n \in Nat \ {0} /\ q \in Seq(Text) /\ Len(q) = n - 1
          /\ \A h \in 1 .. n - 1 : q[h] = path[h]
      BY <2>4, FrontProperties
    <3> HIDE DEF q
    <3>2. PICK p : Leads(p, f, u, q) /\ Lookup(f, u, q) = p[Len(q)]
      <4>1. q \in Seq(Text)
        BY <3>1
      <4> QED BY <4>1, LookupChain
    <3>3. /\ p \in [0 .. Len(q) -> Places(f)]
          /\ p[0] = [err |-> "", at |-> <<>>] /\ Lookup(f, u, q) = p[Len(q)]
          /\ \A h \in 1 .. Len(q) : p[h] = NextPlace(f, u, p[h - 1], q[h])
      BY <3>2 DEF Leads
    <3> DEFINE U == {h \in 0 .. n - 1 : z[h] = p[h]}
    <3>4. Last(path) = path[n]
      BY DEF Last
    <3> HIDE DEF n
    <3>5. 0 \in U
      <4>1. 0 \in 0 .. n - 1
        BY <3>1
      <4> QED BY <2>2, <3>3, <4>1
    <3>6. ASSUME NEW h \in 0 .. (n - 1) - 1, h \in U PROVE h + 1 \in U
      <4>1. h + 1 \in 1 .. n - 1 /\ (h + 1) - 1 = h /\ h + 1 \in 1 .. n /\ h + 1 \in 0 .. n - 1
        BY <3>1
      <4>2. z[h + 1] = NextPlace(f, u, z[h], path[h + 1]) /\ p[h + 1] = NextPlace(f, u, p[h], q[h + 1])
        BY <2>2, <3>1, <3>3, <4>1
      <4>3. q[h + 1] = path[h + 1]
        BY <3>1, <4>1
      <4> QED BY <3>6, <4>1, <4>2, <4>3
    <3> HIDE DEF U
    <3>7. n - 1 \in Nat
      BY <3>1
    <3>8. 0 .. n - 1 \subseteq U
      BY <3>5, <3>6, <3>7, InductionTo
    <3>9. n - 1 \in U
      BY <3>7, <3>8
    <3>10. z[n - 1] = Lookup(f, u, q)
      BY <3>1, <3>3, <3>9 DEF U
    <3>11. n \in 1 .. n
      BY <3>1
    <3>12. z[n] = NextPlace(f, u, z[n - 1], path[n])
      BY <2>2, <3>11
    <3> QED BY <2>2, <3>4, <3>10, <3>12 DEF q
  <2> QED BY <2>3, <2>4
<1> QED BY <1>1, <1>2

\* g has what f has, and may have more.
Enlarges(g, f) ==
  /\ DOMAIN f \subseteq DOMAIN g
  /\ \A p \in DOMAIN f : /\ g[p].type = f[p].type
                         /\ f[p].type = "link" => g[p].to = f[p].to

\* A path leads somewhere.
Found(f, u, path) == Lookup(f, u, path).err = ""

\* A path that leads somewhere leads there in a larger file system, too, and for root.
LEMMA LookupKept ==
  ASSUME NEW f, NEW g, Rooted(f), Rooted(g), Enlarges(g, f), NEW u, NEW v, v \in {u, Root},
         NEW w \in Seq(Text), Found(f, u, w)
  PROVE  Lookup(g, v, w) = Lookup(f, u, w)
<1> DEFINE U == {m \in Nat : \A path \in Seq(Text) :
                   Len(path) = m /\ Lookup(f, u, path).err = "" => Lookup(g, v, path) = Lookup(f, u, path)}
<1>1. Rooted(g)
  OBVIOUS
<1>2. 0 \in U
  <2>1. \A path \in Seq(Text) : Len(path) = 0 => path = <<>>
    BY EmptySeq
  <2>2. Lookup(f, u, <<>>) = Lookup(g, v, <<>>)
    BY <1>1, LookupStep
  <2> QED BY <2>1, <2>2
<1>3. ASSUME NEW m \in Nat, m \in U PROVE m + 1 \in U
  <2>1. m + 1 \in Nat
    OBVIOUS
  <2>2. SUFFICES ASSUME NEW path \in Seq(Text), Len(path) = m + 1, Lookup(f, u, path).err = ""
                 PROVE  Lookup(g, v, path) = Lookup(f, u, path)
    BY <2>1
  <2> DEFINE a == Lookup(f, u, Front(path))
             b == Lookup(g, v, Front(path))
             n == Last(path)
  <2>3. path # <<>>
    <3>1. m + 1 # 0 /\ Len(<<>>) = 0
      OBVIOUS
    <3> QED BY <2>2, <3>1
  <2>4. Front(path) \in Seq(Text) /\ Len(Front(path)) = m
    <3>1. Front(path) \in Seq(Text) /\ Len(Front(path)) = Len(path) - 1
      BY <2>3, FrontProperties
    <3>2. (m + 1) - 1 = m
      OBVIOUS
    <3> QED BY <2>2, <3>1, <3>2
  <2>5. Lookup(f, u, path) = NextPlace(f, u, a, n) /\ a \in Places(f)
    BY <2>3, <2>4, LookupStep
  <2>6. Lookup(g, v, path) = NextPlace(g, v, b, n)
    BY <1>1, <2>3, <2>4, LookupStep
  <2> HIDE DEF n
  <2>7. a.err = "" => b = a
    BY <1>3, <2>4
  <2> HIDE DEF a, b, U
  <2>8. a.err = ""
    BY <2>2, <2>5 DEF NextPlace, Places
  <2>9. NextPlace(f, u, a, n).err = ""
    BY <2>2, <2>5
  <2>10. NextPlace(g, v, a, n) = NextPlace(f, u, a, n)
    BY <2>5, <2>8, <2>9 DEF NextPlace, Places, Enlarges
  <2> QED BY <2>5, <2>6, <2>7, <2>8, <2>10
<1> HIDE DEF U
<1>4. Nat \subseteq U
  BY <1>2, <1>3, Induction
<1>5. Len(w) \in U
  BY <1>4
<1> QED BY <1>5 DEF U, Found

\* A file system is one of the same, and one with more of a third with more.
LEMMA EnlargesOrder ==
  ASSUME NEW f, NEW g, NEW h
  PROVE  Enlarges(f, f) /\ (Enlarges(g, f) /\ Enlarges(h, g) => Enlarges(h, f))
  BY DEF Enlarges

\* A path below one that leads nowhere leads nowhere.
LEMMA LookupFails ==
  ASSUME NEW f, Rooted(f), NEW u, NEW path \in Seq(Text), path # <<>>,
         Lookup(f, u, Front(path)).err # ""
  PROVE  Lookup(f, u, path) = Lookup(f, u, Front(path))
  BY LookupStep DEF NextPlace

\* What mkdir() has done, if it succeeds: m is its result, l where the path leads
\* without its last name.
Makes(m, l, f, path) ==
  /\ IsFileSystem(m.fs) /\ Enlarges(m.fs, f)
  /\ l.err = "" /\ m.at = Append(l.at, Last(path)) /\ m.at \notin DOMAIN f
  /\ m.at # <<>> /\ m.at \in Seq(Text) /\ l.at \in DOMAIN f /\ l.at \in Seq(Text)
  /\ DOMAIN m.fs = DOMAIN f \cup {m.at}
  /\ m.fs[m.at].type = "dir"
  /\ Lookup(m.fs, Root, path) = [err |-> "", at |-> m.at]
  /\ IsDirectory(m.fs, Root, path)

\* mkdir() that succeeds makes a directory, at a place where nothing was.
LEMMA MkdirMakes ==
  ASSUME NEW f, IsFileSystem(f), NEW u, NEW path \in Seq(Text), path # <<>>, mkdir(f, u, path).ok
  PROVE  Makes(mkdir(f, u, path), Lookup(f, u, Front(path)), f, path)
<1> DEFINE m == mkdir(f, u, path)
           l == Lookup(f, u, Front(path))
           p == Append(l.at, Last(path))
           d == [type |-> "dir", user |-> u = User]
           g == [q \in DOMAIN f \cup {p} |-> IF q = p THEN d ELSE f[q]]
<1>1. /\ m.at = p /\ m.ok /\ m.fs = g
      /\ l.err = "" /\ p \notin DOMAIN f /\ f[l.at].type \in {"dir", "closed"}
      /\ Last(path) \notin {Dot, DotDot}
  BY DEF mkdir
<1>2. /\ Front(path) \in Seq(Text) /\ l \in Places(f) /\ <<>> \in DOMAIN f /\ DOMAIN f \subseteq Seq(Text)
      /\ Rooted(f)
  <2>1. Rooted(f) /\ Front(path) \in Seq(Text)
    BY FrontProperties DEF IsFileSystem, Rooted
  <2> QED BY <2>1, LookupStep DEF IsFileSystem
<1>3. Last(path) \in Text
  BY FrontProperties DEF Last
<1>4. l.at \in DOMAIN f /\ l.at \in Seq(Text)
  BY <1>2 DEF Places
<1>5. p \in Seq(Text) /\ p # <<>> /\ Front(p) = l.at /\ Last(p) = Last(path)
  <2> DEFINE s == l.at
             e == Last(path)
  <2>1. s \in Seq(Text) /\ e \in Text
    BY <1>3, <1>4
  <2> HIDE DEF s, e
  <2>2. Last(Append(s, e)) = e
    BY <2>1 DEF Last
  <2> QED BY <2>1, <2>2, FrontOfAppend DEF s, e
<1>6. d \in Nodes
  BY DEF Nodes
<1> HIDE DEF m, l, p, d
<1>7. g \in [DOMAIN f \cup {p} -> Nodes]
  BY <1>6 DEF IsFileSystem
<1>8. DOMAIN g = DOMAIN f \cup {p} /\ g[p] = d /\ \A q \in DOMAIN f : g[q] = f[q]
  BY <1>1
<1> HIDE DEF g
<1>9. Enlarges(g, f)
  BY <1>8 DEF Enlarges
<1>10. IsFileSystem(g)
  <2>1. DOMAIN g \subseteq Seq(Text) /\ g \in [DOMAIN g -> Nodes] /\ <<>> \in DOMAIN g
    BY <1>2, <1>5, <1>7, <1>8
  <2>2. ASSUME NEW q \in DOMAIN g \ {<<>>}
        PROVE  /\ Front(q) \in DOMAIN g /\ g[Front(q)].type \in {"dir", "closed"}
               /\ Last(q) \notin {Dot, DotDot}
    <3>1. CASE q = p
      BY <1>1, <1>4, <1>5, <1>8, <3>1
    <3>2. CASE q # p
      BY <1>8, <3>2 DEF IsFileSystem
    <3> QED BY <3>1, <3>2
  <2> QED BY <2>1, <2>2 DEF IsFileSystem
<1>11. Lookup(g, Root, Front(path)) = l
  <2> DEFINE w == Front(path)
  <2>1. w \in Seq(Text) /\ Lookup(f, u, w) = l /\ Rooted(f) /\ Rooted(g)
    BY <1>2, <1>10 DEF l, IsFileSystem, Rooted
  <2> HIDE DEF w
  <2>2. Found(f, u, w)
    BY <1>1, <2>1 DEF Found
  <2>3. Lookup(g, Root, w) = Lookup(f, u, w)
    BY <1>9, <2>1, <2>2, LookupKept
  <2> QED BY <2>1, <2>3 DEF w
<1>12. Lookup(g, Root, path) = NextPlace(g, Root, l, Last(path))
  <2>1. Rooted(g)
    BY <1>10 DEF IsFileSystem, Rooted
  <2> QED BY <1>11, <2>1, LookupStep
<1>13. g[l.at] = f[l.at] /\ g[p].type = "dir"
  BY <1>4, <1>8 DEF d
<1>14. NextPlace(g, Root, l, Last(path)) = [l EXCEPT !.at = p]
  BY <1>1, <1>8, <1>13 DEF NextPlace, p
<1>15. [l EXCEPT !.at = p] = [err |-> "", at |-> p]
  <2>1. l = [err |-> l.err, at |-> l.at]
    BY <1>2 DEF Places
  <2> DEFINE e == l.err
             a == l.at
  <2>2. l = [err |-> e, at |-> a] /\ e = ""
    BY <1>1, <2>1
  <2> HIDE DEF e, a
  <2>3. [l EXCEPT !.at = p] = [[err |-> e, at |-> a] EXCEPT !.at = p]
    BY <2>2, Zenon
  <2>4. [[err |-> e, at |-> a] EXCEPT !.at = p] = [err |-> e, at |-> p]
    OBVIOUS
  <2> QED BY <2>2, <2>3, <2>4
<1>16. Lookup(g, Root, path) = [err |-> "", at |-> p]
  BY <1>12, <1>14, <1>15
<1>17. IsDirectory(g, Root, path)
  <2> DEFINE b == Lookup(g, Root, path)
  <2>1. b.err = "" /\ b.at = p
    <3>1. b = [err |-> "", at |-> p]
      BY <1>16
    <3> HIDE DEF b
    <3> QED BY <3>1
  <2> HIDE DEF b
  <2>2. g[b.at].type = "dir"
    BY <1>13, <2>1
  <2> QED BY <2>1, <2>2 DEF IsDirectory, b
<1> QED BY <1>1, <1>4, <1>5, <1>8, <1>9, <1>10, <1>13, <1>16, <1>17 DEF m, l, p, Makes

\* Where a place of a walk is found, the ones before it are.
LEMMA FoundBefore ==
  ASSUME NEW f, Rooted(f), NEW u, NEW t, NEW w, Walks(w, t),
         NEW j \in 1 .. Len(w), Found(f, u, names(w[j])),
         \A h \in 1 .. Len(w) : names(w[h]) \in Seq(Text)
  PROVE  \A i \in 1 .. j : Found(f, u, names(w[i]))
<1> DEFINE n == Len(w)
           At(i) == Found(f, u, names(w[i]))
           U == {d \in Nat : d < j => At(j - d)}
<1>1. n \in Nat /\ j \in 1 .. n /\ j \in Int
  BY DEF Walks
<1>2. At(j)
  OBVIOUS
<1>3. ASSUME NEW h \in 2 .. n, At(h) PROVE At(h - 1)
  <2>1. names(w[h]) # <<>> /\ Front(names(w[h])) = names(w[h - 1]) /\ names(w[h]) \in Seq(Text)
    <3>1. h \in 1 .. n
      BY <1>1
    <3> QED BY <3>1 DEF Walks
  <2>2. ~Found(f, u, Front(names(w[h]))) => Lookup(f, u, names(w[h])) = Lookup(f, u, Front(names(w[h])))
    BY <2>1, LookupFails DEF Found
  <2> QED BY <1>3, <2>1, <2>2 DEF Found
<1> HIDE DEF At
<1>4. 0 \in U
  <2>1. j - 0 = j
    BY <1>1
  <2> QED BY <1>2, <2>1
<1>5. ASSUME NEW d \in Nat, d \in U PROVE d + 1 \in U
  <2>1. d + 1 < j => j - d \in 2 .. n /\ (j - d) - 1 = j - (d + 1) /\ d < j
    BY <1>1
  <2> QED BY <1>3, <1>5, <2>1
<1> HIDE DEF U, n
<1>6. Nat \subseteq U
  BY <1>4, <1>5, Induction
<1>7. \A i \in 1 .. j : At(i)
  <2> SUFFICES ASSUME NEW i \in 1 .. j PROVE At(i)
    OBVIOUS
  <2>1. j - i \in Nat /\ j - i < j /\ j - (j - i) = i
    BY <1>1
  <2> QED BY <1>6, <2>1 DEF U
<1> QED BY <1>7 DEF At

\* names() gives names.
LEMMA NamesTyped ==
  ASSUME NEW t \in Text
  PROVE  names(t) \in Seq(Text)
<1>1. PICK z : /\ z \in [0 .. Len(t) -> Seq(Text)]
               /\ z[0] = <<>> /\ names(t) = z[Len(t)]
               /\ \A h \in 1 .. Len(t) : z[h] = NextName(t, z[h - 1], h)
  BY NamesChain
<1>2. Len(t) \in 0 .. Len(t)
  BY DEF Text
<1> QED BY <1>1, <1>2

\* What the walk leads to is outside the system directories where it ends: at its
\* end, or before the first place that is not found.
StopsOutside(f, u, w) ==
  \A i \in 2 .. Len(w) + 1 :
    /\ Found(f, u, names(w[i - 1]))
    /\ i <= Len(w) => ~Found(f, u, names(w[i]))
    => ~InSystemDir(Lookup(f, u, names(w[i - 1])).at)

\* What check_mountpoint() accepts is an absolute path, and what it trusts does not
\* end in a system directory, if no backslash is in it.
LEMMA Accepted ==
  ASSUME NEW f, Rooted(f), NEW u, NEW t \in Text, check_mountpoint(f, u, t) # "reject"
  PROVE  /\ t # <<>> /\ t[1] = Slash
         /\ check_mountpoint(f, u, t) = "trusted" /\ Backslash \notin ToSet(t) =>
              StopsOutside(f, u, path_walk(t))
<1> DEFINE w == path_walk(t)
           n == Len(w)
           At(i) == Lookup(f, u, names(w[i]))
           Ok(i) == Found(f, u, names(w[i]))
           Bad   == {i \in DOMAIN w : ~Ok(i)}
           first == CHOOSE i \in Bad : \A j \in Bad : i <= j
           last  == IF Bad = {} THEN n ELSE first - 1
<1>1. t # <<>> /\ t[1] = Slash
  BY DEF check_mountpoint
<1>2. check_mountpoint(f, u, t) = "trusted" => ~InSystemDir(At(last).at)
  BY <1>1 DEF check_mountpoint, Found
<1> SUFFICES ASSUME Backslash \notin ToSet(t)
             PROVE  check_mountpoint(f, u, t) = "trusted" => StopsOutside(f, u, w)
  BY <1>1
<1>3. Walks(w, t)
  BY <1>1, PathWalked
<1>4. n \in Nat /\ DOMAIN w = 1 .. n
  BY <1>3 DEF Walks
<1>5. \A h \in 1 .. n : names(w[h]) \in Seq(Text)
  <2>1. w \in Seq(Text)
    BY <1>3 DEF Walks
  <2> HIDE DEF w
  <2> QED BY <2>1, NamesTyped
<1>6. \A j \in 1 .. n : Ok(j) => \A i \in 1 .. j : Ok(i)
  <2> HIDE DEF w
  <2> QED BY <1>3, <1>5, FoundBefore
<1>7. Bad = {i \in 1 .. n : ~Ok(i)} /\ n \in Nat
  BY <1>4
<1> HIDE DEF w, At, Ok, Bad, n
<1>8. ASSUME NEW i \in 2 .. n + 1, Ok(i - 1), i <= n => ~Ok(i)
      PROVE  last = i - 1
  <2>1. i - 1 \in 1 .. n
    BY <1>7
  <2>2. \A j \in Bad : ~(j \in 1 .. i - 1) /\ j \in 1 .. n
    BY <1>7, <1>6, <1>8, <2>1
  <2>3. CASE i = n + 1
    <3>1. Bad = {}
      BY <1>7, <2>2, <2>3
    <3>2. n = i - 1
      BY <1>7, <2>3
    <3> QED BY <3>1, <3>2
  <2>4. CASE i # n + 1
    <3>1. i \in Bad
      BY <1>7, <1>8, <2>4
    <3>2. \A j \in Bad : i <= j
      BY <1>7, <2>2
    <3>3. Bad \subseteq Int
      BY <1>7
    <3>4. first \in Bad /\ \A j \in Bad : first <= j
      BY <3>1, <3>2
    <3> HIDE DEF first
    <3>5. first = i
      BY <3>1, <3>2, <3>3, <3>4
    <3> QED BY <3>1, <3>5
  <2> QED BY <2>3, <2>4
<1>9. check_mountpoint(f, u, t) = "trusted" =>
        \A i \in 2 .. n + 1 :
          Ok(i - 1) /\ (i <= n => ~Ok(i)) => ~InSystemDir(At(i - 1).at)
  BY <1>2, <1>8
<1> QED BY <1>9 DEF StopsOutside, At, Ok, w, n

\* A file system as large as f or larger.
Larger(f) == {g \in UNION {[D -> Nodes] : D \in SUBSET Seq(Text)} : IsFileSystem(g) /\ Enlarges(g, f)}

\* install: the next directory.
NextInstalled(path, g, i) ==
  LET m == mkdir(g, Root, SubSeq(path, 1, i))
  IN IF IsDirectory(g, Root, SubSeq(path, 1, i)) THEN g ELSE m.fs

\* It makes the file system larger.
LEMMA NextInstalledTyped ==
  ASSUME NEW f, NEW path \in Seq(Text), NEW g \in Larger(f), NEW i \in 1 .. Len(path)
  PROVE  NextInstalled(path, g, i) \in Larger(f)
<1> DEFINE q == SubSeq(path, 1, i)
           m == mkdir(g, Root, q)
<1>1. q \in Seq(Text) /\ q # <<>>
  <2>1. q \in Seq(Text) /\ Len(q) = i
    OBVIOUS
  <2> QED BY <2>1
<1>2. IsFileSystem(g) /\ Enlarges(g, f)
  BY DEF Larger
<1> HIDE DEF q
<1>3. m.ok => IsFileSystem(m.fs) /\ Enlarges(m.fs, g)
  BY <1>1, <1>2, MkdirMakes DEF Makes
<1>4. ~m.ok => m.fs = g
  BY DEF mkdir
<1>5. m.fs \in Larger(f)
  <2>1. CASE m.ok
    <3> DEFINE h == m.fs
    <3>1. IsFileSystem(h) /\ Enlarges(h, f)
      BY <1>2, <1>3, <2>1, EnlargesOrder
    <3> HIDE DEF h
    <3>2. h \in [DOMAIN h -> Nodes] /\ DOMAIN h \in SUBSET Seq(Text)
      BY <3>1 DEF IsFileSystem
    <3>3. h \in Larger(f)
      BY <3>1, <3>2 DEF Larger
    <3> QED BY <3>3 DEF h
  <2>2. CASE ~m.ok
    BY <1>4, <2>2
  <2> QED BY <2>1, <2>2
<1> QED BY <1>5 DEF NextInstalled, q

\* install only makes the file system larger.
LEMMA InstallKeeps ==
  ASSUME NEW f, IsFileSystem(f), NEW path \in Seq(Text)
  PROVE  IsFileSystem(install(f, path)) /\ Enlarges(install(f, path), f)
<1> DEFINE n == Len(path)
           T == Larger(f)
           G == [p \in T \X (1 .. n) |-> NextInstalled(path, p[1], p[2])]
           Q == [i \in 1 .. Len(path) |-> i]
           Solves(g) == g = [s \in SUBSET DOMAIN Q |->
                               IF s = {} THEN f ELSE NextInstalled(path, g[s \ {Max(s)}], Q[Max(s)])]
           it == CHOOSE g : Solves(g)
           all == FoldLeft(LAMBDA g, i : NextInstalled(path, g, i), f, Q)
           l == Lookup(all, Root, path)
<1>1. n \in Nat /\ DOMAIN Q = 1 .. n /\ \A i \in 1 .. n : Q[i] = i
  OBVIOUS
<1>2. f \in T
  <2>1. f \in [DOMAIN f -> Nodes] /\ DOMAIN f \in SUBSET Seq(Text)
    BY DEF IsFileSystem
  <2> QED BY <2>1, EnlargesOrder DEF Larger
<1>3. \A g \in T, i \in 1 .. n : NextInstalled(path, g, i) \in T
  BY NextInstalledTyped
<1>4. G \in [T \X (1 .. n) -> T]
  <2> HIDE DEF T, n
  <2> QED BY <1>3
<1>5. \A g \in T, i \in 1 .. n : G[<<g, i>>] = NextInstalled(path, g, i)
  <2> HIDE DEF T, n
  <2> QED OBVIOUS
<1>6. install(f, path) = IF IsDirectory(all, Root, path) THEN [all EXCEPT ![l.at].user = TRUE] ELSE all
  BY Zenon DEF install, NextInstalled
<1> HIDE DEF G, T, n, Q
<1>7. PICK h : FoldsWith(h, n, T, f, G)
  BY <1>2, <1>1, <1>4, FoldExists
<1>8. ASSUME NEW s \in SUBSET (1 .. n), s # {}
      PROVE  h[s] = NextInstalled(path, h[s \ {Max(s)}], Q[Max(s)])
  <2>1. Max(s) \in 1 .. n
    BY <1>1, <1>8, LastPosition
  <2>2. h[s \ {Max(s)}] \in T
    BY <1>7 DEF FoldsWith
  <2>3. h[s] = G[<<h[s \ {Max(s)}], Max(s)>>]
    BY <1>7, <1>8 DEF FoldsWith
  <2>4. Q[Max(s)] = Max(s)
    BY <1>1, <2>1
  <2> QED BY <1>5, <2>1, <2>2, <2>3, <2>4
<1>9. Solves(h)
  BY <1>1, <1>7, <1>8 DEF FoldsWith
<1>10. Solves(it)
  <2> HIDE DEF Solves
  <2> QED BY <1>9
<1>11. all = it[DOMAIN Q]
  BY Zenon DEF FoldLeft, MapThenFoldSet
<1> HIDE DEF it, all
<1>12. it[{}] = f
  BY <1>10
<1>13. ASSUME NEW s \in SUBSET (1 .. n), s # {}, it[s \ {Max(s)}] \in T
       PROVE  it[s] = G[<<it[s \ {Max(s)}], Max(s)>>]
  <2>1. Max(s) \in 1 .. n
    BY <1>1, <1>13, LastPosition
  <2>2. it[s] = NextInstalled(path, it[s \ {Max(s)}], Q[Max(s)])
    BY <1>1, <1>10, <1>13
  <2>3. Q[Max(s)] = Max(s)
    BY <1>1, <2>1
  <2> QED BY <1>5, <1>13, <2>1, <2>2, <2>3
<1>14. PICK z : Chain(z, n, T, f, G) /\ z[n] = it[1 .. n]
  <2>1. Iterates(it, n, T, f, G)
    BY <1>2, <1>1, <1>4, <1>12, <1>13 DEF Iterates
  <2> QED BY <2>1, FoldChain
<1>15. all \in T
  <2>1. n \in 0 .. n
    BY <1>1
  <2> QED BY <1>1, <1>11, <1>14, <2>1 DEF Chain
<1>16. IsFileSystem(all) /\ Enlarges(all, f)
  BY <1>15 DEF T, Larger
<1>17. CASE IsDirectory(all, Root, path)
  <2> DEFINE a == l.at
             g == [all EXCEPT ![l.at].user = TRUE]
             d == [all[a] EXCEPT !.user = TRUE]
  <2>1. a \in DOMAIN all /\ all[a].type \in {"dir", "closed"}
    <3>1. l \in Places(all)
      BY <1>16, LookupStep DEF IsFileSystem, Rooted
    <3>2. a \in DOMAIN all
      BY <3>1 DEF Places
    <3> QED BY <1>17, <3>2 DEF IsDirectory
  <2>2. g = [p \in DOMAIN all |-> IF p = a THEN d ELSE all[p]]
    BY Zenon
  <2> HIDE DEF a, g
  <2>3. all[a] \in Nodes
    BY <1>16, <2>1 DEF IsFileSystem
  <2>4. d \in Nodes /\ d.type = all[a].type
    BY <2>1, <2>3 DEF Nodes
  <2> HIDE DEF d
  <2>5. DOMAIN g = DOMAIN all /\ \A p \in DOMAIN all : g[p] \in Nodes /\ g[p].type = all[p].type
    BY <1>16, <2>2, <2>4 DEF IsFileSystem
  <2>6. IsFileSystem(g)
    <3>1. g \in [DOMAIN g -> Nodes]
      BY <2>2, <2>5
    <3> QED BY <1>16, <2>5, <3>1 DEF IsFileSystem
  <2>7. Enlarges(g, all)
    BY <2>1, <2>2, <2>5 DEF Enlarges
  <2>8. Enlarges(g, f)
    BY <1>16, <2>7, EnlargesOrder
  <2>9. install(f, path) = g
    BY <1>6, <1>17 DEF g
  <2> QED BY <2>6, <2>8, <2>9
<1>18. CASE ~IsDirectory(all, Root, path)
  BY <1>6, <1>16, <1>18
<1> QED BY <1>17, <1>18

-----------------------------------------------------------------------------
(* Texts that are trimmed (trim()) and filled in (regex_hash_replace()).   *)

\* trim(): where the blanks at the beginning end.
BlankEnd(t) == CHOOSE j \in 1 .. Len(t) + 1 : /\ j > Len(t) \/ ~(t[j] = Blank)
                                              /\ \A h \in 1 .. j - 1 : t[h] = Blank

\* What is left of a text without them.
LEMMA BlanksLeft ==
  ASSUME NEW t \in Text
  PROVE  SubSeq(t, BlankEnd(t), Len(t)) \in Text
<1> DEFINE n == Len(t)
           S == {h \in 1 .. n : t[h] = Blank}
<1>1. n \in Nat /\ 1 \in 1 .. n + 1
  BY DEF Text
<1>2. \E j \in 1 .. n + 1 : (j > n \/ j \notin S) /\ \A h \in 1 .. j - 1 : h \in S
  <2> HIDE DEF S, n
  <2> QED BY <1>1, RunEnds
<1>3. \E j \in 1 .. n + 1 : (j > n \/ ~(t[j] = Blank)) /\ \A h \in 1 .. j - 1 : t[h] = Blank
  <2>1. PICK j \in 1 .. n + 1 : (j > n \/ j \notin S) /\ \A h \in 1 .. j - 1 : h \in S
    BY <1>2
  <2>2. j > n \/ ~(t[j] = Blank)
    BY <1>1, <2>1
  <2> QED BY <2>1, <2>2
<1>4. BlankEnd(t) \in 1 .. n + 1
  BY <1>3, Zenon DEF BlankEnd
<1> DEFINE b == BlankEnd(t)
<1> HIDE DEF b, n
<1>5. b \in 1 .. n + 1
  BY <1>4 DEF b
<1>6. SubSeq(t, b, n) \in Seq(STRING)
  <2>1. \A h \in b .. n : t[h] \in STRING
    BY <1>1, <1>5 DEF Text, n
  <2> QED BY <1>1, <1>5, <2>1, SubSeqProperties
<1> QED BY <1>6 DEF Text, b, n

\* Reverse() of a text is a text.
LEMMA ReverseTyped ==
  ASSUME NEW t \in Text
  PROVE  Reverse(t) \in Text
<1>1. \A i \in 1 .. Len(t) : t[(Len(t) - i) + 1] \in STRING
  BY DEF Text
<1>2. Len(t) \in Nat
  BY DEF Text
<1> QED BY <1>1, <1>2 DEF Reverse, Text

\* trim() of a text is a text.
LEMMA TrimTyped ==
  ASSUME NEW t \in Text
  PROVE  trim(t) \in Text
<1> DEFINE u == Reverse(SubSeq(t, BlankEnd(t), Len(t)))
<1>1. trim(t) = Reverse(SubSeq(u, BlankEnd(u), Len(u)))
  BY Zenon DEF trim, EndOfRun, BlankEnd
<1>2. u \in Text
  BY BlanksLeft, ReverseTyped
<1> HIDE DEF u
<1>3. SubSeq(u, BlankEnd(u), Len(u)) \in Text
  BY <1>2, BlanksLeft
<1> QED BY <1>1, <1>3, ReverseTyped

\* The part behind the last slash is a text.
LEMMA FilenameTyped ==
  ASSUME NEW t \in Text
  PROVE  filename(t) \in Text
<1> DEFINE n == Len(t)
           I == {i \in 1 .. n : t[i] = Slash}
           m == IF I # {} THEN Max(I) ELSE 0
<1>1. n \in Nat
  BY DEF Text
<1>2. filename(t) = SubSeq(t, m + 1, n)
  BY Zenon DEF filename, SelectLastInSeq
<1>3. m \in 0 .. n
  <2>1. I # {} => Max(I) \in I
    <3>1. I \in SUBSET (1 .. n)
      OBVIOUS
    <3> HIDE DEF I, n
    <3> QED BY <1>1, <3>1, LastPosition
  <2> QED BY <1>1, <2>1
<1> HIDE DEF m
<1>4. SubSeq(t, m + 1, n) \in Seq(STRING)
  <2>1. \A h \in m + 1 .. n : t[h] \in STRING
    BY <1>1, <1>3 DEF Text
  <2> HIDE DEF n
  <2> QED BY <1>1, <1>3, <2>1, SubSeqProperties
<1> QED BY <1>2, <1>4 DEF Text

\* sanitize_name(): the next symbol.
NextPut(z, c) ==
  CASE Alnum(c) -> Append(z, c)
    [] ~Alnum(c) /\ z # <<>> /\ ~(z # <<>> /\ Last(z) \in Marks)
         -> Append(z, IF c \in Marks THEN c ELSE "_")
    [] OTHER -> z

\* It makes texts.
LEMMA NextPutTyped ==
  ASSUME NEW z \in Text, NEW c \in STRING
  PROVE  NextPut(z, c) \in Text
<1>1. Append(z, c) \in Text /\ Append(z, "_") \in Text
  <2>1. z \in Seq(STRING) /\ "_" \in STRING
    BY StringsAssumption DEF Text, Marks
  <2>2. \A x \in STRING : Append(z, x) \in Seq(STRING)
    BY <2>1, OneMore
  <2> QED BY <2>1, <2>2 DEF Text
<1>2. NextPut(z, c) = z \/ NextPut(z, c) = Append(z, c) \/ NextPut(z, c) = Append(z, "_")
  BY Zenon DEF NextPut
<1> QED BY <1>1, <1>2

\* sanitize_name() makes texts.
LEMMA SanitizeTyped ==
  ASSUME NEW t \in Text
  PROVE  sanitize_name(t) \in Text
<1> DEFINE n == Len(t)
           b == <<>>
           G == [p \in Text \X (1 .. n) |-> NextPut(p[1], t[p[2]])]
           Solves(g) == g = [s \in SUBSET DOMAIN t |->
                               IF s = {} THEN <<>> ELSE NextPut(g[s \ {Max(s)}], t[Max(s)])]
           it == CHOOSE g : Solves(g)
           all == FoldLeft(NextPut, <<>>, t)
<1>1. n \in Nat /\ b \in Text
  BY DEF Text
<1>2. DOMAIN t = 1 .. n
  BY DEF Text
<1>3. \A z \in Text, i \in 1 .. n : NextPut(z, t[i]) \in Text
  <2>1. \A i \in 1 .. n : t[i] \in STRING
    BY DEF Text
  <2> QED BY <2>1, NextPutTyped
<1>4. G \in [Text \X (1 .. n) -> Text]
  <2> HIDE DEF n
  <2> QED BY <1>3
<1>5. \A z \in Text, i \in 1 .. n : G[<<z, i>>] = NextPut(z, t[i])
  <2> HIDE DEF n
  <2> QED OBVIOUS
<1>6. sanitize_name(t) = IF all # <<>> /\ Last(all) \in Marks THEN Front(all) ELSE all
  BY Zenon DEF sanitize_name, NextPut
<1> HIDE DEF G, n, b
<1>7. PICK h : FoldsWith(h, n, Text, b, G)
  BY <1>1, <1>4, FoldExists
<1>8. ASSUME NEW s \in SUBSET (1 .. n), s # {}
      PROVE  h[s] = NextPut(h[s \ {Max(s)}], t[Max(s)])
  <2>1. Max(s) \in 1 .. n
    BY <1>1, <1>8, LastPosition
  <2>2. h[s \ {Max(s)}] \in Text
    BY <1>7 DEF FoldsWith
  <2>3. h[s] = G[<<h[s \ {Max(s)}], Max(s)>>]
    BY <1>7, <1>8 DEF FoldsWith
  <2> QED BY <1>5, <2>1, <2>2, <2>3
<1>9. Solves(h)
  BY <1>2, <1>7, <1>8 DEF FoldsWith, b
<1>10. Solves(it)
  <2> HIDE DEF Solves
  <2> QED BY <1>9
<1>11. all = it[DOMAIN t]
  BY Zenon DEF FoldLeft, MapThenFoldSet
<1> HIDE DEF it, all
<1>12. it[{}] = b
  BY <1>10 DEF b
<1>13. ASSUME NEW s \in SUBSET (1 .. n), s # {}, it[s \ {Max(s)}] \in Text
       PROVE  it[s] = G[<<it[s \ {Max(s)}], Max(s)>>]
  <2>1. Max(s) \in 1 .. n
    BY <1>1, <1>13, LastPosition
  <2>2. it[s] = NextPut(it[s \ {Max(s)}], t[Max(s)])
    BY <1>2, <1>10, <1>13
  <2> QED BY <1>5, <1>13, <2>1, <2>2
<1>14. PICK z : Chain(z, n, Text, b, G) /\ z[n] = it[1 .. n]
  <2>1. Iterates(it, n, Text, b, G)
    BY <1>1, <1>4, <1>12, <1>13 DEF Iterates
  <2> QED BY <2>1, FoldChain
<1>15. all \in Text
  <2>1. n \in 0 .. n
    BY <1>1
  <2> QED BY <1>2, <1>11, <1>14, <2>1 DEF Chain
<1>16. all # <<>> => Front(all) \in Text
  BY <1>15, FrontProperties DEF Text
<1> QED BY <1>6, <1>15, <1>16

\* The pieces regex_hash_replace() puts together.
Pieces(t, value) == [i \in DOMAIN t |-> IF t[i] \in Placeholders THEN value[t[i]] ELSE <<t[i]>>]

\* A text with its placeholders replaced by texts is a text; one without any is
\* left as it is.
LEMMA Replacement ==
  ASSUME NEW t \in Text, NEW value, \A ph \in Placeholders : value[ph] \in Text
  PROVE  /\ regex_hash_replace(t, value) \in Text
         /\ ToSet(t) \cap Placeholders = {} => regex_hash_replace(t, value) = t
<1> DEFINE n == Len(t)
           q == Pieces(t, value)
<1>1. n \in Nat /\ \A i \in 1 .. n : t[i] \in STRING
  BY DEF Text
<1>2. DOMAIN t = 1 .. n
  BY DEF Text
<1>3. /\ q \in Seq(Text) /\ Len(q) = n
      /\ \A i \in 1 .. n : q[i] = IF t[i] \in Placeholders THEN value[t[i]] ELSE <<t[i]>>
  <2>1. ASSUME NEW i \in 1 .. n
        PROVE  (IF t[i] \in Placeholders THEN value[t[i]] ELSE <<t[i]>>) \in Text
    <3>1. <<t[i]>> \in Text
      BY <1>1 DEF Text
    <3> HIDE DEF n
    <3> QED BY <3>1
  <2>2. q = [i \in 1 .. n |-> IF t[i] \in Placeholders THEN value[t[i]] ELSE <<t[i]>>]
    BY <1>2 DEF Pieces
  <2> HIDE DEF q, n
  <2>3. q \in [1 .. n -> Text]
    BY <2>1, <2>2
  <2>4. q \in Seq(Text) /\ Len(q) = n
    BY <1>1, <2>3, FunctionIsSeq
  <2> QED BY <2>2, <2>4
<1>4. regex_hash_replace(t, value) = FlattenSeq(q)
  BY DEF regex_hash_replace, Pieces
<1> HIDE DEF q
<1>5. FlattenSeq(q) \in Text
  <2>1. q \in Seq(Seq(STRING))
    BY <1>3 DEF Text
  <2> QED BY <2>1, FlattenMembers DEF Text
<1>6. ASSUME ToSet(t) \cap Placeholders = {} PROVE FlattenSeq(q) = t
  <2>1. q \in Seq(Seq(STRING))
    BY <1>3 DEF Text
  <2>2. PICK f : Flattens(f, q, STRING) /\ FlattenSeq(q) = f[Len(q)]
    BY <2>1, Flattened
  <2>3. /\ \A h \in 0 .. n : f[h] \in Seq(STRING)
        /\ f[0] = <<>>
        /\ \A h \in 1 .. n : f[h] = f[h - 1] \o q[h]
    BY <1>3, <2>2 DEF Flattens
  <2>4. \A i \in 1 .. n : q[i] = <<t[i]>>
    BY <1>2, <1>3, <1>6 DEF ToSet
  <2> HIDE DEF n
  <2> DEFINE U == {h \in 0 .. n : Len(f[h]) = h /\ \A i \in 1 .. h : f[h][i] = t[i]}
  <2>5. 0 \in U
    BY <1>1, <2>3
  <2>6. ASSUME NEW h \in 0 .. n - 1, h \in U PROVE h + 1 \in U
    <3>1. h + 1 \in 1 .. n /\ (h + 1) - 1 = h /\ h \in 0 .. n /\ h + 1 \in 0 .. n
      BY <1>1
    <3> DEFINE e == t[h + 1]
               s == f[h]
    <3>2. f[h + 1] = s \o <<e>> /\ s \in Seq(STRING) /\ e \in STRING
      BY <1>1, <2>3, <2>4, <3>1
    <3>3. Len(s) = h /\ \A i \in 1 .. h : s[i] = t[i]
      BY <2>6
    <3> HIDE DEF e, s
    <3>4. f[h + 1] = Append(s, e)
      BY <3>2, OneMore
    <3>5. Len(Append(s, e)) = h + 1 /\ \A i \in 1 .. h + 1 : Append(s, e)[i] = IF i <= h THEN s[i] ELSE e
      BY <3>2, <3>3, OneMore
    <3>6. Len(f[h + 1]) = h + 1
      BY <3>4, <3>5
    <3>7. ASSUME NEW i \in 1 .. h + 1 PROVE f[h + 1][i] = t[i]
      <4>1. i <= h => i \in 1 .. h
        BY <3>1
      <4>2. ~(i <= h) => i = h + 1
        BY <3>1
      <4>3. f[h + 1][i] = IF i <= h THEN s[i] ELSE e
        BY <3>4, <3>5
      <4> QED BY <3>3, <4>1, <4>2, <4>3 DEF e
    <3> HIDE DEF U
    <3> QED BY <3>1, <3>6, <3>7 DEF U
  <2> HIDE DEF U
  <2>7. 0 .. n \subseteq U
    BY <1>1, <2>5, <2>6, InductionTo
  <2>8. n \in U
    BY <1>1, <2>7
  <2>9. Len(f[n]) = n /\ f[n] \in Seq(STRING) /\ \A i \in 1 .. n : f[n][i] = t[i]
    BY <1>1, <2>3, <2>8 DEF U
  <2>10. f[n] = t
    <3>1. t \in Seq(STRING) /\ Len(t) = n
      BY DEF Text, n
    <3> QED BY <2>9, <3>1, SeqEqual
  <2> QED BY <1>3, <2>2, <2>10
<1> QED BY <1>4, <1>5, <1>6

\* What the user and the device put into the names are texts.
LEMMA ValueTyped ==
  ASSUME NEW i, i.path \in Text, i.fs_type \in STRING, i.listed => i.dev \in Devices,
         NEW u, u.user \in STRING, u.group \in STRING, NEW ph
  PROVE  ph \in Placeholders => Value(i, u, ph) \in Text
<1> DEFINE path  == sanitize_name(i.path)
           short == sanitize_name(filename(i.path))
           name  == IF short = <<>> THEN path ELSE short
           label == IF i.listed THEN i.dev.LABEL ELSE name
           uuid  == IF i.listed THEN i.dev.UUID ELSE name
           Or(t) == IF t = <<>> THEN name ELSE t
<1>1. path \in Text /\ name \in Text
  BY FilenameTyped, SanitizeTyped
<1>2. <<u.user>> \in Text /\ <<u.group>> \in Text /\ <<i.fs_type>> \in Text
  BY DEF Text
<1> HIDE DEF path, name
<1>3. label \in Text /\ uuid \in Text
  BY <1>1 DEF Devices
<1> HIDE DEF label, uuid
<1>4. Or(sanitize_name(label)) \in Text /\ Or(label) \in Text /\ Or(uuid) \in Text
  BY <1>1, <1>3, SanitizeTyped
<1>5. ph \in Placeholders =>
        Value(i, u, ph) \in {name, path, <<u.user>>, <<u.group>>, <<i.fs_type>>,
                             Or(sanitize_name(label)), Or(label), Or(uuid)}
  <2> HIDE DEF Or
  <2>1. Value(i, u, ph) = CASE ph = "%d" -> name
       [] ph = "%D" -> path
       [] ph = "%u" -> <<u.user>>
       [] ph = "%g" -> <<u.group>>
       [] ph = "%t" -> <<i.fs_type>>
       [] ph = "%l" -> Or(sanitize_name(label))
       [] ph = "%L" -> Or(label)
       [] ph = "%U" -> Or(uuid)
    BY Zenon DEF Value, name, path, label, uuid, Or
  <2> QED BY <2>1 DEF Placeholders
<1> QED BY <1>1, <1>2, <1>4, <1>5

\* replace_placeholders() makes texts, and leaves one without placeholders alone.
LEMMA PlaceholdersReplaced ==
  ASSUME NEW t \in Text, NEW i, i.path \in Text, i.fs_type \in STRING, i.listed => i.dev \in Devices,
         NEW u, u.user \in STRING, u.group \in STRING
  PROVE  /\ replace_placeholders(t, i, u) \in Text
         /\ ToSet(t) \cap Placeholders = {} => replace_placeholders(t, i, u) = t
<1> DEFINE value == [ph \in Placeholders |-> Value(i, u, ph)]
<1>1. \A ph \in Placeholders : value[ph] \in Text
  BY ValueTyped
<1> HIDE DEF value
<1>2. /\ regex_hash_replace(t, value) \in Text
      /\ ToSet(t) \cap Placeholders = {} => regex_hash_replace(t, value) = t
  BY <1>1, Replacement
<1> QED BY <1>2 DEF replace_placeholders, value

-----------------------------------------------------------------------------
(* The unit files: read_systemd_unit(), glob() and scan_systemd_units().   *)

\* read_systemd_unit(): the next line, of a unit file with the links of a world.
NextLine(s, l, links) ==
  CASE l.kind = "section" -> [s EXCEPT !.mount = l.name = "Mount"]
    [] l.kind = "data" /\ s.mount -> [s EXCEPT !.unit = ReadLine(s.unit, l, links)]
    [] l.kind = "invalid" -> [s EXCEPT !.ok = FALSE]
    [] OTHER -> s

\* How far read_systemd_unit() is with a file.
Reading == [ok : BOOLEAN, mount : BOOLEAN, unit : Units]

\* The names of what /dev/disk links to are texts.
LinksTyped(links) == \A l \in DOMAIN links : links[l] \in Text

\* A line makes a unit of a unit.
LEMMA ReadLineTyped ==
  ASSUME NEW u \in Units, NEW l \in Lines, NEW links, LinksTyped(links)
  PROVE  ReadLine(u, l, links) \in Units
<1>1. l.name # "Type" => l.value \in Text /\ l.tag \in STRING
  BY DEF Lines
<1>2. l.name = "Type" => l.value \in STRING
  BY DEF Lines
<1>3. l.name # "Type" => resolve_dev_link(links, l.value) \in Text
  BY <1>1 DEF resolve_dev_link, LinksTyped
<1>4. INV_SEL \in STRING
  BY StringsAssumption
<1> DEFINE T == ToSet(Tail(Selectors))
<1> HIDE DEF T
<1>5. ReadLine(u, l, links) =
        CASE l.name = "Options" -> [u EXCEPT !.options = l.value]
          [] l.name = "Type"    -> [u EXCEPT !.fstype = l.value]
          [] l.name = "Where"   -> [u EXCEPT !.where = l.value]
          [] l.name = "What" /\ l.tag = "" -> [u EXCEPT !.what = resolve_dev_link(links, l.value)]
          [] l.name = "What" /\ l.tag \in T ->
               [u EXCEPT !.what_sel = l.tag, !.what = l.value]
          [] l.name = "What" /\ l.tag \notin T \cup {""} ->
               [u EXCEPT !.what_sel = INV_SEL, !.what = resolve_dev_link(links, l.value)]
          [] OTHER -> u
  BY DEF ReadLine, T
<1>6. CASE l.name = "Options"
  BY <1>1, <1>6, <1>5 DEF Units
<1>7. CASE l.name = "Type"
  BY <1>2, <1>7, <1>5 DEF Units
<1>8. CASE l.name = "Where"
  BY <1>1, <1>8, <1>5 DEF Units
<1>9. CASE l.name = "What" /\ l.tag = ""
  <2>1. [u EXCEPT !.what = resolve_dev_link(links, l.value)] \in Units
    BY <1>3, <1>9 DEF Units
  <2>2. [u EXCEPT !.what_sel = l.tag, !.what = l.value] \in Units
    BY <1>1, <1>9 DEF Units
  <2>3. ReadLine(u, l, links) = [u EXCEPT !.what = resolve_dev_link(links, l.value)]
        \/ ReadLine(u, l, links) = [u EXCEPT !.what_sel = l.tag, !.what = l.value]
    BY <1>9, <1>5
  <2> QED BY <2>1, <2>2, <2>3
<1>10. CASE l.name = "What" /\ l.tag # ""
  <2>1. [u EXCEPT !.what_sel = l.tag, !.what = l.value] \in Units
    BY <1>1, <1>10 DEF Units
  <2>2. [u EXCEPT !.what_sel = INV_SEL, !.what = resolve_dev_link(links, l.value)] \in Units
    BY <1>3, <1>4, <1>10 DEF Units
  <2>3. \/ ReadLine(u, l, links) = [u EXCEPT !.what_sel = l.tag, !.what = l.value]
        \/ ReadLine(u, l, links) = [u EXCEPT !.what_sel = INV_SEL, !.what = resolve_dev_link(links, l.value)]
    BY <1>10, <1>5
  <2> QED BY <2>1, <2>2, <2>3
<1>11. CASE l.name \notin {"Options", "Type", "Where", "What"}
  BY <1>11, <1>5
<1> QED BY <1>6, <1>7, <1>8, <1>9, <1>10, <1>11

\* A line leaves a unit that is one.
LEMMA NextLineTyped ==
  ASSUME NEW s \in Reading, NEW l \in Lines, NEW links, LinksTyped(links)
  PROVE  NextLine(s, l, links) \in Reading
<1>1. ReadLine(s.unit, l, links) \in Units
  BY ReadLineTyped DEF Reading
<1> DEFINE v == ReadLine(s.unit, l, links)
           b == l.name = "Mount"
<1> HIDE DEF v
<1>2. b \in BOOLEAN
  OBVIOUS
<1> HIDE DEF b
<1>3. /\ [s EXCEPT !.mount = b] \in Reading /\ [s EXCEPT !.unit = v] \in Reading
      /\ [s EXCEPT !.ok = FALSE] \in Reading
  BY <1>1, <1>2 DEF Reading, v
<1>4. NextLine(s, l, links) \in {[s EXCEPT !.mount = b], [s EXCEPT !.unit = v], [s EXCEPT !.ok = FALSE], s}
  BY Zenon DEF NextLine, b, v
<1> QED BY <1>3, <1>4

\* The empty unit is one.
LEMMA NoUnitTyped == NoUnit \in Units
<1>1. "" \in STRING /\ "PATH" \in STRING
  <2>1. "PATH" \in ToSet(Selectors)
    BY DEF Selectors, ToSet
  <2> QED BY <2>1, StringsAssumption
<1>2. <<>> \in Text
  BY DEF Text
<1> QED BY <1>1, <1>2 DEF NoUnit, Units

\* A unit file is read as a unit.
LEMMA UnitRead ==
  ASSUME NEW dir \in ToSet(SystemdPath), NEW f \in UnitFiles, NEW links, LinksTyped(links)
  PROVE  LET u == read_systemd_unit(dir, f, links)
         IN  /\ u.unit \in Units /\ u.unit.base = f.base /\ u.unit.base \in Text
             /\ u.ok => u.unit.what # <<>> /\ u.unit.where # <<>>
<1> DEFINE t == f.lines
           n == Len(t)
           T == Reading
           b == [ok |-> TRUE, mount |-> FALSE, unit |-> NoUnit]
           G == [p \in T \X (1 .. n) |-> NextLine(p[1], t[p[2]], links)]
           Solves(g) == g = [s \in SUBSET DOMAIN t |->
                               IF s = {} THEN [ok |-> TRUE, mount |-> FALSE, unit |-> NoUnit]
                               ELSE NextLine(g[s \ {Max(s)}], t[Max(s)], links)]
           it == CHOOSE g : Solves(g)
           all == FoldLeft(LAMBDA s, l : NextLine(s, l, links),
                           [ok |-> TRUE, mount |-> FALSE, unit |-> NoUnit], t)
<1>1. t \in Seq(Lines)
  BY DEF UnitFiles
<1>2. n \in Nat /\ b \in T
  <2>1. n \in Nat
    BY <1>1
  <2>2. b \in T
    BY NoUnitTyped DEF Reading
  <2> QED BY <2>1, <2>2
<1>3. DOMAIN t = 1 .. n
  BY <1>1
<1>4. \A z \in T, i \in 1 .. n : NextLine(z, t[i], links) \in T
  <2>1. \A i \in 1 .. n : t[i] \in Lines
    BY <1>1
  <2> QED BY <2>1, NextLineTyped
<1>5. G \in [T \X (1 .. n) -> T]
  <2> HIDE DEF n, T, t
  <2> QED BY <1>4
<1>6. \A z \in T, i \in 1 .. n : G[<<z, i>>] = NextLine(z, t[i], links)
  <2> HIDE DEF n, T, t
  <2> QED OBVIOUS
<1>7. read_systemd_unit(dir, f, links) =
        [ok   |-> all.ok /\ all.unit.what # <<>> /\ all.unit.where # <<>>,
         unit |-> [all.unit EXCEPT !.base = f.base, !.dir = dir]]
  BY Zenon DEF read_systemd_unit, NextLine
<1>8. all = it[DOMAIN t]
  BY Zenon DEF FoldLeft, MapThenFoldSet
<1> HIDE DEF G, n, b, all, t, T
<1>9. PICK h : FoldsWith(h, n, T, b, G)
  BY <1>2, <1>5, FoldExists
<1>10. ASSUME NEW s \in SUBSET (1 .. n), s # {}
      PROVE  h[s] = NextLine(h[s \ {Max(s)}], t[Max(s)], links)
  <2>1. Max(s) \in 1 .. n
    BY <1>2, <1>10, LastPosition
  <2>2. h[s \ {Max(s)}] \in T
    BY <1>9 DEF FoldsWith
  <2>3. h[s] = G[<<h[s \ {Max(s)}], Max(s)>>]
    BY <1>9, <1>10 DEF FoldsWith
  <2> QED BY <1>6, <2>1, <2>2, <2>3
<1>11. Solves(h)
  BY <1>3, <1>9, <1>10 DEF FoldsWith, b
<1>12. Solves(it)
  <2> HIDE DEF Solves
  <2> QED BY <1>11
<1> HIDE DEF it
<1>13. it[{}] = b
  BY <1>12 DEF b
<1>14. ASSUME NEW s \in SUBSET (1 .. n), s # {}, it[s \ {Max(s)}] \in T
       PROVE  it[s] = G[<<it[s \ {Max(s)}], Max(s)>>]
  <2>1. Max(s) \in 1 .. n
    BY <1>2, <1>14, LastPosition
  <2>2. it[s] = NextLine(it[s \ {Max(s)}], t[Max(s)], links)
    BY <1>3, <1>12, <1>14
  <2> QED BY <1>6, <1>14, <2>1, <2>2
<1>15. PICK z : Chain(z, n, T, b, G) /\ z[n] = it[1 .. n]
  <2>1. Iterates(it, n, T, b, G)
    BY <1>2, <1>5, <1>13, <1>14 DEF Iterates
  <2> QED BY <2>1, FoldChain
<1>16. all \in T
  <2>1. n \in 0 .. n
    BY <1>2
  <2> QED BY <1>3, <1>8, <1>15, <2>1 DEF Chain
<1>17. all.unit \in Units /\ f.base \in Text
  BY <1>16 DEF T, Reading, UnitFiles
<1>18. [all.unit EXCEPT !.base = f.base, !.dir = dir] \in Units
  BY <1>17 DEF Units
<1>19. [all.unit EXCEPT !.base = f.base, !.dir = dir].base = f.base
  BY <1>17 DEF Units
<1>20. /\ [all.unit EXCEPT !.base = f.base, !.dir = dir].what = all.unit.what
       /\ [all.unit EXCEPT !.base = f.base, !.dir = dir].where = all.unit.where
  BY <1>17 DEF Units
<1> DEFINE v == [all.unit EXCEPT !.base = f.base, !.dir = dir]
           u == read_systemd_unit(dir, f, links)
<1>21. u = [ok |-> all.ok /\ all.unit.what # <<>> /\ all.unit.where # <<>>, unit |-> v]
  BY <1>7
<1> HIDE DEF v, u
<1>22. u.unit = v /\ (u.ok => all.unit.what # <<>> /\ all.unit.where # <<>>)
  BY <1>21
<1>23. v \in Units /\ v.base = f.base /\ v.what = all.unit.what /\ v.where = all.unit.where
  BY <1>18, <1>19, <1>20 DEF v
<1>24. /\ u.unit \in Units /\ u.unit.base = f.base /\ u.unit.base \in Text
       /\ u.ok => u.unit.what # <<>> /\ u.unit.where # <<>>
  BY <1>17, <1>22, <1>23
<1> QED BY <1>24 DEF u

\* Files, each in one of the directories.
Globbed == [dir : ToSet(SystemdPath), file : UnitFiles]

\* The unit directories of a world.
DirsTyped(dirs) == dirs \in [ToSet(SystemdPath) -> Seq(UnitFiles)]

\* The files of the i-th directory, as glob() finds them.
InDir(dirs, i) == [j \in DOMAIN dirs[SearchPath[i]] |->
                     [dir |-> SearchPath[i], file |-> dirs[SearchPath[i]][j]]]

\* The search path is a sequence of systemd's directories: all but the eleventh, in
\* their order.
Skip(i) == IF i = 11 THEN 12 ELSE i

LEMMA SearchPathProperties ==
  /\ Len(SearchPath) = 11 /\ DOMAIN SearchPath = 1 .. 11
  /\ Len(SystemdPath) = 12 /\ DOMAIN SystemdPath = 1 .. 12
  /\ \A i \in 1 .. 11 : SearchPath[i] = SystemdPath[Skip(i)] /\ SearchPath[i] \in ToSet(SystemdPath)
  /\ SystemdPath[11] \notin ToSet(SearchPath)
<1>1. /\ Len(SearchPath) = 11 /\ DOMAIN SearchPath = 1 .. 11
      /\ Len(SystemdPath) = 12 /\ DOMAIN SystemdPath = 1 .. 12
  BY DEF SearchPath, SystemdPath
<1>2. \A i \in 1 .. 11 : SearchPath[i] = SystemdPath[Skip(i)]
  BY DEF SearchPath, SystemdPath, Skip
<1>3. \A i \in 1 .. 11 : Skip(i) \in 1 .. 12
  BY DEF Skip
<1>4. \A i \in 1 .. 12 : SystemdPath[i] \in ToSet(SystemdPath)
  BY <1>1 DEF ToSet
<1>5. SystemdPath[11] \notin ToSet(SearchPath)
  <2>1. SystemdPath[11] = "/usr/lib/systemd/system"
    BY DEF SystemdPath
  <2>2. \A i \in 1 .. 11 : SearchPath[i] # "/usr/lib/systemd/system"
    BY DEF SearchPath
  <2> QED BY <1>1, <2>1, <2>2 DEF ToSet
<1> QED BY <1>1, <1>2, <1>3, <1>4, <1>5

\* The first of systemd's directories that is in D, if it is one where the program
\* looks, is the first of those.
LEMMA FirstDirectory ==
  ASSUME NEW D, NEW A, A = {a \in 1 .. 11 : SearchPath[a] \in D},
         NEW B, B = {a \in 1 .. 12 : SystemdPath[a] \in D},
         NEW p, FirstOf(p, A, 11), p # 0, NEW s, FirstOf(s, B, 12)
  PROVE  /\ s \in 1 .. 12 /\ SystemdPath[s] \in D
         /\ SystemdPath[s] \in ToSet(SearchPath) => SystemdPath[s] = SearchPath[p]
<1>1. p \in A /\ \A h \in A : p <= h
  BY DEF FirstOf
<1>2. \A a \in 1 .. 11 : SearchPath[a] = SystemdPath[Skip(a)] /\ Skip(a) \in 1 .. 12
  BY SearchPathProperties DEF Skip
<1>3. Skip(p) \in B /\ p \in 1 .. 11
  BY <1>1, <1>2
<1>4. s \in B /\ s \in 1 .. 12 /\ s # 0 /\ \A h \in B : s <= h
  BY <1>3 DEF FirstOf
<1>5. ASSUME SystemdPath[s] \in ToSet(SearchPath) PROVE SystemdPath[s] = SearchPath[p]
  <2>1. s # 11
    BY <1>5, SearchPathProperties
  <2> DEFINE a == IF s = 12 THEN 11 ELSE s
  <2>2. a \in 1 .. 11 /\ Skip(a) = s
    BY <1>4, <2>1 DEF Skip
  <2> HIDE DEF a
  <2>3. a \in A
    BY <1>2, <1>4, <2>2
  <2>4. p <= a /\ s <= Skip(p)
    BY <1>1, <1>3, <1>4, <2>3
  <2>5. p = a
    BY <1>3, <2>2, <2>4 DEF Skip
  <2> QED BY <1>2, <2>2, <2>5
<1> QED BY <1>4, <1>5

\* glob() puts the directories one behind the other.
LEMMA GlobLays ==
  ASSUME NEW dirs, DirsTyped(dirs)
  PROVE  LET q == [i \in 1 .. Len(SearchPath) |-> InDir(dirs, i)]
         IN  /\ q \in Seq(Seq(Globbed)) /\ Len(q) = Len(SearchPath)
             /\ glob(dirs) = FlattenSeq(q) /\ glob(dirs) \in Seq(Globbed)
             /\ \A i \in 1 .. Len(SearchPath) :
                  /\ dirs[SearchPath[i]] \in Seq(UnitFiles)
                  /\ Len(q[i]) = Len(dirs[SearchPath[i]])
                  /\ \A j \in 1 .. Len(q[i]) : q[i][j] = [dir |-> SearchPath[i], file |-> dirs[SearchPath[i]][j]]
<1> DEFINE n == Len(SearchPath)
           q == [i \in 1 .. n |-> InDir(dirs, i)]
<1>1. n \in Nat /\ DOMAIN SearchPath = 1 .. n /\ \A i \in 1 .. n : SearchPath[i] \in ToSet(SystemdPath)
  BY SearchPathProperties
<1>2. glob(dirs) = FlattenSeq(q)
  <2>1. glob(dirs) = FlattenSeq([i \in DOMAIN SearchPath |-> InDir(dirs, i)])
    BY Zenon DEF glob, InDir
  <2> QED BY <1>1, <2>1
<1> HIDE DEF n
<1>3. ASSUME NEW i \in 1 .. n
      PROVE  /\ q[i] \in Seq(Globbed) /\ Len(q[i]) = Len(dirs[SearchPath[i]])
             /\ dirs[SearchPath[i]] \in Seq(UnitFiles)
             /\ \A j \in 1 .. Len(q[i]) : q[i][j] = [dir |-> SearchPath[i], file |-> dirs[SearchPath[i]][j]]
  <2> DEFINE d == SearchPath[i]
             s == dirs[d]
             m == Len(s)
             e == [j \in 1 .. m |-> [dir |-> d, file |-> s[j]]]
  <2>1. d \in ToSet(SystemdPath)
    BY <1>1
  <2> HIDE DEF d
  <2>2. s \in Seq(UnitFiles)
    BY <2>1 DEF DirsTyped
  <2> HIDE DEF s
  <2>3. m \in Nat /\ DOMAIN s = 1 .. m /\ \A j \in 1 .. m : s[j] \in UnitFiles
    BY <2>2
  <2> HIDE DEF m
  <2>4. e \in [1 .. m -> Globbed]
    BY <2>1, <2>3 DEF Globbed
  <2>5. q[i] = e
    BY <2>3 DEF InDir, s, d
  <2> HIDE DEF e, q
  <2>6. e \in Seq(Globbed) /\ Len(e) = m
    BY <2>3, <2>4, FunctionIsSeq
  <2>7. \A j \in 1 .. m : e[j] = [dir |-> d, file |-> s[j]]
    BY DEF e
  <2> QED BY <2>2, <2>5, <2>6, <2>7 DEF d, s, m
<1>4. q \in [1 .. n -> Seq(Globbed)]
  BY <1>3
<1> HIDE DEF q
<1>5. q \in Seq(Seq(Globbed)) /\ Len(q) = n
  BY <1>1, <1>4, FunctionIsSeq
<1>6. FlattenSeq(q) \in Seq(Globbed)
  BY <1>5, FlattenMembers
<1> QED BY <1>2, <1>3, <1>5, <1>6 DEF n, q

\* scan_systemd_units(): what is kept of the files, and as which unit.
Kept(g, links)   == g.file.link = "no" /\ read_systemd_unit(g.dir, g.file, links).ok

UnitIn(g, links) == read_systemd_unit(g.dir, g.file, links).unit

\* The list z has the units of the files, in their order.
Sifts(z, found, links) ==
  /\ z \in Seq(Units)
  /\ \A x \in 1 .. Len(z) : \E i \in 1 .. Len(found) :
       /\ Kept(found[i], links) /\ z[x] = UnitIn(found[i], links)
       /\ \A j \in 1 .. i : Kept(found[j], links) => \E y \in 1 .. x : z[y] = UnitIn(found[j], links)

\* The list scan_systemd_units() makes has the units of the files glob() found, in
\* the order of the files.
LEMMA UnitsSifted ==
  ASSUME NEW dirs, DirsTyped(dirs), NEW links, LinksTyped(links)
  PROVE  Sifts(scan_systemd_units(dirs, links), glob(dirs), links)
<1> DEFINE found == glob(dirs)
           n == Len(found)
           q == [i \in 1 .. n |-> IF Kept(found[i], links) THEN <<UnitIn(found[i], links)>> ELSE <<>>]
           z == scan_systemd_units(dirs, links)
<1>1. found \in Seq(Globbed)
  BY GlobLays
<1>2. z = FlattenSeq([i \in DOMAIN found |->
                       IF Kept(found[i], links) THEN <<UnitIn(found[i], links)>> ELSE <<>>])
  BY Zenon DEF scan_systemd_units, Kept, UnitIn
<1> HIDE DEF found, z
<1>3. n \in Nat /\ DOMAIN found = 1 .. n /\ \A i \in 1 .. n : found[i] \in Globbed
  BY <1>1
<1>4. z = FlattenSeq(q)
  BY <1>2, <1>3
<1> HIDE DEF n
<1>5. ASSUME NEW i \in 1 .. n PROVE UnitIn(found[i], links) \in Units
  <2>1. found[i] \in Globbed
    BY <1>3
  <2>2. found[i].dir \in ToSet(SystemdPath) /\ found[i].file \in UnitFiles
    BY <2>1 DEF Globbed
  <2> QED BY <2>2, UnitRead DEF UnitIn
<1>6. ASSUME NEW i \in 1 .. n
      PROVE  /\ q[i] \in Seq(Units) /\ Len(q[i]) \in {0, 1}
             /\ Len(q[i]) = 1 <=> Kept(found[i], links)
             /\ Kept(found[i], links) => q[i][1] = UnitIn(found[i], links)
  <2> DEFINE u == UnitIn(found[i], links)
  <2> HIDE DEF u
  <2>1. u \in Units
    BY <1>5 DEF u
  <2>2. <<u>> \in Seq(Units) /\ Len(<<u>>) = 1 /\ <<u>>[1] = u /\ <<>> \in Seq(Units) /\ Len(<<>>) = 0
    BY <2>1
  <2>3. q[i] = IF Kept(found[i], links) THEN <<u>> ELSE <<>>
    BY DEF u
  <2> HIDE DEF q
  <2> QED BY <2>2, <2>3 DEF u
<1>7. q \in [1 .. n -> Seq(Units)]
  BY <1>6
<1> HIDE DEF q
<1>8. q \in Seq(Seq(Units)) /\ Len(q) = n
  BY <1>3, <1>7, FunctionIsSeq
<1>9. z \in Seq(Units)
  BY <1>4, <1>8, FlattenMembers
<1>10. PICK L : Lays(L, q, z)
  BY <1>4, <1>8, FlattenLays
<1>11. /\ \A h \in 0 .. n : \A j \in 0 .. h : L[j] <= L[h]
       /\ \A x \in 1 .. Len(z) : \E h \in 1 .. n : \E i \in 1 .. Len(q[h]) : x = L[h - 1] + i
  <2>1. Ordered(L, q, z)
    BY <1>8, <1>10, LaysOrder
  <2> QED BY <1>8, <2>1 DEF Ordered
<1>12. /\ L \in [0 .. n -> Nat] /\ L[0] = 0 /\ L[n] = Len(z)
       /\ \A h \in 1 .. n : /\ L[h] = L[h - 1] + Len(q[h])
                            /\ \A i \in 1 .. Len(q[h]) : z[L[h - 1] + i] = q[h][i]
  BY <1>8, <1>10 DEF Lays
<1>13. ASSUME NEW j \in 1 .. n, Kept(found[j], links)
       PROVE  L[j] \in Nat \ {0} /\ L[j] = L[j - 1] + 1 /\ z[L[j]] = UnitIn(found[j], links)
  <2>1. Len(q[j]) = 1 /\ q[j][1] = UnitIn(found[j], links)
    BY <1>6, <1>13
  <2>2. 1 \in 1 .. Len(q[j]) /\ j \in 0 .. n /\ j - 1 \in 0 .. n
    BY <1>3, <2>1
  <2>3. L[j] = L[j - 1] + 1 /\ z[L[j - 1] + 1] = q[j][1] /\ L[j - 1] \in Nat
    BY <1>12, <2>1, <2>2
  <2> QED BY <2>1, <2>3
<1>14. ASSUME NEW x \in 1 .. Len(z)
       PROVE  \E i \in 1 .. n :
                /\ Kept(found[i], links) /\ z[x] = UnitIn(found[i], links)
                /\ \A j \in 1 .. i : Kept(found[j], links) => \E y \in 1 .. x : z[y] = UnitIn(found[j], links)
  <2>1. PICK i \in 1 .. n : \E e \in 1 .. Len(q[i]) : x = L[i - 1] + e
    BY <1>11
  <2>2. PICK e \in 1 .. Len(q[i]) : x = L[i - 1] + e
    BY <2>1
  <2>3. Len(q[i]) \in {0, 1}
    BY <1>6
  <2>4. e = 1 /\ Len(q[i]) = 1
    <3> DEFINE m == Len(q[i])
    <3>1. e \in 1 .. m /\ m \in {0, 1}
      BY <2>3
    <3> HIDE DEF m
    <3>2. m = 1 /\ e = 1
      BY <3>1
    <3> QED BY <3>2 DEF m
  <2>5. Kept(found[i], links)
    BY <1>6, <2>4
  <2>6. x = L[i] /\ z[x] = UnitIn(found[i], links)
    BY <1>13, <2>2, <2>4, <2>5
  <2>7. ASSUME NEW j \in 1 .. i, Kept(found[j], links) PROVE \E y \in 1 .. x : z[y] = UnitIn(found[j], links)
    <3>1. j \in 1 .. n /\ j \in 0 .. i /\ i \in 0 .. n
      BY <1>3
    <3>2. L[j] <= L[i]
      BY <1>11, <3>1
    <3>3. L[j] \in Nat \ {0} /\ z[L[j]] = UnitIn(found[j], links)
      BY <1>13, <2>7, <3>1
    <3>4. L[i] \in Nat
      BY <1>12, <3>1
    <3>5. L[j] \in 1 .. x
      BY <2>6, <3>2, <3>3, <3>4
    <3> QED BY <3>3, <3>5
  <2> QED BY <2>5, <2>6, <2>7
<1> HIDE DEF z
<1> QED BY <1>9, <1>14 DEF Sifts, n, z, found

\* There is a file for the name that systemd reads; in a directory where the program
\* looks, it is the first that glob() finds of the name.
LEMMA LoadedFileFirst ==
  ASSUME DirsTyped(world.dirs), NEW base, NEW j \in 1 .. Len(glob(world.dirs)),
         glob(world.dirs)[j].file.base = base
  PROVE  /\ LoadedFile(base) \in Globbed
         /\ LoadedFile(base).dir \in ToSet(SearchPath) =>
              \E i \in 1 .. j : glob(world.dirs)[i] = LoadedFile(base)
<1> DEFINE dirs == world.dirs
           found == glob(dirs)
           N == Len(SearchPath)
           q == [i \in 1 .. N |-> InDir(dirs, i)]
           In(d) == SelectInSeq(dirs[d], LAMBDA f : f.base = base)
           A == {a \in 1 .. N : In(SearchPath[a]) # 0}
           pos == SelectInSeq(SearchPath, LAMBDA d : In(d) # 0)
           C == {a \in 1 .. Len(SystemdPath) : In(SystemdPath[a]) # 0}
           sys == SelectInSeq(SystemdPath, LAMBDA d : In(d) # 0)
           D == {d \in ToSet(SystemdPath) : In(d) # 0}
           B(a) == {b \in 1 .. Len(dirs[SearchPath[a]]) : dirs[SearchPath[a]][b].base = base}
<1>1. /\ q \in Seq(Seq(Globbed)) /\ Len(q) = N
      /\ found = FlattenSeq(q) /\ found \in Seq(Globbed)
      /\ \A i \in 1 .. N :
           /\ dirs[SearchPath[i]] \in Seq(UnitFiles)
           /\ Len(q[i]) = Len(dirs[SearchPath[i]])
           /\ \A b \in 1 .. Len(q[i]) : q[i][b] = [dir |-> SearchPath[i], file |-> dirs[SearchPath[i]][b]]
  BY GlobLays
<1>2. N \in Nat
  BY SearchPathProperties
<1>3. LoadedFile(base) = [dir |-> SystemdPath[sys], file |-> dirs[SystemdPath[sys]][In(SystemdPath[sys])]]
  BY Zenon DEF LoadedFile
<1>4. FirstOf(pos, A, N)
  <2>1. pos = IF A # {} THEN Min(A) ELSE 0
    BY Zenon DEF SelectInSeq
  <2> HIDE DEF A, pos, N
  <2>2. A \in SUBSET (1 .. N)
    BY DEF A
  <2> QED BY <1>2, <2>1, <2>2, SelectsFirst
<1>24. FirstOf(sys, C, 12) /\ C = {a \in 1 .. 12 : SystemdPath[a] \in D}
  <2>1. sys = IF C # {} THEN Min(C) ELSE 0
    BY Zenon DEF SelectInSeq
  <2>2. C = {a \in 1 .. 12 : SystemdPath[a] \in D} /\ C \in SUBSET (1 .. 12)
    <3>1. Len(SystemdPath) = 12 /\ \A a \in 1 .. 12 : SystemdPath[a] \in ToSet(SystemdPath)
      BY SearchPathProperties DEF ToSet
    <3> QED BY <3>1
  <2> HIDE DEF C, sys, D
  <2> QED BY <2>1, <2>2, SelectsFirst
<1>25. A = {a \in 1 .. 11 : SearchPath[a] \in D} /\ N = 11
  BY SearchPathProperties
<1>26. ASSUME NEW d \in D
       PROVE  In(d) \in 1 .. Len(dirs[d]) /\ dirs[d] \in Seq(UnitFiles) /\ d \in ToSet(SystemdPath)
  <2> DEFINE s == dirs[d]
             I == {b \in 1 .. Len(s) : s[b].base = base}
             x == SelectInSeq(s, LAMBDA f : f.base = base)
  <2>1. x = IF I # {} THEN Min(I) ELSE 0
    BY Zenon DEF SelectInSeq
  <2>2. d \in ToSet(SystemdPath) /\ x # 0
    OBVIOUS
  <2>3. s \in Seq(UnitFiles)
    BY <2>2 DEF DirsTyped
  <2> HIDE DEF s
  <2>4. Len(s) \in Nat
    BY <2>3
  <2>5. I \in SUBSET (1 .. Len(s))
    OBVIOUS
  <2> HIDE DEF I, x
  <2>6. FirstOf(x, I, Len(s))
    BY <2>1, <2>4, <2>5, SelectsFirst
  <2>7. x \in 1 .. Len(s)
    BY <2>2, <2>4, <2>6 DEF FirstOf
  <2> QED BY <2>2, <2>3, <2>7 DEF s, x
<1>5. ASSUME NEW a \in 1 .. N PROVE FirstOf(In(SearchPath[a]), B(a), Len(dirs[SearchPath[a]]))
  <2> DEFINE s == dirs[SearchPath[a]]
             I == {b \in 1 .. Len(s) : s[b].base = base}
             x == SelectInSeq(s, LAMBDA f : f.base = base)
  <2>1. x = IF I # {} THEN Min(I) ELSE 0
    BY Zenon DEF SelectInSeq
  <2>2. s \in Seq(UnitFiles)
    BY <1>1
  <2> HIDE DEF s
  <2>3. Len(s) \in Nat
    BY <2>2
  <2>4. I \in SUBSET (1 .. Len(s))
    OBVIOUS
  <2> HIDE DEF I, x
  <2>5. FirstOf(x, I, Len(s))
    BY <2>1, <2>3, <2>4, SelectsFirst
  <2> QED BY <2>5 DEF s, I, x
<1> DEFINE P(a) == In(SearchPath[a])
<1>6. \A a \in 1 .. N : FirstOf(P(a), B(a), Len(dirs[SearchPath[a]]))
  BY <1>5
<1>7. A = {a \in 1 .. N : P(a) # 0}
  OBVIOUS
<1>8. found[j].file.base = base /\ j \in 1 .. Len(found)
  OBVIOUS
<1> HIDE DEF P, A, C, pos, q, found, N, D, sys
<1>9. ASSUME NEW a \in 1 .. N, NEW b \in 1 .. Len(q[a])
      PROVE  q[a][b].file = dirs[SearchPath[a]][b]
  <2>1. q[a][b] = [dir |-> SearchPath[a], file |-> dirs[SearchPath[a]][b]]
    BY <1>1
  <2> QED BY <2>1
<1>10. q \in Seq(Seq(Globbed)) /\ Len(q) = N
  BY <1>1
<1>11. PICK L : Lays(L, q, found)
  BY <1>1, FlattenLays
<1>12. /\ \A h \in 0 .. N : \A j2 \in 0 .. h : L[j2] <= L[h]
       /\ \A x \in 1 .. Len(found) : \E h \in 1 .. N : \E i \in 1 .. Len(q[h]) : x = L[h - 1] + i
  <2>1. Ordered(L, q, found)
    BY <1>10, <1>11, LaysOrder
  <2> QED BY <1>10, <2>1 DEF Ordered
<1>13. /\ L \in [0 .. N -> Nat]
       /\ \A h \in 1 .. N : /\ L[h] = L[h - 1] + Len(q[h])
                            /\ \A i \in 1 .. Len(q[h]) : found[L[h - 1] + i] = q[h][i]
  BY <1>1, <1>11 DEF Lays
<1>14. PICK c \in 1 .. N : \E e \in 1 .. Len(q[c]) : j = L[c - 1] + e
  BY <1>8, <1>12
<1>15. PICK e \in 1 .. Len(q[c]) : j = L[c - 1] + e
  BY <1>14
<1>16. dirs[SearchPath[c]][e].base = base
  <2>1. found[j] = q[c][e]
    BY <1>13, <1>15
  <2> QED BY <1>8, <1>9, <2>1
<1>17. e \in B(c)
  BY <1>1, <1>16
<1>18. P(c) # 0 /\ P(c) <= e
  BY <1>6, <1>17 DEF FirstOf
<1>19. pos # 0 /\ pos \in 1 .. N /\ pos <= c /\ P(pos) # 0
  <2>1. c \in A
    BY <1>7, <1>18
  <2>2. pos # 0 /\ pos \in A /\ pos <= c
    BY <1>4, <2>1 DEF FirstOf
  <2> QED BY <1>7, <2>2
<1> DEFINE b == P(pos)
           m == Len(q[pos])
<1>20. b \in B(pos) /\ b \in 1 .. m
  <2>1. b \in B(pos)
    BY <1>6, <1>19 DEF FirstOf
  <2>2. m = Len(dirs[SearchPath[pos]])
    BY <1>1, <1>19
  <2> HIDE DEF b, m
  <2> QED BY <2>1, <2>2
<1>21. found[L[pos - 1] + b] = [dir |-> SearchPath[pos], file |-> dirs[SearchPath[pos]][b]]
  <2>1. found[L[pos - 1] + b] = q[pos][b]
    BY <1>13, <1>19, <1>20
  <2>2. q[pos][b] = [dir |-> SearchPath[pos], file |-> dirs[SearchPath[pos]][b]]
    BY <1>1, <1>19, <1>20
  <2> QED BY <2>1, <2>2
<1>27. /\ sys \in 1 .. 12 /\ SystemdPath[sys] \in D
       /\ SystemdPath[sys] \in ToSet(SearchPath) => SystemdPath[sys] = SearchPath[pos]
  <2>1. FirstOf(pos, A, 11) /\ pos # 0
    BY <1>4, <1>19, <1>25
  <2> QED BY <1>24, <1>25, <2>1, FirstDirectory
<1>22. LoadedFile(base).dir \in ToSet(SearchPath) => found[L[pos - 1] + b] = LoadedFile(base)
  BY <1>3, <1>21, <1>27 DEF P
<1>28. LoadedFile(base) \in Globbed
  <2> DEFINE d == SystemdPath[sys]
             s == dirs[d]
             x == In(d)
  <2>1. x \in 1 .. Len(s) /\ s \in Seq(UnitFiles) /\ d \in ToSet(SystemdPath)
    BY <1>26, <1>27
  <2>2. LoadedFile(base) = [dir |-> d, file |-> s[x]]
    BY <1>3
  <2> HIDE DEF d, s, x
  <2> QED BY <2>1, <2>2 DEF Globbed
<1>23. L[pos - 1] + b \in 1 .. j
  <2>1. pos - 1 \in 0 .. N /\ c - 1 \in 0 .. N /\ pos \in 0 .. N /\ b \in Nat \ {0}
    BY <1>2, <1>19, <1>20
  <2>2. L[pos - 1] \in Nat /\ L[pos] \in Nat /\ L[c - 1] \in Nat
    BY <1>13, <2>1
  <2>3. j \in Nat /\ e \in Nat \ {0} /\ m \in Nat
    <3>1. e \in 1 .. Len(q[c]) /\ Len(q[c]) \in Nat /\ m \in Nat
      BY <1>1, <1>19
    <3>2. j \in Nat
      BY <1>8
    <3> QED BY <3>1, <3>2
  <2>4. CASE pos = c
    BY <1>15, <1>18, <2>1, <2>2, <2>3, <2>4
  <2>5. CASE pos # c
    <3>1. pos \in 0 .. c - 1
      BY <1>19, <2>5
    <3>2. L[pos] <= L[c - 1]
      BY <1>12, <2>1, <3>1
    <3>3. L[pos] = L[pos - 1] + m
      BY <1>13, <1>19
    <3>4. b <= m
      BY <1>20, <2>3
    <3>5. j = L[c - 1] + e
      BY <1>15
    <3> DEFINE v == L[pos - 1]
               w == L[pos]
               z == L[c - 1]
    <3> HIDE DEF b, m, v, w, z
    <3>6. v \in Nat /\ w \in Nat /\ z \in Nat /\ b \in Nat \ {0} /\ m \in Nat
      BY <2>1, <2>2, <2>3 DEF v, w, z
    <3>7. w <= z /\ w = v + m /\ j = z + e
      BY <3>2, <3>3, <3>5 DEF v, w, z
    <3>8. e \in Nat
      BY <2>3
    <3>9. v + b <= j /\ v + b \in Nat \ {0}
      BY <3>6, <3>7, <3>8, <3>4
    <3>10. L[pos - 1] + b <= j /\ L[pos - 1] + b \in Nat \ {0}
      BY <3>9 DEF v
    <3> QED BY <2>3, <3>10
  <2> QED BY <2>4, <2>5
<1> QED BY <1>22, <1>23, <1>28 DEF found

-----------------------------------------------------------------------------
(* The form: what its fields and buttons belong to.                        *)

\* What the fields were filled with belongs to the device in the field of the
\* device, and the buttons are those of that device, if it is listed.
FormOfDevice == form.of # NoDevice => form.path = form.of.PATH

ButtonsShown == find_device(devs, form.path) # NoDevice => form.buttons = Buttons(devs, form.path)

\* Invariant of the form: what filled its fields, and its buttons, belong to the
\* device it names.
FormInv == /\ world \in Worlds /\ DOMAIN mounts \subseteq world.devices /\ DOMAIN devs \subseteq world.devices
           /\ form = [path |-> form.path, target |-> form.target, type |-> form.type,
                      options |-> form.options, modified |-> form.modified, of |-> form.of,
                      buttons |-> form.buttons]
           /\ FormOfDevice /\ ButtonsShown

\* The bounds are kept.
Counted == edits \in 0 .. MaxEdits /\ changes \in 0 .. MaxChanges

\* The device that find_device() finds has the path it looks for.
LEMMA DeviceFound ==
  ASSUME NEW list, NEW path, find_device(list, path) # NoDevice
  PROVE  find_device(list, path) \in DOMAIN list /\ find_device(list, path).PATH = path
  BY DEF find_device

\* What PopulateFormFields() makes of the form.
LEMMA FieldsPath ==
  ASSUME NEW list, NEW d
  PROVE  Fields(list, d).path = d.PATH
<1>1. CASE list[d].MOUNTPOINT # <<>>
  BY <1>1 DEF Fields
<1>2. CASE list[d].MOUNTPOINT = <<>> /\ UnitOf(system_db, d) # NoUnit
  BY <1>2 DEF Fields
<1>3. CASE list[d].MOUNTPOINT = <<>> /\ UnitOf(system_db, d) = NoUnit
  BY <1>3 DEF Fields
<1> QED BY <1>1, <1>2, <1>3

\* What PopulateFormFields() makes of the form: it names the device, has its
\* buttons, and either shows the device or keeps what the user has typed for it.
LEMMA Populated ==
  ASSUME NEW list, NEW d, FormInv
  PROVE  LET f == PopulateFormFields(list, d)
         IN  /\ f = [path |-> f.path, target |-> f.target, type |-> f.type,
                      options |-> f.options, modified |-> f.modified, of |-> f.of,
                      buttons |-> f.buttons]
             /\ f.path = d.PATH /\ f.buttons = Buttons(list, d.PATH)
             /\ \/ f.of = d /\ f.modified = FALSE /\ (form.path # d.PATH \/ ~form.modified)
                \/ /\ form.path = d.PATH /\ f.of = form.of /\ f.modified = form.modified
                   /\ f.target = form.target /\ f.type = form.type /\ f.options = form.options
<1> DEFINE f == PopulateFormFields(list, d)
           s == Fields(list, d)
<1>1. CASE form.path # d.PATH \/ ~form.modified
  <2>1. f = [path |-> s.path, target |-> s.target, type |-> s.type, options |-> s.options,
             modified |-> FALSE, of |-> d, buttons |-> Buttons(list, d.PATH)]
    BY <1>1 DEF PopulateFormFields
  <2>2. s.path = d.PATH
    BY FieldsPath
  <2> HIDE DEF f, s
  <2>3. f = [path |-> f.path, target |-> f.target, type |-> f.type,
                      options |-> f.options, modified |-> f.modified, of |-> f.of,
                      buttons |-> f.buttons]
    BY <2>1
  <2>4. f.path = d.PATH /\ f.buttons = Buttons(list, d.PATH) /\ f.of = d /\ f.modified = FALSE
    BY <2>1, <2>2
  <2> QED BY <1>1, <2>3, <2>4 DEF f
<1>2. CASE ~(form.path # d.PATH \/ ~form.modified)
  <2>1. f = [form EXCEPT !.buttons = Buttons(list, d.PATH)]
    BY <1>2 DEF PopulateFormFields
  <2>2. f = [path |-> form.path, target |-> form.target, type |-> form.type,
             options |-> form.options, modified |-> form.modified, of |-> form.of,
             buttons |-> Buttons(list, d.PATH)]
    BY <2>1 DEF FormInv
  <2> HIDE DEF f
  <2>3. f = [path |-> f.path, target |-> f.target, type |-> f.type,
                      options |-> f.options, modified |-> f.modified, of |-> f.of,
                      buttons |-> f.buttons]
    BY <2>2
  <2>4. f.path = d.PATH /\ f.buttons = Buttons(list, d.PATH)
    BY <1>2, <2>2
  <2>5. /\ form.path = d.PATH /\ f.of = form.of /\ f.modified = form.modified
        /\ f.target = form.target /\ f.type = form.type /\ f.options = form.options
    BY <1>2, <2>2
  <2> QED BY <2>3, <2>4, <2>5 DEF f
<1> QED BY <1>1, <1>2

\* The form is empty first.
LEMMA FormInvInit == Init => FormInv
<1> SUFFICES ASSUME Init PROVE FormInv
  OBVIOUS
<1>1. world \in Worlds /\ DOMAIN mounts \subseteq world.devices /\ DOMAIN devs \subseteq world.devices
  BY DEF Init
<1>2. form = [path |-> form.path, target |-> form.target, type |-> form.type,
                      options |-> form.options, modified |-> form.modified, of |-> form.of,
                      buttons |-> form.buttons]
  BY DEF Init
<1>3. FormOfDevice
  BY DEF Init, FormOfDevice
<1>4. ButtonsShown
  <2> SUFFICES ASSUME find_device(devs, form.path) # NoDevice
               PROVE  form.buttons = Buttons(devs, form.path)
    BY DEF ButtonsShown
  <2>1. find_device(devs, form.path) \in DOMAIN devs
    BY DeviceFound
  <2>2. form.path = <<>> /\ form.buttons = [mount |-> FALSE, unmount |-> FALSE]
    BY DEF Init
  <2>3. devs[find_device(devs, form.path)].MOUNTPOINT = <<>>
    BY <2>1 DEF Init, NotMounted
  <2> QED BY <2>2, <2>3 DEF Buttons
<1> QED BY <1>1, <1>2, <1>3, <1>4 DEF FormInv

\* The form after the list was read again.
LEMMA Reselected ==
  ASSUME NEW list, FormInv
  PROVE  LET f == Reselect(list)
         IN  /\ f = [path |-> f.path, target |-> f.target, type |-> f.type,
                      options |-> f.options, modified |-> f.modified, of |-> f.of,
                      buttons |-> f.buttons]
             /\ f.of # NoDevice => f.path = f.of.PATH
             /\ find_device(list, f.path) # NoDevice => f.buttons = Buttons(list, f.path)
             /\ form.modified => /\ f.target = form.target /\ f.type = form.type
                                 /\ f.options = form.options /\ f.path = form.path
<1> DEFINE f == Reselect(list)
           d == find_device(list, form.path)
<1>1. CASE d = NoDevice
  BY <1>1 DEF Reselect, FormInv, FormOfDevice
<1>2. CASE d # NoDevice
  <2>1. d.PATH = form.path
    BY <1>2, DeviceFound
  <2> DEFINE g == PopulateFormFields(list, d)
  <2>2. f = g
    BY <1>2 DEF Reselect
  <2> HIDE DEF f, d
  <2>3. /\ g = [path |-> g.path, target |-> g.target, type |-> g.type,
                      options |-> g.options, modified |-> g.modified, of |-> g.of,
                      buttons |-> g.buttons]
        /\ g.path = d.PATH /\ g.buttons = Buttons(list, d.PATH)
        /\ \/ g.of = d /\ g.modified = FALSE /\ (form.path # d.PATH \/ ~form.modified)
           \/ /\ form.path = d.PATH /\ g.of = form.of /\ g.modified = form.modified
              /\ g.target = form.target /\ g.type = form.type /\ g.options = form.options
    BY Populated
  <2> HIDE DEF g
  <2>4. /\ f = [path |-> f.path, target |-> f.target, type |-> f.type,
                      options |-> f.options, modified |-> f.modified, of |-> f.of,
                      buttons |-> f.buttons]
        /\ f.path = d.PATH /\ f.buttons = Buttons(list, d.PATH)
        /\ \/ f.of = d /\ f.modified = FALSE /\ (form.path # d.PATH \/ ~form.modified)
           \/ /\ form.path = d.PATH /\ f.of = form.of /\ f.modified = form.modified
              /\ f.target = form.target /\ f.type = form.type /\ f.options = form.options
    BY <2>2, <2>3
  <2>5. f.of # NoDevice => f.path = f.of.PATH
    BY <2>4 DEF FormInv, FormOfDevice
  <2> QED BY <2>1, <2>4, <2>5 DEF f
<1> QED BY <1>1, <1>2

\* Every step keeps the form to its device.
LEMMA FormInvNext == FormInv /\ [Next]_vars => FormInv'
<1> SUFFICES ASSUME FormInv, [Next]_vars PROVE FormInv'
  OBVIOUS
<1> USE DEF FormInv
<1>1. CASE Select
  <2>1. PICK d \in DOMAIN devs : form' = PopulateFormFields(devs, d)
    BY <1>1 DEF Select
  <2>2. UNCHANGED <<world, mounts, devs>>
    BY <1>1 DEF Select
  <2> DEFINE f == PopulateFormFields(devs, d)
  <2>3. /\ f = [path |-> f.path, target |-> f.target, type |-> f.type,
                      options |-> f.options, modified |-> f.modified, of |-> f.of,
                      buttons |-> f.buttons]
        /\ f.path = d.PATH /\ f.buttons = Buttons(devs, d.PATH)
        /\ \/ f.of = d
           \/ form.path = d.PATH /\ f.of = form.of
    BY Populated
  <2> HIDE DEF f
  <2>4. form' = f
    BY <2>1 DEF f
  <2>5. FormOfDevice'
    BY <2>3, <2>4 DEF FormOfDevice
  <2>6. ButtonsShown'
    BY <2>2, <2>3, <2>4 DEF ButtonsShown
  <2> QED BY <2>2, <2>3, <2>4, <2>5, <2>6
<1>2. CASE Edit
  <2>1. UNCHANGED <<world, mounts, devs>>
    BY <1>2 DEF Edit
  <2>2. CASE \E p \in world.paths :
                  form' = [form EXCEPT !.path = p, !.buttons = Buttons(devs, p), !.of = NoDevice]
    <3>1. PICK p \in world.paths :
                  form' = [form EXCEPT !.path = p, !.buttons = Buttons(devs, p), !.of = NoDevice]
      BY <2>2
    <3>2. form' = [path |-> p, target |-> form.target, type |-> form.type,
                      options |-> form.options, modified |-> form.modified, of |-> NoDevice,
                      buttons |-> Buttons(devs, p)]
      BY <3>1
    <3> QED BY <2>1, <3>2 DEF FormOfDevice, ButtonsShown
  <2>3. CASE \E t \in world.targets : form' = [form EXCEPT !.target = t, !.modified = TRUE]
    <3>1. PICK t \in world.targets : form' = [form EXCEPT !.target = t, !.modified = TRUE]
      BY <2>3
    <3>2. form' = [path |-> form.path, target |-> t, type |-> form.type,
                      options |-> form.options, modified |-> TRUE, of |-> form.of,
                      buttons |-> form.buttons]
      BY <3>1
    <3> QED BY <2>1, <3>2 DEF FormOfDevice, ButtonsShown
  <2>4. CASE \E o \in world.options : form' = [form EXCEPT !.options = o, !.modified = TRUE]
    <3>1. PICK o \in world.options : form' = [form EXCEPT !.options = o, !.modified = TRUE]
      BY <2>4
    <3>2. form' = [path |-> form.path, target |-> form.target, type |-> form.type,
                      options |-> o, modified |-> TRUE, of |-> form.of,
                      buttons |-> form.buttons]
      BY <3>1
    <3> QED BY <2>1, <3>2 DEF FormOfDevice, ButtonsShown
  <2>5. CASE \E y \in world.types : form' = [form EXCEPT !.type = y, !.modified = TRUE]
    <3>1. PICK y \in world.types : form' = [form EXCEPT !.type = y, !.modified = TRUE]
      BY <2>5
    <3>2. form' = [path |-> form.path, target |-> form.target, type |-> y,
                      options |-> form.options, modified |-> TRUE, of |-> form.of,
                      buttons |-> form.buttons]
      BY <3>1
    <3> QED BY <2>1, <3>2 DEF FormOfDevice, ButtonsShown
  <2> QED BY <1>2, <2>2, <2>3, <2>4, <2>5 DEF Edit
<1>3. CASE Refresh
  <2>1. UNCHANGED <<world, mounts>> /\ devs' = mounts /\ form' = Reselect(mounts)
    BY <1>3 DEF Refresh
  <2> QED BY <2>1, Reselected DEF FormOfDevice, ButtonsShown
<1>4. CASE Change
  <2>1. UNCHANGED <<world, devs, form>>
    BY <1>4 DEF Change
  <2>2. DOMAIN mounts' \subseteq world.devices
    BY <1>4 DEF Change
  <2> QED BY <2>1, <2>2 DEF FormOfDevice, ButtonsShown
<1>5. CASE RunSucceeds
  <2>1. UNCHANGED world /\ devs' = mounts' /\ form' = Reselect(mounts')
    BY <1>5 DEF RunSucceeds
  <2>2. DOMAIN mounts' = DOMAIN mounts
    BY <1>5 DEF RunSucceeds, Mounted, Unmounted
  <2> DEFINE f == Reselect(mounts')
  <2>3. /\ f = [path |-> f.path, target |-> f.target, type |-> f.type,
                      options |-> f.options, modified |-> f.modified, of |-> f.of,
                      buttons |-> f.buttons]
        /\ f.of # NoDevice => f.path = f.of.PATH
        /\ find_device(mounts', f.path) # NoDevice => f.buttons = Buttons(mounts', f.path)
    BY Reselected
  <2> HIDE DEF f
  <2>4. form' = f
    BY <2>1 DEF f
  <2> QED BY <2>1, <2>2, <2>3, <2>4 DEF FormOfDevice, ButtonsShown
<1>6. CASE UNCHANGED <<world, mounts, devs, form>>
  BY <1>6 DEF FormOfDevice, ButtonsShown
<1>7. CASE MountClicked \/ UnmountClicked
  BY <1>6, <1>7 DEF MountClicked, UnmountClicked, Clicked
<1>8. CASE Judge \/ Rejected \/ ReadPastTie \/ DirExists \/ MakeDir \/ InstallDir
  BY <1>6, <1>8 DEF Judge, Rejected, ReadPastTie, DirExists, MakeDir, InstallDir
<1>9. CASE NoMountpoint \/ Decide \/ NoCommand \/ DecideUnmount \/ RunFails
  BY <1>6, <1>9 DEF NoMountpoint, Decide, NoCommand, DecideUnmount, RunFails
<1>10. CASE UNCHANGED vars
  BY <1>6, <1>10 DEF vars
<1> HIDE DEF FormInv
<1> QED BY <1>1, <1>2, <1>3, <1>4, <1>5, <1>7, <1>8, <1>9, <1>10 DEF Next

\* The form keeps to its device.
LEMMA FormInvAlways == Spec => []FormInv
<1>1. Init => FormInv
  BY FormInvInit
<1>2. FormInv /\ [Next]_vars => FormInv'
  BY FormInvNext
<1> QED BY <1>1, <1>2, PTL DEF Spec

\* Devices of a world are none of NoDevice.
LEMMA RealDevice == NoDevice \notin Devices
<1>1. NoDevice.PATH = <<>> /\ DOMAIN NoDevice = {"PATH"}
  BY DEF NoDevice
<1>2. \A d \in Devices : "LABEL" \in DOMAIN d
  BY DEF Devices
<1> QED BY <1>1, <1>2

\* What is counted stays within its bounds.
LEMMA CountedAlways == Spec => []Counted
<1> USE DEF Counted
<1>1. Init => Counted
  <2>1. Init => edits = 0 /\ changes = 0
    BY Zenon DEF Init
  <2> QED BY <2>1, BoundsAssumption
<1>2. Counted /\ [Next]_vars => Counted'
  <2> SUFFICES ASSUME Counted, [Next]_vars PROVE Counted'
    OBVIOUS
  <2>1. CASE Edit
    <3>1. edits < MaxEdits /\ edits' = edits + 1 /\ changes' = changes
      BY <2>1, Zenon DEF Edit
    <3> QED BY <3>1, BoundsAssumption
  <2>2. CASE Change
    BY <2>2, BoundsAssumption DEF Change
  <2>3. CASE UNCHANGED <<edits, changes>>
    BY <2>3
  <2>4. CASE Select \/ Refresh \/ MountClicked \/ UnmountClicked
    BY <2>3, <2>4 DEF Select, Refresh, MountClicked, UnmountClicked, Clicked
  <2>5. CASE Judge \/ Rejected \/ ReadPastTie \/ DirExists \/ MakeDir \/ InstallDir
    BY <2>3, <2>5 DEF Judge, Rejected, ReadPastTie, DirExists, MakeDir, InstallDir
  <2>6. CASE NoMountpoint \/ Decide \/ NoCommand \/ DecideUnmount \/ RunFails \/ RunSucceeds
    BY <2>3, <2>6 DEF NoMountpoint, Decide, NoCommand, DecideUnmount, RunFails, RunSucceeds
  <2>7. CASE UNCHANGED vars
    BY <2>3, <2>7 DEF vars
  <2> HIDE DEF Counted
  <2> QED BY <2>1, <2>2, <2>4, <2>5, <2>6, <2>7 DEF Next
<1> QED BY <1>1, <1>2, PTL DEF Spec

-----------------------------------------------------------------------------
(* The type invariant, and what mount() has decided.                       *)

\* UnitOf() and UnitAt() look for the first unit that is for the device, or for
\* the directory.
LEMMA UnitsFirst ==
  ASSUME NEW db \in Seq(Units)
  PROVE  /\ \A d : \E x : /\ FirstOf(x, {i \in 1 .. Len(db) : Matches(db[i], d, d.PATH)}, Len(db))
                          /\ UnitOf(db, d) = IF x = 0 THEN NoUnit ELSE db[x]
         /\ \A t : \E x : /\ FirstOf(x, {i \in 1 .. Len(db) : db[i].where = t}, Len(db))
                          /\ UnitAt(db, t) = IF x = 0 THEN NoUnit ELSE db[x]
<1>1. Len(db) \in Nat
  OBVIOUS
<1>2. ASSUME NEW d
      PROVE \E x : /\ FirstOf(x, {i \in 1 .. Len(db) : Matches(db[i], d, d.PATH)}, Len(db))
                   /\ UnitOf(db, d) = IF x = 0 THEN NoUnit ELSE db[x]
  <2> DEFINE I == {i \in 1 .. Len(db) : Matches(db[i], d, d.PATH)}
             x == IF I # {} THEN Min(I) ELSE 0
  <2>1. UnitOf(db, d) = IF x = 0 THEN NoUnit ELSE db[x]
    BY Zenon DEF UnitOf, First, SelectInSeq
  <2>2. I \in SUBSET (1 .. Len(db))
    OBVIOUS
  <2> HIDE DEF I
  <2>3. FirstOf(x, I, Len(db))
    BY <1>1, <2>2, SelectsFirst
  <2> HIDE DEF x
  <2> QED BY <2>1, <2>3 DEF I
<1>3. ASSUME NEW t
      PROVE \E x : /\ FirstOf(x, {i \in 1 .. Len(db) : db[i].where = t}, Len(db))
                   /\ UnitAt(db, t) = IF x = 0 THEN NoUnit ELSE db[x]
  <2> DEFINE I == {i \in 1 .. Len(db) : db[i].where = t}
             x == IF I # {} THEN Min(I) ELSE 0
  <2>1. UnitAt(db, t) = IF x = 0 THEN NoUnit ELSE db[x]
    BY Zenon DEF UnitAt, First, SelectInSeq
  <2>2. I \in SUBSET (1 .. Len(db))
    OBVIOUS
  <2> HIDE DEF I
  <2>3. FirstOf(x, I, Len(db))
    BY <1>1, <2>2, SelectsFirst
  <2> HIDE DEF x
  <2> QED BY <2>1, <2>3 DEF I
<1> QED BY <1>2, <1>3

\* They find units.
LEMMA UnitsTyped ==
  ASSUME NEW db \in Seq(Units)
  PROVE  /\ \A d : UnitOf(db, d) \in Units
         /\ \A t : UnitAt(db, t) \in Units
         /\ \A i : UnitFor(db, i) \in Units
<1>1. ASSUME NEW d PROVE UnitOf(db, d) \in Units
  <2>1. PICK x : /\ FirstOf(x, {i \in 1 .. Len(db) : Matches(db[i], d, d.PATH)}, Len(db))
                 /\ UnitOf(db, d) = IF x = 0 THEN NoUnit ELSE db[x]
    BY UnitsFirst
  <2>2. x # 0 => x \in 1 .. Len(db)
    BY <2>1 DEF FirstOf
  <2> QED BY <2>1, <2>2, NoUnitTyped
<1>2. ASSUME NEW t PROVE UnitAt(db, t) \in Units
  <2>1. PICK x : /\ FirstOf(x, {i \in 1 .. Len(db) : db[i].where = t}, Len(db))
                 /\ UnitAt(db, t) = IF x = 0 THEN NoUnit ELSE db[x]
    BY UnitsFirst
  <2>2. x # 0 => x \in 1 .. Len(db)
    BY <2>1 DEF FirstOf
  <2> QED BY <2>1, <2>2, NoUnitTyped
<1>3. \A i : UnitFor(db, i) \in {UnitAt(db, i.target), NoUnit}
  BY DEF UnitFor
<1> QED BY <1>1, <1>2, <1>3, NoUnitTyped

\* find_suitable() gives the number of saved options, or 0.
LEMMA SuitableTyped ==
  ASSUME NEW type, NEW d, world \in Worlds
  PROVE  find_suitable(type, d) \in 0 .. Len(world.saved)
<1> DEFINE n == Len(world.saved)
           I(l, u) == {i \in 1 .. n : /\ world.saved[i].fs_type = type
                                      /\ world.saved[i].label = l /\ world.saved[i].uuid = u}
           For(l, u) == IF I(l, u) # {} THEN Min(I(l, u)) ELSE 0
           Or(i, j)  == IF i # 0 THEN i ELSE j
<1>1. find_suitable(type, d) =
        Or(For(d.LABEL, d.UUID), Or(For(<<>>, d.UUID), Or(For(d.LABEL, <<>>), For(<<>>, <<>>))))
  BY Zenon DEF find_suitable, SelectInSeq
<1>2. n \in Nat
  <2>1. world.saved \in Seq(SavedOptions)
    BY WorldsAssumption DEF IsWorld
  <2> QED BY <2>1
<1>3. ASSUME NEW l, NEW u PROVE For(l, u) \in 0 .. n
  <2>1. I(l, u) \in SUBSET (1 .. n)
    OBVIOUS
  <2> HIDE DEF I, n
  <2> QED BY <1>2, <2>1, SelectsFirst DEF FirstOf
<1> HIDE DEF For, n
<1> QED BY <1>1, <1>3 DEF n

\* What is said of devices: what they are mounted as.
ListTyped(list) == list \in [DOMAIN list -> Attached] /\ DOMAIN list \subseteq world.devices

\* The fields of the form hold texts.
LEMMA FieldsTyped ==
  ASSUME NEW list, ListTyped(list), NEW d \in DOMAIN list, world \in Worlds, system_db \in Seq(Units)
  PROVE  Fields(list, d) \in [path : Text, target : Text, options : Text, type : STRING]
<1>1. IsWorld(world)
  BY WorldsAssumption
<1>2. d \in Devices /\ list[d] \in Attached
  BY <1>1 DEF ListTyped, IsWorld
<1>3. d.PATH \in Text /\ d.FSTYPE \in STRING /\ list[d].MOUNTPOINT \in Text /\ list[d].OPTIONS \in Text
  BY <1>2 DEF Devices, Attached
<1>4. world.mtp_type \in STRING /\ world.mountpoint \in Text /\ world.default_opts \in Text
      /\ world.aliases \in [DOMAIN world.aliases -> STRING] /\ world.saved \in Seq(SavedOptions)
  BY <1>1 DEF IsWorld
<1> DEFINE raw  == IF d.mtp THEN world.mtp_type ELSE d.FSTYPE
           type == IF raw \in DOMAIN world.aliases THEN world.aliases[raw] ELSE raw
           s    == find_suitable(type, d)
           u    == UnitOf(system_db, d)
<1>5. raw \in STRING
  BY <1>3, <1>4
<1> HIDE DEF raw
<1>6. type \in STRING
  BY <1>4, <1>5
<1>7. u \in Units
  BY UnitsTyped
<1> DEFINE t == IF u.fstype = "" THEN d.FSTYPE ELSE u.fstype
<1>8. u.where \in Text /\ u.options \in Text /\ t \in STRING
  BY <1>3, <1>7 DEF Units
<1> HIDE DEF type
<1>9. s \in 0 .. Len(world.saved)
  BY SuitableTyped
<1> DEFINE target  == IF s # 0 /\ world.saved[s].mountpoint # <<>>
                      THEN world.saved[s].mountpoint ELSE world.mountpoint
           options == IF s # 0 THEN world.saved[s].options
                      ELSE IF type # "" THEN world.default_opts ELSE list[d].OPTIONS
<1> HIDE DEF s
<1>10. s # 0 => world.saved[s] \in SavedOptions
  BY <1>4, <1>9
<1>11. s # 0 => world.saved[s].mountpoint \in Text /\ world.saved[s].options \in Text
  BY <1>10 DEF SavedOptions
<1>12. target \in Text /\ options \in Text
  BY <1>3, <1>4, <1>11
<1> HIDE DEF target, options, u, t
<1>13. \/ Fields(list, d) = [path |-> d.PATH, target |-> list[d].MOUNTPOINT,
                             options |-> list[d].OPTIONS, type |-> d.FSTYPE]
       \/ Fields(list, d) = [path |-> d.PATH, target |-> u.where, options |-> u.options, type |-> t]
       \/ Fields(list, d) = [path |-> d.PATH, type |-> type, target |-> target, options |-> options]
  <2>1. CASE list[d].MOUNTPOINT # <<>>
    BY <2>1, Zenon DEF Fields
  <2>2. CASE list[d].MOUNTPOINT = <<>> /\ u # NoUnit
    BY <2>2, Zenon DEF Fields, u, t
  <2>3. CASE list[d].MOUNTPOINT = <<>> /\ u = NoUnit
    BY <2>3, Zenon DEF Fields, u, raw, type, s, target, options
  <2> QED BY <2>1, <2>2, <2>3
<1> QED BY <1>3, <1>5, <1>6, <1>8, <1>12, <1>13

\* A device, or none.
SomeDevice == Devices \cup {NoDevice}

\* What the form can hold.
Forms == [path : Text, target : Text, type : STRING, options : Text, modified : BOOLEAN,
          of : SomeDevice, buttons : [mount : BOOLEAN, unmount : BOOLEAN]]

\* What mount_info can hold.
Infos == [path : Text, fs_type : STRING, target : Text, options : Text, dev : SomeDevice,
          listed : BOOLEAN, plain : SomeDevice, unit : Units, req : AllRequests]

\* Devices are found among those of a list.
LEMMA FoundTyped ==
  ASSUME NEW list, ListTyped(list), NEW path, world \in Worlds
  PROVE  /\ find_device(list, path) \in SomeDevice
         /\ find_device(list, path) # NoDevice => find_device(list, path) \in DOMAIN list
<1>1. world.devices \subseteq Devices
  BY WorldsAssumption DEF IsWorld
<1>2. find_device(list, path) \in DOMAIN list \cup {NoDevice}
  BY DEF find_device
<1> QED BY <1>1, <1>2 DEF ListTyped, SomeDevice

\* The buttons are enabled or not.
LEMMA ButtonsTyped ==
  ASSUME NEW list, NEW path
  PROVE  Buttons(list, path) \in [mount : BOOLEAN, unmount : BOOLEAN]
<1> DEFINE d == find_device(list, path)
           a == path # <<>> /\ (d = NoDevice \/ list[d].MOUNTPOINT = <<>>)
           b == d # NoDevice /\ list[d].MOUNTPOINT # <<>>
<1>1. Buttons(list, path) = [mount |-> a, unmount |-> b]
  BY DEF Buttons
<1>2. a \in BOOLEAN /\ b \in BOOLEAN
  OBVIOUS
<1> HIDE DEF a, b
<1> QED BY <1>1, <1>2

\* The form, filled in for a device of a list, and after the list was read again.
LEMMA PopulatedTyped ==
  ASSUME NEW list, ListTyped(list), NEW d \in DOMAIN list, world \in Worlds, system_db \in Seq(Units),
         form \in Forms
  PROVE  PopulateFormFields(list, d) \in Forms
<1> DEFINE f == Fields(list, d)
           b == Buttons(list, d.PATH)
<1>1. f \in [path : Text, target : Text, options : Text, type : STRING]
  BY FieldsTyped
<1>2. b \in [mount : BOOLEAN, unmount : BOOLEAN]
  BY ButtonsTyped
<1>3. d \in SomeDevice
  BY WorldsAssumption DEF IsWorld, ListTyped, SomeDevice
<1>4. PopulateFormFields(list, d) = [path |-> f.path, target |-> f.target, type |-> f.type, options |-> f.options,
                                     modified |-> FALSE, of |-> d, buttons |-> b]
      \/ PopulateFormFields(list, d) = [form EXCEPT !.buttons = b]
  BY Zenon DEF PopulateFormFields, f, b
<1> HIDE DEF f, b
<1>5. [path |-> f.path, target |-> f.target, type |-> f.type, options |-> f.options,
       modified |-> FALSE, of |-> d, buttons |-> b] \in Forms
  BY <1>1, <1>2, <1>3 DEF Forms
<1>6. [form EXCEPT !.buttons = b] \in Forms
  BY <1>2 DEF Forms
<1> QED BY <1>4, <1>5, <1>6

\* Selecting the device of the form again leaves a form.
LEMMA ReselectTyped ==
  ASSUME NEW list, ListTyped(list), world \in Worlds, system_db \in Seq(Units), form \in Forms
  PROVE  Reselect(list) \in Forms
<1> DEFINE d == find_device(list, form.path)
<1>1. CASE d = NoDevice
  BY <1>1 DEF Reselect
<1>2. CASE d # NoDevice
  <2>1. d \in DOMAIN list
    BY <1>2, FoundTyped
  <2>2. Reselect(list) = PopulateFormFields(list, d)
    BY <1>2 DEF Reselect
  <2> HIDE DEF d
  <2> QED BY <2>1, <2>2, PopulatedTyped
<1> QED BY <1>1, <1>2

\* What a request is judged by before it is.
NoRequest == [tl |-> "reject", listed |-> FALSE, mtp |-> FALSE, nosuid |-> FALSE,
              unit |-> "none", user |-> "no"]

\* Between two requests mount_info is empty.
LEMMA NoInfoTyped ==
  NoInfo \in Infos /\ NoInfo.listed = FALSE /\ NoInfo.req = NoRequest /\ NoInfo.dev = NoDevice
<1>1. <<>> \in Text /\ "" \in STRING /\ NoUnit \in Units /\ NoDevice \in SomeDevice
  <2>1. <<>> \in Text
    BY DEF Text
  <2>2. "" \in STRING
    BY StringsAssumption
  <2>3. NoDevice \in SomeDevice
    BY DEF SomeDevice
  <2> QED BY <2>1, <2>2, <2>3, NoUnitTyped
<1>2. NoRequest \in AllRequests
  BY DEF NoRequest, AllRequests
<1>3. NoInfo = [path |-> <<>>, fs_type |-> "", target |-> <<>>, options |-> <<>>, dev |-> NoDevice,
                listed |-> FALSE, plain |-> NoDevice, unit |-> NoUnit, req |-> NoRequest]
  BY Zenon DEF NoInfo, NoRequest
<1> QED BY <1>1, <1>2, <1>3 DEF Infos

\* GatherMountInfo() makes a request of the form.
LEMMA GatheredTyped ==
  ASSUME form \in Forms, ListTyped(devs), world \in Worlds
  PROVE  /\ Gathered \in Infos
         /\ Gathered = [path |-> trim(form.path), fs_type |-> form.type, target |-> trim(form.target),
                        options |-> trim(form.options), dev |-> find_device(devs, trim(form.path)),
                        listed |-> find_device(devs, trim(form.path)) # NoDevice,
                        plain |-> IF form.modified THEN NoDevice ELSE form.of, unit |-> NoUnit,
                        req |-> NoRequest]
<1> DEFINE p == trim(form.path)
           t == trim(form.target)
           o == trim(form.options)
           d == find_device(devs, p)
           b == d # NoDevice
           q == IF form.modified THEN NoDevice ELSE form.of
<1>1. form.path \in Text /\ form.target \in Text /\ form.options \in Text /\ form.type \in STRING
      /\ form.of \in SomeDevice
  BY DEF Forms
<1>2. p \in Text /\ t \in Text /\ o \in Text
  BY <1>1, TrimTyped
<1>3. d \in SomeDevice
  BY FoundTyped
<1>4. b \in BOOLEAN
  OBVIOUS
<1>5. q \in SomeDevice
  BY <1>1 DEF SomeDevice
<1>6. Gathered = [NoInfo EXCEPT !.path = p, !.fs_type = form.type, !.target = t, !.options = o, !.dev = d,
                    !.listed = b, !.plain = q]
  BY Zenon DEF Gathered
<1>7. NoInfo = [path |-> <<>>, fs_type |-> "", target |-> <<>>, options |-> <<>>, dev |-> NoDevice,
                listed |-> FALSE, plain |-> NoDevice, unit |-> NoUnit, req |-> NoRequest]
  BY Zenon DEF NoInfo, NoRequest
<1> HIDE DEF p, t, o, d, b, q
<1>8. Gathered = [path |-> p, fs_type |-> form.type, target |-> t, options |-> o, dev |-> d,
                listed |-> b, plain |-> q, unit |-> NoUnit, req |-> NoRequest]
  BY <1>6, <1>7
<1>9. NoUnit \in Units /\ NoRequest \in AllRequests
  BY NoUnitTyped DEF NoRequest, AllRequests
<1>10. Gathered \in Infos
  BY <1>1, <1>2, <1>3, <1>4, <1>5, <1>8, <1>9 DEF Infos
<1> QED BY <1>8, <1>10 DEF p, t, o, d, b, q

\* What mount() judges is a request as MountPolicy has them.
LEMMA JudgedTyped ==
  ASSUME NEW i \in Infos, NEW u
  PROVE  Judged(i, u) \in AllRequests /\ WellFormedRequest(Judged(i, u))
<1> DEFINE tl == check_mountpoint(fs, uid, i.target)
           mtp == i.listed /\ i.dev.mtp
           nosuid == Nosuid(i.options)
           unit == IF u = NoUnit THEN "none"
                   ELSE IF u.fstype = i.fs_type /\ u.options = i.options THEN "exact" ELSE "other"
           user == IF contains_opt(i.options, <<"user">>) THEN "user"
                   ELSE IF contains_opt(i.options, <<"users">>) THEN "users" ELSE "no"
<1>1. Judged(i, u) = [tl |-> tl, listed |-> i.listed, mtp |-> mtp, nosuid |-> nosuid,
                      unit |-> unit, user |-> user]
  BY Zenon DEF Judged
<1>2. tl \in {"trusted", "system", "reject"}
  BY DEF check_mountpoint
<1>3. i.listed \in BOOLEAN
  BY DEF Infos
<1>4. mtp \in BOOLEAN /\ (mtp => i.listed)
  OBVIOUS
<1>5. nosuid \in BOOLEAN
  BY Zenon DEF Nosuid
<1>6. unit \in {"none", "other", "exact"} /\ user \in {"no", "user", "users"}
  OBVIOUS
<1> HIDE DEF tl, mtp, nosuid, unit, user
<1>7. Judged(i, u) \in AllRequests
  BY <1>1, <1>2, <1>3, <1>4, <1>5, <1>6 DEF AllRequests
<1>8. WellFormedRequest(Judged(i, u))
  BY <1>1, <1>4 DEF WellFormedRequest
<1> QED BY <1>7, <1>8

\* The device lists name devices of the world; the list of units is the one its
\* directories give, whenever they were read.
Lists == ListTyped(mounts) /\ ListTyped(devs) /\ system_db = scan_systemd_units(world.dirs, world.links)

\* Who runs the program, and as whom.
Actors == /\ world \in Worlds
          /\ <<usr.home, usr.uid>> \in Starts /\ usr.user = "me" /\ usr.group = "us"
          /\ uid \in {usr.home, usr.uid}

\* How far a handler is, and what it has left behind when it returns.
Handling == /\ pc \in {"idle", "judge", "unmount", "mkdir", "run", "crashed"}
            /\ r \in {"OK", "CMD"}
            /\ pc = "idle" => info = NoInfo /\ made = {}
            /\ pc \in {"idle", "judge", "unmount"} => uid = usr.home /\ made = {}
            /\ (pc = "run") = (cmd # NoCmd)

\* What the handler was asked for.
Requested == info \in Infos /\ WellFormedRequest(info.req) /\ info.listed = (info.dev # NoDevice)

\* Every variable but the file system (which Tree is about) holds what it can hold.
Typed == Actors /\ Lists /\ form \in Forms /\ Handling /\ Requested

\* The list of units has units.
LEMMA DbTyped == Typed => system_db \in Seq(Units)
<1> SUFFICES ASSUME Typed PROVE system_db \in Seq(Units)
  OBVIOUS
<1>1. IsWorld(world)
  BY WorldsAssumption DEF Typed, Actors
<1>2. DirsTyped(world.dirs) /\ LinksTyped(world.links)
  BY <1>1 DEF IsWorld, DirsTyped, LinksTyped
<1> QED BY <1>2, UnitsSifted DEF Sifts, Typed, Lists

\* The variables are typed at the start.
LEMMA TypedInit == Init => Typed
<1> SUFFICES ASSUME Init PROVE Typed
  OBVIOUS
<1>1. PICK s \in Starts : uid = s[1] /\ usr = [user |-> "me", group |-> "us", uid |-> s[2], home |-> s[1]]
  BY Zenon DEF Init
<1>2. world \in Worlds /\ system_db = scan_systemd_units(world.dirs, world.links)
      /\ mounts = [d \in world.devices |-> NotMounted] /\ devs = mounts
      /\ pc = "idle" /\ info = NoInfo /\ k = 0 /\ r = "OK" /\ cmd = NoCmd /\ made = {}
      /\ form = [path |-> <<>>, target |-> <<>>, type |-> "", options |-> <<>>,
                 modified |-> FALSE, of |-> NoDevice, buttons |-> [mount |-> FALSE, unmount |-> FALSE]]
  BY Zenon DEF Init
<1>3. Actors
  <2>1. s = <<s[1], s[2]>>
    BY StartsAssumption
  <2>2. usr.home = s[1] /\ usr.uid = s[2] /\ usr.user = "me" /\ usr.group = "us"
    BY <1>1
  <2> QED BY <1>1, <1>2, <2>1, <2>2 DEF Actors
<1>4. <<>> \in Text /\ "" \in STRING
  <2>1. <<>> \in Text
    BY DEF Text
  <2> QED BY <2>1, StringsAssumption
<1>5. Lists
  <2>1. NotMounted \in Attached
    BY <1>4 DEF NotMounted, Attached
  <2> QED BY <1>2, <2>1 DEF Lists, ListTyped
<1>6. form \in Forms
  <2>1. NoDevice \in SomeDevice
    BY DEF SomeDevice
  <2> QED BY <1>2, <1>4, <2>1 DEF Forms
<1>7. Handling
  <2>1. uid = usr.home
    BY <1>1
  <2> QED BY <1>2, <2>1 DEF Handling
<1>8. Requested
  <2>1. WellFormedRequest(NoRequest)
    BY DEF WellFormedRequest, NoRequest
  <2> QED BY <1>2, <2>1, NoInfoTyped DEF Requested
<1> QED BY <1>3, <1>5, <1>6, <1>7, <1>8 DEF Typed

\* A handler that returns has what the next one expects.
LEMMA Returned ==
  ASSUME Typed, Return, UNCHANGED <<world, usr>>
  PROVE  Actors' /\ Handling' /\ Requested'
<1>1. pc' = "idle" /\ uid' = usr.home /\ info' = NoInfo /\ r' = "OK" /\ cmd' = NoCmd /\ made' = {}
  BY DEF Return
<1>2. Actors'
  BY <1>1 DEF Typed, Actors
<1>3. Handling'
  BY <1>1 DEF Handling
<1>4. Requested'
  <2>1. WellFormedRequest(NoRequest)
    BY DEF WellFormedRequest, NoRequest
  <2> QED BY <1>1, <2>1, NoInfoTyped DEF Requested
<1> QED BY <1>2, <1>3, <1>4

\* What mount() and unmount() have decided, and from what.
UnitIs(i) == IF i.unit = NoUnit THEN "none"
             ELSE IF i.unit.fstype = i.fs_type /\ i.unit.options = i.options THEN "exact" ELSE "other"

\* While the directory is made and the command runs, the unit and the judgement of
\* the options are those of the request, and systemctl is only for a unit that says
\* exactly what the request does.
Decided == /\ pc = "mkdir" \/ cmd.job = "mount" =>
                /\ info.unit = UnitFor(system_db, info) /\ info.req.unit = UnitIs(info)
                /\ info.req.nosuid = Nosuid(info.options) /\ info.req.listed = info.listed
           /\ cmd.tool = "systemctl" => cmd.job = "mount" /\ Exact(info.req)

\* systemd has a file for every unit that was read; where the program reads it,
\* too, it is one of the units up to this one.
LEMMA UnitLoads ==
  ASSUME Typed, NEW x \in 1 .. Len(system_db)
  PROVE  LET f == LoadedFile(system_db[x].base)
         IN  /\ f \in Globbed
             /\ f.dir \in ToSet(SearchPath) /\ Kept(f, world.links) =>
                  \E y \in 1 .. x : system_db[y] = UnitIn(f, world.links)
<1> DEFINE found == glob(world.dirs)
           base == system_db[x].base
           f == LoadedFile(base)
<1>1. IsWorld(world) /\ system_db = scan_systemd_units(world.dirs, world.links)
  BY WorldsAssumption DEF Typed, Actors, Lists
<1>2. DirsTyped(world.dirs) /\ LinksTyped(world.links)
  BY <1>1 DEF IsWorld, DirsTyped, LinksTyped
<1>3. Sifts(system_db, found, world.links) /\ found \in Seq(Globbed)
  BY <1>1, <1>2, UnitsSifted, GlobLays
<1>4. PICK i \in 1 .. Len(found) :
         /\ system_db[x] = UnitIn(found[i], world.links)
         /\ \A j \in 1 .. i : Kept(found[j], world.links) =>
              \E y \in 1 .. x : system_db[y] = UnitIn(found[j], world.links)
  BY <1>3 DEF Sifts
<1>5. found[i].dir \in ToSet(SystemdPath) /\ found[i].file \in UnitFiles
  <2>1. found[i] \in Globbed
    BY <1>3
  <2> QED BY <2>1 DEF Globbed
<1>6. found[i].file.base = base
  <2>1. UnitIn(found[i], world.links).base = found[i].file.base
    BY <1>2, <1>5, UnitRead DEF UnitIn
  <2> QED BY <1>4, <2>1
<1> HIDE DEF base
<1>7. f \in Globbed /\ (f.dir \in ToSet(SearchPath) => \E j \in 1 .. i : found[j] = f)
  BY <1>2, <1>6, LoadedFileFirst
<1>8. ASSUME f.dir \in ToSet(SearchPath), Kept(f, world.links)
      PROVE  \E y \in 1 .. x : system_db[y] = UnitIn(f, world.links)
  BY <1>4, <1>7, <1>8
<1> QED BY <1>7, <1>8 DEF base

\* The unit of a request is one of those that were read, the first for the target.
LEMMA UnitForFirst ==
  ASSUME Typed, NEW i, UnitFor(system_db, i) # NoUnit
  PROVE  /\ \E x \in 1 .. Len(system_db) :
              /\ UnitFor(system_db, i) = system_db[x]
              /\ \A y \in 1 .. x : system_db[y].where = i.target => y = x
         /\ UnitFor(system_db, i) = UnitAt(system_db, i.target)
         /\ UnitFor(system_db, i).where = i.target
         /\ Matches(UnitFor(system_db, i), i.dev, i.path)
<1> DEFINE db == system_db
           u == UnitAt(db, i.target)
<1>1. u = UnitFor(db, i) /\ u # NoUnit /\ Matches(u, i.dev, i.path)
  BY DEF UnitFor
<1>2. db \in Seq(Units)
  BY DbTyped
<1>3. PICK x : /\ FirstOf(x, {j \in 1 .. Len(db) : db[j].where = i.target}, Len(db))
               /\ u = IF x = 0 THEN NoUnit ELSE db[x]
  BY <1>2, UnitsFirst
<1>4. x # 0 /\ u = db[x]
  BY <1>1, <1>3
<1>5. x \in 1 .. Len(db) /\ db[x].where = i.target /\ \A j \in 1 .. Len(db) : db[j].where = i.target => x <= j
  BY <1>3, <1>4 DEF FirstOf
<1>6. ASSUME NEW y \in 1 .. x, db[y].where = i.target PROVE y = x
  <2>1. Len(db) \in Nat
    BY <1>2
  <2> HIDE DEF db
  <2>2. y \in 1 .. Len(db)
    BY <1>5, <2>1
  <2> QED BY <1>5, <1>6, <2>1, <2>2
<1> QED BY <1>1, <1>4, <1>5, <1>6

\* What is mounted has texts for its directory and its options.
LEMMA ResultTyped ==
  ASSUME Typed, Decided
  PROVE  Result.where \in Text /\ Result.options \in Text
<1>1. CASE cmd.tool = "systemctl"
  <2>1. info.unit = UnitFor(system_db, info) /\ info.unit # NoUnit
    BY <1>1 DEF Decided, Exact, UnitIs
  <2>2. PICK x \in 1 .. Len(system_db) : info.unit = system_db[x]
    BY <2>1, UnitForFirst
  <2> DEFINE f == LoadedFile(info.unit.base)
             u == read_systemd_unit(f.dir, f.file, world.links).unit
  <2>3. f \in Globbed
    BY <2>2, UnitLoads
  <2>4. LinksTyped(world.links) /\ world.dropins \in [DOMAIN world.dropins -> Text]
    BY WorldsAssumption DEF Typed, Actors, IsWorld, LinksTyped
  <2> HIDE DEF f
  <2>5. u \in Units
    BY <2>3, <2>4, UnitRead DEF Globbed
  <2> DEFINE base == info.unit.base
             v == [u EXCEPT !.options = world.dropins[base]]
  <2>6. Result \in {u, NoUnit} \/ (base \in DOMAIN world.dropins /\ Result = v)
    BY <1>1, Zenon DEF Result, Loaded, f
  <2> HIDE DEF u
  <2>7. CASE Result \in {u, NoUnit}
    BY <2>5, <2>7, NoUnitTyped DEF Units
  <2>8. CASE base \in DOMAIN world.dropins /\ Result = v
    <3>1. world.dropins[base] \in Text
      BY <2>4, <2>8
    <3>2. v.where = u.where /\ v.options = world.dropins[base] /\ u.where \in Text
      BY <2>5 DEF Units
    <3> QED BY <2>8, <3>1, <3>2
  <2> QED BY <2>6, <2>7, <2>8
<1>2. CASE cmd.tool # "systemctl"
  <2>1. Result = [NoUnit EXCEPT !.what = info.path, !.where = info.target,
                  !.options = info.options, !.fstype = info.fs_type]
    BY <1>2 DEF Result
  <2>2. Result.where = info.target /\ Result.options = info.options
    BY <2>1, NoUnitTyped DEF Units
  <2> QED BY <2>2 DEF Typed, Requested, Infos
<1> QED BY <1>1, <1>2

\* Every step leaves the variables typed.
LEMMA TypedNext == Typed /\ Decided /\ [Next]_vars => Typed'
<1> SUFFICES ASSUME Typed, Decided, [Next]_vars PROVE Typed'
  OBVIOUS
<1>1. Actors /\ Lists /\ form \in Forms /\ Handling /\ Requested /\ world \in Worlds
  BY DEF Typed, Actors
<1>2. system_db \in Seq(Units) /\ IsWorld(world) /\ ListTyped(mounts) /\ ListTyped(devs)
  BY <1>1, DbTyped, WorldsAssumption DEF Lists
<1>3. CASE Select
  <2>1. PICK d \in DOMAIN devs : form' = PopulateFormFields(devs, d)
    BY <1>3 DEF Select
  <2>2. form' \in Forms
    BY <1>1, <1>2, <2>1, PopulatedTyped
  <2>3. UNCHANGED <<world, usr, uid, fs, system_db, mounts, devs, pc, request, edits, changes>>
    BY <1>3 DEF Select
  <2> QED BY <1>1, <2>2, <2>3 DEF request, Typed, Actors, Lists, ListTyped, Handling, Requested
<1>4. CASE Edit
  <2>1. PICK p \in Text, t \in Text, y \in STRING, o \in Text, b \in BOOLEAN, d \in SomeDevice,
             c \in [mount : BOOLEAN, unmount : BOOLEAN] :
          form' = [path |-> p, target |-> t, type |-> y, options |-> o, modified |-> b,
                   of |-> d, buttons |-> c]
    <3>1. /\ world.paths \subseteq Text /\ world.targets \subseteq Text /\ world.options \subseteq Text
          /\ world.types \subseteq STRING /\ form.type \in STRING
      BY <1>1, <1>2 DEF IsWorld, Forms
    <3>2. CASE \E p \in world.paths :
                  form' = [form EXCEPT !.path = p, !.buttons = Buttons(devs, p), !.of = NoDevice]
      <4>1. PICK p \in world.paths :
                  form' = [form EXCEPT !.path = p, !.buttons = Buttons(devs, p), !.of = NoDevice]
        BY <3>2
      <4> DEFINE c == Buttons(devs, p)
      <4>2. c \in [mount : BOOLEAN, unmount : BOOLEAN]
        BY ButtonsTyped
      <4> HIDE DEF c
      <4>3. form' = [path |-> p, target |-> form.target, type |-> form.type, options |-> form.options,
                     modified |-> form.modified, of |-> NoDevice, buttons |-> c]
        BY <1>1, <4>1 DEF Forms, c
      <4>4. form.target \in Text /\ form.options \in Text /\ form.modified \in BOOLEAN /\ NoDevice \in SomeDevice
        BY <1>1 DEF Forms, SomeDevice
      <4> QED BY <3>1, <4>2, <4>3, <4>4
    <3>3. CASE \E t \in world.targets : form' = [form EXCEPT !.target = t, !.modified = TRUE]
      <4>1. PICK t \in world.targets : form' = [form EXCEPT !.target = t, !.modified = TRUE]
        BY <3>3
      <4>2. form' = [path |-> form.path, target |-> t, type |-> form.type, options |-> form.options,
                     modified |-> TRUE, of |-> form.of, buttons |-> form.buttons]
        BY <1>1, <4>1 DEF Forms
      <4>3. form.path \in Text /\ form.options \in Text /\ form.of \in SomeDevice
            /\ form.buttons \in [mount : BOOLEAN, unmount : BOOLEAN]
        BY <1>1 DEF Forms
      <4> QED BY <3>1, <4>2, <4>3
    <3>4. CASE \E o \in world.options : form' = [form EXCEPT !.options = o, !.modified = TRUE]
      <4>1. PICK o \in world.options : form' = [form EXCEPT !.options = o, !.modified = TRUE]
        BY <3>4
      <4>2. form' = [path |-> form.path, target |-> form.target, type |-> form.type, options |-> o,
                     modified |-> TRUE, of |-> form.of, buttons |-> form.buttons]
        BY <1>1, <4>1 DEF Forms
      <4>3. form.path \in Text /\ form.target \in Text /\ form.of \in SomeDevice
            /\ form.buttons \in [mount : BOOLEAN, unmount : BOOLEAN]
        BY <1>1 DEF Forms
      <4> QED BY <3>1, <4>2, <4>3
    <3>5. CASE \E y \in world.types : form' = [form EXCEPT !.type = y, !.modified = TRUE]
      <4>1. PICK y \in world.types : form' = [form EXCEPT !.type = y, !.modified = TRUE]
        BY <3>5
      <4>2. form' = [path |-> form.path, target |-> form.target, type |-> y, options |-> form.options,
                     modified |-> TRUE, of |-> form.of, buttons |-> form.buttons]
        BY <1>1, <4>1 DEF Forms
      <4>3. form.path \in Text /\ form.target \in Text /\ form.options \in Text /\ form.of \in SomeDevice
            /\ form.buttons \in [mount : BOOLEAN, unmount : BOOLEAN]
        BY <1>1 DEF Forms
      <4> QED BY <3>1, <4>2, <4>3
    <3> QED BY <1>4, <3>2, <3>3, <3>4, <3>5 DEF Edit
  <2>2. form' \in Forms
    BY <1>1, <2>1 DEF Forms
  <2>3. UNCHANGED <<world, usr, uid, fs, system_db, mounts, devs, pc, request, changes>>
    BY <1>4 DEF Edit
  <2> QED BY <1>1, <2>2, <2>3 DEF request, Typed, Actors, Lists, ListTyped, Handling, Requested
<1>5. CASE Refresh
  <2>1. /\ system_db' = scan_systemd_units(world.dirs, world.links)
        /\ devs' = mounts /\ form' = Reselect(mounts)
        /\ UNCHANGED <<world, usr, uid, fs, mounts, pc, request, edits, changes>>
    BY <1>5 DEF Refresh
  <2>2. form' \in Forms
    BY <1>1, <1>2, <2>1, ReselectTyped
  <2> QED BY <1>1, <2>1, <2>2 DEF request, Typed, Actors, Lists, ListTyped, Handling, Requested
<1>6. CASE Change
  <2>1. UNCHANGED <<world, usr, uid, fs, system_db, devs, form, pc, request, edits>>
    BY <1>6 DEF Change
  <2>2. NotMounted \in Attached /\ world.elsewhere \in Attached
    <3>1. <<>> \in Text
      BY DEF Text
    <3> QED BY <1>2, <3>1 DEF NotMounted, Attached, IsWorld
  <2>3. \/ \E d \in world.devices \ DOMAIN mounts :
             mounts' = [e \in DOMAIN mounts \cup {d} |-> IF e = d THEN NotMounted ELSE mounts[e]]
        \/ \E d \in DOMAIN mounts : mounts' = [e \in DOMAIN mounts \ {d} |-> mounts[e]]
        \/ \E d \in DOMAIN mounts, m \in {NotMounted, world.elsewhere} : mounts' = [mounts EXCEPT ![d] = m]
    BY <1>6 DEF Change
  <2>4. ListTyped(mounts)'
    BY <1>2, <2>1, <2>2, <2>3 DEF ListTyped
  <2>5. Lists'
    BY <1>1, <2>1, <2>4 DEF Lists, ListTyped
  <2> QED BY <1>1, <2>1, <2>5 DEF request, Typed, Actors, Handling, Requested
<1>7. CASE MountClicked \/ UnmountClicked
  <2>1. PICK at \in {"judge", "unmount"} :
          /\ pc = "idle" /\ pc' = at
          /\ info' = [Gathered EXCEPT !.target  = replace_placeholders(Gathered.target, Gathered, usr),
                            !.options = IF at = "judge" THEN replace_placeholders(Gathered.options, Gathered, usr)
                                        ELSE Gathered.options]
          /\ UNCHANGED <<world, usr, uid, fs, system_db, mounts, devs, form, k, r, cmd, made, edits, changes>>
    BY <1>7, Zenon DEF MountClicked, UnmountClicked, Clicked
  <2> DEFINE g == Gathered
             t == replace_placeholders(g.target, g, usr)
             o == IF at = "judge" THEN replace_placeholders(g.options, g, usr) ELSE g.options
  <2>2. g \in Infos /\ g.req = NoRequest /\ g.listed = (g.dev # NoDevice)
    BY <1>1, <1>2, GatheredTyped
  <2> HIDE DEF g
  <2>3. /\ g.path \in Text /\ g.target \in Text /\ g.options \in Text /\ g.fs_type \in STRING
        /\ g.dev \in SomeDevice
    BY <2>2 DEF Infos
  <2>4. g.listed => g.dev \in Devices
    BY <2>2, <2>3 DEF SomeDevice
  <2>5. usr.user \in STRING /\ usr.group \in STRING
    BY <1>1, StringsAssumption DEF Actors
  <2>6. t \in Text /\ replace_placeholders(g.options, g, usr) \in Text
    BY <2>3, <2>4, <2>5, PlaceholdersReplaced
  <2>7. o \in Text
    BY <2>3, <2>6
  <2>8. info' = [g EXCEPT !.target = t, !.options = o]
    BY <2>1 DEF g
  <2> HIDE DEF t, o
  <2>9. info' \in Infos /\ info'.req = NoRequest /\ info'.listed = (info'.dev # NoDevice)
    BY <2>2, <2>6, <2>7, <2>8 DEF Infos
  <2>10. Requested'
    BY <2>9 DEF Requested, WellFormedRequest, NoRequest
  <2>11. Handling'
    BY <1>1, <2>1 DEF Handling
  <2>12. Actors' /\ Lists' /\ form' \in Forms
    BY <1>1, <2>1 DEF Actors, Lists, ListTyped
  <2> QED BY <2>10, <2>11, <2>12 DEF Typed
<1>8. CASE Judge
  <2>1. PICK u : info' = [info EXCEPT !.unit = u, !.req = Judged(info, u)] /\ u = UnitFor(system_db, info)
    BY <1>8 DEF Judge
  <2>2. /\ pc = "judge" /\ pc' = "mkdir" /\ uid' = IF DropsEarly(info'.req) THEN Dropped ELSE uid
        /\ UNCHANGED <<world, usr, fs, system_db, mounts, devs, form, r, cmd, made, edits, changes>>
    BY <1>8 DEF Judge
  <2> DEFINE j == Judged(info, u)
  <2>3. j \in AllRequests /\ WellFormedRequest(j)
    BY <1>1, JudgedTyped DEF Requested
  <2>4. u \in Units
    BY <1>2, <2>1, UnitsTyped
  <2> HIDE DEF j
  <2>5. info' = [info EXCEPT !.unit = u, !.req = j]
    BY <2>1 DEF j
  <2>6. Requested'
    <3>1. info \in Infos
      BY <1>1 DEF Requested
    <3>2. info' \in Infos /\ info'.req = j /\ info'.listed = info.listed /\ info'.dev = info.dev
      BY <2>3, <2>4, <2>5, <3>1 DEF Infos
    <3> QED BY <1>1, <2>3, <3>2 DEF Requested
  <2>7. uid' \in {uid, usr.uid}
    BY <2>2 DEF Dropped
  <2>8. Handling'
    BY <1>1, <2>2 DEF Handling
  <2>9. Actors' /\ Lists' /\ form' \in Forms
    BY <1>1, <2>2, <2>7 DEF Actors, Lists, ListTyped
  <2> QED BY <2>6, <2>8, <2>9 DEF Typed
<1>9. CASE Rejected \/ NoMountpoint \/ NoCommand \/ RunFails
  <2>1. Return /\ UNCHANGED <<world, usr, fs, system_db, mounts, devs, form, edits, changes>>
    BY <1>9 DEF Rejected, NoMountpoint, NoCommand, RunFails
  <2>2. Lists' /\ form' \in Forms
    BY <1>1, <2>1 DEF Lists, ListTyped
  <2> QED BY <2>1, <2>2, Returned DEF Typed
<1>10. CASE ReadPastTie
  <2>1. pc \in {"idle", "judge", "unmount"} /\ pc' = "crashed"
        /\ UNCHANGED <<world, usr, uid, fs, system_db, mounts, devs, form, request, edits, changes>>
    BY <1>10 DEF ReadPastTie
  <2> QED BY <1>1, <2>1 DEF request, Typed, Actors, Lists, ListTyped, Handling, Requested
<1>11. CASE DirExists \/ MakeDir \/ InstallDir
  <2>1. /\ pc = "mkdir" /\ r' \in {"OK", "CMD"}
        /\ UNCHANGED <<world, usr, uid, system_db, mounts, devs, form, pc, info, cmd, edits, changes>>
    BY <1>11 DEF DirExists, MakeDir, InstallDir, MakingDir, Missing, Refused
  <2> QED BY <1>1, <2>1 DEF Typed, Actors, Lists, ListTyped, Handling, Requested
<1>12. CASE Decide
  <2>1. /\ pc = "mkdir" /\ pc' = "run" /\ cmd'.job = "mount"
        /\ uid' = IF DropPriv(info.req, usr.home) THEN Dropped ELSE uid
        /\ UNCHANGED <<world, usr, fs, system_db, mounts, devs, form, info, k, r, made, edits, changes>>
    BY <1>12 DEF Decide
  <2>2. cmd' # NoCmd
    BY <2>1 DEF NoCmd
  <2>3. uid' \in {uid, usr.uid}
    BY <2>1 DEF Dropped
  <2> QED BY <1>1, <2>1, <2>2, <2>3 DEF Typed, Actors, Lists, ListTyped, Handling, Requested
<1>13. CASE DecideUnmount
  <2>1. /\ pc = "unmount" /\ pc' = "run" /\ cmd'.job = "unmount"
        /\ UNCHANGED <<world, usr, uid, fs, system_db, mounts, devs, form, info, k, r, made, edits, changes>>
    BY <1>13 DEF DecideUnmount
  <2>2. cmd' # NoCmd
    BY <2>1 DEF NoCmd
  <2> QED BY <1>1, <2>1, <2>2 DEF Typed, Actors, Lists, ListTyped, Handling, Requested
<1>14. CASE RunSucceeds
  <2>1. /\ system_db' = scan_systemd_units(world.dirs, world.links)
        /\ devs' = mounts' /\ form' = Reselect(mounts')
        /\ Return /\ UNCHANGED <<world, usr, fs, edits, changes>>
    BY <1>14 DEF RunSucceeds
  <2>2. ListTyped(mounts')
    <3>1. mounts' = Mounted \/ mounts' = Unmounted
      BY <1>14 DEF RunSucceeds
    <3> DEFINE m == [MOUNTPOINT |-> Result.where, OPTIONS |-> Result.options]
    <3>2. m \in Attached /\ NotMounted \in Attached
      <4>1. <<>> \in Text
        BY DEF Text
      <4> QED BY <4>1, ResultTyped DEF Attached, NotMounted
    <3>3. Mounted = mounts \/ Mounted = [mounts EXCEPT ![info.dev] = m]
      BY DEF Mounted
    <3> HIDE DEF m
    <3>4. ListTyped(Mounted)
      BY <1>2, <3>2, <3>3 DEF ListTyped
    <3>5. ListTyped(Unmounted)
      BY <1>2, <3>2 DEF ListTyped, Unmounted
    <3> QED BY <3>1, <3>4, <3>5
  <2>3. form' \in Forms
    BY <1>1, <1>2, <2>1, <2>2, ReselectTyped
  <2>4. Lists'
    BY <2>1, <2>2 DEF Lists, ListTyped
  <2> QED BY <2>1, <2>3, <2>4, Returned DEF Typed
<1>15. CASE UNCHANGED vars
  BY <1>1, <1>15 DEF vars, Typed, Actors, Lists, ListTyped, Handling, Requested
<1> QED BY <1>3, <1>4, <1>5, <1>6, <1>7, <1>8, <1>9, <1>10, <1>11, <1>12, <1>13, <1>14, <1>15 DEF Next

\* The unit for a request depends on what it is for only.
LEMMA UnitForSame ==
  ASSUME NEW db, NEW i, NEW j, i.target = j.target, i.dev = j.dev, i.path = j.path
  PROVE  UnitFor(db, i) = UnitFor(db, j)
  BY DEF UnitFor

\* Nothing is decided at the start.
LEMMA DecidedInit == Init => Decided
<1> SUFFICES ASSUME Init PROVE Decided
  OBVIOUS
<1>1. pc = "idle" /\ cmd = NoCmd
  BY Zenon DEF Init
<1> QED BY <1>1 DEF Decided, NoCmd

\* Every step keeps what mount() has decided.
LEMMA DecidedNext == Typed /\ Decided /\ [Next]_vars => Decided'
<1> SUFFICES ASSUME Typed, Decided, [Next]_vars PROVE Decided'
  OBVIOUS
<1>1. system_db = scan_systemd_units(world.dirs, world.links) /\ (pc = "run") = (cmd # NoCmd)
  BY DEF Typed, Lists, Handling
<1>2. NoCmd.job = "none" /\ NoCmd.tool = "none"
  BY DEF NoCmd
<1>3. CASE pc' # "mkdir" /\ cmd' = NoCmd
  BY <1>2, <1>3 DEF Decided
<1>4. CASE Select \/ Edit \/ Refresh \/ Change
  <2>1. pc' = "idle" /\ pc = "idle" /\ cmd' = cmd
    BY <1>4 DEF Select, Edit, Refresh, Change, request
  <2> QED BY <1>1, <1>3, <2>1
<1>5. CASE MountClicked \/ UnmountClicked
  <2>1. pc' \in {"judge", "unmount"} /\ pc = "idle" /\ cmd' = cmd
    BY <1>5 DEF MountClicked, UnmountClicked, Clicked
  <2> QED BY <1>1, <1>3, <2>1
<1>6. CASE ReadPastTie
  <2>1. pc' = "crashed" /\ pc # "run" /\ cmd' = cmd
    BY <1>6 DEF ReadPastTie, request
  <2> QED BY <1>1, <1>3, <2>1
<1>7. CASE Rejected \/ NoMountpoint \/ NoCommand \/ RunFails \/ RunSucceeds
  <2>1. pc' = "idle" /\ cmd' = NoCmd
    BY <1>7 DEF Rejected, NoMountpoint, NoCommand, RunFails, RunSucceeds, Return
  <2> QED BY <1>3, <2>1
<1>8. CASE Judge
  <2>1. PICK u : info' = [info EXCEPT !.unit = u, !.req = Judged(info, u)] /\ u = UnitFor(system_db, info)
    BY <1>8 DEF Judge
  <2>2. cmd' = cmd /\ system_db' = system_db /\ pc = "judge"
    BY <1>8 DEF Judge
  <2>3. info \in Infos
    BY DEF Typed, Requested
  <2> DEFINE j == Judged(info, u)
             e == IF u = NoUnit THEN "none"
                  ELSE IF u.fstype = info.fs_type /\ u.options = info.options THEN "exact" ELSE "other"
  <2>4. j.unit = e /\ j.nosuid = Nosuid(info.options) /\ j.listed = info.listed
    BY DEF Judged
  <2> HIDE DEF j
  <2>5. info' = [info EXCEPT !.unit = u, !.req = j]
    BY <2>1 DEF j
  <2>6. /\ info'.unit = u /\ info'.req = j /\ info'.fs_type = info.fs_type /\ info'.options = info.options
        /\ info'.listed = info.listed /\ info'.target = info.target
        /\ info'.dev = info.dev /\ info'.path = info.path
    BY <2>3, <2>5 DEF Infos
  <2>7. UnitIs(info') = e
    BY <2>6 DEF UnitIs
  <2>8. UnitFor(system_db, info') = u
    <3>1. info'.target = info.target /\ info'.dev = info.dev /\ info'.path = info.path
      BY <2>6
    <3>2. UnitFor(system_db, info') = UnitFor(system_db, info)
      BY <3>1, UnitForSame
    <3> QED BY <2>1, <3>2
  <2>9. cmd'.job = "none" /\ cmd'.tool = "none"
    BY <1>1, <1>2, <2>2
  <2> QED BY <2>2, <2>4, <2>6, <2>7, <2>8, <2>9 DEF Decided, UnitIs
<1>9. CASE DirExists \/ MakeDir \/ InstallDir
  <2>1. UNCHANGED <<system_db, info, cmd, pc>>
    BY <1>9 DEF DirExists, MakeDir, InstallDir
  <2> QED BY <2>1 DEF Decided, UnitIs
<1>10. CASE Decide
  <2>1. pc = "mkdir" /\ pc' = "run" /\ UNCHANGED <<system_db, info>> /\ cmd'.job = "mount"
    BY <1>10 DEF Decide
  <2>2. \E b : cmd'.tool = MountTool(info.req, usr.home, world.settings, b)
    BY <1>10 DEF Decide
  <2>3. cmd'.tool = "systemctl" => Exact(info.req)
    BY <2>2 DEF MountTool
  <2> QED BY <2>1, <2>3 DEF Decided, UnitIs
<1>11. CASE DecideUnmount
  <2>1. pc' = "run" /\ cmd'.job = "unmount"
    BY <1>11 DEF DecideUnmount
  <2>2. cmd'.tool \in {"systemd-mount", "umount"}
    BY <1>11 DEF DecideUnmount, UnmountTool
  <2>3. cmd'.tool # "systemctl"
    BY <2>2
  <2> QED BY <2>1, <2>3 DEF Decided
<1>12. CASE UNCHANGED vars
  BY <1>12 DEF vars, Decided, UnitIs
<1> QED BY <1>4, <1>5, <1>6, <1>7, <1>8, <1>9, <1>10, <1>11, <1>12 DEF Next

\* The variables are typed, and what was decided stays decided.
LEMMA TypedAlways == Spec => [](Typed /\ Decided)
<1>1. Init => Typed /\ Decided
  BY TypedInit, DecidedInit
<1>2. Typed /\ Decided /\ [Next]_vars => (Typed /\ Decided)'
  BY TypedNext, DecidedNext
<1> QED BY <1>1, <1>2, PTL DEF Spec

-----------------------------------------------------------------------------
(* What the form asks for.                                                 *)

\* A request to mount is for the device that the trimmed path of the form names in
\* the list, and was made with the button enabled.
Asked == pc \in {"judge", "mkdir"} \/ cmd.job = "mount" =>
           info.dev = find_device(devs, trim(form.path)) /\ form.buttons.mount

\* The first request is still to be made.
LEMMA AskedInit == Init => Asked
<1> SUFFICES ASSUME Init PROVE Asked
  OBVIOUS
<1>1. pc = "idle" /\ cmd = NoCmd
  BY Zenon DEF Init
<1> QED BY <1>1 DEF Asked, NoCmd

\* The list and the form stay as they are while a request is handled.
LEMMA AskedNext == Typed /\ Asked /\ [Next]_vars => Asked'
<1> SUFFICES ASSUME Typed, Asked, [Next]_vars PROVE Asked'
  OBVIOUS
<1>1. (pc = "run") = (cmd # NoCmd) /\ NoCmd.job = "none"
  BY DEF Typed, Handling, NoCmd
<1>2. CASE pc' \notin {"judge", "mkdir"} /\ cmd' = NoCmd
  BY <1>1, <1>2 DEF Asked
<1>3. CASE Select \/ Edit \/ Refresh \/ Change
  <2>1. pc' = "idle" /\ pc = "idle" /\ cmd' = cmd
    BY <1>3 DEF Select, Edit, Refresh, Change, request
  <2> QED BY <1>1, <1>2, <2>1
<1>4. CASE MountClicked
  <2>1. /\ pc' = "judge" /\ form.buttons.mount /\ UNCHANGED <<devs, form>>
        /\ info' = [Gathered EXCEPT !.target  = replace_placeholders(Gathered.target, Gathered, usr),
                                    !.options = replace_placeholders(Gathered.options, Gathered, usr)]
    BY <1>4, Zenon DEF MountClicked, Clicked
  <2>2. Gathered \in Infos /\ Gathered.dev = find_device(devs, trim(form.path))
    <3>1. form \in Forms /\ ListTyped(devs) /\ world \in Worlds
      BY DEF Typed, Lists, Actors
    <3> QED BY <3>1, GatheredTyped
  <2>3. info'.dev = Gathered.dev
    BY <2>1, <2>2 DEF Infos
  <2> QED BY <2>1, <2>2, <2>3 DEF Asked
<1>5. CASE UnmountClicked
  <2>1. pc' = "unmount" /\ pc = "idle" /\ cmd' = cmd
    BY <1>5 DEF UnmountClicked, Clicked
  <2> QED BY <1>1, <1>2, <2>1
<1>6. CASE Judge
  <2>1. PICK u : info' = [info EXCEPT !.unit = u, !.req = Judged(info, u)]
    BY <1>6 DEF Judge
  <2>2. pc = "judge" /\ UNCHANGED <<devs, form>>
    BY <1>6 DEF Judge
  <2>3. info'.dev = info.dev
    BY <2>1 DEF Typed, Requested, Infos
  <2> QED BY <2>2, <2>3 DEF Asked
<1>7. CASE Rejected \/ NoMountpoint \/ NoCommand \/ RunFails \/ RunSucceeds
  <2>1. pc' = "idle" /\ cmd' = NoCmd
    BY <1>7 DEF Rejected, NoMountpoint, NoCommand, RunFails, RunSucceeds, Return
  <2> QED BY <1>2, <2>1
<1>8. CASE ReadPastTie
  <2>1. pc' = "crashed" /\ pc # "run" /\ cmd' = cmd
    BY <1>8 DEF ReadPastTie, request
  <2> QED BY <1>1, <1>2, <2>1
<1>9. CASE DirExists \/ MakeDir \/ InstallDir \/ Decide
  <2>1. pc = "mkdir" /\ UNCHANGED <<devs, form, info>>
    BY <1>9 DEF DirExists, MakeDir, InstallDir, Decide, Missing, MakingDir
  <2> QED BY <2>1 DEF Asked
<1>10. CASE DecideUnmount
  <2>1. pc' = "run" /\ cmd'.job = "unmount"
    BY <1>10 DEF DecideUnmount
  <2> QED BY <2>1 DEF Asked
<1>11. CASE UNCHANGED vars
  BY <1>11 DEF vars, Asked
<1> QED BY <1>3, <1>4, <1>5, <1>6, <1>7, <1>8, <1>9, <1>10, <1>11 DEF Next

\* Every request to mount is what the form asked for.
LEMMA AskedAlways == Spec => []Asked
<1>1. Init => Asked
  BY AskedInit
<1>2. Typed /\ Asked /\ [Next]_vars => Asked'
  BY AskedNext
<1> QED BY <1>1, <1>2, TypedAlways, PTL DEF Spec

\* EditsKept, as one formula about a step.
FormActions ==
  form.modified => \/ <<form'.path, form'.target, form'.type, form'.options>>
                        = <<form.path, form.target, form.type, form.options>>
                   \/ edits' # edits
                   \/ form'.of # form.of /\ form'.path # form.path

\* FormFollows: after every handler that fills the form (PopulateFormFields(),
\* Reselect() at the end of a refresh), what the user has typed is still there
\* unless the form has gone to another device; and a request to mount a listed
\* device, made with a path without blanks around it, is for one that the list does
\* not show as mounted.
THEOREM FormFollowsHolds == Spec => FormFollows
<1>1. FormInv /\ Typed /\ Asked => MountedOnce
  <2> SUFFICES ASSUME FormInv, Typed, Asked, pc \in {"judge", "mkdir"} \/ cmd.job = "mount",
                      info.listed, trim(form.path) = form.path
               PROVE  devs[info.dev].MOUNTPOINT = <<>>
    BY DEF MountedOnce
  <2> DEFINE d == find_device(devs, form.path)
  <2>1. info.dev = d /\ d # NoDevice /\ form.buttons.mount
    BY DEF Asked, Typed, Requested
  <2>2. form.buttons = Buttons(devs, form.path)
    BY <2>1 DEF FormInv, ButtonsShown
  <2>3. Buttons(devs, form.path).mount = (form.path # <<>> /\ (d = NoDevice \/ devs[d].MOUNTPOINT = <<>>))
    BY DEF Buttons
  <2> HIDE DEF d
  <2> QED BY <2>1, <2>2, <2>3
<1>2. FormInv /\ Counted /\ [Next]_vars => [FormActions]_vars
  <2> SUFFICES ASSUME FormInv, Counted, [Next]_vars PROVE FormActions
    OBVIOUS
  <2> USE DEF FormActions
  <2>1. CASE Select
    <3>1. PICK d \in DOMAIN devs : form' = PopulateFormFields(devs, d)
      BY <2>1 DEF Select
    <3> DEFINE f == PopulateFormFields(devs, d)
    <3>2. /\ f.path = d.PATH
          /\ \/ f.of = d /\ f.modified = FALSE /\ (form.path # d.PATH \/ ~form.modified)
             \/ /\ form.path = d.PATH /\ f.of = form.of /\ f.modified = form.modified
                /\ f.target = form.target /\ f.type = form.type /\ f.options = form.options
      BY Populated
    <3> HIDE DEF f
    <3>3. form' = f
      BY <3>1 DEF f
    <3>4. d # NoDevice
      BY RealDevice, WorldsAssumption DEF FormInv, IsWorld
    <3> QED BY <3>2, <3>3, <3>4 DEF FormInv, FormOfDevice
  <2>2. CASE Edit
    <3>1. edits' = edits + 1
      BY <2>2 DEF Edit
    <3>2. edits \in Nat
      BY BoundsAssumption DEF Counted
    <3> QED BY <3>1, <3>2
  <2>3. CASE Refresh
    BY <2>3, Reselected DEF Refresh
  <2>4. CASE RunSucceeds
    BY <2>4, Reselected DEF RunSucceeds
  <2>5. CASE UNCHANGED form
    BY <2>5
  <2>6. CASE MountClicked \/ UnmountClicked \/ Change
    BY <2>5, <2>6 DEF MountClicked, UnmountClicked, Clicked, Change
  <2>7. CASE Judge \/ Rejected \/ ReadPastTie \/ DirExists \/ MakeDir \/ InstallDir
    BY <2>5, <2>7 DEF Judge, Rejected, ReadPastTie, DirExists, MakeDir, InstallDir
  <2>8. CASE NoMountpoint \/ Decide \/ NoCommand \/ DecideUnmount \/ RunFails
    BY <2>5, <2>8 DEF NoMountpoint, Decide, NoCommand, DecideUnmount, RunFails
  <2>9. CASE UNCHANGED vars
    BY <2>5, <2>9 DEF vars
  <2> QED BY <2>1, <2>2, <2>3, <2>4, <2>6, <2>7, <2>8, <2>9 DEF Next
<1>3. Spec => []FormInv
  BY FormInvAlways
<1>4. Spec => []Counted
  BY CountedAlways
<1>5. Spec => []Asked
  BY AskedAlways
<1> QED BY <1>1, <1>2, <1>3, <1>4, <1>5, TypedAlways, PTL DEF Spec, FormFollows, EditsKept, FormActions

-----------------------------------------------------------------------------
(* The file system while a directory is made.                              *)

\* The file system, and how far create_mountpoint() is.
Tree == IsFileSystem(fs) /\ Enlarges(fs, world.fs)

\* create_mountpoint(): the prefix before k is a directory, unless making it was
\* refused.
Walking ==
  pc = "mkdir" => /\ info.target # <<>> /\ info.target[1] = Slash /\ k \in 1 .. Len(walk) + 1
                  /\ r = "OK" /\ k >= 2 => IsDirectory(fs, Root, names(walk[k - 1]))

\* Invariant of the file system, while a directory is made and afterwards.
Trees == Tree /\ Walking /\ MountpointIsThere

\* The places of a walk; they are those on the way to the target, if no backslash is in it.
LEMMA WalkTyped ==
  ASSUME info \in Infos, info.target # <<>>, info.target[1] = Slash
  PROVE  /\ Len(walk) \in Nat \ {0} /\ \A i \in 1 .. Len(walk) : names(walk[i]) \in Seq(Text)
         /\ Backslash \notin ToSet(info.target) => Walks(walk, info.target)
<1>1. info.target \in Text
  BY DEF Infos
<1>2. Backslash \notin ToSet(info.target) => Walks(walk, info.target)
  BY <1>1, PathWalked DEF walk
<1>3. walk \in Seq(Text) /\ Len(walk) \in Nat \ {0}
  BY <1>1, WalkTexts DEF walk
<1>4. \A i \in 1 .. Len(walk) : walk[i] \in Text
  <2> HIDE DEF walk
  <2> QED BY <1>3
<1> QED BY <1>2, <1>3, <1>4, NamesTyped

\* A directory for someone is one for root, now and in a larger file system.
LEMMA DirectoryKept ==
  ASSUME NEW f, NEW g, Rooted(f), Rooted(g), Enlarges(g, f), NEW u, NEW path \in Seq(Text),
         IsDirectory(f, u, path)
  PROVE  IsDirectory(g, Root, path)
<1>1. Lookup(f, u, path).err = "" /\ f[Lookup(f, u, path).at].type \in {"dir", "closed"}
  BY DEF IsDirectory
<1>2. Lookup(g, Root, path) = Lookup(f, u, path)
  BY <1>1, LookupKept DEF Found
<1>3. Lookup(f, u, path).at \in DOMAIN f
  BY LookupStep DEF Places
<1>4. g[Lookup(f, u, path).at].type = f[Lookup(f, u, path).at].type
  BY <1>3 DEF Enlarges
<1> QED BY <1>1, <1>2, <1>4 DEF IsDirectory

\* The file system is one at the start.
LEMMA TreesInit == Init => Trees
<1> SUFFICES ASSUME Init PROVE Trees
  OBVIOUS
<1>1. world \in Worlds /\ fs = world.fs /\ pc = "idle"
  BY Zenon DEF Init
<1>2. IsFileSystem(world.fs)
  BY <1>1, WorldsAssumption DEF IsWorld
<1>3. Enlarges(world.fs, world.fs)
  BY EnlargesOrder
<1> QED BY <1>1, <1>2, <1>3 DEF Trees, Tree, Walking, MountpointIsThere

\* Every step leaves a file system, and the walk where it was.
LEMMA TreesNext == Typed /\ Trees /\ [Next]_vars => Trees'
<1> SUFFICES ASSUME Typed, Trees, [Next]_vars PROVE Trees'
  OBVIOUS
<1>1. Tree /\ Walking /\ MountpointIsThere /\ info \in Infos
  BY DEF Trees, Typed, Requested
<1>2. IsFileSystem(fs) /\ Rooted(fs) /\ Enlarges(fs, world.fs)
  BY <1>1 DEF Tree, IsFileSystem, Rooted
<1>3. CASE UNCHANGED <<world, fs>> /\ pc' \notin {"mkdir", "run"}
  BY <1>1, <1>3 DEF Trees, Tree, Walking, MountpointIsThere
<1>4. CASE Select \/ Edit \/ Refresh \/ Change
  <2>1. pc' = "idle" /\ UNCHANGED <<world, fs>>
    BY <1>4 DEF Select, Edit, Refresh, Change
  <2> QED BY <1>3, <2>1
<1>5. CASE MountClicked \/ UnmountClicked \/ ReadPastTie
  <2>1. pc' \in {"judge", "unmount", "crashed"} /\ UNCHANGED <<world, fs>>
    BY <1>5 DEF MountClicked, UnmountClicked, Clicked, ReadPastTie
  <2> QED BY <1>3, <2>1
<1>6. CASE Rejected \/ NoMountpoint \/ NoCommand \/ RunFails \/ RunSucceeds
  <2>1. pc' = "idle" /\ UNCHANGED <<world, fs>>
    BY <1>6 DEF Rejected, NoMountpoint, NoCommand, RunFails, RunSucceeds, Return
  <2> QED BY <1>3, <2>1
<1>7. CASE Judge
  <2>1. PICK u : info' = [info EXCEPT !.unit = u, !.req = Judged(info, u)]
    BY <1>7 DEF Judge
  <2>2. k' = 1 /\ pc' = "mkdir" /\ UNCHANGED <<world, fs>> /\ info'.req.tl # "reject"
    BY <1>7 DEF Judge
  <2> DEFINE j == Judged(info, u)
  <2>3. j.tl = check_mountpoint(fs, uid, info.target)
    BY DEF Judged
  <2> HIDE DEF j
  <2>4. info'.target = info.target /\ info'.req = j /\ info.target \in Text
    BY <1>1, <2>1 DEF Infos, j
  <2>5. info.target # <<>> /\ info.target[1] = Slash
    BY <1>2, <2>2, <2>3, <2>4, Accepted
  <2>6. walk' = walk /\ Len(walk) \in Nat \ {0}
    BY <1>1, <2>4, <2>5, WalkTyped DEF walk
  <2> QED BY <1>1, <2>2, <2>4, <2>5, <2>6 DEF Trees, Tree, Walking, MountpointIsThere
<1>8. CASE DirExists \/ MakeDir \/ InstallDir
  <2>1. UNCHANGED <<world, pc, info, uid>> /\ pc = "mkdir" /\ k <= Len(walk) /\ k' = k + 1
    BY <1>8 DEF DirExists, MakeDir, InstallDir, Missing, MakingDir
  <2>2. info.target # <<>> /\ info.target[1] = Slash /\ k \in 1 .. Len(walk) + 1
    BY <1>1, <2>1 DEF Walking
  <2>3. Len(walk) \in Nat \ {0} /\ \A i \in 1 .. Len(walk) : names(walk[i]) \in Seq(Text)
    BY <1>1, <2>2, WalkTyped
  <2>4. k \in 1 .. Len(walk) /\ Here \in Seq(Text) /\ k' - 1 = k /\ k' \in 1 .. Len(walk) + 1 /\ walk' = walk
    BY <2>1, <2>2, <2>3 DEF Here, walk
  <2>5. IsFileSystem(fs') /\ Enlarges(fs', fs) /\ (r' = "OK" => IsDirectory(fs', Root, Here))
    <3>1. CASE DirExists
      <4>1. fs' = fs /\ IsDirectory(fs, uid, Here)
        BY <3>1 DEF DirExists
      <4> QED BY <1>2, <2>4, <4>1, EnlargesOrder, DirectoryKept
    <3>2. CASE MakeDir
      <4>1. mkdir(fs, uid, Here).ok /\ fs' = mkdir(fs, uid, Here).fs /\ Lookup(fs, uid, Here).err = "ENOENT"
        BY <3>2 DEF MakeDir, Missing
      <4>2. Here # <<>>
        <5> DEFINE l == Lookup(fs, uid, <<>>)
        <5>1. l = [err |-> "", at |-> <<>>]
          BY <1>2, LookupStep
        <5> HIDE DEF l
        <5>2. l.err = ""
          BY <5>1
        <5> QED BY <4>1, <5>2 DEF l
      <4> QED BY <1>2, <2>4, <4>1, <4>2, MkdirMakes DEF Makes
    <3>3. CASE InstallDir
      <4>1. \/ fs' = install(fs, Here) /\ IsDirectory(fs', Root, Here) /\ r' = "OK"
            \/ fs' = fs /\ r' = "CMD"
        BY <3>3 DEF InstallDir, Refused
      <4> QED BY <1>2, <2>4, <4>1, InstallKeeps, EnlargesOrder
    <3> QED BY <1>8, <3>1, <3>2, <3>3
  <2>6. Tree'
    BY <1>2, <2>1, <2>5, EnlargesOrder DEF Tree
  <2>7. Walking'
    <3>1. Here = names(walk'[k' - 1])
      BY <2>4 DEF Here
    <3> QED BY <2>1, <2>2, <2>4, <2>5, <3>1 DEF Walking
  <2> QED BY <2>1, <2>6, <2>7 DEF Trees, MountpointIsThere
<1>9. CASE Decide
  <2>1. pc = "mkdir" /\ k > Len(walk) /\ r = "OK" /\ pc' = "run" /\ UNCHANGED <<world, fs, info>>
    BY <1>9 DEF Decide
  <2>2. info.target # <<>> /\ info.target[1] = Slash /\ k \in 1 .. Len(walk) + 1
        /\ (k >= 2 => IsDirectory(fs, Root, names(walk[k - 1])))
    BY <1>1, <2>1 DEF Walking
  <2>3. /\ Len(walk) \in Nat \ {0}
        /\ Backslash \notin ToSet(info.target) => Walks(walk, info.target)
    BY <1>1, <2>2, WalkTyped
  <2>4. k - 1 = Len(walk) /\ k >= 2
    BY <2>1, <2>2, <2>3
  <2>5. Backslash \notin ToSet(info.target) => names(walk[Len(walk)]) = names(info.target)
    BY <2>3 DEF Walks
  <2>6. Backslash \notin ToSet(info.target) => IsDirectory(fs, Root, names(info.target))
    BY <2>2, <2>4, <2>5
  <2> QED BY <1>1, <2>1, <2>6 DEF Trees, Tree, Walking, MountpointIsThere
<1>10. CASE DecideUnmount
  <2>1. pc' = "run" /\ cmd'.job = "unmount" /\ UNCHANGED <<world, fs>>
    BY <1>10 DEF DecideUnmount
  <2> QED BY <1>1, <2>1 DEF Trees, Tree, Walking, MountpointIsThere
<1>11. CASE UNCHANGED vars
  BY <1>1, <1>11 DEF vars, Trees, Tree, Walking, MountpointIsThere, walk
<1> QED BY <1>4, <1>5, <1>6, <1>7, <1>8, <1>9, <1>10, <1>11 DEF Next

\* The file system is always one.
LEMMA TreesAlways == Spec => []Trees
<1>1. Init => Trees
  BY TreesInit
<1>2. Typed /\ Trees /\ [Next]_vars => Trees'
  BY TreesNext
<1> QED BY <1>1, <1>2, TypedAlways, PTL DEF Spec

\* TypeOK: the variables hold what they can hold, a request is under way exactly
\* when a handler is, and the process is other than it was started only then (the
\* guard of mount() restores the privileges on every way out).
THEOREM TypeOKHolds == Spec => []TypeOK
<1>1. Typed /\ Trees /\ Counted => TypeOK
  <2> SUFFICES ASSUME Typed, Trees, Counted PROVE TypeOK
    OBVIOUS
  <2>1. uid \in Ids /\ world \in Worlds /\ uid \in {usr.home, usr.uid}
    <3>1. <<usr.home, usr.uid>> \in Ids \X Ids
      BY StartsAssumption DEF Typed, Actors
    <3> QED BY <3>1 DEF Typed, Actors
  <2>2. DOMAIN mounts \subseteq world.devices /\ DOMAIN devs \subseteq world.devices
    BY DEF Typed, Lists, ListTyped
  <2>3. DOMAIN world.fs \subseteq DOMAIN fs
    BY DEF Trees, Tree, Enlarges
  <2>4. info.req \in AllRequests /\ WellFormedRequest(info.req)
    BY DEF Typed, Requested, Infos
  <2>5. edits \in 0 .. MaxEdits /\ changes \in 0 .. MaxChanges
    BY DEF Counted
  <2>6. /\ pc \in {"idle", "judge", "unmount", "mkdir", "run", "crashed"} /\ r \in {"OK", "CMD"}
        /\ pc = "idle" => info = NoInfo /\ uid = usr.home /\ made = {}
        /\ (pc = "run") = (cmd # NoCmd)
    BY DEF Typed, Handling
  <2> QED BY <2>1, <2>2, <2>3, <2>4, <2>5, <2>6 DEF TypeOK
<1> QED BY <1>1, TypedAlways, TreesAlways, CountedAlways, PTL

-----------------------------------------------------------------------------
(* What mount() does with root's privileges: the directories.              *)

\* With root's ids, for a user: what the policy allowed it to keep them for.
Trusting == pc = "mkdir" \/ cmd.job = "mount"

\* Where mount() keeps root's privileges for a user, the policy allowed it: the
\* place is one check_mountpoint() trusts, or the request is exactly a unit's.
\* Where the place is trusted, and the target Straight, every directory the walk
\* still has to make is outside the system directories, as StopsOutside says.
KeepsRoot ==
  /\ Trusting /\ uid = Root /\ usr.uid # Root => info.req.tl = "trusted" \/ Exact(info.req)
  /\ Trusting /\ uid = Root /\ info.req.tl = "trusted" /\ Straight(info.target) =>
       StopsOutside(fs, Root, walk)
  /\ cmd.job = "mount" => info.target # <<>> /\ info.target[1] = Slash
  /\ cmd.job = "mount" /\ uid = Root /\ usr.uid # Root => ~DropPriv(info.req, usr.home)

\* A new directory in one outside the system directories is outside them.
LEMMA OutsideBelow ==
  ASSUME Trees, world \in Worlds, NEW at \in DOMAIN fs, NEW n \in Text,
         Append(at, n) \notin DOMAIN fs, ~InSystemDir(at)
  PROVE  ~InSystemDir(Append(at, n))
<1> DEFINE p == Append(at, n)
<1>1. at \in Seq(Text)
  BY DEF Trees, Tree, IsFileSystem
<1>2. /\ \A i \in 1 .. Len(at) + 1 : p[i] = IF i <= Len(at) THEN at[i] ELSE n
      /\ Len(at) \in Nat
  <2>1. Len(at) \in Nat
    BY <1>1
  <2> QED BY <1>1, <2>1, OneMore
<1>3. CASE at = <<>>
  <2>1. p = <<n>>
    BY <1>3
  <2>2. p[1] = n
    BY <2>1
  <2>3. \A d \in SystemDirs : <<d>> \in DOMAIN fs
    BY WorldsAssumption DEF IsWorld, Trees, Tree, Enlarges
  <2> QED BY <2>1, <2>2, <2>3 DEF InSystemDir
<1>4. CASE at # <<>>
  <2>1. 1 <= Len(at) /\ 1 \in 1 .. Len(at) + 1
    BY <1>1, <1>2, <1>4, EmptySeq
  <2>2. p[1] = at[1]
    BY <1>2, <2>1
  <2> HIDE DEF p
  <2> QED BY <1>4, <2>2 DEF InSystemDir, p
<1> QED BY <1>3, <1>4

\* Below a directory that was just made there is nothing.
LEMMA NothingBelow ==
  ASSUME NEW f, IsFileSystem(f), NEW u, NEW path \in Seq(Text), path # <<>>, mkdir(f, u, path).ok,
         NEW below \in Seq(Text), below # <<>>, Front(below) = path, Last(below) \notin {Dot, DotDot}
  PROVE  ~Found(mkdir(f, u, path).fs, Root, below)
<1> DEFINE m == mkdir(f, u, path)
           a == Lookup(f, u, Front(path))
           g == m.fs
           p == m.at
           n == Last(below)
           b == Append(p, n)
<1>1. Makes(m, a, f, path)
  BY MkdirMakes
<1> HIDE DEF m, a
<1>2. n \in Text /\ n # Dot /\ n # DotDot
  BY FrontProperties DEF Last
<1>3. /\ IsFileSystem(g) /\ p \notin DOMAIN f /\ p \in Seq(Text) /\ DOMAIN g = DOMAIN f \cup {p}
      /\ g[p].type = "dir" /\ Lookup(g, Root, path) = [err |-> "", at |-> p]
  BY <1>1 DEF Makes
<1> HIDE DEF n, g, p
<1>4. Rooted(g)
  BY <1>3 DEF IsFileSystem, Rooted
<1>5. Lookup(g, Root, below) = NextPlace(g, Root, [err |-> "", at |-> p], n)
  BY <1>3, <1>4, LookupStep DEF n
<1>6. b \notin DOMAIN g
  <2>1. Len(b) = Len(p) + 1 /\ Len(p) \in Nat /\ b \in Seq(Text)
    <3>1. p \in Seq(Text)
      BY <1>3
    <3>2. Len(p) \in Nat
      BY <3>1
    <3> QED BY <1>2, <3>1, <3>2, OneMore DEF b
  <2>2. b # <<>> /\ Front(b) = p
    BY <1>3, <1>2, FrontOfAppend
  <2>3. b # p
    BY <2>1
  <2>4. b \notin DOMAIN f
    BY <1>3, <2>2 DEF IsFileSystem
  <2> QED BY <1>3, <2>3, <2>4
<1> HIDE DEF b
<1> DEFINE q == NextPlace(g, Root, [err |-> "", at |-> p], n)
<1>7. q = [err |-> "ENOENT", at |-> p]
  BY <1>2, <1>3, <1>6 DEF NextPlace, b
<1> HIDE DEF q
<1>8. q.err = "ENOENT"
  BY <1>7
<1> QED BY <1>5, <1>8 DEF Found, q, g, m

\* No name on the way to a Straight target is "." or "..".
LEMMA StraightWalk ==
  ASSUME NEW t, NEW w, Walks(w, t), \A h \in 1 .. Len(w) : names(w[h]) \in Seq(Text), Straight(t)
  PROVE  \A i \in 2 .. Len(w) : Last(names(w[i])) \notin {Dot, DotDot}
<1> DEFINE n == Len(w)
           Plain1(i) == \A h \in 1 .. Len(names(w[i])) : names(w[i])[h] \notin {Dot, DotDot}
           U == {d \in Nat : d < n => Plain1(n - d)}
<1>1. n \in Nat \ {0} /\ names(w[n]) = names(t) /\ n \in 1 .. n
  BY DEF Walks
<1>2. Plain1(n)
  <2> DEFINE p == names(t)
  <2>1. p \in Seq(Text) /\ names(w[n]) = p
    BY <1>1
  <2>2. ToSet(p) \cap {Dot, DotDot} = {}
    BY DEF Straight
  <2> HIDE DEF p
  <2>3. \A h \in 1 .. Len(p) : p[h] \in ToSet(p)
    BY <2>1 DEF ToSet
  <2> QED BY <2>1, <2>2, <2>3
<1>3. ASSUME NEW h \in 2 .. n, Plain1(h) PROVE Plain1(h - 1)
  <2> DEFINE p == names(w[h])
             q == names(w[h - 1])
  <2>1. p # <<>> /\ Front(p) = q /\ p \in Seq(Text)
    <3>1. h \in 1 .. n
      BY <1>1
    <3> QED BY <3>1 DEF Walks
  <2>2. \A i \in 1 .. Len(p) : p[i] \notin {Dot, DotDot}
    BY <1>3
  <2> HIDE DEF p, q
  <2>3. Len(p) \in Nat \ {0} /\ Len(q) = Len(p) - 1 /\ \A i \in 1 .. Len(p) - 1 : q[i] = p[i]
    BY <2>1, FrontProperties
  <2>4. \A i \in 1 .. Len(q) : q[i] \notin {Dot, DotDot}
    BY <2>2, <2>3
  <2> QED BY <2>4 DEF q
<1>4. ASSUME NEW i \in 2 .. n, Plain1(i) PROVE Last(names(w[i])) \notin {Dot, DotDot}
  <2> DEFINE p == names(w[i])
  <2>1. p # <<>> /\ p \in Seq(Text)
    <3>1. i \in 1 .. n
      BY <1>1
    <3> QED BY <3>1 DEF Walks
  <2>2. \A h \in 1 .. Len(p) : p[h] \notin {Dot, DotDot}
    BY <1>4
  <2> HIDE DEF p
  <2>3. Len(p) \in Nat \ {0} /\ Len(p) \in 1 .. Len(p)
    BY <2>1, FrontProperties
  <2>4. Last(p) \notin {Dot, DotDot}
    BY <2>2, <2>3 DEF Last
  <2> QED BY <2>4 DEF p
<1> HIDE DEF Plain1, n
<1>5. 0 \in U
  <2>1. n - 0 = n
    BY <1>1
  <2> QED BY <1>2, <2>1
<1>6. ASSUME NEW d \in Nat, d \in U PROVE d + 1 \in U
  <2>1. d + 1 < n => n - d \in 2 .. n /\ (n - d) - 1 = n - (d + 1) /\ d < n
    BY <1>1
  <2> QED BY <1>3, <1>6, <2>1
<1> HIDE DEF U
<1>7. Nat \subseteq U
  BY <1>5, <1>6, Induction
<1>8. ASSUME NEW i \in 2 .. n PROVE Plain1(i)
  <2>1. n - i \in Nat /\ n - i < n /\ n - (n - i) = i
    BY <1>1
  <2> QED BY <1>7, <2>1 DEF U
<1> QED BY <1>4, <1>8 DEF n

\* Root makes directories only where check_mountpoint() has looked: if the walk
\* leaves what exists outside the system directories, it does so still when one
\* more directory was made, and that one is outside them.
LEMMA MadeOutside ==
  ASSUME Trees, world \in Worlds, info \in Infos, info.target # <<>>, info.target[1] = Slash,
         k \in 1 .. Len(walk), mkdir(fs, Root, Here).ok, ~Found(fs, Root, Here),
         StopsOutside(fs, Root, walk), Straight(info.target)
  PROVE  /\ ~InSystemDir(mkdir(fs, Root, Here).at)
         /\ StopsOutside(mkdir(fs, Root, Here).fs, Root, walk)
<1> DEFINE m == mkdir(fs, Root, Here)
           l == Lookup(fs, Root, Front(Here))
           w == walk
           n == Len(w)
           g == m.fs
<1>1. /\ Walks(w, info.target) /\ n \in Nat \ {0}
      /\ \A i \in 1 .. n : names(w[i]) \in Seq(Text)
  BY WalkTyped DEF Straight
<1>13. \A i \in 2 .. n : Last(names(w[i])) \notin {Dot, DotDot}
  <2> HIDE DEF w
  <2> QED BY <1>1, StraightWalk
<1>2. IsFileSystem(fs) /\ Rooted(fs) /\ Lookup(fs, Root, <<>>) = [err |-> "", at |-> <<>>]
  BY LookupStep DEF Trees, Tree, IsFileSystem, Rooted
<1>3. Here \in Seq(Text) /\ Here # <<>>
  <2>1. Here \in Seq(Text)
    BY <1>1 DEF Here
  <2> DEFINE c == Lookup(fs, Root, <<>>)
  <2>2. c = [err |-> "", at |-> <<>>]
    BY <1>2
  <2> HIDE DEF c
  <2>3. c.err = ""
    BY <2>2
  <2>4. Found(fs, Root, <<>>)
    BY <2>3 DEF Found, c
  <2> QED BY <2>1, <2>4
<1>4. Makes(m, l, fs, Here)
  BY <1>2, <1>3, MkdirMakes
<1>5. k \in 2 .. n /\ Front(Here) = names(w[k - 1])
  <2>1. k # 1
    BY <1>1, <1>3 DEF Walks, Here
  <2>2. k \in 2 .. n
    BY <1>1, <2>1
  <2> QED BY <1>1, <2>2 DEF Walks, Here
<1>6. Found(fs, Root, names(w[k - 1])) /\ ~InSystemDir(l.at) /\ k - 1 \in 1 .. n
  <2>1. Found(fs, Root, names(w[k - 1]))
    BY <1>4, <1>5 DEF Found, Makes
  <2>2. ~Found(fs, Root, names(w[k])) /\ k \in 2 .. Len(w) + 1
    BY <1>1, <1>5 DEF Here
  <2>3. ~InSystemDir(Lookup(fs, Root, names(w[k - 1])).at)
    BY <2>1, <2>2 DEF StopsOutside
  <2> QED BY <1>1, <1>5, <2>1, <2>3
<1>7. ~InSystemDir(m.at)
  <2>1. Last(Here) \in Text
    BY <1>3, FrontProperties DEF Last
  <2>2. l.at \in DOMAIN fs /\ m.at = Append(l.at, Last(Here)) /\ m.at \notin DOMAIN fs
    BY <1>4 DEF Makes
  <2> HIDE DEF m, l
  <2> QED BY <1>6, <2>1, <2>2, OutsideBelow
<1>8. \A below \in Seq(Text) : below # <<>> /\ Front(below) = Here /\ Last(below) \notin {Dot, DotDot} =>
        ~Found(g, Root, below)
  BY <1>2, <1>3, NothingBelow
<1> HIDE DEF m, l, w
<1>9. Rooted(g) /\ Lookup(g, Root, Here) = [err |-> "", at |-> m.at] /\ Here = names(w[k])
  BY <1>4 DEF Makes, IsFileSystem, Rooted, Here, w
<1> HIDE DEF g
<1> DEFINE a == m.at
           b == Lookup(g, Root, Here)
<1>10. b.err = "" /\ b.at = a
  <2>1. b = [err |-> "", at |-> a]
    BY <1>9
  <2> HIDE DEF b, a
  <2> QED BY <2>1
<1>11. Found(g, Root, names(w[k]))
  BY <1>9, <1>10 DEF Found
<1> HIDE DEF a, b
<1>12. ASSUME NEW i \in 2 .. n + 1, Found(g, Root, names(w[i - 1])), i <= n => ~Found(g, Root, names(w[i]))
       PROVE  ~InSystemDir(Lookup(g, Root, names(w[i - 1])).at)
  <2>1. CASE i = k + 1
    <3> HIDE DEF n
    <3>1. i - 1 = k
      BY <1>5, <2>1
    <3>2. names(w[i - 1]) = Here
      BY <1>9, <3>1
    <3> QED BY <1>7, <1>10, <3>2 DEF a, b
  <2>2. CASE i <= k
    <3>1. i \in 1 .. k /\ k \in 1 .. n /\ i <= n
      BY <1>1, <1>5, <2>2
    <3>2. Found(g, Root, names(w[i]))
      BY <1>1, <1>9, <1>11, <3>1, FoundBefore
    <3> QED BY <1>12, <3>1, <3>2
  <2>3. CASE i > k + 1
    <3>1. k + 1 \in 1 .. i - 1 /\ i - 1 \in 1 .. n /\ k + 1 \in 2 .. n /\ k + 1 - 1 = k
      BY <1>1, <1>5, <2>3
    <3>2. Found(g, Root, names(w[k + 1]))
      BY <1>1, <1>9, <1>12, <3>1, FoundBefore
    <3> DEFINE j == k + 1
    <3>3. j \in 2 .. n /\ j \in 1 .. n /\ j - 1 = k
      BY <1>1, <3>1
    <3> HIDE DEF j
    <3>4. names(w[j]) # <<>> /\ Front(names(w[j])) = names(w[j - 1])
      BY <1>1, <3>3 DEF Walks
    <3>5. /\ names(w[k + 1]) \in Seq(Text) /\ names(w[k + 1]) # <<>> /\ Front(names(w[k + 1])) = Here
          /\ Last(names(w[k + 1])) \notin {Dot, DotDot}
      BY <1>1, <1>9, <1>13, <3>3, <3>4 DEF j
    <3> QED BY <1>8, <3>2, <3>5
  <2> QED BY <1>1, <1>5, <2>1, <2>2, <2>3
<1> QED BY <1>7, <1>12 DEF StopsOutside, g, m, w

\* Invariant of the policy: for what root's privileges are kept, and which
\* directories were made with them.
Allowed == KeepsRoot /\ RootMakesOnlyAllowed

\* Nothing has been made with root's privileges at the start.
LEMMA AllowedInit == Init => Allowed
<1> SUFFICES ASSUME Init PROVE Allowed
  OBVIOUS
<1>1. pc = "idle" /\ cmd = NoCmd /\ made = {}
  BY Zenon DEF Init
<1> QED BY <1>1 DEF Allowed, KeepsRoot, Trusting, RootMakesOnlyAllowed, NoCmd

\* Where mount() keeps root's privileges, check_mountpoint() has accepted the
\* place, or the request is a unit's.
LEMMA JudgedAllowed ==
  ASSUME Typed, Trees, Judge
  PROVE  Allowed'
<1>1. PICK u : info' = [info EXCEPT !.unit = u, !.req = Judged(info, u)]
  BY DEF Judge
<1>2. /\ pc = "judge" /\ pc' = "mkdir" /\ uid' = IF DropsEarly(info'.req) THEN Dropped ELSE uid
      /\ UNCHANGED <<usr, fs, cmd, made>> /\ info'.req.tl # "reject"
  BY DEF Judge
<1> DEFINE j == Judged(info, u)
<1>3. j.tl = check_mountpoint(fs, uid, info.target)
  BY DEF Judged
<1>4. info \in Infos /\ made = {} /\ (pc = "run") = (cmd # NoCmd)
  BY <1>2 DEF Typed, Requested, Handling
<1>5. j \in AllRequests
  BY <1>4, JudgedTyped
<1> HIDE DEF j
<1>6. info'.target = info.target /\ info'.req = j /\ info.target \in Text
  BY <1>1, <1>4 DEF Infos, j
<1>7. walk' = walk
  BY <1>6 DEF walk
<1>8. cmd'.job # "mount"
  BY <1>2, <1>4 DEF NoCmd
<1>9. uid' = Root => uid = Root
  BY <1>2 DEF Dropped
<1>10. uid' = Root /\ usr'.uid # Root => j.tl = "trusted" \/ Exact(j)
  <2> SUFFICES ASSUME uid' = Root, usr'.uid # Root, j.tl # "trusted" PROVE Exact(j)
    OBVIOUS
  <2>1. ~DropsEarly(j)
    BY <1>2, <1>6, <1>9 DEF Dropped
  <2>2. j.tl = "system"
    BY <1>2, <1>5, <1>6 DEF AllRequests
  <2> QED BY <2>1, <2>2 DEF DropsEarly, DropPriv
<1>11. uid' = Root /\ j.tl = "trusted" /\ Straight(info.target) => StopsOutside(fs, Root, walk)
  <2> SUFFICES ASSUME uid' = Root, j.tl = "trusted", Straight(info.target) PROVE StopsOutside(fs, Root, walk)
    OBVIOUS
  <2>1. Rooted(fs) /\ Backslash \notin ToSet(info.target)
    BY DEF Trees, Tree, IsFileSystem, Rooted, Straight
  <2> QED BY <1>3, <1>6, <1>9, <2>1, Accepted DEF walk
<1>12. Straight(info.target)' = Straight(info.target)
  BY <1>6 DEF Straight
<1> QED BY <1>2, <1>6, <1>7, <1>8, <1>10, <1>11, <1>12, <1>4 DEF Allowed, KeepsRoot, Trusting, RootMakesOnlyAllowed

\* Every step keeps to the policy.
LEMMA AllowedNext == Typed /\ Trees /\ Allowed /\ [Next]_vars => Allowed'
<1> SUFFICES ASSUME Typed, Trees, Allowed, [Next]_vars PROVE Allowed'
  OBVIOUS
<1>1. /\ (pc = "run") = (cmd # NoCmd)
      /\ pc \in {"idle", "judge", "unmount"} => made = {}
      /\ info \in Infos /\ world \in Worlds
  BY DEF Typed, Handling, Requested, Actors
<1>2. NoCmd.job = "none"
  BY DEF NoCmd
<1>3. CASE made' = {} /\ cmd'.job # "mount" /\ pc' # "mkdir"
  BY <1>3 DEF Allowed, KeepsRoot, Trusting, RootMakesOnlyAllowed
<1>4. CASE Select \/ Edit \/ Refresh \/ Change
  <2>1. pc = "idle" /\ pc' = "idle" /\ cmd' = cmd /\ made' = made
    BY <1>4 DEF Select, Edit, Refresh, Change, request
  <2> QED BY <1>1, <1>2, <1>3, <2>1
<1>5. CASE MountClicked \/ UnmountClicked
  <2>1. pc = "idle" /\ pc' \in {"judge", "unmount"} /\ cmd' = cmd /\ made' = made
    BY <1>5 DEF MountClicked, UnmountClicked, Clicked
  <2> QED BY <1>1, <1>2, <1>3, <2>1
<1>6. CASE ReadPastTie
  <2>1. pc \in {"idle", "judge", "unmount"} /\ pc' = "crashed" /\ cmd' = cmd /\ made' = made
    BY <1>6 DEF ReadPastTie, request
  <2> QED BY <1>1, <1>2, <1>3, <2>1
<1>7. CASE Rejected \/ NoMountpoint \/ NoCommand \/ RunFails \/ RunSucceeds
  <2>1. pc' = "idle" /\ cmd' = NoCmd /\ made' = {}
    BY <1>7 DEF Rejected, NoMountpoint, NoCommand, RunFails, RunSucceeds, Return
  <2> QED BY <1>2, <1>3, <2>1
<1>8. CASE Judge
  BY <1>8, JudgedAllowed
<1>9. CASE DirExists \/ InstallDir
  <2>1. UNCHANGED <<usr, uid, pc, info, cmd, made>> /\ pc = "mkdir" /\ (uid # Root \/ fs' = fs)
    BY <1>9 DEF DirExists, InstallDir, MakingDir, Missing
  <2>2. walk' = walk /\ cmd.job # "mount" /\ Straight(info.target)' = Straight(info.target)
    BY <1>1, <1>2, <2>1 DEF walk, Straight
  <2> QED BY <2>1, <2>2 DEF Allowed, KeepsRoot, Trusting, RootMakesOnlyAllowed
<1>10. CASE MakeDir
  <2> DEFINE m == mkdir(fs, uid, Here)
  <2>1. /\ UNCHANGED <<usr, uid, pc, info, cmd>> /\ pc = "mkdir" /\ k <= Len(walk)
        /\ fs' = m.fs /\ m.ok /\ made' = made \cup {[at |-> m.at, as |-> uid]}
        /\ Lookup(fs, uid, Here).err = "ENOENT"
    BY <1>10 DEF MakeDir, MakingDir, Missing
  <2>2. walk' = walk /\ cmd.job # "mount" /\ Straight(info.target)' = Straight(info.target)
    BY <1>1, <1>2, <2>1 DEF walk, Straight
  <2>3. ~Found(fs, uid, Here)
    BY <2>1 DEF Found
  <2>4. info.target # <<>> /\ info.target[1] = Slash /\ k \in 1 .. Len(walk)
    <3>1. info.target # <<>> /\ info.target[1] = Slash /\ k \in 1 .. Len(walk) + 1
      BY <2>1 DEF Trees, Walking
    <3>2. Len(walk) \in Nat \ {0}
      BY <1>1, <3>1, WalkTyped
    <3>3. k <= Len(walk)
      BY <2>1
    <3> QED BY <3>1, <3>2, <3>3
  <2> HIDE DEF m
  <2>5. uid = Root /\ info.req.tl = "trusted" /\ Straight(info.target) =>
          ~InSystemDir(m.at) /\ StopsOutside(fs', Root, walk)
    <3> SUFFICES ASSUME uid = Root, info.req.tl = "trusted", Straight(info.target)
                 PROVE  ~InSystemDir(m.at) /\ StopsOutside(fs', Root, walk)
      OBVIOUS
    <3>1. StopsOutside(fs, Root, walk)
      BY <2>1 DEF Allowed, KeepsRoot, Trusting
    <3> QED BY <1>1, <2>1, <2>3, <2>4, <3>1, MadeOutside DEF m
  <2>6. KeepsRoot'
    BY <2>1, <2>2, <2>5 DEF Allowed, KeepsRoot, Trusting
  <2>7. ASSUME Straight(info.target), NEW x \in made', x.as = Root, usr.uid # Root
        PROVE  ~InSystemDir(x.at) \/ Exact(info.req)
    <3>1. CASE x \in made
      BY <2>7, <3>1 DEF Allowed, RootMakesOnlyAllowed
    <3>2. CASE x = [at |-> m.at, as |-> uid]
      <4>1. x.at = m.at /\ uid = Root
        BY <2>7, <3>2
      <4> QED BY <2>1, <2>5, <2>7, <4>1 DEF Allowed, KeepsRoot, Trusting
    <3> QED BY <2>1, <2>7, <3>1, <3>2
  <2> QED BY <2>1, <2>6, <2>7 DEF Allowed, RootMakesOnlyAllowed
<1>11. CASE Decide
  <2>1. /\ pc = "mkdir" /\ pc' = "run" /\ UNCHANGED <<usr, fs, info, made>>
        /\ uid' = IF DropPriv(info.req, usr.home) THEN Dropped ELSE uid
    BY <1>11 DEF Decide
  <2>2. /\ walk' = walk /\ info.target # <<>> /\ info.target[1] = Slash
        /\ Straight(info.target)' = Straight(info.target)
    BY <2>1 DEF walk, Trees, Walking, Straight
  <2>3. uid' = Root => uid = Root
    BY <2>1 DEF Dropped
  <2>4. uid' = Root /\ usr.uid # Root => ~DropPriv(info.req, usr.home)
    BY <2>1, <2>3 DEF Dropped
  <2> QED BY <2>1, <2>2, <2>3, <2>4 DEF Allowed, KeepsRoot, Trusting, RootMakesOnlyAllowed
<1>12. CASE DecideUnmount
  <2>1. pc = "unmount" /\ pc' = "run" /\ cmd'.job = "unmount" /\ made' = made
    BY <1>12 DEF DecideUnmount
  <2> QED BY <1>1, <1>3, <2>1
<1>13. CASE UNCHANGED vars
  BY <1>13 DEF vars, Allowed, KeepsRoot, Trusting, RootMakesOnlyAllowed, walk, Straight
<1> QED BY <1>4, <1>5, <1>6, <1>7, <1>8, <1>9, <1>10, <1>11, <1>12, <1>13 DEF Next

\* The policy is kept to.
LEMMA AllowedAlways == Spec => []Allowed
<1>1. Init => Allowed
  BY AllowedInit
<1>2. Typed /\ Trees /\ Allowed /\ [Next]_vars => Allowed'
  BY AllowedNext
<1> QED BY <1>1, <1>2, TypedAlways, TreesAlways, PTL DEF Spec

\* MountpointMade: create_mountpoint() returns success only when the mount point is
\* a directory, if no backslash is in its name; and of the directories on the way to
\* a Straight target (without a backslash, "." and ".."), whatever links the file
\* system has, the ones made with root's privileges for a user are where the policy
\* allows them.
THEOREM MountpointMadeHolds == Spec => []MountpointMade
<1>1. Trees /\ Allowed => MountpointMade
  BY DEF Trees, Allowed, MountpointMade
<1> QED BY <1>1, TreesAlways, AllowedAlways, PTL

-----------------------------------------------------------------------------
(* From the form to the unit: what is not modified is what the unit says.  *)

\* Fields that were filled and not modified since show the unit of their device,
\* if it has one and is not mounted.
ShowsUnit(f, list, db, w) ==
  LET u == UnitOf(db, f.of)
  IN f.of # NoDevice /\ ~f.modified =>
       /\ f.of \in w.devices
       /\ f.of \in DOMAIN list /\ list[f.of].MOUNTPOINT = <<>> /\ u # NoUnit =>
            f.target = u.where /\ f.options = u.options /\ (u.fstype # "" => f.type = u.fstype)

\* The form is one of those.
FormShown == ShowsUnit(form, devs, system_db, world)

\* A request that was taken from such fields is for the unit.
ForUnit(i, db) ==
  i.listed /\ i.plain # NoDevice =>
    LET u == UnitOf(db, i.plain)
    IN u # NoUnit /\ u.fstype # "" /\ Plain(u.where) /\ Plain(u.options) =>
         /\ i.target = u.where /\ i.options = u.options /\ i.fs_type = u.fstype
         /\ i.dev = i.plain /\ i.path = i.plain.PATH

\* Invariant of the request: a form, or a request taken from one, that nobody has
\* modified is what the unit of its device says.
Shown == FormShown /\ (pc \in {"judge", "mkdir"} => ForUnit(info, system_db))

\* Fields of a device that is not mounted show its unit.
LEMMA FieldsOfUnit ==
  ASSUME NEW list, NEW d, list[d].MOUNTPOINT = <<>>, UnitOf(system_db, d) # NoUnit
  PROVE  LET f == Fields(list, d)
             u == UnitOf(system_db, d)
         IN  f.target = u.where /\ f.options = u.options /\ (u.fstype # "" => f.type = u.fstype)
  BY DEF Fields

\* So does the form that PopulateFormFields() leaves.
LEMMA PopulatedShows ==
  ASSUME NEW list, NEW d \in DOMAIN list, DOMAIN list \subseteq world.devices, FormInv
  PROVE  ShowsUnit(PopulateFormFields(list, d), list, system_db, world)
<1> DEFINE f == PopulateFormFields(list, d)
           s == Fields(list, d)
           u == UnitOf(system_db, d)
<1>1. CASE form.path # d.PATH \/ ~form.modified
  <2>1. f = [path |-> s.path, target |-> s.target, type |-> s.type, options |-> s.options,
             modified |-> FALSE, of |-> d, buttons |-> Buttons(list, d.PATH)]
    BY <1>1 DEF PopulateFormFields
  <2>2. list[d].MOUNTPOINT = <<>> /\ u # NoUnit =>
          s.target = u.where /\ s.options = u.options /\ (u.fstype # "" => s.type = u.fstype)
    BY FieldsOfUnit
  <2> HIDE DEF f, s
  <2>3. f.of = d /\ f.target = s.target /\ f.options = s.options /\ f.type = s.type
    BY <2>1
  <2> QED BY <2>2, <2>3 DEF ShowsUnit, f
<1>2. CASE ~(form.path # d.PATH \/ ~form.modified)
  <2>1. f = [form EXCEPT !.buttons = Buttons(list, d.PATH)]
    BY <1>2 DEF PopulateFormFields
  <2>2. f = [path |-> form.path, target |-> form.target, type |-> form.type,
             options |-> form.options, modified |-> form.modified, of |-> form.of,
             buttons |-> Buttons(list, d.PATH)]
    BY <2>1 DEF FormInv
  <2> HIDE DEF f
  <2>3. f.modified = form.modified
    BY <2>2
  <2> QED BY <1>2, <2>3 DEF ShowsUnit, f
<1> QED BY <1>1, <1>2

\* A device that is listed is found.
LEMMA ListedFound ==
  ASSUME NEW list, DOMAIN list \subseteq world.devices, world \in Worlds, NEW d \in DOMAIN list
  PROVE  find_device(list, d.PATH) # NoDevice
<1>1. find_device(list, d.PATH) \in DOMAIN list
  BY DEF find_device
<1>2. world.devices \subseteq Devices
  BY WorldsAssumption DEF IsWorld
<1> QED BY <1>1, <1>2, RealDevice

\* And the form that is selected again after a refresh.
LEMMA ReselectedShows ==
  ASSUME NEW list, DOMAIN list \subseteq world.devices, FormInv, FormShown
  PROVE  ShowsUnit(Reselect(list), list, system_db, world)
<1> DEFINE d == find_device(list, form.path)
<1>1. CASE d = NoDevice
  <2>1. Reselect(list) = form
    BY <1>1 DEF Reselect
  <2>2. form.of # NoDevice => form.of \notin DOMAIN list
    BY <1>1, ListedFound DEF FormInv, FormOfDevice
  <2>3. form.of # NoDevice /\ ~form.modified => form.of \in world.devices
    BY DEF FormShown, ShowsUnit
  <2> QED BY <2>1, <2>2, <2>3 DEF ShowsUnit
<1>2. CASE d # NoDevice
  <2>1. d \in DOMAIN list
    BY <1>2, DeviceFound
  <2>2. Reselect(list) = PopulateFormFields(list, d)
    BY <1>2 DEF Reselect
  <2> HIDE DEF d
  <2> QED BY <2>1, <2>2, PopulatedShows
<1> QED BY <1>1, <1>2

\* What GatherMountInfo() takes from fields that were not modified since they
\* were filled from a device with a unit.
LEMMA GatheredShown ==
  ASSUME Typed, FormInv, FormShown, form.buttons.mount,
         Gathered.listed, Gathered.plain # NoDevice,
         UnitOf(system_db, Gathered.plain) # NoUnit, UnitOf(system_db, Gathered.plain).fstype # "",
         Plain(UnitOf(system_db, Gathered.plain).where), Plain(UnitOf(system_db, Gathered.plain).options)
  PROVE  LET g == Gathered
             u == UnitOf(system_db, g.plain)
         IN  /\ g.target = u.where /\ g.options = u.options /\ g.fs_type = u.fstype
             /\ g.dev = g.plain /\ g.path = g.plain.PATH
<1> DEFINE g == Gathered
           u == UnitOf(system_db, g.plain)
           d == find_device(devs, trim(form.path))
<1>1. g = [path |-> trim(form.path), fs_type |-> form.type, target |-> trim(form.target),
           options |-> trim(form.options), dev |-> d, listed |-> d # NoDevice,
           plain |-> IF form.modified THEN NoDevice ELSE form.of, unit |-> NoUnit,
           req |-> NoRequest]
  BY GatheredTyped DEF Typed, Actors, Lists
<1> HIDE DEF g
<1>2. d # NoDevice /\ ~form.modified /\ g.plain = form.of /\ form.of # NoDevice
  BY <1>1 DEF g
<1>3. /\ g.path = trim(form.path) /\ g.fs_type = form.type /\ g.target = trim(form.target)
      /\ g.options = trim(form.options) /\ g.dev = d
  BY <1>1
<1>4. form.of \in world.devices /\ form.path = form.of.PATH
  BY <1>2 DEF FormShown, ShowsUnit, FormInv, FormOfDevice
<1>5. \A x, y \in world.devices : (x.PATH = y.PATH => x = y) /\ trim(x.PATH) = x.PATH
  BY WorldsAssumption DEF FormInv, IsWorld
<1>6. trim(form.path) = form.path
  BY <1>4, <1>5
<1>7. d \in DOMAIN devs /\ d.PATH = form.path /\ d \in world.devices
  BY <1>2, <1>6, DeviceFound DEF FormInv
<1>8. d = form.of
  BY <1>4, <1>5, <1>7
<1>9. devs[d].MOUNTPOINT = <<>>
  <2>1. find_device(devs, form.path) = d
    BY <1>6
  <2> HIDE DEF d
  <2> DEFINE b == Buttons(devs, form.path)
  <2>2. form.buttons = b
    BY <1>2, <2>1 DEF FormInv, ButtonsShown
  <2>3. b.mount => d = NoDevice \/ devs[d].MOUNTPOINT = <<>>
    BY <2>1 DEF Buttons
  <2> HIDE DEF b
  <2> QED BY <1>2, <2>2, <2>3
<1> HIDE DEF d
<1>10. form.target = u.where /\ form.options = u.options /\ form.type = u.fstype
  BY <1>2, <1>7, <1>8, <1>9 DEF FormShown, ShowsUnit, g
<1>11. trim(u.where) = u.where /\ trim(u.options) = u.options
  BY DEF Plain, g
<1> QED BY <1>2, <1>3, <1>4, <1>6, <1>8, <1>10, <1>11 DEF g

\* The form shows nothing at the start.
LEMMA ShownInit == Init => Shown
<1> SUFFICES ASSUME Init PROVE Shown
  OBVIOUS
<1>1. pc = "idle" /\ form.of = NoDevice
  <2>1. form = [path |-> <<>>, target |-> <<>>, type |-> "", options |-> <<>>,
                modified |-> FALSE, of |-> NoDevice, buttons |-> [mount |-> FALSE, unmount |-> FALSE]]
        /\ pc = "idle"
    BY Zenon DEF Init
  <2> QED BY <2>1
<1> QED BY <1>1 DEF Shown, FormShown, ShowsUnit

\* A request taken from the form is for the unit the form shows.
LEMMA ClickedShown ==
  ASSUME Typed, FormInv, Shown, MountClicked
  PROVE  Shown'
<1> DEFINE g == Gathered
           t == replace_placeholders(g.target, g, usr)
           o == replace_placeholders(g.options, g, usr)
<1>1. /\ pc = "idle" /\ pc' = "judge" /\ form.buttons.mount
      /\ info' = [g EXCEPT !.target = t, !.options = o]
      /\ UNCHANGED <<world, usr, uid, fs, system_db, mounts, devs, form, k, r, cmd, made, edits, changes>>
  BY Zenon DEF MountClicked, Clicked
<1>2. FormShown'
  BY <1>1 DEF Shown, FormShown
<1>3. g \in Infos /\ g.listed = (g.dev # NoDevice)
  <2>1. form \in Forms /\ ListTyped(devs) /\ world \in Worlds
    BY DEF Typed, Actors, Lists
  <2> DEFINE d == find_device(devs, trim(form.path))
  <2>2. g = [path |-> trim(form.path), fs_type |-> form.type, target |-> trim(form.target),
             options |-> trim(form.options), dev |-> d, listed |-> d # NoDevice,
             plain |-> IF form.modified THEN NoDevice ELSE form.of, unit |-> NoUnit,
             req |-> NoRequest]
        /\ g \in Infos
    BY <2>1, GatheredTyped
  <2> HIDE DEF g, d
  <2> QED BY <2>2
<1> DEFINE u == UnitOf(system_db, g.plain)
<1>4. ASSUME g.listed, g.plain # NoDevice, u # NoUnit, u.fstype # "", Plain(u.where), Plain(u.options)
      PROVE  /\ g.target = u.where /\ g.options = u.options /\ g.fs_type = u.fstype
             /\ g.dev = g.plain /\ g.path = g.plain.PATH
  BY <1>1, <1>4, GatheredShown DEF Shown
<1> HIDE DEF g
<1>5. /\ g.path \in Text /\ g.target \in Text /\ g.options \in Text /\ g.fs_type \in STRING
      /\ g.listed => g.dev \in Devices
  BY <1>3 DEF Infos, SomeDevice
<1>6. usr.user \in STRING /\ usr.group \in STRING
  BY StringsAssumption DEF Typed, Actors
<1>7. /\ ToSet(g.target) \cap Placeholders = {} => t = g.target
      /\ ToSet(g.options) \cap Placeholders = {} => o = g.options
  BY <1>5, <1>6, PlaceholdersReplaced
<1> HIDE DEF t, o, u
<1>8. /\ info'.listed = g.listed /\ info'.plain = g.plain /\ info'.fs_type = g.fs_type
      /\ info'.dev = g.dev /\ info'.path = g.path /\ info'.target = t /\ info'.options = o
  BY <1>1, <1>3 DEF Infos
<1>9. ForUnit(info', system_db)
  <2> SUFFICES ASSUME g.listed, g.plain # NoDevice, u # NoUnit, u.fstype # "", Plain(u.where), Plain(u.options)
               PROVE  /\ t = u.where /\ o = u.options /\ g.fs_type = u.fstype
                      /\ g.dev = g.plain /\ g.path = g.plain.PATH
    BY <1>8 DEF ForUnit, u
  <2>1. /\ g.target = u.where /\ g.options = u.options /\ g.fs_type = u.fstype
        /\ g.dev = g.plain /\ g.path = g.plain.PATH
    BY <1>4
  <2>2. ToSet(g.target) \cap Placeholders = {} /\ ToSet(g.options) \cap Placeholders = {}
    BY <2>1 DEF Plain
  <2> QED BY <1>7, <2>1, <2>2
<1> QED BY <1>1, <1>2, <1>9 DEF Shown

\* Every step leaves the form and the request with the unit.
LEMMA ShownNext == Typed /\ FormInv /\ Shown /\ [Next]_vars => Shown'
<1> SUFFICES ASSUME Typed, FormInv, Shown, [Next]_vars PROVE Shown'
  OBVIOUS
<1>1. /\ system_db = scan_systemd_units(world.dirs, world.links) /\ FormShown
      /\ DOMAIN mounts \subseteq world.devices /\ DOMAIN devs \subseteq world.devices
  BY DEF Typed, Lists, FormInv, Shown
<1>2. CASE Select
  <2>1. PICK d \in DOMAIN devs : form' = PopulateFormFields(devs, d)
    BY <1>2 DEF Select
  <2>2. pc' = "idle" /\ UNCHANGED <<world, system_db, devs>>
    BY <1>2 DEF Select
  <2>3. ShowsUnit(form', devs, system_db, world)
    BY <1>1, <2>1, PopulatedShows
  <2> QED BY <2>2, <2>3 DEF Shown, FormShown
<1>3. CASE Edit
  <2>1. pc' = "idle"
    BY <1>3 DEF Edit
  <2>2. form'.of = NoDevice \/ form'.modified
    <3>1. CASE \E p \in world.paths :
                  form' = [form EXCEPT !.path = p, !.buttons = Buttons(devs, p), !.of = NoDevice]
      BY <3>1 DEF FormInv
    <3>2. CASE \/ \E t \in world.targets : form' = [form EXCEPT !.target = t, !.modified = TRUE]
               \/ \E o \in world.options : form' = [form EXCEPT !.options = o, !.modified = TRUE]
               \/ \E y \in world.types : form' = [form EXCEPT !.type = y, !.modified = TRUE]
      BY <3>2 DEF FormInv
    <3> QED BY <1>3, <3>1, <3>2 DEF Edit
  <2> QED BY <2>1, <2>2 DEF Shown, FormShown, ShowsUnit
<1>4. CASE Refresh
  <2>1. /\ pc' = "idle" /\ form' = Reselect(mounts) /\ devs' = mounts
        /\ UNCHANGED world /\ system_db' = system_db
    BY <1>4, <1>1 DEF Refresh
  <2>2. ShowsUnit(form', mounts, system_db, world)
    BY <1>1, <2>1, ReselectedShows
  <2> QED BY <2>1, <2>2 DEF Shown, FormShown
<1>5. CASE MountClicked
  BY <1>5, ClickedShown
<1>6. CASE Judge
  <2>1. PICK u : info' = [info EXCEPT !.unit = u, !.req = Judged(info, u)]
    BY <1>6 DEF Judge
  <2>2. pc = "judge" /\ UNCHANGED <<world, system_db, devs, form>>
    BY <1>6 DEF Judge
  <2> DEFINE j == Judged(info, u)
  <2>3. /\ info'.listed = info.listed /\ info'.plain = info.plain /\ info'.fs_type = info.fs_type
        /\ info'.dev = info.dev /\ info'.path = info.path /\ info'.target = info.target
        /\ info'.options = info.options
    <3>1. info' = [info EXCEPT !.unit = u, !.req = j]
      BY <2>1
    <3> HIDE DEF j
    <3> QED BY <3>1 DEF Typed, Requested, Infos
  <2>4. ForUnit(info', system_db)
    BY <2>2, <2>3 DEF Shown, ForUnit
  <2> QED BY <1>1, <2>2, <2>4 DEF Shown, FormShown
<1>7. CASE DirExists \/ MakeDir \/ InstallDir
  <2>1. UNCHANGED <<world, system_db, devs, form, pc, info>>
    BY <1>7 DEF DirExists, MakeDir, InstallDir
  <2> QED BY <2>1 DEF Shown, FormShown
<1>8. CASE Change \/ UnmountClicked \/ ReadPastTie \/ Decide \/ DecideUnmount
  <2>1. UNCHANGED <<world, system_db, devs, form>> /\ pc' \notin {"judge", "mkdir"}
    BY <1>8 DEF Change, UnmountClicked, Clicked, ReadPastTie, Decide, DecideUnmount
  <2> QED BY <1>1, <2>1 DEF Shown, FormShown
<1>9. CASE Rejected \/ NoMountpoint \/ NoCommand \/ RunFails
  <2>1. UNCHANGED <<world, system_db, devs, form>> /\ pc' = "idle"
    BY <1>9 DEF Rejected, NoMountpoint, NoCommand, RunFails, Return
  <2> QED BY <1>1, <2>1 DEF Shown, FormShown
<1>10. CASE RunSucceeds
  <2>1. /\ pc' = "idle" /\ form' = Reselect(mounts') /\ devs' = mounts'
        /\ UNCHANGED world /\ system_db' = system_db
        /\ mounts' = Mounted \/ mounts' = Unmounted
    BY <1>10, <1>1 DEF RunSucceeds, Return
  <2>2. DOMAIN mounts' = DOMAIN mounts
    BY <2>1 DEF Mounted, Unmounted
  <2> DEFINE list == mounts'
  <2>3. DOMAIN list \subseteq world.devices
    BY <1>1, <2>2
  <2> HIDE DEF list
  <2>4. ShowsUnit(Reselect(list), list, system_db, world)
    BY <1>1, <2>3, ReselectedShows
  <2> QED BY <2>1, <2>4 DEF Shown, FormShown, list
<1>11. CASE UNCHANGED vars
  BY <1>11 DEF vars, Shown, FormShown
<1> QED BY <1>2, <1>3, <1>4, <1>5, <1>6, <1>7, <1>8, <1>9, <1>10, <1>11 DEF Next

\* What was not modified is what the unit says.
LEMMA ShownAlways == Spec => []Shown
<1>1. Init => Shown
  BY ShownInit
<1>2. Typed /\ FormInv /\ Shown /\ [Next]_vars => Shown'
  BY ShownNext
<1> QED BY <1>1, <1>2, TypedAlways, FormInvAlways, PTL DEF Spec

\* A request that is for the unit of its device is taken for that unit.
LEMMA ShownIsUnit == Typed /\ Decided /\ Shown => FormIsUnit
<1> SUFFICES ASSUME Typed, Decided, Shown, pc = "mkdir", info.listed, info.plain # NoDevice,
                    UnitOf(system_db, info.plain) # NoUnit, UnitOf(system_db, info.plain).fstype # "",
                    UnitAt(system_db, UnitOf(system_db, info.plain).where) = UnitOf(system_db, info.plain),
                    Plain(UnitOf(system_db, info.plain).where), Plain(UnitOf(system_db, info.plain).options)
             PROVE  Exact(info.req) /\ info.unit = UnitOf(system_db, info.plain)
  BY DEF FormIsUnit
<1> DEFINE u == UnitOf(system_db, info.plain)
<1>1. /\ info.target = u.where /\ info.options = u.options /\ info.fs_type = u.fstype
      /\ info.dev = info.plain /\ info.path = info.plain.PATH
  BY DEF Shown, ForUnit
<1>2. PICK x : /\ FirstOf(x, {i \in 1 .. Len(system_db) : Matches(system_db[i], info.plain, info.plain.PATH)},
                          Len(system_db))
               /\ u = IF x = 0 THEN NoUnit ELSE system_db[x]
  BY DbTyped, UnitsFirst
<1>3. Matches(u, info.dev, info.path)
  BY <1>1, <1>2 DEF FirstOf
<1>4. UnitFor(system_db, info) = u
  BY <1>1, <1>3 DEF UnitFor
<1>5. info.unit = UnitFor(system_db, info) /\ info.req.unit = UnitIs(info)
  BY DEF Decided
<1> HIDE DEF u
<1>6. u # NoUnit
  BY DEF u
<1>7. UnitIs(info) = "exact"
  BY <1>1, <1>4, <1>5, <1>6 DEF UnitIs
<1> QED BY <1>4, <1>5, <1>7 DEF Exact, u

\* What mount() has found when it leaves the mounting to systemd.
LEMMA ExactUnit ==
  ASSUME Typed, Decided, cmd.job = "mount", Exact(info.req)
  PROVE  /\ info.unit = UnitFor(system_db, info) /\ info.unit # NoUnit
         /\ info.unit.fstype = info.fs_type /\ info.unit.options = info.options
  BY DEF Decided, Exact, UnitIs

-----------------------------------------------------------------------------
(* What mount() does with root's privileges: the mount.                    *)

\* What systemd has under the name of the unit is the unit.
LEMMA LoadedIsUnit ==
  ASSUME Typed, Decided, cmd.job = "mount", Exact(info.req),
         Loaded(info.unit.base) # NoUnit, KnownToBoth(info.unit)
  PROVE  Loaded(info.unit.base) = info.unit
<1> DEFINE base == info.unit.base
           f == LoadedFile(base)
           u == UnitIn(f, world.links)
<1>1. info.unit = UnitFor(system_db, info) /\ info.unit # NoUnit
  BY ExactUnit
<1>2. PICK x \in 1 .. Len(system_db) :
         /\ info.unit = system_db[x]
         /\ \A y \in 1 .. x : system_db[y].where = info.target => y = x
  BY <1>1, UnitForFirst
<1>3. info.unit.where = info.target
  BY <1>1, UnitForFirst
<1>8. base \notin DOMAIN world.dropins
  BY DEF KnownToBoth
<1>4. Loaded(base) = u /\ f.file.link # "mask" /\ u.where = base
  BY <1>8, Zenon DEF Loaded, UnitIn
<1>5. base = info.unit.where /\ f.dir \in ToSet(SearchPath) /\ Kept(f, world.links)
  BY <1>4, Zenon DEF KnownToBoth, Kept
<1>6. PICK y \in 1 .. x : system_db[y] = u
  BY <1>2, <1>5, UnitLoads
<1> HIDE DEF base, f, u
<1>7. y = x
  BY <1>2, <1>3, <1>4, <1>5, <1>6
<1> QED BY <1>2, <1>4, <1>6, <1>7 DEF base

\* systemctl starts what the form has shown.
LEMMA StartedIsShown == Typed /\ Decided => StartsWhatWasShown
<1> SUFFICES ASSUME Typed, Decided, cmd.tool = "systemctl",
                    Loaded(info.unit.base) # NoUnit, KnownToBoth(info.unit)
             PROVE  LET u == Loaded(info.unit.base)
                    IN  /\ u.where = info.target /\ u.options = info.options /\ u.fstype = info.fs_type
                        /\ Matches(u, info.dev, info.path)
  BY DEF StartsWhatWasShown
<1>1. cmd.job = "mount" /\ Exact(info.req)
  BY DEF Decided
<1>2. Loaded(info.unit.base) = info.unit
  BY <1>1, LoadedIsUnit
<1>3. /\ info.unit = UnitFor(system_db, info) /\ info.unit # NoUnit
      /\ info.unit.fstype = info.fs_type /\ info.unit.options = info.options
  BY <1>1, ExactUnit
<1>4. info.unit.where = info.target /\ Matches(info.unit, info.dev, info.path)
  BY <1>3, UnitForFirst
<1> QED BY <1>2, <1>3, <1>4

\* FormMountsUnit: for a device with a mount unit, fields that nobody has modified
\* make a request that mount() takes for that unit; and what systemd mounts under
\* its name is what the form has shown, if the unit is KnownToBoth: a file that the
\* program and systemd find alike, in one of the directories of SearchPath, no link
\* to another unit file and without drop-ins.
THEOREM FormMountsUnitHolds == Spec => []FormMountsUnit
<1>1. Typed /\ Decided /\ Shown => FormMountsUnit
  BY ShownIsUnit, StartedIsShown DEF FormMountsUnit
<1> QED BY <1>1, TypedAlways, ShownAlways, PTL

-----------------------------------------------------------------------------
(* The options: contains_opt() reads a text as items() does.               *)

\* Where find() finds a symbol.
LEMMA SymbolFound ==
  ASSUME NEW t \in Text, NEW w, NEW i \in 1 .. Len(t) + 1
  PROVE  /\ find(t, <<w>>, i) = 0 => \A j \in i .. Len(t) : t[j] # w
         /\ find(t, <<w>>, i) # 0 => /\ find(t, <<w>>, i) \in i .. Len(t) /\ t[find(t, <<w>>, i)] = w
                                     /\ \A j \in i .. find(t, <<w>>, i) - 1 : t[j] # w
<1> DEFINE n == Len(t)
           s == <<w>>
           At(j) == j + Len(s) <= n + 1 /\ SubSeq(t, j, j + Len(s) - 1) = s
           J == {j \in i .. n : t[j] = w}
           q == find(t, s, i)
<1>1. n \in Nat /\ \A j \in 1 .. n : t[j] \in STRING
  BY DEF Text
<1>2. ASSUME NEW j \in i .. n PROVE At(j) <=> t[j] = w
  <2>1. Len(s) = 1 /\ s[1] = w
    OBVIOUS
  <2>2. j + 1 <= n + 1 /\ j + 1 - 1 = j /\ j \in 1 .. n
    BY <1>1
  <2>3. Len(SubSeq(t, j, j)) = 1 /\ SubSeq(t, j, j)[1] = t[j]
    BY <1>1, <2>2, SubSeqProperties DEF Text
  <2>4. SubSeq(t, j, j) = <<t[j]>>
    <3> DEFINE x == SubSeq(t, j, j)
               y == <<t[j]>>
    <3>1. x \in Text /\ y \in Text
      BY <1>1, <2>2 DEF Text
    <3>2. Len(x) = 1 /\ x[1] = t[j] /\ Len(y) = 1 /\ y[1] = t[j]
      BY <2>3
    <3> HIDE DEF x, y
    <3>3. x = y
      BY <3>1, <3>2, SeqEqual DEF Text
    <3> QED BY <3>3 DEF x, y
  <2> HIDE DEF s, n
  <2>5. At(j) <=> SubSeq(t, j, j) = s
    BY <2>1, <2>2
  <2> QED BY <2>4, <2>5 DEF s
<1>3. q = IF \E j \in i .. n : At(j) THEN CHOOSE j \in i .. n : At(j) /\ \A y \in i .. j - 1 : ~At(y) ELSE 0
  BY Zenon DEF find
<1> HIDE DEF At, q
<1>4. CASE J = {}
  <2>1. \A j \in i .. n : t[j] # w
    BY <1>4
  <2>2. q = 0
    BY <1>2, <1>3, <2>1
  <2> QED BY <2>1, <2>2 DEF q
<1>5. CASE J # {}
  <2>1. J \in SUBSET Nat
    BY <1>1
  <2>2. Min(J) \in J /\ \A j \in J : Min(J) <= j
    BY <1>5, <2>1, FirstPosition
  <2> DEFINE m == Min(J)
  <2>3. m \in i .. n /\ t[m] = w /\ \A j \in J : m <= j
    BY <2>2
  <2> HIDE DEF m
  <2>4. \A y \in i .. m - 1 : y \in i .. n /\ y \notin J
    BY <1>1, <2>1, <2>3
  <2>5. At(m) /\ \A y \in i .. m - 1 : ~At(y)
    BY <1>2, <2>3, <2>4
  <2>6. q \in i .. n /\ At(q) /\ \A y \in i .. q - 1 : ~At(y)
    BY <1>3, <2>3, <2>5, Zenon
  <2>7. \A y \in i .. q - 1 : y \in i .. n
    BY <1>1, <2>6
  <2>8. q # 0
    BY <1>1, <2>6
  <2> QED BY <1>2, <2>6, <2>7, <2>8 DEF q
<1> QED BY <1>4, <1>5

\* An option stands at the place p of a list of them.
Stands(t, w, p) == /\ t[p] = w
                   /\ p = 1 \/ t[p - 1] = ","
                   /\ p + 1 > Len(t) \/ t[p + 1] \in {",", "="}

\* contains_opt() says whether the option stands somewhere.
LEMMA OptionFound ==
  ASSUME NEW t \in Text, NEW w
  PROVE  contains_opt(t, <<w>>) <=> \E p \in 1 .. Len(t) : Stands(t, w, p)
<1> DEFINE n == Len(t)
           s == <<w>>
           q(i) == find(t, s, i)
           Whole(i) == /\ i = 1 \/ t[i - 1] = ","
                       /\ i + Len(s) > n \/ t[i + Len(s)] \in {",", "="}
           Solves(f) == f = [i \in 1 .. n + 1 |-> q(i) # 0 /\ (Whole(q(i)) \/ f[q(i) + Len(s)])]
           c == CHOOSE f : Solves(f)
           N == [i \in 1 .. n |-> IF q(i) = 0 THEN n + 1 ELSE q(i) + 1]
           G == [z \in (1 .. n) \X BOOLEAN |-> q(z[1]) # 0 /\ (Whole(q(z[1])) \/ z[2])]
<1>1. n \in Nat /\ Len(s) = 1
  BY DEF Text
<1>2. ASSUME NEW i \in 1 .. n + 1
      PROVE  /\ q(i) = 0 => \A j \in i .. n : t[j] # w
             /\ q(i) # 0 => q(i) \in i .. n /\ t[q(i)] = w /\ \A j \in i .. q(i) - 1 : t[j] # w
  BY SymbolFound
<1>3. ASSUME NEW i \in 1 .. n, t[i] = w PROVE Whole(i) <=> Stands(t, w, i)
  <2> HIDE DEF s
  <2> QED BY <1>1, <1>3 DEF Stands
<1>4. contains_opt(t, s) = c[1]
  BY Zenon DEF contains_opt
<1>5. \E f : Solves(f)
  <2>1. Onward(N, n)
    <3> HIDE DEF s
    <3>1. \A i \in 1 .. n : i \in 1 .. n + 1
      BY <1>1
    <3> QED BY <1>1, <1>2, <3>1 DEF Onward
  <2>2. G \in [(1 .. n) \X BOOLEAN -> BOOLEAN]
    OBVIOUS
  <2>3. \A i \in 1 .. n, x \in BOOLEAN : G[<<i, x>>] = (q(i) # 0 /\ (Whole(q(i)) \/ x))
    BY Zenon
  <2> HIDE DEF G, n
  <2>4. PICK f : RecursWith(f, n, BOOLEAN, FALSE, N, G)
    BY <1>1, <2>1, <2>2, RecursionExists
  <2>5. ASSUME NEW i \in 1 .. n + 1
        PROVE  f[i] = (q(i) # 0 /\ (Whole(q(i)) \/ f[q(i) + Len(s)]))
    <3>1. CASE i = n + 1
      <4>1. q(i) = 0
        BY <1>1, <1>2, <3>1
      <4> QED BY <2>4, <3>1, <4>1 DEF RecursWith
    <3>2. CASE i # n + 1
      <4>1. i \in 1 .. n
        BY <1>1, <3>2
      <4>2. N[i] \in 1 .. n + 1 /\ (q(i) # 0 => N[i] = q(i) + Len(s))
        BY <1>1, <2>1, <4>1 DEF Onward
      <4>3. f[N[i]] \in BOOLEAN /\ f[i] = G[<<i, f[N[i]]>>]
        BY <2>4, <4>1, <4>2 DEF RecursWith
      <4>4. f[i] = (q(i) # 0 /\ (Whole(q(i)) \/ f[N[i]]))
        BY <2>3, <4>1, <4>3
      <4> QED BY <4>2, <4>4
    <3> QED BY <3>1, <3>2
  <2>6. f = [i \in 1 .. n + 1 |-> f[i]]
    BY <2>4 DEF RecursWith
  <2>7. Solves(f)
    BY <2>5, <2>6, Zenon DEF n
  <2> HIDE DEF Solves
  <2> QED BY <2>7
<1>6. Solves(c)
  <2> HIDE DEF Solves
  <2> QED BY <1>5
<1> HIDE DEF c
<1>7. \A i \in 1 .. n + 1 : c[i] = (q(i) # 0 /\ (Whole(q(i)) \/ c[q(i) + Len(s)]))
  BY <1>6
<1> HIDE DEF Solves, q, Whole, N, G
<1> DEFINE U == {i \in 1 .. n + 1 : c[i] <=> \E p \in i .. n : Stands(t, w, p)}
<1>8. n + 1 \in U
  <2>1. n + 1 \in 1 .. n + 1 /\ n + 1 .. n = {}
    BY <1>1
  <2>2. q(n + 1) = 0
    BY <1>1, <1>2, <2>1
  <2> QED BY <1>7, <2>1, <2>2
<1>9. ASSUME NEW i \in 1 .. n, i + 1 .. n + 1 \subseteq U PROVE i \in U
  <2>1. i \in 1 .. n + 1 /\ i .. n \subseteq 1 .. n
    BY <1>1
  <2>2. CASE q(i) = 0
    <3>1. \A p \in i .. n : ~Stands(t, w, p)
      BY <1>2, <2>1, <2>2 DEF Stands
    <3> QED BY <1>7, <2>1, <2>2, <3>1
  <2>3. CASE q(i) # 0
    <3> DEFINE j == q(i)
    <3>1. j \in i .. n /\ t[j] = w /\ \A y \in i .. j - 1 : t[y] # w
      BY <1>2, <2>1, <2>3
    <3>2. Whole(j) <=> Stands(t, w, j)
      BY <1>3, <2>1, <3>1
    <3>3. c[i] <=> Whole(j) \/ c[j + 1]
      BY <1>1, <1>7, <2>1, <2>3
    <3> HIDE DEF j
    <3>4. j + 1 \in i + 1 .. n + 1
      BY <1>1, <3>1
    <3>5. c[j + 1] <=> \E p \in j + 1 .. n : Stands(t, w, p)
      BY <1>9, <3>4
    <3>6. \A p \in i .. n : p \in i .. j - 1 \/ p = j \/ p \in j + 1 .. n
      BY <1>1, <3>1
    <3>7. \A p \in i .. j - 1 : ~Stands(t, w, p)
      BY <3>1 DEF Stands
    <3>8. \A p \in j + 1 .. n : p \in i .. n
      BY <1>1, <3>1
    <3> QED BY <2>1, <3>1, <3>2, <3>3, <3>5, <3>6, <3>7, <3>8
  <2> QED BY <2>2, <2>3
<1> HIDE DEF U
<1>10. 1 \in U
  <2>1. 1 .. n + 1 \subseteq U
    BY <1>1, <1>8, <1>9, InductionDown
  <2> QED BY <1>1, <2>1
<1> QED BY <1>4, <1>10 DEF U

\* items(): the next symbol.
NextItem(z, c) == IF c = "," THEN Append(z, <<>>) ELSE [z EXCEPT ![Len(z)] = Append(@, c)]

\* It begins an item, or goes on with the last one.
LEMMA NextItemTyped ==
  ASSUME NEW z \in Seq(Text), NEW c \in STRING
  PROVE  /\ NextItem(z, c) \in Seq(Text)
         /\ c = "," => /\ Len(NextItem(z, c)) = Len(z) + 1 /\ NextItem(z, c)[Len(z) + 1] = <<>>
                       /\ \A i \in 1 .. Len(z) : NextItem(z, c)[i] = z[i]
         /\ c # "," /\ z # <<>> =>
              /\ Len(NextItem(z, c)) = Len(z) /\ NextItem(z, c)[Len(z)] = Append(z[Len(z)], c)
              /\ \A i \in 1 .. Len(z) - 1 : NextItem(z, c)[i] = z[i]
<1> DEFINE e == NextItem(z, c)
           m == Len(z)
           a == Append(z[m], c)
<1>1. m \in Nat /\ DOMAIN z = 1 .. m
  OBVIOUS
<1>2. CASE c = ","
  <2>1. e = Append(z, <<>>) /\ <<>> \in Text
    <3>1. <<>> \in Text
      BY DEF Text
    <3> QED BY <1>2, <3>1, Zenon DEF NextItem
  <2> HIDE DEF e, m
  <2>2. /\ e \in Seq(Text) /\ Len(e) = Len(z) + 1
        /\ \A i \in 1 .. Len(z) + 1 : e[i] = IF i <= Len(z) THEN z[i] ELSE <<>>
    BY <2>1, OneMore
  <2>3. Len(z) + 1 \in 1 .. Len(z) + 1 /\ ~(Len(z) + 1 <= Len(z))
    BY <1>1 DEF m
  <2>4. \A i \in 1 .. Len(z) : i \in 1 .. Len(z) + 1 /\ i <= Len(z)
    BY <1>1 DEF m
  <2> QED BY <1>2, <2>2, <2>3, <2>4 DEF e
<1>3. CASE c # ","
  <2>1. e = [z EXCEPT ![m] = a]
    BY <1>3 DEF NextItem
  <2>2. CASE m = 0
    <3>1. z = <<>>
      BY <2>2, EmptySeq
    <3>2. e = z
      BY <1>1, <2>1, <2>2, <3>1
    <3> QED BY <1>3, <3>1, <3>2
  <2>3. CASE m # 0
    <3>1. m \in 1 .. m /\ z[m] \in Text
      BY <1>1, <2>3
    <3>2. a \in Text
      <4>1. z[m] \in Seq(STRING)
        BY <3>1 DEF Text
      <4> HIDE DEF m
      <4> QED BY <4>1, OneMore DEF Text
    <3>3. Len(z) = m
      OBVIOUS
    <3> HIDE DEF a, e, m
    <3> DEFINE y == [z EXCEPT ![m] = a]
    <3>4. y \in Seq(Text) /\ Len(y) = m /\ y[m] = a /\ \A i \in 1 .. m : i # m => y[i] = z[i]
      BY <1>1, <3>1, <3>2, <3>3, Replaced
    <3> HIDE DEF y
    <3>5. e \in Seq(Text) /\ Len(e) = m /\ e[m] = a /\ \A i \in 1 .. m : i # m => e[i] = z[i]
      BY <2>1, <3>4 DEF y
    <3>6. \A i \in 1 .. m - 1 : i \in 1 .. m /\ i # m
      BY <1>1
    <3> QED BY <1>3, <3>5, <3>6 DEF a, e, m
  <2> QED BY <2>2, <2>3
<1> QED BY <1>2, <1>3

\* items(), symbol by symbol.
LEMMA ItemsChain ==
  ASSUME NEW t \in Text
  PROVE  \E z : /\ z \in [0 .. Len(t) -> Seq(Text)]
                /\ z[0] = << <<>> >> /\ items(t) = z[Len(t)]
                /\ \A h \in 1 .. Len(t) : z[h] = NextItem(z[h - 1], t[h])
<1> DEFINE n == Len(t)
           T == Seq(Text)
           b == << <<>> >>
           G == [p \in T \X (1 .. n) |-> NextItem(p[1], t[p[2]])]
           Solves(g) == g = [s \in SUBSET DOMAIN t |->
                               IF s = {} THEN << <<>> >> ELSE NextItem(g[s \ {Max(s)}], t[Max(s)])]
           it == CHOOSE g : Solves(g)
<1>1. n \in Nat /\ b \in T /\ DOMAIN t = 1 .. n
  BY DEF Text
<1>2. \A z \in T, i \in 1 .. n : NextItem(z, t[i]) \in T
  <2>1. \A i \in 1 .. n : t[i] \in STRING
    BY DEF Text
  <2> QED BY <2>1, NextItemTyped
<1>3. G \in [T \X (1 .. n) -> T]
  <2> HIDE DEF T, n
  <2> QED BY <1>2
<1>4. \A z \in T, i \in 1 .. n : G[<<z, i>>] = NextItem(z, t[i])
  <2> HIDE DEF T, n
  <2> QED OBVIOUS
<1> HIDE DEF G, T, n, b
<1>5. PICK f : FoldsWith(f, n, T, b, G)
  BY <1>1, <1>3, FoldExists
<1>6. ASSUME NEW s \in SUBSET (1 .. n), s # {}
      PROVE  f[s] = NextItem(f[s \ {Max(s)}], t[Max(s)])
  <2>1. Max(s) \in 1 .. n
    BY <1>1, <1>6, LastPosition
  <2>2. f[s \ {Max(s)}] \in T
    BY <1>5 DEF FoldsWith
  <2>3. f[s] = G[<<f[s \ {Max(s)}], Max(s)>>]
    BY <1>5, <1>6 DEF FoldsWith
  <2> QED BY <1>4, <2>1, <2>2, <2>3
<1>7. Solves(f)
  BY <1>1, <1>5, <1>6 DEF FoldsWith, b
<1>8. Solves(it)
  <2> HIDE DEF Solves
  <2> QED BY <1>7
<1>9. items(t) = it[DOMAIN t]
  BY Zenon DEF items, FoldLeft, MapThenFoldSet, NextItem
<1> HIDE DEF it
<1>10. it[{}] = b
  BY <1>8 DEF b
<1>11. ASSUME NEW s \in SUBSET (1 .. n), s # {}, it[s \ {Max(s)}] \in T
       PROVE  it[s] = G[<<it[s \ {Max(s)}], Max(s)>>]
  <2>1. Max(s) \in 1 .. n
    BY <1>1, <1>11, LastPosition
  <2>2. it[s] = NextItem(it[s \ {Max(s)}], t[Max(s)])
    BY <1>1, <1>8, <1>11
  <2> QED BY <1>4, <1>11, <2>1, <2>2
<1>12. PICK z : Chain(z, n, T, b, G) /\ z[n] = it[1 .. n]
  <2>1. Iterates(it, n, T, b, G)
    BY <1>1, <1>3, <1>10, <1>11 DEF Iterates
  <2> QED BY <2>1, FoldChain
<1>13. ASSUME NEW h \in 1 .. n PROVE z[h] = NextItem(z[h - 1], t[h])
  <2>1. z[h - 1] \in T
    <3>1. h - 1 \in 0 .. n
      BY <1>1
    <3> QED BY <1>12, <3>1 DEF Chain
  <2>2. z[h] = G[<<z[h - 1], h>>]
    BY <1>12 DEF Chain
  <2> QED BY <1>4, <2>1, <2>2
<1> QED BY <1>1, <1>9, <1>12, <1>13 DEF Chain, n, T, b

\* An item that begins at p, when h symbols are read; last: it goes on.
Begins(t, p) == t[p] # "," /\ (p = 1 \/ t[p - 1] = ",")

\* The item x began at p, and says what the text says there.
Begun(t, x, p, h, last) ==
  /\ p \in 1 .. h /\ Begins(t, p)
  /\ Len(x) >= 1 /\ x[1] = t[p]
  /\ Len(x) > 1 => p + 1 <= h /\ x[2] = t[p + 1] /\ t[p + 1] # ","
  /\ Len(x) = 1 => IF last THEN p = h ELSE p + 1 <= h /\ t[p + 1] = ","

\* What one more symbol makes of an item.
LEMMA BegunOn ==
  ASSUME NEW t \in Text, NEW h \in 0 .. Len(t) - 1, NEW x \in Text, NEW p
  PROVE  /\ Begun(t, x, p, h, FALSE) => Begun(t, x, p, h + 1, FALSE)
         /\ t[h + 1] = "," /\ Begun(t, x, p, h, TRUE) => Begun(t, x, p, h + 1, FALSE)
         /\ t[h + 1] # "," /\ Begun(t, x, p, h, TRUE) => Begun(t, Append(x, t[h + 1]), p, h + 1, TRUE)
         /\ t[h + 1] # "," /\ x = <<>> /\ (h = 0 \/ t[h] = ",") =>
              Begun(t, Append(x, t[h + 1]), h + 1, h + 1, TRUE)
<1> DEFINE n == Len(t)
           m == Len(x)
           c == t[h + 1]
           y == Append(x, c)
<1>1. n \in Nat /\ h \in Nat /\ h + 1 \in 1 .. n /\ m \in Nat
  BY DEF Text
<1>2. Len(y) = m + 1 /\ \A i \in 1 .. m + 1 : y[i] = IF i <= m THEN x[i] ELSE c
  <2>1. x \in Seq(STRING) /\ c \in STRING
    BY <1>1 DEF Text
  <2> HIDE DEF c
  <2>2. Lengthens(Append(x, c), x, c)
    BY <2>1, Lengthened
  <2> QED BY <2>2 DEF Lengthens
<1> HIDE DEF n, m, y, c
<1>3. p \in 1 .. h => /\ p \in 1 .. h + 1 /\ p + 1 <= h + 1
                      /\ p + 1 <= h => p + 1 <= h + 1
                      /\ p = h => p + 1 = h + 1
  BY <1>1
<1>4. m >= 1 => y[1] = x[1] /\ m + 1 > 1 /\ (m > 1 => y[2] = x[2]) /\ (m = 1 => y[2] = c)
  <2>1. m >= 1 => /\ 1 \in 1 .. m + 1 /\ 1 <= m /\ 2 \in 1 .. m + 1 /\ m + 1 > 1
                  /\ m > 1 => 2 <= m
                  /\ m = 1 => ~(2 <= m)
    BY <1>1
  <2> QED BY <1>2, <2>1
<1>5. Begun(t, x, p, h, FALSE) => Begun(t, x, p, h + 1, FALSE)
  BY <1>3, Zenon DEF Begun
<1>6. c = "," /\ Begun(t, x, p, h, TRUE) => Begun(t, x, p, h + 1, FALSE)
  BY <1>3, Zenon DEF Begun, c
<1>7. ASSUME c # ",", Begun(t, x, p, h, TRUE) PROVE Begun(t, y, p, h + 1, TRUE)
  <2>1. /\ p \in 1 .. h + 1 /\ Begins(t, p) /\ m >= 1 /\ x[1] = t[p] /\ p + 1 <= h + 1
        /\ m > 1 => x[2] = t[p + 1] /\ t[p + 1] # ","
        /\ m = 1 => p + 1 = h + 1
    BY <1>3, <1>7, Zenon DEF Begun, m
  <2>2. m >= 1
    BY <2>1
  <2>3. y[1] = t[p] /\ y[2] = t[p + 1] /\ t[p + 1] # ","
    <3>1. m > 1 \/ m = 1
      BY ONLY <1>1, <2>2
    <3> QED BY <1>4, <1>7, <2>1, <3>1, Zenon DEF c
  <2>4. Len(y) >= 1 /\ ~(Len(y) = 1)
    <3>1. m + 1 >= 1 /\ ~(m + 1 = 1)
      BY ONLY <1>1, <2>2
    <3> QED BY <1>2, <3>1, Zenon
  <2> QED BY <2>1, <2>3, <2>4, Zenon DEF Begun
<1>8. ASSUME c # ",", x = <<>>, h = 0 \/ t[h] = "," PROVE Begun(t, y, h + 1, h + 1, TRUE)
  <2>1. m = 0
    BY <1>8 DEF m
  <2>2. Len(y) = 1 /\ y[1] = c
    BY <1>2, <2>1
  <2>3. h + 1 \in 1 .. h + 1 /\ h + 1 - 1 = h /\ (h = 0 => h + 1 = 1)
    BY <1>1
  <2>4. Begins(t, h + 1)
    <3> DEFINE j == h + 1
    <3>1. j - 1 = h /\ (h = 0 => j = 1) /\ c = t[j]
      BY <2>3 DEF c
    <3> HIDE DEF j
    <3>2. Begins(t, j)
      BY <1>8, <3>1 DEF Begins
    <3> QED BY <3>2 DEF j
  <2>5. Len(y) >= 1 /\ ~(Len(y) > 1)
    <3>1. 1 >= 1 /\ ~(1 > 1)
      OBVIOUS
    <3> QED BY <2>2, <3>1, Zenon
  <2> QED BY <2>2, <2>3, <2>4, <2>5, Zenon DEF Begun, c
<1> QED BY <1>5, <1>6, <1>7, <1>8 DEF y, c

\* The items of the first h symbols of t.
Parsed(t, z, h) ==
  /\ z \in Seq(Text) /\ Len(z) \in Nat \ {0}
  /\ z[Len(z)] = <<>> <=> h = 0 \/ t[h] = ","
  /\ \A i \in 1 .. Len(z) : z[i] = <<>> \/ \E p : Begun(t, z[i], p, h, i = Len(z))
  /\ \A p \in 1 .. h : Begins(t, p) => \E i \in 1 .. Len(z) : Begun(t, z[i], p, h, i = Len(z))

\* One more symbol is parsed.
LEMMA ParsedOn ==
  ASSUME NEW t \in Text, NEW h \in 0 .. Len(t) - 1, NEW z, Parsed(t, z, h)
  PROVE  Parsed(t, NextItem(z, t[h + 1]), h + 1)
<1> DEFINE m == Len(z)
           c == t[h + 1]
           e == NextItem(z, c)
           x == z[m]
<1>1. h + 1 \in 1 .. Len(t) /\ h \in Nat /\ c \in STRING
  <2>1. Len(t) \in Nat /\ \A i \in 1 .. Len(t) : t[i] \in STRING
    BY DEF Text
  <2> QED BY <2>1
<1>2. z \in Seq(Text) /\ m \in Nat \ {0} /\ m \in 1 .. m /\ z # <<>> /\ \A i \in 1 .. m : z[i] \in Text
  <2>1. z \in Seq(Text) /\ m \in Nat \ {0}
    BY Zenon DEF Parsed
  <2>2. m \in 1 .. m
    BY <2>1
  <2>3. z # <<>>
    BY <2>1, EmptySeq
  <2> QED BY <2>1, <2>2, <2>3
<1>3. /\ x = <<>> <=> h = 0 \/ t[h] = ","
      /\ \A i \in 1 .. m : z[i] = <<>> \/ \E p : Begun(t, z[i], p, h, i = m)
      /\ \A p \in 1 .. h : Begins(t, p) => \E i \in 1 .. m : Begun(t, z[i], p, h, i = m)
  BY DEF Parsed
<1>4. \A p \in 1 .. h + 1 : p \in 1 .. h \/ p = h + 1
  BY <1>1
<1>5. CASE c = ","
  <2>1. e \in Seq(Text) /\ Len(e) = m + 1 /\ e[m + 1] = <<>> /\ \A i \in 1 .. m : e[i] = z[i]
    BY <1>1, <1>2, <1>5, NextItemTyped
  <2>2. \A i \in 1 .. m : \A p : Begun(t, z[i], p, h, i = m) => Begun(t, z[i], p, h + 1, FALSE)
    BY <1>2, <1>5, BegunOn
  <2> HIDE DEF e, c
  <2>3. Len(e) \in Nat \ {0} /\ \A i \in 1 .. m : i \in 1 .. m + 1 /\ i # m + 1
    BY <1>2, <2>1
  <2>4. \A i \in 1 .. m + 1 : i \in 1 .. m \/ i = m + 1
    BY <1>2
  <2>5. ASSUME NEW i \in 1 .. Len(e) PROVE e[i] = <<>> \/ \E p : Begun(t, e[i], p, h + 1, i = Len(e))
    <3>1. CASE i \in 1 .. m
      BY <1>3, <2>1, <2>2, <2>3, <3>1
    <3> QED BY <2>1, <2>4, <2>5, <3>1
  <2>6. ASSUME NEW p \in 1 .. h + 1, Begins(t, p)
        PROVE  \E i \in 1 .. Len(e) : Begun(t, e[i], p, h + 1, i = Len(e))
    <3>1. p \in 1 .. h
      BY <1>5, <1>4, <2>6 DEF Begins, c
    <3>2. PICK i \in 1 .. m : Begun(t, z[i], p, h, i = m)
      BY <1>3, <2>6, <3>1
    <3> QED BY <2>1, <2>2, <2>3, <3>2
  <2> QED BY <1>5, <2>1, <2>3, <2>5, <2>6 DEF Parsed, c, e
<1>6. CASE c # ","
  <2>1. e \in Seq(Text) /\ Len(e) = m /\ e[m] = Append(x, c) /\ \A i \in 1 .. m - 1 : e[i] = z[i]
    BY <1>1, <1>2, <1>6, NextItemTyped
  <2>2. \A i \in 1 .. m - 1 : i \in 1 .. m /\ i # m
    BY <1>2
  <2>3. \A i \in 1 .. m - 1 : \A p : Begun(t, z[i], p, h, FALSE) => Begun(t, z[i], p, h + 1, FALSE)
    BY <1>2, <2>2, BegunOn
  <2>4. /\ \A p : Begun(t, x, p, h, TRUE) => Begun(t, e[m], p, h + 1, TRUE)
        /\ x = <<>> => Begun(t, e[m], h + 1, h + 1, TRUE)
    <3>1. x \in Text /\ (x = <<>> => h = 0 \/ t[h] = ",")
      BY <1>2, <1>3
    <3> HIDE DEF x, e
    <3> QED BY <1>6, <2>1, <3>1, BegunOn
  <2>5. e[m] # <<>>
    <3>1. x \in Seq(STRING)
      BY <1>2 DEF Text
    <3> HIDE DEF x, e, c
    <3> QED BY <1>1, <2>1, <3>1, AppendNotEmpty
  <2> HIDE DEF e, c
  <2>6. \A i \in 1 .. m : i \in 1 .. m - 1 \/ i = m
    BY <1>2
  <2>7. ASSUME NEW i \in 1 .. m PROVE e[i] = <<>> \/ \E p : Begun(t, e[i], p, h + 1, i = m)
    <3>1. CASE i \in 1 .. m - 1
      BY <1>3, <2>1, <2>2, <2>3, <3>1
    <3>2. CASE i = m
      <4>1. CASE x = <<>>
        BY <2>4, <3>2, <4>1
      <4>2. CASE x # <<>>
        <5>1. PICK p : Begun(t, x, p, h, TRUE)
          BY <1>2, <1>3, <4>2
        <5> QED BY <2>4, <3>2, <5>1
      <4> QED BY <4>1, <4>2
    <3> QED BY <2>6, <3>1, <3>2
  <2>8. ASSUME NEW p \in 1 .. h + 1, Begins(t, p)
        PROVE  \E i \in 1 .. m : Begun(t, e[i], p, h + 1, i = m)
    <3>1. CASE p \in 1 .. h
      <4>1. PICK i \in 1 .. m : Begun(t, z[i], p, h, i = m)
        BY <1>3, <2>8, <3>1
      <4> QED BY <2>1, <2>2, <2>3, <2>4, <2>6, <4>1
    <3>2. CASE p = h + 1
      <4>1. h = 0 \/ t[h] = ","
        <5>1. p - 1 = h /\ (p = 1 => h = 0)
          BY <1>1, <3>2
        <5> QED BY <2>8, <5>1 DEF Begins
      <4> QED BY <1>2, <1>3, <2>4, <3>2, <4>1
    <3> QED BY <1>4, <3>1, <3>2
  <2>9. ~(h + 1 = 0) /\ t[h + 1] # ","
    <3>1. ~(h + 1 = 0)
      BY <1>1
    <3> QED BY <1>6, <3>1, Zenon DEF c
  <2> QED BY <1>2, <2>1, <2>5, <2>7, <2>8, <2>9 DEF Parsed, c, e
<1> QED BY <1>5, <1>6

\* The items of a text, and where they begin.
LEMMA ItemsParsed ==
  ASSUME NEW t \in Text
  PROVE  Parsed(t, items(t), Len(t))
<1> DEFINE n == Len(t)
           U(z) == {h \in 0 .. n : Parsed(t, z[h], h)}
<1>1. n \in Nat
  BY DEF Text
<1>2. PICK z : /\ z \in [0 .. n -> Seq(Text)]
               /\ z[0] = << <<>> >> /\ items(t) = z[n]
               /\ \A h \in 1 .. n : z[h] = NextItem(z[h - 1], t[h])
  BY ItemsChain
<1> HIDE DEF n
<1>3. 0 \in U(z)
  <2> DEFINE b == << <<>> >>
  <2>1. Len(b) = 1 /\ b[1] = <<>> /\ b \in Seq(Text)
    <3>1. <<>> \in Text
      BY DEF Text
    <3> QED BY <3>1
  <2> HIDE DEF b
  <2>2. Parsed(t, b, 0)
    <3>1. b[Len(b)] = <<>> /\ Len(b) \in Nat \ {0}
      BY <2>1
    <3>2. \A i \in 1 .. Len(b) : b[i] = <<>>
      BY <2>1
    <3>3. 1 .. 0 = {}
      OBVIOUS
    <3> QED BY <2>1, <3>1, <3>2, <3>3 DEF Parsed
  <2>3. z[0] = b /\ 0 \in 0 .. n
    BY <1>1, <1>2 DEF b
  <2> QED BY <2>2, <2>3
<1>4. ASSUME NEW h \in 0 .. n - 1, h \in U(z) PROVE h + 1 \in U(z)
  <2>1. h + 1 \in 1 .. n /\ h + 1 - 1 = h /\ h + 1 \in 0 .. n
    BY <1>1
  <2>2. z[h + 1] = NextItem(z[h], t[h + 1])
    BY <1>2, <2>1
  <2>3. Parsed(t, NextItem(z[h], t[h + 1]), h + 1)
    BY <1>4, ParsedOn DEF n
  <2> QED BY <2>1, <2>2, <2>3
<1> HIDE DEF U
<1>5. 0 .. n \subseteq U(z)
  BY <1>1, <1>3, <1>4, InductionTo
<1>6. n \in 0 .. n
  BY <1>1
<1>7. n \in U(z)
  BY <1>5, <1>6
<1> QED BY <1>2, <1>7 DEF U, n

\* What can be the name of an option.
Word(w) == w # "" /\ w # ","

\* The name of an item for contains_opt(): what stands before a "=" or the end.
NameFor(item) == IF item = <<>> \/ (Len(item) > 1 /\ item[2] # "=") THEN "" ELSE item[1]

\* What an item says is what stands where it begins.
LEMMA NamedItem ==
  ASSUME NEW t \in Text, NEW x \in Text, NEW p, NEW last \in BOOLEAN, Begun(t, x, p, Len(t), last),
         NEW w, Word(w)
  PROVE  NameFor(x) = w <=> Stands(t, w, p)
<1> DEFINE n == Len(t)
           m == Len(x)
<1>1. n \in Nat /\ m \in Nat
  BY DEF Text
<1>2. /\ p \in 1 .. n /\ t[p] # "," /\ (p = 1 \/ t[p - 1] = ",")
      /\ m >= 1 /\ x[1] = t[p]
      /\ m > 1 => p + 1 <= n /\ x[2] = t[p + 1] /\ t[p + 1] # ","
      /\ m = 1 => IF last THEN p = n ELSE p + 1 <= n /\ t[p + 1] = ","
  BY DEF Begun, Begins
<1>3. m >= 1 /\ p \in 1 .. n
  BY <1>2
<1>4. x # <<>>
  BY <1>3
<1>5. CASE m > 1
  <2>1. NameFor(x) = IF x[2] # "=" THEN "" ELSE x[1]
    BY <1>4, <1>5 DEF NameFor
  <2>2. ~(p + 1 > n)
    <3>1. p + 1 <= n
      BY <1>2, <1>5
    <3> QED BY ONLY <1>1, <1>3, <3>1
  <2> HIDE DEF n, m
  <2> QED BY <1>2, <1>5, <2>1, <2>2, Zenon DEF Stands, Word, n
<1>6. CASE m = 1
  <2>1. NameFor(x) = x[1]
    <3>1. ~(Len(x) > 1)
      BY <1>6
    <3> QED BY <1>4, <3>1, Zenon DEF NameFor
  <2>2. p + 1 > n \/ t[p + 1] = ","
    <3>1. p = n => p + 1 > n
      BY <1>1
    <3> QED BY <1>2, <1>6, <3>1, Zenon
  <2> HIDE DEF n, m
  <2> QED BY <1>2, <2>1, <2>2, Zenon DEF Stands, Word, n
<1>7. m > 1 \/ m = 1
  <2> HIDE DEF m
  <2> QED BY <1>1, <1>3
<1> QED BY <1>5, <1>6, <1>7

\* contains_opt() says whether an item has the name.
LEMMA ItemFound ==
  ASSUME NEW t \in Text, NEW w, Word(w)
  PROVE  contains_opt(t, <<w>>) <=> \E i \in DOMAIN items(t) : NameFor(items(t)[i]) = w
<1> DEFINE z == items(t)
           n == Len(t)
<1>1. Parsed(t, z, n)
  BY ItemsParsed
<1> HIDE DEF z, n
<1>2. /\ z \in Seq(Text)
      /\ \A i \in 1 .. Len(z) : z[i] = <<>> \/ \E p : Begun(t, z[i], p, n, i = Len(z))
      /\ \A p \in 1 .. n : Begins(t, p) => \E i \in 1 .. Len(z) : Begun(t, z[i], p, n, i = Len(z))
  BY <1>1 DEF Parsed
<1>3. DOMAIN z = 1 .. Len(z) /\ \A i \in 1 .. Len(z) : z[i] \in Text
  BY <1>2
<1>4. \A i \in 1 .. Len(z) : \A p :
        Begun(t, z[i], p, n, i = Len(z)) => (NameFor(z[i]) = w <=> Stands(t, w, p))
  BY <1>3, NamedItem DEF n
<1>5. ASSUME NEW i \in 1 .. Len(z), NameFor(z[i]) = w PROVE \E p \in 1 .. n : Stands(t, w, p)
  <2>1. z[i] # <<>>
    BY <1>5 DEF NameFor, Word
  <2>2. PICK p : Begun(t, z[i], p, n, i = Len(z))
    BY <1>2, <2>1
  <2>3. p \in 1 .. n
    BY <2>2 DEF Begun
  <2> QED BY <1>4, <1>5, <2>2, <2>3
<1>6. ASSUME NEW p \in 1 .. n, Stands(t, w, p) PROVE \E i \in 1 .. Len(z) : NameFor(z[i]) = w
  <2>1. Begins(t, p)
    BY <1>6 DEF Stands, Begins, Word
  <2>2. PICK i \in 1 .. Len(z) : Begun(t, z[i], p, n, i = Len(z))
    BY <1>2, <2>1
  <2> QED BY <1>4, <1>6, <2>2
<1>7. contains_opt(t, <<w>>) <=> \E p \in 1 .. n : Stands(t, w, p)
  BY OptionFound DEF n
<1> QED BY <1>3, <1>5, <1>6, <1>7 DEF z

\* In Ordinary options the two readings of an item are one, where it matters.
LEMMA BareItems ==
  ASSUME NEW o \in Text, Ordinary(o)
  PROVE  /\ OptionsOf(o) = items(o)
         /\ \A i \in DOMAIN items(o) : NameFor(items(o)[i]) \in {"nosuid", "nodev"} =>
              NameOf(items(o)[i]) = NameFor(items(o)[i])
<1> DEFINE z == items(o)
           n == Len(o)
           U == [p \in DOMAIN o |-> IF o[p] = "," /\ Quoted(o, p) THEN "~" ELSE o[p]]
<1>1. n \in Nat /\ DOMAIN o = 1 .. n /\ o = [p \in 1 .. n |-> o[p]]
  BY DEF Text
<1>2. /\ \A p \in 1 .. n : o[p] # "\"" /\ o[p] # Backslash
      /\ \A p \in 1 .. n - 1 : ~(o[p] \in {"nosuid", "nodev"} /\ o[p + 1] = "=")
  <2>1. \A p \in 1 .. n : o[p] \in ToSet(o)
    BY <1>1, Zenon DEF ToSet
  <2>2. "\"" \notin ToSet(o) /\ Backslash \notin ToSet(o)
    BY Zenon DEF Ordinary
  <2> QED BY <2>1, <2>2, Zenon DEF Ordinary
<1>3. ASSUME NEW p \in 1 .. n PROVE ~Quoted(o, p)
  <2> DEFINE Q == {q \in 1 .. p : o[q] = "\""}
  <2>1. \A q \in 1 .. p : q \in 1 .. n
    BY <1>1
  <2>2. Q = {}
    BY <1>2, <2>1, Zenon
  <2>3. Cardinality(Q) = 0
    BY <2>2, FS_EmptySet, Zenon
  <2>4. ~(p > 1 /\ o[p - 1] = Backslash)
    <3>1. p > 1 => p - 1 \in 1 .. n
      BY <1>1
    <3> QED BY <1>2, <3>1, Zenon
  <2> DEFINE c == Cardinality(Q)
  <2>5. Quoted(o, p) <=> c % 2 = 1 \/ (p > 1 /\ o[p - 1] = Backslash)
    BY Zenon DEF Quoted
  <2> HIDE DEF c
  <2>6. c = 0
    BY <2>3 DEF c
  <2>7. ~(c % 2 = 1)
    BY <2>6
  <2> QED BY <2>4, <2>5, <2>7, Zenon
<1>4. U = o
  <2>1. \A p \in 1 .. n : (IF o[p] = "," /\ Quoted(o, p) THEN "~" ELSE o[p]) = o[p]
    BY <1>3, Zenon
  <2> QED BY <1>1, <2>1, Zenon
<1>5. OptionsOf(o) = z
  BY <1>4, Zenon DEF OptionsOf
<1>6. Parsed(o, z, n)
  BY ItemsParsed
<1> HIDE DEF z, n
<1>7. ASSUME NEW i \in DOMAIN z, NameFor(z[i]) \in {"nosuid", "nodev"} PROVE NameOf(z[i]) = NameFor(z[i])
  <2> DEFINE x == z[i]
  <2>1. i \in 1 .. Len(z) /\ x \in Text /\ (x = <<>> \/ \E p : Begun(o, x, p, n, i = Len(z)))
    <3>1. z \in Seq(Text) /\ \A j \in 1 .. Len(z) : z[j] = <<>> \/ \E p : Begun(o, z[j], p, n, j = Len(z))
      BY <1>6, Zenon DEF Parsed
    <3>2. i \in 1 .. Len(z) /\ x \in Text
      BY <3>1
    <3> QED BY <3>1, <3>2, Zenon
  <2> HIDE DEF x
  <2>2. NameFor(x) \in {"nosuid", "nodev"}
    BY <1>7 DEF x
  <2>3. x # <<>> /\ (Len(x) > 1 => x[2] = "=") /\ NameFor(x) = x[1]
    BY <2>2 DEF NameFor
  <2>4. PICK p : Begun(o, x, p, n, i = Len(z))
    BY <2>1, <2>3, Zenon
  <2>5. p \in 1 .. n /\ x[1] = o[p] /\ (Len(x) > 1 => p + 1 <= n /\ x[2] = o[p + 1]) /\ Len(x) >= 1
    BY <2>4, Zenon DEF Begun
  <2>6. Len(x) \in Nat
    BY <2>1 DEF Text
  <2>7. ~(Len(x) > 1)
    <3> SUFFICES ASSUME Len(x) > 1 PROVE FALSE
      OBVIOUS
    <3>1. p \in 1 .. n - 1
      BY <1>1, <2>5 DEF n
    <3>2. o[p] \in {"nosuid", "nodev"} /\ o[p + 1] = "="
      BY <2>2, <2>3, <2>5, Zenon
    <3> QED BY <1>2, <3>1, <3>2, Zenon
  <2>8. NameOf(x) = x[1]
    <3> DEFINE m == Len(x)
    <3>1. m \in Nat /\ m >= 1 /\ ~(m > 1)
      BY <2>5, <2>6, <2>7, Zenon
    <3> HIDE DEF m
    <3>2. m = 1
      BY <3>1
    <3> QED BY <3>2, Zenon DEF NameOf, m
  <2> QED BY <2>3, <2>8 DEF x
<1> QED BY <1>5, <1>7 DEF z

LEMMA OneAndNone == Len(<<>>) # 1 /\ ~(1 > 1)
  OBVIOUS

\* The one of some options that counts.
LastOf(o, words) ==
  LET I == {i \in DOMAIN OptionsOf(o) : NameOf(OptionsOf(o)[i]) \in words}
  IN IF I = {} THEN "" ELSE NameOf(OptionsOf(o)[Max(I)])

\* Of three options only the second is in the text.
Alone(o, a, b, c) ==
  /\ Word(a) /\ Word(b) /\ Word(c) /\ b \in {"nosuid", "nodev"}
  /\ contains_opt(o, <<b>>) /\ ~contains_opt(o, <<a>>) /\ ~contains_opt(o, <<c>>)

\* Of three options the one that is there alone is the one that counts.
LEMMA LastIsLeft ==
  ASSUME NEW o \in Text, Ordinary(o), NEW a, NEW b, NEW c, Alone(o, a, b, c)
  PROVE  LastOf(o, {a, b, c}) = b
<1> DEFINE z == OptionsOf(o)
           I == {i \in DOMAIN z : NameOf(z[i]) \in {a, b, c}}
<1> USE DEF Alone
<1>1. /\ \E i \in DOMAIN z : NameOf(z[i]) = b
      /\ \A i \in DOMAIN z : NameOf(z[i]) # a /\ NameOf(z[i]) # c
  <2>0. /\ \E i \in DOMAIN items(o) : NameFor(items(o)[i]) = b
        /\ \A i \in DOMAIN items(o) : NameFor(items(o)[i]) # a /\ NameFor(items(o)[i]) # c
    BY ItemFound, Zenon
  <2>1. z = items(o) /\ \A i \in DOMAIN z : NameFor(z[i]) \in {"nosuid", "nodev"} => NameOf(z[i]) = NameFor(z[i])
    BY BareItems, Zenon
  <2>2. /\ \E i \in DOMAIN z : NameFor(z[i]) = b
        /\ \A i \in DOMAIN z : NameFor(z[i]) # a /\ NameFor(z[i]) # c
    BY <2>0, <2>1, Zenon
  <2> HIDE DEF z
  <2>3. \A x, w : NameOf(x) = w /\ w # "" => NameFor(x) = w
    <3> SUFFICES ASSUME NEW x, NEW w, NameOf(x) = w, w # "" PROVE NameFor(x) = w
      OBVIOUS
    <3>1. Len(x) = 1 /\ x[1] = w
      BY DEF NameOf
    <3>2. x # <<>>
      BY <3>1, OneAndNone, Zenon
    <3>3. ~(1 > 1)
      BY OneAndNone, Zenon
    <3> QED BY <3>1, <3>2, <3>3, Zenon DEF NameFor
  <2> QED BY <2>1, <2>2, <2>3, Zenon DEF Word
<1>2. z \in Seq(Text)
  BY BareItems, ItemsParsed DEF Parsed
<1> HIDE DEF z
<1>3. Len(z) \in Nat /\ DOMAIN z = 1 .. Len(z)
  BY <1>2
<1>4. I \in SUBSET (1 .. Len(z)) /\ I # {}
  BY <1>1, <1>3
<1>5. Max(I) \in I
  BY <1>3, <1>4, LastPosition
<1>6. LastOf(o, {a, b, c}) = NameOf(z[Max(I)])
  BY <1>4, Zenon DEF LastOf, z
<1>7. NameOf(z[Max(I)]) = b
  BY <1>1, <1>5
<1> QED BY <1>6, <1>7

\* Ordinary options that mount() takes for safe are safe.
LEMMA NosuidMeans ==
  ASSUME NEW o \in Text, Ordinary(o), Nosuid(o)
  PROVE  Effective(o) = [suid |-> FALSE, dev |-> FALSE]
<1>1. Effective(o) = [suid |-> LastOf(o, {"suid", "nosuid", "defaults"}) # "nosuid",
                      dev  |-> LastOf(o, {"dev", "nodev", "defaults"}) # "nodev"]
  BY Zenon DEF Effective, LastOf
<1>2. /\ contains_opt(o, <<"nosuid">>) /\ contains_opt(o, <<"nodev">>)
      /\ ~contains_opt(o, <<"suid">>) /\ ~contains_opt(o, <<"dev">>)
      /\ ~contains_opt(o, <<"defaults">>)
  BY DEF Nosuid
<1>3. /\ Word("suid") /\ Word("nosuid") /\ Word("dev") /\ Word("nodev") /\ Word("defaults")
      /\ "nosuid" \in {"nosuid", "nodev"} /\ "nodev" \in {"nosuid", "nodev"}
  BY DEF Word
<1>6. Alone(o, "suid", "nosuid", "defaults") /\ Alone(o, "dev", "nodev", "defaults")
  BY <1>2, <1>3, Zenon DEF Alone
<1>4. LastOf(o, {"suid", "nosuid", "defaults"}) = "nosuid"
  BY <1>6, LastIsLeft, Zenon
<1>5. LastOf(o, {"dev", "nodev", "defaults"}) = "nodev"
  BY <1>6, LastIsLeft, Zenon
<1> QED BY <1>1, <1>4, <1>5, Zenon

\* A mount that is exactly a unit's is one the unit says.
LEMMA ExactAsUnitSays ==
  ASSUME Typed, Decided, cmd.job = "mount", Exact(info.req),
         NEW m, m.where = info.target, m.options = info.options, m.fstype = info.fs_type
  PROVE  AsAUnitSays(m)
<1>1. /\ info.unit = UnitFor(system_db, info) /\ info.unit # NoUnit
      /\ info.unit.fstype = info.fs_type /\ info.unit.options = info.options
  BY ExactUnit
<1>2. PICK x \in 1 .. Len(system_db) : info.unit = system_db[x]
  BY <1>1, UnitForFirst
<1>3. info.unit.where = info.target /\ Matches(info.unit, info.dev, info.path)
  BY <1>1, UnitForFirst
<1>4. x \in DOMAIN system_db
  BY <1>2, DbTyped
<1> QED BY <1>1, <1>2, <1>3, <1>4 DEF AsAUnitSays

\* What is mounted by a command of mount(8), or by systemd-mount.
LEMMA ResultOfMount ==
  ASSUME cmd.tool # "systemctl"
  PROVE  Result.where = info.target /\ Result.options = info.options /\ Result.fstype = info.fs_type
<1>1. Result = [NoUnit EXCEPT !.what = info.path, !.where = info.target,
                  !.options = info.options, !.fstype = info.fs_type]
  BY DEF Result
<1> QED BY <1>1, NoUnitTyped DEF Units

\* Where check_mountpoint() trusts the way to a directory that is there, the
\* directory is outside the system directories.
LEMMA TrustedOutside ==
  ASSUME info \in Infos, info.target # <<>>, info.target[1] = Slash,
         StopsOutside(fs, Root, walk), Found(fs, Root, names(info.target)),
         Straight(info.target)
  PROVE  ~InSystemDir(Lookup(fs, Root, names(info.target)).at)
<1> DEFINE n == Len(walk)
<1>1. n \in Nat \ {0} /\ names(walk[n]) = names(info.target)
  BY WalkTyped DEF Walks, Straight
<1> HIDE DEF n
<1>2. n + 1 \in 2 .. n + 1 /\ n + 1 - 1 = n /\ ~(n + 1 <= n)
  BY <1>1
<1> QED BY <1>1, <1>2 DEF StopsOutside, n

\* A mount with root's privileges is one of a trusted place without set-user-id
\* programs and devices, or one a unit says.
LEMMA AllowedMounts == Typed /\ Decided /\ Trees /\ Allowed => RootMountsOnlyAllowed
<1> SUFFICES ASSUME Typed, Decided, Trees, Allowed,
                    pc = "run", cmd.job = "mount", uid = Root, usr.uid # Root
             PROVE  \/ cmd.tool = "systemctl" /\ (Result = NoUnit \/ ~KnownToBoth(info.unit))
                    \/ /\ info.listed
                       /\ Ordinary(Result.options) => Effective(Result.options) = [suid |-> FALSE, dev |-> FALSE]
                       /\ Straight(Result.where) => ~InSystemDir(Lookup(fs, Root, names(Result.where)).at)
                    \/ AsAUnitSays(Result)
  BY DEF RootMountsOnlyAllowed
<1>1. ~DropPriv(info.req, usr.home) /\ (info.req.tl = "trusted" \/ Exact(info.req))
      /\ info.target # <<>> /\ info.target[1] = Slash
  BY DEF Allowed, KeepsRoot, Trusting
<1>2. CASE Exact(info.req)
  <2>1. CASE cmd.tool = "systemctl" /\ Loaded(info.unit.base) # NoUnit /\ KnownToBoth(info.unit)
    <3>1. Result = info.unit
      BY <1>2, <2>1, LoadedIsUnit DEF Result
    <3>2. /\ info.unit = UnitFor(system_db, info) /\ info.unit # NoUnit
          /\ info.unit.fstype = info.fs_type /\ info.unit.options = info.options
      BY <1>2, ExactUnit
    <3>3. info.unit.where = info.target
      BY <3>2, UnitForFirst
    <3> QED BY <1>2, <3>1, <3>2, <3>3, ExactAsUnitSays
  <2>2. CASE cmd.tool = "systemctl" /\ ~(Loaded(info.unit.base) # NoUnit /\ KnownToBoth(info.unit))
    BY <2>2 DEF Result
  <2>3. CASE cmd.tool # "systemctl"
    BY <1>2, <2>3, ResultOfMount, ExactAsUnitSays
  <2> QED BY <2>1, <2>2, <2>3
<1>3. CASE ~Exact(info.req)
  <2>1. info.req.listed /\ info.req.nosuid /\ info.req.tl = "trusted"
    BY <1>1, <1>3 DEF DropPriv
  <2>2. cmd.tool # "systemctl" /\ info.listed /\ Nosuid(info.options)
    BY <1>3, <2>1 DEF Decided
  <2>3. Result.where = info.target /\ Result.options = info.options
    BY <2>2, ResultOfMount
  <2>4. Ordinary(info.options) => Effective(info.options) = [suid |-> FALSE, dev |-> FALSE]
    BY <2>2, NosuidMeans DEF Typed, Requested, Infos
  <2>7. ASSUME Straight(info.target) PROVE ~InSystemDir(Lookup(fs, Root, names(info.target)).at)
    <3>1. StopsOutside(fs, Root, walk)
      BY <2>1, <2>7 DEF Allowed, KeepsRoot, Trusting
    <3>2. Found(fs, Root, names(info.target))
      BY <2>7 DEF Trees, MountpointIsThere, IsDirectory, Found, Straight
    <3> QED BY <1>1, <2>7, <3>1, <3>2, TrustedOutside DEF Typed, Requested
  <2> QED BY <2>2, <2>3, <2>4, <2>7
<1> QED BY <1>2, <1>3

\* RootMountsOnlyAllowed: what root, acting for a user, mounts with its own
\* privileges is a listed device, without set-user-id programs and devices if the
\* options are Ordinary, and outside the system directories if the target is
\* Straight; or it is what a unit of the system says, for the same device; or it is
\* left to systemd under the name of a unit that is not KnownToBoth.
THEOREM RootMountsOnlyAllowedHolds == Spec => []RootMountsOnlyAllowed
  BY AllowedMounts, TypedAlways, TreesAlways, AllowedAlways, PTL
=============================================================================
