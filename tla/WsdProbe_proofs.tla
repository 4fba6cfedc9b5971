---------------------------- MODULE WsdProbe_proofs ----------------------------
(***************************************************************************)
(* For every network, every list of addresses and all times: wsd_probe()   *)
(* keeps the window alive, forgets no answer it was given, asks every link *)
(* as often as it should, and is a Discovery.                              *)
(*                                                                         *)
(* The argument has five parts, each an invariant of its own.  Sized: the  *)
(* types, which rest on what list_active_interfaces() returns.  Timed: how *)
(* long ago the event loop ran, as a function of the clock's position in   *)
(* its interval.  Counted: the number of the probe, its id and what was    *)
(* sent so far agree at each place of the loops.  Heeded: who is in a      *)
(* queue has heard a probe.  Seen: what poll(2) called an error is one,    *)
(* and what it called readable still is.                                   *)
(***************************************************************************)
EXTENDS WsdProbe, Lemmas

\* The ids of the first m probes.
ProbeIds(m) == [k \in 1 .. m |-> (k - 1) \div probe_repeats + 1]

Sized ==
  /\ if_list \in {list_active_interfaces(lst) : lst \in AddrLists}
  /\ queue \in [Sockets -> Seq(Hosts \cup {NoMatch})]
  /\ asked \in [Sockets -> Seq(Nat)]
  /\ since \in Nat

\* The timer was read at c, when the event loop had not run for s: it has just run
\* and used up the time, or it is not due, and ran in this interval or, before
\* the first interval ended, in the probe before.
Reading(c, s) ==
  /\ c \in Nat /\ s \in Nat
  /\ \/ c = probe_wait /\ s = 0
     \/ /\ c < probe_wait /\ rn = c \div refresh_interval
        /\ s <= (c % refresh_interval) + (IF rn = 0 THEN refresh_interval ELSE 0)

Polled == \E w \in 0 .. refresh_interval : Reading(clock - w, since - w)

\* Between two probes.
Rested == since <= IF rn = 0 THEN refresh_interval ELSE 2 * refresh_interval

Timed ==
  /\ pc \in {"setup", "probe", "send"} => Rested
  /\ pc = "timer"   => (clock = 0 /\ Rested) \/ Polled
  /\ pc = "poll"    => Reading(clock - waited, since - waited)
  /\ pc = "receive" => Polled

\* How often socket s was asked.
Times(s) == IF pc \in {"timer", "poll", "receive"} \/ (pc = "send" /\ s < i) THEN n + 1 ELSE n

Counted ==
  /\ pc = "setup" => n = 0
  /\ pc \in {"send", "timer", "poll", "receive"} => n < total_probes
  /\ pc \in {"setup", "probe"} => probe = IF n = 0 THEN 0 ELSE (n - 1) \div probe_repeats + 1
  /\ pc \in {"send", "timer", "poll", "receive"} => probe = n \div probe_repeats + 1
  /\ pc = "true" => n = total_probes
  /\ pc # "false" => \A s \in Sockets : asked[s] = ProbeIds(Times(s))

\* Who is in a queue has heard a probe.
Heeded ==
  \A s \in Sockets : \A k \in DOMAIN queue[s] :
    queue[s][k] # NoMatch => \E t \in Sockets : Heard(queue[s][k], t)

\* What poll(2) called an error is one, and what it called readable is so until it
\* is read.
Seen ==
  /\ \A s \in Sockets : revents[s] = "err" => s \in broken
  /\ pc = "receive" => \A s \in Sockets : s >= i /\ revents[s] = "in" => queue[s] # <<>>

IInv == TypeOK /\ Sized /\ Timed /\ Counted /\ Heeded /\ Seen /\ NothingForgotten
-----------------------------------------------------------------------------
(* What list_active_interfaces() returns.                                  *)

\* One address after the other: r[k] is what the first k addresses give.
LEMMA ListedOneByOne ==
  ASSUME NEW lst, lst \in Seq(ToSet(lst))
  PROVE  \E r \in [0 .. Len(lst) -> Seq(ToSet(lst))] :
           /\ r[0] = <<>>
           /\ \A k \in 1 .. Len(lst) : r[k] = IF Skip(lst, r[k - 1], lst[k]) THEN r[k - 1]
                                              ELSE Append(r[k - 1], lst[k])
           /\ list_active_interfaces(lst) = r[Len(lst)]
<1> DEFINE T == Seq(ToSet(lst))
           m == Len(lst)
           Step(res, k) == IF Skip(lst, res, lst[k]) THEN res ELSE Append(res, lst[k])
           G == [p \in T \X (1 .. m) |-> Step(p[1], p[2])]
           Solves(g) == g = [s \in SUBSET DOMAIN lst |->
                               IF s = {} THEN <<>>
                               ELSE IF Skip(lst, g[s \ {Max(s)}], lst[Max(s)])
                                    THEN g[s \ {Max(s)}]
                                    ELSE Append(g[s \ {Max(s)}], lst[Max(s)])]
           it == CHOOSE g : Solves(g)
<1>1. /\ m \in Nat /\ DOMAIN lst = 1 .. m /\ <<>> \in T
      /\ \A k \in 1 .. m : lst[k] \in ToSet(lst)
  OBVIOUS
<1>2. \A res \in T, k \in 1 .. m : Step(res, k) \in T
  BY <1>1
<1>3. G \in [T \X (1 .. m) -> T]
  <2>1. ASSUME NEW p \in T \X (1 .. m) PROVE Step(p[1], p[2]) \in T
    <3>1. p[1] \in T /\ p[2] \in 1 .. m
      OBVIOUS
    <3> HIDE DEF Step, T
    <3> QED BY <3>1, <1>2
  <2> HIDE DEF Step, T
  <2> QED BY <2>1
<1>4. \A res \in T, k \in 1 .. m : G[<<res, k>>] = Step(res, k)
  <2> HIDE DEF Step, T
  <2> QED OBVIOUS
<1>5. \E g : Solves(g)
  <2> HIDE DEF G, T
  <2> DEFINE b == <<>>
  <2>1. m \in Nat /\ b \in T
    BY <1>1
  <2> HIDE DEF m, b
  <2>2. PICK f : FoldsWith(f, m, T, b, G)
    BY <2>1, <1>3, FoldExists
  <2> USE DEF m, b
  <2>3. ASSUME NEW s \in SUBSET (1 .. m), s # {}
        PROVE  f[s] = Step(f[s \ {Max(s)}], Max(s))
    <3>1. Max(s) \in 1 .. m
      BY <1>1, <2>3, LastPosition
    <3>2. f[s \ {Max(s)}] \in T
      BY <2>2 DEF FoldsWith
    <3> QED BY <2>2, <2>3, <3>1, <3>2, <1>4 DEF FoldsWith
  <2>4. Solves(f)
    BY <1>1, <2>2, <2>3 DEF FoldsWith
  <2> QED BY <2>4
<1>6. Solves(it)
  <2> HIDE DEF Solves
  <2> QED BY <1>5
<1>7. list_active_interfaces(lst) = it[DOMAIN lst]
  BY Zenon DEF list_active_interfaces, FoldLeft, MapThenFoldSet
<1> HIDE DEF it
<1>8. it[{}] = <<>> /\ \A s \in SUBSET (1 .. m) : s # {} => it[s] = Step(it[s \ {Max(s)}], Max(s))
  BY <1>1, <1>6
<1>9. \A k \in 1 .. m : it[1 .. k] = Step(it[1 .. k - 1], k)
  <2> TAKE k \in 1 .. m
  <2>1. Max(1 .. k) = k /\ (1 .. k) \ {k} = 1 .. k - 1 /\ 1 .. k # {}
    BY LastOfPrefix
  <2>2. 1 .. k \in SUBSET (1 .. m)
    BY <1>1
  <2> HIDE DEF Step, Solves
  <2> QED BY <1>8, <2>1, <2>2
<1>10. 1 .. 0 = {}
  OBVIOUS
<1>11. \A k \in 0 .. m : it[1 .. k] \in T
  <2> DEFINE U == {k \in 0 .. m : it[1 .. k] \in T}
  <2>1. 0 \in U
    <3>1. it[1 .. 0] = <<>> /\ 0 \in 0 .. m
      BY <1>1, <1>8, <1>10
    <3>2. <<>> \in T
      BY <1>1
    <3> HIDE DEF T
    <3> QED BY <3>1, <3>2
  <2>2. ASSUME NEW k \in 0 .. m - 1, k \in U PROVE k + 1 \in U
    <3>1. k + 1 \in 1 .. m /\ (k + 1) - 1 = k
      BY <1>1
    <3> HIDE DEF Step, Solves, T
    <3> QED BY <2>2, <3>1, <1>2, <1>9
  <2> HIDE DEF U
  <2>3. 0 .. m \subseteq U
    BY <1>1, <2>1, <2>2, InductionTo
  <2> QED BY <2>3 DEF U
<1> DEFINE r == [k \in 0 .. m |-> it[1 .. k]]
<1>12. r \in [0 .. m -> T] /\ r[0] = <<>> /\ r[m] = it[1 .. m]
  BY <1>1, <1>8, <1>10, <1>11
<1>13. \A k \in 1 .. m : r[k] = Step(r[k - 1], k)
  BY <1>1, <1>9
<1> HIDE DEF r
<1> QED BY <1>1, <1>7, <1>12, <1>13

\* Every link that is up is listed, each once: of the first k addresses those are
\* in res, except that IPv6 is left out where the link has IPv4 too.
ListedOnce(lst, res, k) ==
  /\ res \in Seq(ToSet(lst))
  /\ \A a, b \in DOMAIN res : res[a].idx = res[b].idx => a = b
  /\ \A j \in 1 .. k :
       \/ ~lst[j].active
       \/ lst[j].v6 /\ \E q \in DOMAIN lst : lst[q].name = lst[j].name /\ ~lst[q].v6
       \/ \E a \in DOMAIN res : res[a].idx = lst[j].idx

\* One address more.
LEMMA ListedStep ==
  ASSUME NEW lst, lst \in Seq(ToSet(lst)), NEW res, NEW k \in 1 .. Len(lst),
         ListedOnce(lst, res, k - 1)
  PROVE  ListedOnce(lst, IF Skip(lst, res, lst[k]) THEN res ELSE Append(res, lst[k]), k)
<1>1. lst[k] \in ToSet(lst) /\ k \in Nat /\ DOMAIN lst = 1 .. Len(lst)
  OBVIOUS
<1>2. \A j \in 1 .. k : j \in 1 .. k - 1 \/ j = k
  OBVIOUS
<1>3. res \in Seq(ToSet(lst)) /\ Len(res) \in Nat /\ DOMAIN res = 1 .. Len(res)
  BY DEF ListedOnce
<1>4. CASE Skip(lst, res, lst[k])
  BY <1>2, <1>4 DEF ListedOnce, Skip
<1>5. CASE ~Skip(lst, res, lst[k])
  <2> DEFINE new == Append(res, lst[k])
  <2>1. /\ new \in Seq(ToSet(lst)) /\ DOMAIN new = 1 .. Len(res) + 1
        /\ \A a \in 1 .. Len(res) : new[a] = res[a]
        /\ new[Len(res) + 1] = lst[k]
    BY <1>1, <1>3
  <2> HIDE DEF new
  <2>2. \A a \in DOMAIN res : res[a].idx # lst[k].idx
    BY <1>5 DEF Skip
  <2>3. \A a \in DOMAIN new : a \in DOMAIN res \/ a = Len(res) + 1
    BY <2>1, <1>3
  <2>4. \A a, b \in DOMAIN new : new[a].idx = new[b].idx => a = b
    BY <2>1, <2>2, <2>3, <1>3 DEF ListedOnce
  <2>5. Len(res) + 1 \in DOMAIN new /\ \A a \in DOMAIN res : a \in DOMAIN new
    BY <2>1, <1>3
  <2>6. ASSUME NEW j \in 1 .. k
        PROVE  \/ ~lst[j].active
               \/ lst[j].v6 /\ \E q \in DOMAIN lst : lst[q].name = lst[j].name /\ ~lst[q].v6
               \/ \E a \in DOMAIN new : new[a].idx = lst[j].idx
    <3>1. CASE j = k
      BY <3>1, <2>1, <2>5
    <3>2. CASE j \in 1 .. k - 1
      BY <3>2, <2>1, <2>5, <1>3 DEF ListedOnce
    <3> QED BY <3>1, <3>2, <1>2
  <2> QED BY <2>1, <2>4, <2>6, <1>5 DEF ListedOnce, new
<1> QED BY <1>4, <1>5

\* It lists addresses, no interface twice, and every active one.
LEMMA Listed ==
  ASSUME NEW lst \in AddrLists
  PROVE  /\ list_active_interfaces(lst) \in Seq(ToSet(lst))
         /\ \A a, b \in DOMAIN list_active_interfaces(lst) :
              list_active_interfaces(lst)[a].idx = list_active_interfaces(lst)[b].idx => a = b
         /\ \A x \in ToSet(lst) : x.active =>
              \E a \in DOMAIN list_active_interfaces(lst) :
                list_active_interfaces(lst)[a].idx = x.idx
<1>1. /\ lst \in Seq(ToSet(lst)) /\ Len(lst) \in Nat /\ DOMAIN lst = 1 .. Len(lst)
      /\ \A x, y \in ToSet(lst) : x.name = y.name => x.idx = y.idx /\ x.active = y.active
  BY AddressesAssumption
<1>2. PICK r \in [0 .. Len(lst) -> Seq(ToSet(lst))] :
           /\ r[0] = <<>>
           /\ \A k \in 1 .. Len(lst) : r[k] = IF Skip(lst, r[k - 1], lst[k]) THEN r[k - 1]
                                              ELSE Append(r[k - 1], lst[k])
           /\ list_active_interfaces(lst) = r[Len(lst)]
  BY <1>1, ListedOneByOne
<1> DEFINE m == Len(lst)
           U == {k \in 0 .. m : ListedOnce(lst, r[k], k)}
<1>3. 0 \in U
  BY <1>1, <1>2 DEF ListedOnce
<1>4. ASSUME NEW k \in 0 .. m - 1, k \in U PROVE k + 1 \in U
  <2> DEFINE l == k + 1
  <2>1. l \in 1 .. m /\ l \in 0 .. m /\ l - 1 = k
    BY <1>1
  <2>2. ListedOnce(lst, r[l - 1], l - 1)
    BY <1>4, <2>1
  <2>3. r[l] = IF Skip(lst, r[l - 1], lst[l]) THEN r[l - 1] ELSE Append(r[l - 1], lst[l])
    BY <1>2, <2>1
  <2> HIDE DEF l
  <2>4. ListedOnce(lst, r[l], l)
    BY <1>1, <2>1, <2>2, <2>3, ListedStep
  <2> QED BY <2>1, <2>4 DEF l
<1> HIDE DEF U
<1>5. 0 .. m \subseteq U
  BY <1>1, <1>3, <1>4, InductionTo
<1>6. ListedOnce(lst, r[m], m)
  BY <1>1, <1>5 DEF U
<1> DEFINE l == list_active_interfaces(lst)
<1>7. ListedOnce(lst, l, m)
  BY <1>2, <1>6
<1> HIDE DEF l
<1>8. ASSUME NEW x \in ToSet(lst), x.active
      PROVE  \E a \in DOMAIN l : l[a].idx = x.idx
  <2>1. PICK j \in 1 .. m : lst[j] = x
    BY <1>1 DEF ToSet
  <2>2. CASE x.v6 /\ \E q \in DOMAIN lst : lst[q].name = x.name /\ ~lst[q].v6
    <3>1. PICK q \in 1 .. m : lst[q].name = x.name /\ ~lst[q].v6
      BY <2>2, <1>1
    <3>2. lst[q] \in ToSet(lst)
      BY <1>1 DEF ToSet
    <3>3. lst[q].idx = x.idx /\ lst[q].active
      BY <1>1, <1>8, <3>1, <3>2
    <3> QED BY <1>7, <3>1, <3>3 DEF ListedOnce
  <2>3. CASE ~(x.v6 /\ \E q \in DOMAIN lst : lst[q].name = x.name /\ ~lst[q].v6)
    BY <1>7, <1>8, <2>1, <2>3 DEF ListedOnce
  <2> QED BY <2>2, <2>3
<1> QED BY <1>7, <1>8 DEF l, ListedOnce
-----------------------------------------------------------------------------
(* The inductive invariant.                                                *)

\* There is a socket for each interface of the list.
LEMMA SocketsNumbered ==
  ASSUME if_list \in {list_active_interfaces(lst) : lst \in AddrLists}
  PROVE  Len(if_list) \in Nat /\ Sockets = 1 .. Len(if_list)
<1> PICK lst \in AddrLists : if_list = list_active_interfaces(lst)
  OBVIOUS
<1>1. if_list \in Seq(ToSet(lst))
  BY Listed
<1> QED BY <1>1 DEF Sockets

\* The id of the next probe.
LEMMA AppendIds ==
  ASSUME NEW m \in Nat
  PROVE  Append(ProbeIds(m), m \div probe_repeats + 1) = ProbeIds(m + 1)
<1>1. probe_repeats \in Nat \ {0}
  BY TimesAssumption
<1>2. \A k \in Nat : k \div probe_repeats + 1 \in Nat
  BY <1>1
<1>3. \A k \in 1 .. m + 1 : k - 1 \in Nat /\ (k \in 1 .. m \/ k = m + 1)
  OBVIOUS
<1>4. ProbeIds(m) \in Seq(Nat) /\ Len(ProbeIds(m)) = m
  BY <1>2, <1>3 DEF ProbeIds
<1>5. (m + 1) - 1 = m
  OBVIOUS
<1> QED BY <1>2, <1>3, <1>4, <1>5 DEF ProbeIds

\* The invariant holds when wsd_probe() is called.
LEMMA InitIInv == Init => IInv
<1> SUFFICES ASSUME Init PROVE IInv
  OBVIOUS
<1> USE DEF Init
<1>1. Len(if_list) \in Nat /\ Sockets = 1 .. Len(if_list)
  BY SocketsNumbered
<1>2. /\ total_probes \in Nat \ {0} /\ probe_repeats \in Nat \ {0} /\ refresh_interval \in Nat \ {0}
      /\ probe_wait \in Nat /\ probe_wait >= 2 * refresh_interval /\ MaxQueue \in Nat
  BY TimesAssumption, BoundsAssumption
<1>3. TypeOK
  <2>1. n \in 0 .. total_probes /\ i \in 1 .. Len(if_list) + 1 /\ probe \in 0 .. total_probes
    BY <1>1, <1>2
  <2>2. /\ clock \in 0 .. probe_wait + refresh_interval
        /\ rn \in 0 .. probe_wait \div refresh_interval
        /\ waited \in 0 .. refresh_interval /\ UiAlive
    BY <1>2 DEF UiAlive
  <2>3. /\ port \in [Sockets -> {"none", "wsd", "any"}]
        /\ revents \in [Sockets -> {"none", "in", "err"}]
        /\ \A t \in Sockets : Len(queue[t]) <= MaxQueue
    BY <1>2
  <2>4. /\ pc \in {"setup", "probe", "send", "timer", "poll", "receive", "true", "false"}
        /\ out \in Seq(Hosts) /\ arrived \subseteq Hosts
        /\ broken \subseteq Sockets \cup {0} /\ signal \in BOOLEAN
    BY EmptySeq
  <2> QED BY <2>1, <2>2, <2>3, <2>4 DEF TypeOK
<1>4. Sized
  BY <1>1 DEF Sized
<1>5. Timed
  BY <1>2 DEF Timed, Rested
<1>6. Counted
  BY <1>1, <1>2 DEF Counted, Times, ProbeIds
<1>7. Heeded /\ Seen /\ NothingForgotten
  BY <1>1 DEF Heeded, Seen, NothingForgotten
<1> QED BY <1>3, <1>4, <1>5, <1>6, <1>7 DEF IInv

\* What a datagram in a queue changes.
LEMMA Enqueued ==
  ASSUME queue \in [Sockets -> Seq(Hosts \cup {NoMatch})], MaxQueue \in Nat,
         \A t \in Sockets : Len(queue[t]) <= MaxQueue,
         NEW s \in Sockets, NEW d \in Hosts \cup {NoMatch}, Enqueue(s, d)
  PROVE  /\ queue' \in [Sockets -> Seq(Hosts \cup {NoMatch})]
         /\ \A t \in Sockets : Len(queue'[t]) <= MaxQueue
         /\ \A t \in Sockets : \A k \in 1 .. Len(queue[t]) :
              k \in 1 .. Len(queue'[t]) /\ queue'[t][k] = queue[t][k]
         /\ \A t \in Sockets : \A k \in DOMAIN queue'[t] :
              \/ k \in DOMAIN queue[t] /\ queue'[t][k] = queue[t][k]
              \/ queue'[t][k] = d
         /\ \E k \in 1 .. Len(queue'[s]) : queue'[s][k] = d
         /\ \A t \in Sockets : queue[t] # <<>> => queue'[t] # <<>>
<1> DEFINE S == Hosts \cup {NoMatch}
           q == Append(queue[s], d)
<1>1. queue[s] \in Seq(S) /\ d \in S /\ Len(queue[s]) < MaxQueue /\ Len(queue[s]) \in Nat
  BY DEF Enqueue
<1>2. queue' = [queue EXCEPT ![s] = q]
  BY DEF Enqueue
<1>3. /\ q \in Seq(S) /\ Len(q) = Len(queue[s]) + 1 /\ q[Len(queue[s]) + 1] = d /\ q # <<>>
      /\ \A k \in 1 .. Len(queue[s]) : q[k] = queue[s][k]
      /\ DOMAIN q = 1 .. Len(queue[s]) + 1 /\ DOMAIN queue[s] = 1 .. Len(queue[s])
  BY <1>1
<1> HIDE DEF q
<1>4. queue' \in [Sockets -> Seq(S)]
  BY <1>2, <1>3
<1>5. \A t \in Sockets : queue'[t] = IF t = s THEN q ELSE queue[t]
  BY <1>2
<1>6. \A k \in 1 .. Len(queue[s]) + 1 : k \in 1 .. Len(queue[s]) \/ k = Len(queue[s]) + 1
  BY <1>1
<1>7. \A t \in Sockets : queue[t] \in Seq(S)
  OBVIOUS
<1>8. \A t \in Sockets : Len(queue'[t]) <= MaxQueue
  BY <1>1, <1>3, <1>5
<1>9. \A t \in Sockets : \A k \in 1 .. Len(queue[t]) :
        k \in 1 .. Len(queue'[t]) /\ queue'[t][k] = queue[t][k]
  BY <1>1, <1>3, <1>5
<1>10. ASSUME NEW t \in Sockets, NEW k \in DOMAIN queue'[t]
       PROVE  (k \in DOMAIN queue[t] /\ queue'[t][k] = queue[t][k]) \/ queue'[t][k] = d
  BY <1>1, <1>3, <1>5, <1>6
<1>11. Len(queue[s]) + 1 \in 1 .. Len(queue'[s]) /\ queue'[s][Len(queue[s]) + 1] = d
  BY <1>1, <1>3, <1>5
<1> QED BY <1>3, <1>4, <1>5, <1>8, <1>9, <1>10, <1>11

\* Every step preserves the invariant.
LEMMA NextIInv == IInv /\ [Next]_vars => IInv'
<1> SUFFICES ASSUME IInv, [Next]_vars PROVE IInv'
  OBVIOUS
<1>1. Len(if_list) \in Nat /\ Sockets = 1 .. Len(if_list)
  BY SocketsNumbered DEF IInv, Sized
<1>2. /\ total_probes \in Nat \ {0} /\ probe_repeats \in Nat \ {0} /\ refresh_interval \in Nat \ {0}
      /\ probe_wait \in Nat /\ probe_wait >= 2 * refresh_interval /\ MaxQueue \in Nat
  BY TimesAssumption, BoundsAssumption
<1>3. /\ clock \in Nat /\ clock \div refresh_interval \in Nat
      /\ clock % refresh_interval \in 0 .. refresh_interval - 1
      /\ clock < probe_wait => clock \div refresh_interval <= probe_wait \div refresh_interval
  <2>1. clock \in Nat
    BY DEF IInv, TypeOK
  <2>2. clock < probe_wait => clock \div refresh_interval <= probe_wait \div refresh_interval
    BY <1>2, <2>1, DivMonotonic
  <2> QED BY <1>2, <2>1, <2>2, Division
<1>4. /\ n \in Nat /\ n \div probe_repeats \in 0 .. n
      /\ n = 0 => n \div probe_repeats = 0 /\ n % probe_repeats = 0
      /\ n # 0 => (n - 1) \div probe_repeats =
                    IF n % probe_repeats = 0 THEN n \div probe_repeats - 1 ELSE n \div probe_repeats
  <2>1. n \in Nat
    BY DEF IInv, TypeOK
  <2> QED BY <1>2, <2>1, QuotientBound, DivStep
<1> USE <1>1, <1>2 DEF IInv, Sockets
<1>5. CASE SetUp
  <2> USE <1>5 DEF SetUp, program, time, network
  <2>1. TypeOK' /\ Sized' /\ Seen'
    BY DEF TypeOK, UiAlive, Sized, Seen
  <2>2. Timed' /\ Counted'
    BY DEF TypeOK, Timed, Polled, Rested, Reading, Counted, Times
  <2>3. Heeded' /\ NothingForgotten'
    BY DEF Heeded, Heard, NothingForgotten, contains
  <2> QED BY <2>1, <2>2, <2>3
<1>6. CASE SetUpFails
  <2> USE <1>6 DEF SetUpFails, program, time, network
  <2>1. TypeOK' /\ Sized' /\ Seen'
    BY DEF TypeOK, UiAlive, Sized, Seen
  <2>2. Timed' /\ Counted'
    BY DEF TypeOK, Timed, Polled, Rested, Reading, Counted, Times
  <2>3. Heeded' /\ NothingForgotten'
    BY DEF Heeded, Heard, NothingForgotten, contains
  <2> QED BY <2>1, <2>2, <2>3
<1>7. CASE NextProbe
  <2> USE <1>7 DEF NextProbe, program, time, network
  <2>1. pc' = "send" => n < total_probes /\ probe' = n \div probe_repeats + 1
    BY <1>4 DEF TypeOK, Counted
  <2>2. TypeOK'
    <3>1. i' \in 1 .. Len(if_list)' + 1 /\ probe' \in 0 .. total_probes
      BY <1>4, <2>1 DEF TypeOK
    <3> QED BY <3>1 DEF TypeOK, UiAlive
  <2>3. Counted'
    <3>1. pc \in {"setup", "probe"} /\ pc' \in {"true", "send"} /\ n' = n /\ asked' = asked
      OBVIOUS
    <3>2. ASSUME NEW s \in Sockets PROVE Times(s) = n /\ Times(s)' = n
      <4>1. pc' = "send" => i' = 1 /\ ~(s < 1)
        BY DEF Sized
      <4> QED BY <3>1, <4>1 DEF Times
    <3>3. \A s \in Sockets : asked'[s] = ProbeIds(Times(s)')
      BY <3>1, <3>2 DEF Counted
    <3>4. pc' = "true" => n' = total_probes
      OBVIOUS
    <3> QED BY <2>1, <3>1, <3>3, <3>4 DEF Counted
  <2>4. Sized' /\ Timed' /\ Heeded' /\ Seen' /\ NothingForgotten'
    BY DEF Sized, Timed, Rested, Heeded, Heard, Seen, NothingForgotten, contains
  <2> QED BY <2>2, <2>4, <2>3
<1>8. CASE Send
  <2> USE <1>8 DEF Send, program, time, network
  <2>1. Sized'
    <3>1. probe \in Nat /\ \A t \in Sockets : asked[t] \in Seq(Nat)
      BY DEF TypeOK, Sized
    <3>2. \A t \in Sockets : Append(asked[t], probe) \in Seq(Nat)
      BY <3>1
    <3>3. asked' = asked \/ asked' = [asked EXCEPT ![i] = Append(asked[i], probe)]
      OBVIOUS
    <3>4. asked' \in [Sockets -> Seq(Nat)]
      BY <3>2, <3>3 DEF Sized
    <3> QED BY <3>4 DEF Sized
  <2>2. Counted'
    <3>1. n \in Nat /\ probe = n \div probe_repeats + 1 /\ n < total_probes /\ i \in Sockets
      BY DEF TypeOK, Counted
    <3>2. CASE i \in broken
      BY <3>1, <3>2 DEF Counted
    <3>3. CASE i \notin broken
      <4>1. ASSUME NEW t \in Sockets PROVE asked'[t] = ProbeIds(Times(t)')
        <5>1. CASE t = i
          <6>1. asked[i] = ProbeIds(n)
            BY <3>1 DEF Counted, Times
          <6>2. asked'[i] = Append(ProbeIds(n), probe)
            BY <3>1, <3>3, <6>1 DEF Sized
          <6>3. asked'[i] = ProbeIds(n + 1)
            BY <3>1, <6>2, AppendIds
          <6> QED BY <5>1, <3>1, <3>3, <6>3 DEF Times, TypeOK
        <5>2. CASE t # i
          <6>1. asked'[t] = asked[t] /\ asked[t] = ProbeIds(Times(t))
            BY <5>2, <3>1, <3>3 DEF Counted, Sized
          <6>2. Times(t)' = Times(t)
            BY <5>2, <3>1, <3>3 DEF Times, TypeOK
          <6> QED BY <6>1, <6>2
        <5> QED BY <5>1, <5>2
      <4> QED BY <3>1, <3>3, <4>1 DEF Counted
    <3> QED BY <3>2, <3>3
  <2>3. TypeOK' /\ Timed' /\ Seen' /\ NothingForgotten'
    BY DEF TypeOK, UiAlive, Timed, Rested, Seen, NothingForgotten, contains
  <2>4. Heeded'
    <3>1. asked[i] \in Seq(Nat) /\ probe \in Nat
      BY DEF TypeOK, Sized
    <3>2. Append(asked[i], probe) # <<>>
      BY <3>1, AppendNotEmpty
    <3>3. \A t \in Sockets : asked[t] # <<>> => asked'[t] # <<>>
      BY <3>2 DEF Sized
    <3> QED BY <3>3 DEF Heeded, Heard
  <2> QED BY <2>3, <2>1, <2>4, <2>2
<1>9. CASE SendInterrupted
  <2> USE <1>9 DEF SendInterrupted, program, time, network
  <2>1. TypeOK' /\ Sized' /\ Seen'
    BY DEF TypeOK, UiAlive, Sized, Seen
  <2>2. Timed' /\ Counted'
    BY DEF TypeOK, Timed, Polled, Rested, Reading, Counted, Times
  <2>3. Heeded' /\ NothingForgotten'
    BY DEF Heeded, Heard, NothingForgotten, contains
  <2> QED BY <2>1, <2>2, <2>3
<1>10. CASE StartTimer
  <2> USE <1>10 DEF StartTimer, program, time, network
  <2>1. TypeOK' /\ Sized' /\ Seen'
    BY DEF TypeOK, UiAlive, Sized, Seen
  <2>2. Timed' /\ Counted'
    BY DEF TypeOK, Timed, Polled, Rested, Reading, Counted, Times
  <2>3. Heeded' /\ NothingForgotten'
    BY DEF Heeded, Heard, NothingForgotten, contains
  <2> QED BY <2>1, <2>2, <2>3
<1>11. CASE ReadTimer
  <2> USE <1>11 DEF ReadTimer, program, time, network
  <2>1. since \in Nat /\ rn \in Nat
    BY DEF TypeOK, Sized
  <2>2. TypeOK'
    <3>1. n' \in 0 .. total_probes
      BY DEF TypeOK, Counted
    <3>2. /\ rn' \in 0 .. probe_wait \div refresh_interval
          /\ clock' \in 0 .. probe_wait + refresh_interval
          /\ waited' \in 0 .. refresh_interval
          /\ UiAlive'
      <4>1. CASE clock >= probe_wait
        BY <4>1, <2>1 DEF TypeOK, UiAlive
      <4>2. CASE clock < probe_wait
        <5>1. /\ rn' \in {rn, clock \div refresh_interval} /\ clock' \in {clock, probe_wait}
              /\ waited' = 0 /\ since' \in {0, since}
          BY <1>3, <4>2
        <5>2. rn' \in 0 .. probe_wait \div refresh_interval
          BY <4>2, <5>1, <1>3, <2>1 DEF TypeOK
        <5>3. clock' \in 0 .. probe_wait + refresh_interval /\ waited' \in 0 .. refresh_interval
          <6>1. clock \in 0 .. probe_wait + refresh_interval
            BY DEF TypeOK
          <6>2. probe_wait \in Nat /\ refresh_interval \in Nat
            BY TimesAssumption
          <6> QED BY <5>1, <6>1, <6>2
        <5>4. UiAlive'
          BY <5>1, <1>3, <2>1 DEF TypeOK, UiAlive
        <5> QED BY <5>2, <5>3, <5>4
      <4> QED BY <4>1, <4>2, <1>3
    <3> QED BY <3>1, <3>2 DEF TypeOK
  <2>3. Timed'
    <3>1. CASE clock >= probe_wait
      <4>1. PICK w \in 0 .. refresh_interval : Reading(clock - w, since - w)
        BY <1>3, <2>1, <3>1 DEF Timed, Polled
      <4>2. Rested
        <5> DEFINE c == clock - w
        <5>1. c \in Nat /\ c % refresh_interval \in 0 .. refresh_interval - 1
          BY <4>1 DEF Reading
        <5>2. c < probe_wait => c \div refresh_interval # 0
          BY <1>3, <2>1, <3>1, <5>1, ZeroQuotient
        <5> HIDE DEF c
        <5>3. CASE c = probe_wait /\ since - w = 0
          BY <1>3, <2>1, <5>3 DEF Rested
        <5>4. CASE /\ c < probe_wait /\ rn = c \div refresh_interval
                    /\ since - w <= c % refresh_interval
          BY <1>3, <2>1, <5>1, <5>2, <5>4 DEF Rested
        <5>5. c < probe_wait /\ rn = c \div refresh_interval => since - w <= c % refresh_interval
          BY <1>3, <2>1, <4>1, <5>1, <5>2 DEF Reading, c
        <5> QED BY <4>1, <5>3, <5>4, <5>5 DEF Reading, c
      <4> QED BY <3>1, <4>2 DEF Timed, Rested
    <3>2. CASE clock < probe_wait /\ Due
      <4>1. clock - 0 = clock /\ probe_wait - 0 = probe_wait /\ 0 - 0 = 0
        BY <1>3, <2>1
      <4>2. Reading(clock - waited, since - waited)'
        BY <1>3, <2>1, <3>2, <4>1 DEF Reading
      <4>3. pc' = "poll"
        BY <1>3, <3>2
      <4> QED BY <4>2, <4>3 DEF Timed
    <3>3. CASE clock < probe_wait /\ ~Due
      <4>1. clock - 0 = clock /\ since - 0 = since
        BY <1>3, <2>1
      <4>2. Reading(clock, since)
        <5>1. CASE clock = 0 /\ Rested
          BY <1>3, <2>1, <3>3, <5>1 DEF Reading, Rested, Due
        <5>2. CASE Polled
          <6>1. PICK w \in 0 .. refresh_interval : Reading(clock - w, since - w)
            BY <5>2 DEF Polled
          <6> DEFINE c == clock - w
          <6>2. /\ c \in Nat /\ w \in Nat /\ clock = c + w
                /\ c % refresh_interval \in 0 .. refresh_interval - 1
            BY <1>3, <2>1, <6>1 DEF Reading
          <6> HIDE DEF c
          <6>3. /\ rn = c \div refresh_interval
                /\ since - w <= (c % refresh_interval) + (IF rn = 0 THEN refresh_interval ELSE 0)
            BY <6>1, <6>2, <3>3 DEF Reading, c
          <6>4. clock % refresh_interval = (c % refresh_interval) + w
            BY <6>2, <6>3, <3>3, SameQuotient DEF Due
          <6> QED BY <1>3, <2>1, <3>3, <6>2, <6>3, <6>4 DEF Reading, Due
        <5> QED BY <5>1, <5>2 DEF Timed
      <4>3. Reading(clock - waited, since - waited)'
        BY <3>3, <4>1, <4>2 DEF Reading
      <4>4. pc' = "poll"
        BY <1>3, <3>3
      <4> QED BY <4>3, <4>4 DEF Timed
    <3> QED BY <1>3, <2>1, <3>1, <3>2, <3>3
  <2>4. Counted'
    <3>1. n \in Nat /\ n < total_probes /\ probe = n \div probe_repeats + 1 /\ (n + 1) - 1 = n
      BY DEF TypeOK, Counted
    <3>2. ASSUME NEW t \in Sockets PROVE asked'[t] = ProbeIds(Times(t)')
      <4>1. asked[t] = ProbeIds(n + 1)
        BY DEF Counted, Times
      <4>2. Times(t)' = n + 1
        BY DEF Times
      <4> QED BY <4>1, <4>2
    <3> QED BY <3>1, <3>2 DEF Counted
  <2>5. Sized' /\ Heeded' /\ Seen' /\ NothingForgotten'
    BY DEF Sized, Heeded, Heard, Seen, NothingForgotten, contains
  <2> QED BY <2>2, <2>5, <2>3, <2>4
<1>12. CASE Poll
  <2> USE <1>12 DEF Poll, program, time, network
  <2>1. TypeOK'
    <3>1. \A t \in Sockets : State(t) \in {"none", "in", "err"}
      BY DEF State
    <3>2. revents' \in [Sockets -> {"none", "in", "err"}]
      BY <3>1 DEF TypeOK
    <3> QED BY <3>2 DEF TypeOK, UiAlive
  <2>2. Sized' /\ Timed' /\ Counted' /\ Heeded' /\ Seen' /\ NothingForgotten'
    BY DEF TypeOK, Sized, Timed, Polled, Reading, Counted, Times, Heeded, Heard, Seen, State, Ready,
           NothingForgotten, contains
  <2> QED BY <2>1, <2>2
<1>13. CASE PollInterrupted
  <2> USE <1>13 DEF PollInterrupted, program, time, network
  <2>1. TypeOK' /\ Sized' /\ Seen'
    BY DEF TypeOK, UiAlive, Sized, Seen
  <2>2. Timed' /\ Counted'
    BY DEF TypeOK, Timed, Polled, Rested, Reading, Counted, Times
  <2>3. Heeded' /\ NothingForgotten'
    BY DEF Heeded, Heard, NothingForgotten, contains
  <2> QED BY <2>1, <2>2, <2>3
<1>14. CASE Receive
  <2> USE <1>14 DEF Receive, program, time, network
  <2>1. /\ i \in Sockets /\ queue[i] \in Seq(Hosts \cup {NoMatch}) /\ queue[i] # <<>>
        /\ queue \in [Sockets -> Seq(Hosts \cup {NoMatch})]
    BY DEF Sized, Seen
  <2>2. \/ queue' = queue /\ out' = out
        \/ /\ queue' = [queue EXCEPT ![i] = Tail(queue[i])]
           /\ out' = IF Head(queue[i]) # NoMatch /\ ~contains(Head(queue[i]))
                       THEN Append(out, Head(queue[i])) ELSE out
    OBVIOUS
  <2>3. /\ Head(queue[i]) \in Hosts \cup {NoMatch} /\ Tail(queue[i]) \in Seq(Hosts \cup {NoMatch})
        /\ Len(Tail(queue[i])) = Len(queue[i]) - 1 /\ Len(queue[i]) \in Nat \ {0}
        /\ \A k \in 1 .. Len(queue[i]) - 1 : Tail(queue[i])[k] = queue[i][k + 1]
        /\ Head(queue[i]) = queue[i][1]
    BY <2>1
  <2>4. \A h : contains(h) => contains(h)'
    <3>1. out \in Seq(Hosts)
      BY DEF TypeOK
    <3>2. out' = out \/ out' = Append(out, Head(queue[i]))
      BY <2>2
    <3>3. \A k \in DOMAIN out : k \in DOMAIN out' /\ out'[k] = out[k]
      BY <3>1, <3>2
    <3> QED BY <3>3 DEF contains
  <2>5. TypeOK'
    <3>1. out' \in Seq(Hosts)
      <4>1. out \in Seq(Hosts)
        BY DEF TypeOK
      <4>2. Head(queue[i]) # NoMatch => Append(out, Head(queue[i])) \in Seq(Hosts)
        BY <2>3, <4>1
      <4> QED BY <2>2, <4>1, <4>2
    <3>2. \A t \in Sockets : Len(queue'[t]) <= MaxQueue
      BY <2>1, <2>2, <2>3 DEF TypeOK
    <3>3. signal' \in BOOLEAN
      BY DEF TypeOK
    <3>4. i' \in 1 .. Len(if_list)' + 1
      BY DEF TypeOK
    <3> QED BY <3>1, <3>2, <3>3, <3>4 DEF TypeOK, UiAlive
  <2>6. Sized'
    <3>1. queue' \in [Sockets -> Seq(Hosts \cup {NoMatch})]
      BY <2>1, <2>2, <2>3
    <3> QED BY <3>1 DEF Sized
  <2>7. Heeded'
    <3>1. ASSUME NEW s \in Sockets, NEW k \in DOMAIN queue'[s]
          PROVE  \E j \in DOMAIN queue[s] : queue'[s][k] = queue[s][j]
      <4>1. CASE queue' = [queue EXCEPT ![i] = Tail(queue[i])] /\ s = i
        <5>1. queue'[s] = Tail(queue[i])
          BY <2>1, <4>1
        <5>2. k \in 1 .. Len(queue[i]) - 1
          BY <2>3, <5>1
        <5>3. k + 1 \in DOMAIN queue[i]
          BY <2>1, <5>2
        <5> QED BY <2>3, <4>1, <5>1, <5>3
      <4>2. CASE queue'[s] = queue[s]
        BY <4>2, <3>1
      <4> QED BY <2>1, <2>2, <4>1, <4>2
    <3> QED BY <3>1 DEF Heeded, Heard
  <2>8. NothingForgotten'
    <3>1. ASSUME NEW h \in Hosts, NEW s \in Sockets, Contains(queue[s], h)
          PROVE  contains(h)' \/ Contains(queue'[s], h)
      <4>1. PICK k \in 1 .. Len(queue[s]) : queue[s][k] = h
        BY <3>1 DEF Contains
      <4>2. CASE queue'[s] = queue[s]
        BY <3>1, <4>2
      <4>3. CASE queue'[s] # queue[s] /\ k = 1
        <5>1. s = i /\ Head(queue[i]) = h /\ h # NoMatch
          BY <2>1, <2>2, <2>3, <4>1, <4>3, MessagesAssumption
        <5>2. out' = IF contains(h) THEN out ELSE Append(out, h)
          BY <2>2, <4>3, <5>1
        <5>3. out \in Seq(Hosts)
          BY DEF TypeOK
        <5>4. ~contains(h) => contains(h)'
          BY <5>2, <5>3 DEF contains
        <5> QED BY <2>4, <5>4
      <4>4. CASE queue'[s] # queue[s] /\ k # 1
        <5>1. s = i /\ queue'[s] = Tail(queue[i])
          BY <2>1, <2>2, <4>4
        <5>2. k - 1 \in 1 .. Len(queue[i]) - 1 /\ (k - 1) + 1 = k
          BY <2>3, <4>1, <4>4, <5>1
        <5>3. Tail(queue[i])[k - 1] = h /\ k - 1 \in 1 .. Len(Tail(queue[i]))
          BY <2>3, <4>1, <5>1, <5>2
        <5> QED BY <5>1, <5>3 DEF Contains
      <4> QED BY <4>2, <4>3, <4>4
    <3> QED BY <2>4, <3>1 DEF NothingForgotten, TypeOK
  <2>9. Timed' /\ Counted' /\ Seen'
    BY DEF Timed, Polled, Reading, Counted, Times, Seen, TypeOK, Sized
  <2> QED BY <2>5, <2>6, <2>9, <2>7, <2>8
<1>15. CASE ReceiveFails
  <2> USE <1>15 DEF ReceiveFails, program, time, network
  <2>1. TypeOK' /\ Sized' /\ Seen'
    BY DEF TypeOK, UiAlive, Sized, Seen
  <2>2. Timed' /\ Counted'
    BY DEF TypeOK, Timed, Polled, Rested, Reading, Counted, Times
  <2>3. Heeded' /\ NothingForgotten'
    BY DEF Heeded, Heard, NothingForgotten, contains
  <2> QED BY <2>1, <2>2, <2>3
<1>16. CASE PassOver
  <2> USE <1>16 DEF PassOver, program, time, network
  <2>1. TypeOK' /\ Sized' /\ Seen'
    BY DEF TypeOK, UiAlive, Sized, Seen
  <2>2. Timed' /\ Counted'
    BY DEF TypeOK, Timed, Polled, Rested, Reading, Counted, Times
  <2>3. Heeded' /\ NothingForgotten'
    BY DEF Heeded, Heard, NothingForgotten, contains
  <2> QED BY <2>1, <2>2, <2>3
<1>17. CASE Signal
  <2> USE <1>17 DEF Signal, program, time, network
  <2>1. TypeOK' /\ Sized' /\ Seen'
    BY DEF TypeOK, UiAlive, Sized, Seen
  <2>2. Timed' /\ Counted'
    BY DEF TypeOK, Timed, Polled, Rested, Reading, Counted, Times
  <2>3. Heeded' /\ NothingForgotten'
    BY DEF Heeded, Heard, NothingForgotten, contains
  <2> QED BY <2>1, <2>2, <2>3
<1>18. CASE Tick
  <2> USE <1>18 DEF Tick, program, time, network
  <2>1. TypeOK'
    <3> DEFINE c == clock - waited
    <3>1. waited \in Nat /\ since \in Nat /\ clock \in Nat /\ c \in Nat /\ c <= probe_wait
      BY DEF Timed, Reading, TypeOK, Sized
    <3>2. since - waited < 2 * refresh_interval
      <4>1. c % refresh_interval \in 0 .. refresh_interval - 1
        BY <3>1, Division
      <4> HIDE DEF c
      <4>2. Reading(c, since - waited)
        BY DEF Timed, c
      <4> QED BY <3>1, <4>1, <4>2 DEF Reading
    <3>3. /\ clock' \in 0 .. probe_wait + refresh_interval
          /\ waited' \in 0 .. refresh_interval
          /\ UiAlive'
      BY <3>1, <3>2 DEF UiAlive
    <3> QED BY <3>3 DEF TypeOK
  <2>2. Sized' /\ Timed' /\ Counted' /\ Heeded' /\ Seen' /\ NothingForgotten'
    BY DEF TypeOK, Sized, Timed, Polled, Reading, Counted, Times, Heeded, Heard, Seen, State, Ready,
           NothingForgotten, contains
  <2> QED BY <2>1, <2>2
<1>19. CASE \E s \in Sockets \cup {0} : Break(s)
  <2> USE <1>19 DEF Break, program, time, network
  <2>1. TypeOK' /\ Sized' /\ Seen'
    BY DEF TypeOK, UiAlive, Sized, Seen
  <2>2. Timed' /\ Counted'
    BY DEF TypeOK, Timed, Polled, Rested, Reading, Counted, Times
  <2>3. Heeded' /\ NothingForgotten'
    BY DEF Heeded, Heard, NothingForgotten, contains
  <2> QED BY <2>1, <2>2, <2>3
<1>20. CASE \E s \in Bound, h \in Hosts : Answer(h, s) \/ Chatter(s)
  <2>1. PICK s \in Sockets, h \in Hosts : Answer(h, s) \/ Chatter(s)
    BY <1>20 DEF Bound
  <2>2. PICK d \in {h, NoMatch} :
          Enqueue(s, d) /\ ((d = h /\ Answer(h, s)) \/ (d = NoMatch /\ Chatter(s)))
    BY <2>1 DEF Answer, Chatter
  <2>3. /\ UNCHANGED <<if_list, pc, n, i, probe, port, rn, revents, out, asked, clock, waited,
                     since>>
        /\ UNCHANGED <<broken, signal>>
        /\ (arrived' = arrived \cup {h} /\ d = h) \/ arrived' = arrived
    BY <2>2 DEF Answer, Chatter, program, time
  <2>4. /\ queue' \in [Sockets -> Seq(Hosts \cup {NoMatch})]
        /\ \A t \in Sockets : Len(queue'[t]) <= MaxQueue
        /\ \A t \in Sockets : \A k \in 1 .. Len(queue[t]) :
              k \in 1 .. Len(queue'[t]) /\ queue'[t][k] = queue[t][k]
        /\ \A t \in Sockets : \A k \in DOMAIN queue'[t] :
              \/ k \in DOMAIN queue[t] /\ queue'[t][k] = queue[t][k]
              \/ queue'[t][k] = d
        /\ \E k \in 1 .. Len(queue'[s]) : queue'[s][k] = d
        /\ \A t \in Sockets : queue[t] # <<>> => queue'[t] # <<>>
    <3>1. /\ queue \in [Sockets -> Seq(Hosts \cup {NoMatch})]
          /\ \A t \in Sockets : Len(queue[t]) <= MaxQueue
      BY DEF Sized, TypeOK
    <3> QED BY <2>2, <3>1, Enqueued
  <2>5. TypeOK'
    BY <2>3, <2>4 DEF TypeOK, UiAlive
  <2>6. Sized' /\ Timed' /\ Counted'
    BY <2>3, <2>4 DEF Sized, Timed, Polled, Reading, Rested, Counted, Times
  <2>7. Heeded'
    <3>1. d # NoMatch => \E t \in Sockets : Heard(d, t)
      BY <2>2, MessagesAssumption DEF Answer, Bound
    <3>2. \A x : \A t \in Sockets : Heard(x, t) => Heard(x, t)'
      BY <2>3 DEF Heard
    <3>3. ASSUME NEW t \in Sockets, NEW k \in DOMAIN queue'[t], queue'[t][k] # NoMatch
          PROVE  \E u \in Sockets : Heard(queue'[t][k], u)
      <4>1. CASE k \in DOMAIN queue[t] /\ queue'[t][k] = queue[t][k]
        BY <3>3, <4>1 DEF Heeded
      <4>2. CASE queue'[t][k] = d
        BY <3>1, <3>3, <4>2
      <4> QED BY <2>4, <4>1, <4>2
    <3>4. UNCHANGED <<if_list, asked>>
      BY <2>3
    <3> QED BY <3>2, <3>3, <3>4 DEF Heeded, Heard
  <2>8. Seen'
    BY <2>3, <2>4 DEF Seen
  <2>9. NothingForgotten'
    <3>1. \A t \in Sockets, a \in arrived : Contains(queue[t], a) => Contains(queue'[t], a)
      BY <2>4 DEF Contains
    <3>2. Contains(queue'[s], d)
      BY <2>4 DEF Contains
    <3> QED BY <2>3, <3>1, <3>2 DEF NothingForgotten, contains
  <2> QED BY <2>5, <2>6, <2>7, <2>8, <2>9
<1>21. CASE UNCHANGED vars
  <2> USE <1>21 DEF vars, program, time, network
  <2>1. TypeOK' /\ Sized' /\ Seen'
    BY DEF TypeOK, UiAlive, Sized, Seen
  <2>2. Timed' /\ Counted'
    BY DEF TypeOK, Timed, Polled, Rested, Reading, Counted, Times
  <2>3. Heeded' /\ NothingForgotten'
    BY DEF Heeded, Heard, NothingForgotten, contains
  <2> QED BY <2>1, <2>2, <2>3
<1> QED
  BY <1>5, <1>6, <1>7, <1>8, <1>9, <1>10, <1>11, <1>12, <1>13, <1>14, <1>15, <1>16, <1>17, <1>18,
     <1>19, <1>20, <1>21 DEF Next, Program, Network, Done

\* So it holds in every reachable state.
LEMMA Invariance == Spec => []IInv
  BY InitIInv, NextIInv, PTL DEF Spec
-----------------------------------------------------------------------------
(* The theorems.                                                           *)

\* While wsd_probe() waits the event loop runs at least once in three intervals,
\* for all times and however long the event loop takes; its counters keep their
\* limits.
THEOREM TypeCorrect == Spec => []TypeOK
<1>1. IInv => TypeOK
  BY DEF IInv
<1> QED BY <1>1, Invariance, PTL

\* No answer that has reached a socket is lost, however many hosts answer, in
\* whatever order, with whatever other messages and signals in between.
THEOREM NoneForgotten == Spec => []NothingForgotten
<1>1. IInv => NothingForgotten
  BY DEF IInv
<1> QED BY <1>1, Invariance, PTL

\* A probe that is over has asked every link that is up, through one socket, as
\* often as it should, whatever list of addresses getifaddrs() returned.
THEOREM LinksAsked == Spec => []EveryLinkAsked
<1>1. IInv => EveryLinkAsked
  <2> SUFFICES ASSUME IInv, pc = "true" PROVE EveryLinkAsked
    BY DEF EveryLinkAsked
  <2>1. PICK lst \in AddrLists : if_list = list_active_interfaces(lst)
    BY DEF IInv, Sized
  <2>2. \A a, b \in Sockets : if_list[a].idx = if_list[b].idx => a = b
    BY <2>1, Listed DEF Sockets
  <2>3. ASSUME NEW x \in ToSet(lst), x.active
        PROVE  \E s \in Sockets : if_list[s].idx = x.idx
    BY <2>1, <2>3, Listed DEF Sockets
  <2>4. \A s \in Sockets : asked[s] = ProbeIds(total_probes)
    BY DEF IInv, Counted, Times
  <2>5. ASSUME NEW x \in ToSet(lst), x.active
        PROVE  \E s \in Sockets :
                 /\ if_list[s].idx = x.idx
                 /\ \A t \in Sockets \ {s} : if_list[t].idx # x.idx
                 /\ asked[s] = [k \in 1 .. total_probes |-> (k - 1) \div probe_repeats + 1]
    <3>1. PICK s \in Sockets : if_list[s].idx = x.idx
      BY <2>3, <2>5
    <3>2. \A t \in Sockets \ {s} : if_list[t].idx # x.idx
      BY <2>2, <3>1
    <3>3. asked[s] = [k \in 1 .. total_probes |-> (k - 1) \div probe_repeats + 1]
      BY <2>4 DEF ProbeIds
    <3> QED BY <3>1, <3>2, <3>3
  <2>6. \A x \in ToSet(lst) : x.active /\ x.idx # 0 =>
          \E s \in Sockets :
            /\ if_list[s].idx = x.idx
            /\ \A t \in Sockets \ {s} : if_list[t].idx # x.idx
            /\ asked[s] = [k \in 1 .. total_probes |-> (k - 1) \div probe_repeats + 1]
    BY <2>5
  <2> QED BY <2>1, <2>6, Zenon DEF EveryLinkAsked
<1> QED BY <1>1, Invariance, PTL
-----------------------------------------------------------------------------
(* wsd_probe() is a Discovery.                                             *)

\* It starts as a Discovery does.
LEMMA DiscoveryInit == Init => D!Init
<1> SUFFICES ASSUME Init PROVE D!Init
  OBVIOUS
<1>1. \A h \in Hosts, s \in Sockets : ~Heard(h, s)
  BY DEF Init, Heard
<1>2. {h \in Hosts : \E s \in Sockets : Heard(h, s)} = {}
  BY <1>1
<1> QED BY <1>2 DEF Init, D!Init, Returned

\* A step that lists nobody, does not return and asks nobody is a stutter; each
\* other one is the step of Discovery that the case names.
LEMMA DiscoveryStep == IInv /\ [Next]_vars => [D!Next]_(D!dvars)
<1> SUFFICES ASSUME IInv, [Next]_vars PROVE [D!Next]_(D!dvars)
  OBVIOUS
<1> DEFINE Answering == {h \in Hosts : \E s \in Sockets : Heard(h, s)}
           Result == IF Returned THEN pc ELSE "none"
<1>1. SUFFICES \/ D!Next
               \/ UNCHANGED <<out, Answering, broken # {}, Result>>
  BY DEF D!dvars
<1>2. UNCHANGED <<if_list, asked>> => Answering' = Answering
  BY DEF Heard, Sockets
<1>3. CASE \/ SetUp \/ SendInterrupted \/ StartTimer \/ ReadTimer \/ PollInterrupted \/ PassOver
           \/ Signal \/ Tick \/ UNCHANGED vars
           \/ \E s \in Bound, h \in Hosts : Answer(h, s) \/ Chatter(s)
  BY <1>2, <1>3 DEF SetUp, SendInterrupted, StartTimer, ReadTimer, PollInterrupted, PassOver,
     Signal, Tick, Answer, Chatter, Enqueue, vars, program, time, network, Returned
<1>4. ASSUME ~Returned, pc' = "true" \/ (pc' = "false" /\ broken # {}),
             UNCHANGED <<if_list, asked, out, broken>>
      PROVE  D!Next
  BY <1>2, <1>4 DEF D!Next, D!Return, Returned
<1>5. CASE SetUpFails
  BY <1>4, <1>5 DEF SetUpFails, Returned, network
<1>6. CASE NextProbe
  <2>1. CASE n = total_probes
    BY <1>4, <1>6, <2>1 DEF NextProbe, Returned, network
  <2>2. CASE n # total_probes
    BY <1>2, <1>6, <2>2 DEF NextProbe, Returned, network
  <2> QED BY <2>1, <2>2
<1>7. CASE Send
  <2>1. CASE i \in broken
    BY <1>4, <1>7, <2>1 DEF Send, Returned, network
  <2>2. CASE i \notin broken
    <3>1. asked' = [asked EXCEPT ![i] = Append(asked[i], probe)] /\ i \in Sockets
      BY <1>7, <2>2 DEF Send
    <3>2. asked \in [Sockets -> Seq(Nat)] /\ probe \in Nat
      BY DEF IInv, Sized, TypeOK
    <3>3. Append(asked[i], probe) # <<>>
      BY <3>1, <3>2, AppendNotEmpty
    <3>4. Answering \subseteq Answering'
      BY <1>7, <3>1, <3>2, <3>3 DEF Heard, Send, Sockets
    <3>5. Answering' = Answering \cup Answering' /\ Answering' \in SUBSET Hosts
      BY <3>4
    <3>6. D!Answer(Answering')
      BY <1>7, <2>2, <3>5 DEF Send, D!Answer, Returned, network
    <3> QED BY <3>5, <3>6 DEF D!Next
  <2> QED BY <2>1, <2>2
<1>8. CASE Poll
  <2>1. CASE 0 \in broken
    BY <1>4, <1>8, <2>1 DEF Poll, Returned, network
  <2>2. CASE 0 \notin broken
    BY <1>2, <1>8, <2>2 DEF Poll, Returned, network
  <2> QED BY <2>1, <2>2
<1>9. CASE Receive
  <2> DEFINE d == Head(queue[i])
  <2>1. /\ ~Returned /\ Result = "none" /\ Result' = "none" /\ UNCHANGED <<if_list, asked, broken>>
    BY <1>9 DEF Receive, Returned
  <2>2. CASE out' = out
    BY <1>2, <2>1, <2>2
  <2>3. CASE out' # out
    <3>1. d # NoMatch /\ ~contains(d) /\ out' = Append(out, d)
      BY <1>9, <2>3 DEF Receive
    <3>2. i \in Sockets /\ queue[i] \in Seq(Hosts \cup {NoMatch}) /\ queue[i] # <<>>
      BY <1>9 DEF Receive, IInv, Sized, Seen, TypeOK
    <3>3. 1 \in DOMAIN queue[i] /\ d = queue[i][1] /\ d \in Hosts \cup {NoMatch}
      BY <3>2
    <3>4. d \in Hosts /\ d \in Answering
      BY <3>1, <3>2, <3>3 DEF IInv, Heeded
    <3>5. d \notin D!Found
      BY <3>1 DEF contains, D!Found
    <3>6. D!List(d)
      BY <1>2, <2>1, <3>1, <3>4, <3>5 DEF D!List
    <3> QED BY <3>4, <3>6 DEF D!Next
  <2> QED BY <2>2, <2>3
<1>10. CASE ReceiveFails
  <2>1. broken # {}
    BY <1>10 DEF ReceiveFails, IInv, Seen
  <2> QED BY <1>4, <1>10, <2>1 DEF ReceiveFails, Returned, network
<1>11. CASE \E s \in Sockets \cup {0} : Break(s)
  <2>1. broken' # {} /\ UNCHANGED <<if_list, asked, out, pc>>
    BY <1>11 DEF Break, program
  <2> QED BY <1>2, <2>1 DEF D!Next, D!Fault, Returned
<1> QED
  BY <1>3, <1>4, <1>5, <1>6, <1>7, <1>8, <1>9, <1>10, <1>11 DEF Next, Program, Network, Done

\* Whatever the network does, the list holds addresses that answered, each of
\* them once, and a failure is reported only when a system call failed.
THEOREM ImplementsDiscovery == Spec => Discovers
<1>1. Spec => D!Init /\ [][D!Next]_(D!dvars)
  BY DiscoveryInit, DiscoveryStep, Invariance, PTL DEF Spec
<1> QED BY <1>1 DEF Discovers, D!Spec
=============================================================================
