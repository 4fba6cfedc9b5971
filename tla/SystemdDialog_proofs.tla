------------------------ MODULE SystemdDialog_proofs ------------------------
(***************************************************************************)
(* What is proved of the systemd dialog: the types; that the lines of      *)
(* other devices survive in /etc/fstab; that the device has one entry      *)
(* there; that nothing is overwritten unasked; and that success is         *)
(* reported of what was done.  For any device, any /etc/fstab, any number  *)
(* of calls of Accept() and of lines.                                      *)
(*                                                                         *)
(* All but the first rest on the contents that Accept() has computed:      *)
(* until they are written, they are what MakeFstab() promises, and nobody  *)
(* has written the file as long as clean says so.  What MakeFstab()        *)
(* promises is proved by induction over the lines it has looked at.        *)
(***************************************************************************)
EXTENDS SystemdDialog, Lemmas

\* No name of another device begins with a name of this one, as "/dev/sda10"
\* begins with "/dev/sda1": MakeFstab() takes its line for the device's own.
NamesApart == \A w \in Device, n \in Names :
                <<w, n>> \in Begins => n \in Device \cup {Esc[v] : v \in Device}
-----------------------------------------------------------------------------
(* The inductive invariant, in parts.                                      *)

Old(lines) == \A l \in ToSet(lines) : l.by <= accepts

Typed ==
  /\ pc \in {"closed", "open", "ask", "write", "automnt", "reload", "enable", "done", "failed"}
  /\ form \in Forms /\ accepts \in 0 .. MaxAccepts
  /\ content \in Seq(Lines) /\ fstab \in Seq(Lines) /\ foreign \in Seq(Lines)
  /\ unit \in Versions /\ automnt \in Versions /\ enabled \subseteq {"unit", "automnt"}
  /\ loaded \in BOOLEAN /\ found \in BOOLEAN /\ agreed \in BOOLEAN /\ clean \in BOOLEAN
  /\ Old(content) /\ Old(fstab)

\* The part of the command that is for units only.
Parts == pc \in {"automnt", "enable"} => ~form.fstab

\* The lines of a file that has the device's new entry.
Has(lines) == [what |-> Esc[form.id], by |-> accepts] \in ToSet(lines)
One(lines) == Esc[form.id] = form.id =>
                \A l \in ToSet(lines) : l.what \in Device <=> l.by = accepts

\* The contents that are to be written are what MakeFstab() has made.
Planned == pc \in {"ask", "write"} /\ form.fstab => Has(content) /\ One(content)

\* The lines of other devices are in the file, and in the contents.
Kept == NamesApart /\ clean =>
          /\ Others(fstab) = foreign
          /\ pc \in {"ask", "write"} /\ form.fstab => Others(content) = foreign

\* The user is asked for what is there, and before the part for the automount
\* unit if the mount unit was there.
Asked ==
  clean =>
    /\ pc = "write" => agreed \/ IF form.fstab THEN Existing(fstab) = {} ELSE unit = NoUnit
    /\ pc \in {"write", "automnt"} => agreed \/ ~found

\* What the parts of the command that have run did.
Written == clean =>
  /\ pc \in {"reload", "done"} /\ form.fstab => Has(fstab) /\ One(fstab)
  /\ pc \in {"automnt", "reload", "enable", "done"} /\ ~form.fstab => unit = accepts
Noticed == clean /\ pc \in {"enable", "done"} => loaded
Enabled == pc = "done" /\ ~form.fstab =>
             form.noauto \/ (IF form.automount THEN "automnt" ELSE "unit") \in enabled

IInv == Typed /\ Parts /\ Planned /\ Kept /\ Asked /\ Written /\ Noticed /\ Enabled
-----------------------------------------------------------------------------
(* MakeFstab().                                                            *)

\* The lines of other devices, one line more.
LEMMA OthersAppend ==
  ASSUME NEW s \in Seq(Lines), NEW l \in Lines
  PROVE  /\ Others(s) \in Seq(Lines)
         /\ Others(Append(s, l)) = Others(s) \o (IF Foreign(l) THEN <<l>> ELSE <<>>)
<1> DEFINE n == Len(s)
           t == Append(s, l)
           O(e) == IF Foreign(e) THEN <<e>> ELSE <<>>
           q == [i \in DOMAIN s |-> O(s[i])]
           r == [i \in DOMAIN t |-> O(t[i])]
<1>1. /\ n \in Nat /\ DOMAIN s = 1 .. n
      /\ \A i \in 1 .. n : s[i] \in Lines
  OBVIOUS
<1>2. /\ t \in Seq(Lines) /\ DOMAIN t = 1 .. n + 1
      /\ \A i \in 1 .. n : t[i] = s[i]
      /\ t[n + 1] = l
  OBVIOUS
<1>3. \A e \in Lines : O(e) \in Seq(Lines)
  BY EmptySeq
<1> HIDE DEF t, O, n
<1>4. /\ q \in Seq(Seq(Lines)) /\ Len(q) = n
      /\ \A i \in 1 .. n : q[i] = O(s[i])
  <2>1. q = [i \in 1 .. n |-> O(s[i])]
    BY <1>1
  <2>2. \A i \in 1 .. n : O(s[i]) \in Seq(Lines)
    BY <1>1, <1>3
  <2> HIDE DEF q
  <2> QED BY <1>1, <2>1, <2>2
<1>5. /\ r \in Seq(Seq(Lines)) /\ Len(r) = n + 1
      /\ \A i \in 1 .. n : r[i] = O(s[i])
      /\ r[n + 1] = O(l)
  <2>1. r = [i \in 1 .. n + 1 |-> O(t[i])]
    BY <1>2
  <2>2. ASSUME NEW i \in 1 .. n + 1 PROVE t[i] \in Lines
    <3>1. i \in 1 .. n \/ i = n + 1
      BY <1>1
    <3> QED BY <1>1, <1>2, <3>1
  <2>3. \A i \in 1 .. n + 1 : O(t[i]) \in Seq(Lines)
    BY <1>3, <2>2
  <2>4. n + 1 \in Nat /\ n + 1 \in 1 .. n + 1 /\ \A i \in 1 .. n : i \in 1 .. n + 1
    BY <1>1
  <2> HIDE DEF r
  <2>5. r \in Seq(Seq(Lines)) /\ Len(r) = n + 1
    <3>1. r \in [1 .. n + 1 -> Seq(Lines)]
      BY <2>1, <2>3
    <3> QED BY <2>4, <3>1, FunctionIsSeq
  <2>6. \A i \in 1 .. n + 1 : r[i] = O(t[i])
    BY <2>1
  <2> QED BY <1>2, <2>4, <2>5, <2>6
<1>6. Others(s) = FlattenSeq(q) /\ Others(t) = FlattenSeq(r)
  BY DEF Others, O
<1> HIDE DEF q, r
<1>7. PICK f : Flattens(f, q, Lines) /\ FlattenSeq(q) = f[Len(q)]
  BY <1>4, Flattened
<1>8. PICK g : Flattens(g, r, Lines) /\ FlattenSeq(r) = g[Len(r)]
  BY <1>5, Flattened
<1> DEFINE U == {k \in Nat : g[k] = f[k]}
<1>9. 0 \in U
  BY <1>7, <1>8 DEF Flattens
<1>10. ASSUME NEW k \in 0 .. n - 1, k \in U PROVE k + 1 \in U
  <2>1. k + 1 \in 1 .. n /\ k + 1 \in 1 .. n + 1 /\ (k + 1) - 1 = k /\ k + 1 \in Nat
    BY <1>1
  <2>2. f[k + 1] = f[k] \o q[k + 1] /\ g[k + 1] = g[k] \o r[k + 1]
    BY <1>4, <1>5, <1>7, <1>8, <2>1 DEF Flattens
  <2>3. q[k + 1] = r[k + 1] /\ g[k] = f[k]
    BY <1>4, <1>5, <1>10, <2>1
  <2> QED BY <2>1, <2>2, <2>3
<1> HIDE DEF U
<1>11. 0 .. n \subseteq U
  BY <1>1, <1>9, <1>10, InductionTo
<1>12. n \in U /\ n \in 0 .. n
  BY <1>1, <1>11
<1>13. g[n] = f[n] /\ f[n] \in Seq(Lines)
  BY <1>4, <1>7, <1>12 DEF U, Flattens
<1>14. g[n + 1] = g[n] \o r[n + 1]
  <2>1. n + 1 \in 1 .. n + 1 /\ (n + 1) - 1 = n
    BY <1>1
  <2> QED BY <1>5, <1>8, <2>1 DEF Flattens
<1>15. /\ Others(s) = f[n] /\ Others(s) \in Seq(Lines)
       /\ Others(t) = Others(s) \o O(l)
  BY <1>4, <1>5, <1>6, <1>7, <1>8, <1>13, <1>14
<1> QED BY <1>15 DEF O, t

\* They are lines.
LEMMA OthersTyped == ASSUME NEW s \in Seq(Lines) PROVE Others(s) \in Seq(Lines)
<1>1. CASE Lines = {}
  <2>1. DOMAIN s = {}
    BY <1>1
  <2>2. Others(s) = <<>>
    BY <2>1 DEF Others, FlattenSeq
  <2> QED BY <2>2, EmptySeq
<1>2. CASE Lines # {}
  BY <1>2, OthersAppend
<1> QED BY <1>1, <1>2

\* The file with the entry in it.
Made(lines, id, made) ==
  /\ made \in Seq(Lines)
  /\ Entry(id) \in ToSet(made)
  /\ \A l \in ToSet(made) : l = Entry(id) \/ (l \in ToSet(lines) /\ ~Mine(l))
  /\ NamesApart => Others(made) = Others(lines)

\* The entry names this device.
LEMMA EntryFacts ==
  ASSUME NEW id \in Device, accepts \in 0 .. MaxAccepts - 1
  PROVE  Entry(id) \in Lines /\ ~Foreign(Entry(id))
<1>1. id \in Names /\ Esc[id] \in Names /\ MaxAccepts \in Nat
  BY NamesAssumption, BoundsAssumption
<1>2. accepts + 1 \in 0 .. MaxAccepts
  BY <1>1
<1> QED BY <1>1, <1>2 DEF Entry, Lines, Foreign

\* A line that MakeFstab() takes for the device's own is not a line of another.
LEMMA MineFacts ==
  ASSUME NEW l \in Lines
  PROVE  /\ l.what \in Device => Mine(l)
         /\ NamesApart /\ Mine(l) => ~Foreign(l)
BY BeginsAssumption, NamesAssumption DEF Mine, Foreign, NamesApart, Lines

\* MakeFstab() appends the entry, or puts it in the place of the first line of
\* the device and skips the others.
LEMMA Making ==
  ASSUME NEW lines \in Seq(Lines), NEW id \in Device, accepts \in 0 .. MaxAccepts - 1
  PROVE  Made(lines, id, MakeFstab(lines, id))
<1> DEFINE n == Len(lines)
           mine == Existing(lines)
           e == Entry(id)
           made == MakeFstab(lines, id)
           O(l) == IF Foreign(l) THEN <<l>> ELSE <<>>
<1>1. /\ n \in Nat /\ DOMAIN lines = 1 .. n
      /\ \A i \in 1 .. n : lines[i] \in Lines /\ lines[i] \in ToSet(lines)
      /\ \A l \in ToSet(lines) : \E i \in 1 .. n : l = lines[i]
  BY DEF ToSet
<1>2. e \in Lines /\ ~Foreign(e)
  BY EntryFacts
<1>3. mine = {i \in 1 .. n : Mine(lines[i])}
  BY <1>1 DEF Existing
<1>4. <<>> \in Seq(Lines) /\ \A l \in Lines : <<l>> \in Seq(Lines) /\ O(l) \in Seq(Lines)
  BY EmptySeq
<1>5. CASE mine = {}
  <2>1. made = Append(lines, e)
    BY <1>5 DEF MakeFstab
  <2>2. /\ made \in Seq(Lines)
        /\ ToSet(made) = ToSet(lines) \cup {e}
    <3>1. made \in Seq(Lines)
      BY <1>2, <2>1
    <3> HIDE DEF e
    <3>2. ToSet(Append(lines, e)) = ToSet(lines) \cup {e}
      BY <1>2, AppendMembers
    <3> HIDE DEF made
    <3> QED BY <2>1, <3>1, <3>2
  <2>3. \A l \in ToSet(lines) : ~Mine(l)
    BY <1>1, <1>3, <1>5
  <2>4. Others(made) = Others(lines)
    <3>1. Others(lines) \in Seq(Lines) /\ Others(made) = Others(lines) \o O(e)
      BY <1>2, <2>1, OthersAppend
    <3> QED BY <1>2, <3>1, ConcatEmptySeq
  <2> HIDE DEF made, e
  <2>5. Made(lines, id, made)
    BY <2>2, <2>3, <2>4 DEF Made, e
  <2> QED BY <2>5 DEF made
<1>6. CASE mine # {}
  <2> DEFINE m == Min(mine)
             M(i) == IF i = m THEN <<e>> ELSE IF i \in mine THEN <<>> ELSE <<lines[i]>>
             q == [i \in 1 .. n |-> M(i)]
             r == [i \in 1 .. n |-> O(lines[i])]
  <2>1. m \in mine
    <3>1. mine \in SUBSET Nat
      BY <1>3
    <3> HIDE DEF mine
    <3> QED BY <1>6, <3>1, FirstPosition
  <2>2. made = FlattenSeq(q) /\ Others(lines) = FlattenSeq(r)
    BY <1>1, <1>6 DEF MakeFstab, Others
  <2>3. \A i \in 1 .. n : M(i) \in Seq(Lines) /\ O(lines[i]) \in Seq(Lines)
    BY <1>1, <1>2, <1>4
  <2> HIDE DEF e, m, mine, made, O
  <2>4. q \in Seq(Seq(Lines)) /\ Len(q) = n /\ DOMAIN q = 1 .. n /\ \A i \in 1 .. n : q[i] = M(i)
    BY <1>1, <2>3
  <2>5. r \in Seq(Seq(Lines)) /\ Len(r) = n /\ \A i \in 1 .. n : r[i] = O(lines[i])
    BY <1>1, <2>3
  <2> HIDE DEF n
  <2>6. made \in Seq(Lines) /\ ToSet(made) = UNION {ToSet(M(i)) : i \in 1 .. n}
    <3> HIDE DEF q, M
    <3>1. FlattenSeq(q) \in Seq(Lines) /\ ToSet(FlattenSeq(q)) = UNION {ToSet(q[i]) : i \in DOMAIN q}
      BY <2>4, FlattenMembers
    <3> QED BY <2>2, <2>4, <3>1
  <2>7. /\ e \in ToSet(made)
        /\ \A l \in ToSet(made) : l = e \/ (l \in ToSet(lines) /\ ~Mine(l))
    <3>1. \A x : ToSet(<<x>>) = {x}
      BY DEF ToSet
    <3>2. ToSet(<<>>) = {}
      BY DEF ToSet
    <3>3. m \in 1 .. n /\ \A i \in (1 .. n) \ mine : ~Mine(lines[i])
      BY <1>3, <2>1
    <3>4. e \in ToSet(M(m))
      BY <3>1
    <3>5. ASSUME NEW i \in 1 .. n, NEW l \in ToSet(M(i))
          PROVE  l = e \/ (l \in ToSet(lines) /\ ~Mine(l))
      BY <1>1, <3>1, <3>2, <3>3, <3>5
    <3> HIDE DEF M
    <3> QED BY <2>6, <3>3, <3>4, <3>5
  <2>8. ASSUME NamesApart PROVE Others(made) = Others(lines)
    <3>1. PICK f : Flattens(f, q, Lines) /\ FlattenSeq(q) = f[n]
      BY <2>4, Flattened
    <3>2. PICK g : Flattens(g, r, Lines) /\ FlattenSeq(r) = g[n]
      BY <2>5, Flattened
    <3> HIDE DEF q, r
    <3> DEFINE U == {k \in Nat : Others(f[k]) = g[k]}
    <3>3. 0 \in U
      <4>1. Others(<<>>) = <<>>
        BY DEF Others, FlattenSeq
      <4> QED BY <3>1, <3>2, <4>1 DEF Flattens
    <3>4. ASSUME NEW k \in 0 .. n - 1, k \in U PROVE k + 1 \in U
      <4>1. k + 1 \in 1 .. n /\ (k + 1) - 1 = k /\ k + 1 \in Nat /\ k \in 0 .. n
        BY <1>1
      <4>2. /\ f[k + 1] = f[k] \o M(k + 1) /\ f[k] \in Seq(Lines)
            /\ g[k + 1] = g[k] \o O(lines[k + 1]) /\ g[k] \in Seq(Lines)
            /\ g[k] = Others(f[k])
        BY <2>4, <2>5, <3>1, <3>2, <3>4, <4>1 DEF Flattens
      <4>3. CASE k + 1 \in mine
        <5>1. O(lines[k + 1]) = <<>>
          BY <1>1, <1>3, <2>8, <4>1, <4>3, MineFacts DEF O
        <5>2. g[k + 1] = g[k]
          BY <4>2, <5>1, ConcatEmptySeq
        <5>3. CASE k + 1 = m
          <6>1. f[k + 1] = Append(f[k], e)
            BY <1>2, <4>2, <5>3
          <6>2. Others(Append(f[k], e)) = Others(f[k]) \o <<>> /\ Others(f[k]) \in Seq(Lines)
            BY <1>2, <4>2, OthersAppend
          <6>3. Others(f[k + 1]) = g[k + 1]
            BY <4>2, <5>2, <6>1, <6>2, ConcatEmptySeq
          <6> QED BY <4>1, <6>3
        <5>4. CASE k + 1 # m
          <6>1. f[k + 1] = f[k]
            BY <4>2, <4>3, <5>4, ConcatEmptySeq
          <6> QED BY <4>1, <4>2, <5>2, <6>1
        <5> QED BY <5>3, <5>4
      <4>4. CASE k + 1 \notin mine
        <5>1. k + 1 # m /\ lines[k + 1] \in Lines
          BY <1>1, <2>1, <4>1, <4>4
        <5>2. f[k + 1] = Append(f[k], lines[k + 1])
          BY <4>2, <4>4, <5>1
        <5>3. Others(f[k + 1]) = Others(f[k]) \o O(lines[k + 1])
          BY <4>2, <5>1, <5>2, OthersAppend DEF O
        <5> QED BY <4>1, <4>2, <5>3
      <4> QED BY <4>3, <4>4
    <3> HIDE DEF U
    <3>5. 0 .. n \subseteq U
      BY <1>1, <3>3, <3>4, InductionTo
    <3>6. n \in U
      BY <1>1, <3>5
    <3> QED BY <2>2, <3>1, <3>2, <3>6 DEF U
  <2>9. Made(lines, id, made)
    BY <2>6, <2>7, <2>8 DEF Made, e
  <2> QED BY <2>9 DEF made
<1> QED BY <1>5, <1>6
-----------------------------------------------------------------------------
(* The invariant is inductive.                                             *)

\* It holds at first.
LEMMA InitIInv == Init => IInv
<1> SUFFICES ASSUME Init PROVE IInv
  OBVIOUS
<1> USE DEF Init
<1>1. PICK s \in Fstabs : fstab = [i \in DOMAIN s |-> [what |-> s[i], by |-> 0]]
  OBVIOUS
<1>2. MaxAccepts \in Nat
  BY BoundsAssumption
<1>3. s \in Seq(Names)
  BY NamesAssumption
<1>4. fstab \in Seq(Lines) /\ \A i \in DOMAIN fstab : fstab[i].by = 0
  <2>1. DOMAIN s = 1 .. Len(s) /\ Len(s) \in Nat /\ \A i \in 1 .. Len(s) : s[i] \in Names
    BY <1>3
  <2>2. \A i \in 1 .. Len(s) : [what |-> s[i], by |-> 0] \in Lines
    BY <1>2, <2>1 DEF Lines
  <2> QED BY <1>1, <2>1, <2>2
<1>5. Others(fstab) \in Seq(Lines)
  BY <1>4, OthersTyped
<1>6. Old(fstab) /\ Old(content)
  BY <1>4 DEF Old, ToSet
<1>7. unit \in Versions /\ automnt \in Versions
  BY <1>2 DEF Versions, NoUnit, Cut
<1>8. content \in Seq(Lines) /\ accepts \in 0 .. MaxAccepts
  BY <1>2
<1>9. Typed
  BY <1>4, <1>5, <1>6, <1>7, <1>8 DEF Typed
<1> QED BY <1>9 DEF IInv, Parts, Planned, Kept, Asked, Written, Noticed, Enabled

\* Nothing but the place changes, or a part of the command that writes no file.
LEMMA Waiting ==
  ASSUME IInv, Open \/ AnswerYes \/ Reject \/ Reload \/ Enable \/ Fails \/ Return \/ UNCHANGED vars
  PROVE  IInv'
<1> USE DEF Open, AnswerYes, Reject, Reload, Enable, Fails, Return, vars, files, IInv, Typed
<1>1. Typed'
  BY DEF AfterReload, Old
<1>2. Parts'
  BY DEF Parts, AfterReload
<1>3. Planned'
  BY DEF Planned, Has, One, AfterReload
<1>4. Kept'
  BY DEF Kept, AfterReload, Others, Foreign
<1>5. Asked'
  BY DEF Asked, AfterReload, Existing, Mine
<1>6. Written'
  BY DEF Written, Has, One, AfterReload, Parts
<1>7. Noticed'
  BY DEF Noticed, AfterReload
<1>8. Enabled'
  BY DEF Enabled, AfterReload
<1> QED BY <1>1, <1>2, <1>3, <1>4, <1>5, <1>6, <1>7, <1>8

\* Accept() reads the file and makes the contents.
LEMMA Accepting == ASSUME IInv, Accept PROVE IInv'
<1> USE DEF Accept, files
<1>1. PICK f \in Forms : /\ f.fstab = form.fstab
                         /\ form' = f
                         /\ content' = IF f.fstab THEN MakeFstab(fstab, f.id) ELSE <<>>
  OBVIOUS
<1>2. Typed /\ accepts \in 0 .. MaxAccepts - 1 /\ accepts' = accepts + 1 /\ MaxAccepts \in Nat
  BY BoundsAssumption DEF IInv, Typed
<1>3. f.id \in Device /\ form' = f
  BY <1>1 DEF Forms
<1>4. \A l \in ToSet(fstab) : l.by <= accepts /\ l.by \in Nat /\ l \in Lines
  <2>1. \A i \in DOMAIN fstab : fstab[i] \in Lines
    BY <1>2 DEF Typed
  <2>2. ASSUME NEW l \in ToSet(fstab) PROVE l \in Lines
    BY <2>1 DEF ToSet
  <2>3. \A l \in Lines : l.by \in Nat
    BY <1>2 DEF Lines
  <2> QED BY <1>2, <2>2, <2>3 DEF Typed, Old
<1>5. ASSUME f.fstab
      PROVE  /\ content' \in Seq(Lines)
             /\ Old(content)'
             /\ Has(content)' /\ One(content)'
             /\ NamesApart => Others(content') = Others(fstab)
  <2>1. content' = MakeFstab(fstab, f.id)
    BY <1>1, <1>5
  <2>2. Made(fstab, f.id, content')
    BY <1>2, <1>3, <2>1, Making DEF Typed
  <2>3. \A l \in ToSet(content') : l = Entry(f.id) \/ (l \in ToSet(fstab) /\ ~Mine(l))
    BY <2>2 DEF Made
  <2>4. Entry(f.id) = [what |-> Esc[f.id], by |-> accepts'] /\ Entry(f.id).by = accepts + 1
    BY <1>2 DEF Entry
  <2>5. Old(content)'
    BY <1>2, <1>4, <2>3, <2>4 DEF Old
  <2>6. Has(content)'
    BY <1>3, <2>2, <2>4 DEF Made, Has
  <2>7. One(content)'
    <3> SUFFICES ASSUME Esc[f.id] = f.id, NEW l \in ToSet(content')
                 PROVE  l.what \in Device <=> l.by = accepts'
      BY <1>3 DEF One
    <3>1. CASE l = Entry(f.id)
      BY <1>3, <2>4, <3>1
    <3>2. CASE l \in ToSet(fstab) /\ ~Mine(l)
      <4>1. l.what \notin Device
        BY <1>4, <3>2, MineFacts
      <4>2. l.by # accepts'
        BY <1>2, <1>4, <3>2
      <4> QED BY <4>1, <4>2
    <3> QED BY <2>3, <3>1, <3>2
  <2> QED BY <2>2, <2>5, <2>6, <2>7 DEF Made
<1>6. Others(fstab) \in Seq(Lines)
  BY <1>2, OthersTyped DEF Typed
<1>7. content' \in Seq(Lines) /\ Old(content)'
  <2>1. CASE f.fstab
    BY <1>5, <2>1
  <2>2. CASE ~f.fstab
    BY <1>1, <2>2 DEF Old, ToSet
  <2> QED BY <2>1, <2>2
<1>8. Old(fstab)'
  BY <1>2, <1>4 DEF Old
<1>9. accepts' \in 0 .. MaxAccepts /\ form' \in Forms
  BY <1>2, <1>3
<1>10. Typed'
  BY <1>2, <1>6, <1>7, <1>8, <1>9 DEF Typed
<1>11. Planned'
  BY <1>3, <1>5 DEF Planned
<1>12. Kept'
  BY <1>3, <1>5 DEF Kept, Others, Foreign
<1>13. Asked'
  BY <1>1 DEF Asked, Existing, Mine
<1>14. Parts' /\ Written' /\ Noticed' /\ Enabled'
  BY DEF Parts, Written, Noticed, Enabled
<1> QED BY <1>10, <1>11, <1>12, <1>13, <1>14 DEF IInv

\* The contents, or a part of them, become the file, or the unit is written.
LEMMA WritingFirst == ASSUME IInv, WriteFirst PROVE IInv'
<1> USE DEF WriteFirst, AfterHead
<1>1. Typed /\ MaxAccepts \in Nat
  BY BoundsAssumption DEF IInv
<1>2. fstab' \in Seq(Lines) /\ Old(fstab)'
  <2>1. CASE fstab' = fstab \/ fstab' = content
    BY <1>1, <2>1 DEF Typed, Old
  <2>2. ASSUME NEW n \in 0 .. Len(content) - 1, fstab' = SubSeq(content, 1, n)
        PROVE  fstab' \in Seq(Lines) /\ Old(fstab)'
    <3>1. content \in Seq(Lines) /\ Len(content) \in Nat /\ DOMAIN content = 1 .. Len(content)
      BY <1>1 DEF Typed
    <3>2. \A i \in 1 .. n : content[i] \in Lines /\ content[i] \in ToSet(content)
      BY <3>1 DEF ToSet
    <3>3. /\ fstab' \in Seq(Lines)
          /\ Len(fstab') = IF 1 <= n THEN n - 1 + 1 ELSE 0
          /\ \A i \in 1 .. n - 1 + 1 : fstab'[i] = content[1 + i - 1]
      BY <2>2, <3>2, SubSeqProperties
    <3>4. ToSet(fstab') \subseteq ToSet(content)
      <4>1. DOMAIN fstab' = 1 .. Len(fstab') /\ Len(fstab') = n
        BY <3>3
      <4>2. \A i \in 1 .. n : fstab'[i] = content[i]
        BY <3>3
      <4>3. \A x \in ToSet(fstab') : \E i \in 1 .. n : x = fstab'[i]
        BY <4>1 DEF ToSet
      <4> QED BY <3>2, <4>2, <4>3
    <3> QED BY <1>1, <3>3, <3>4 DEF Typed, Old
  <2> QED BY <2>1, <2>2
<1>3. unit' \in Versions
  BY <1>1 DEF Typed, Versions, Cut
<1>4. Typed'
  <2>1. Old(content)'
    BY <1>1 DEF Typed, Old
  <2> QED BY <1>1, <1>2, <1>3, <2>1 DEF Typed
<1>5. Parts' /\ Planned' /\ Noticed' /\ Enabled'
  BY DEF Parts, Planned, Noticed, Enabled
<1>8. Asked'
  BY <1>1 DEF IInv, Typed, Asked
<1>6. Kept'
  <2> SUFFICES ASSUME NamesApart, clean' PROVE Others(fstab') = foreign'
    BY DEF Kept, Others, Foreign
  <2>1. clean /\ foreign' = foreign
    BY <1>1 DEF Typed
  <2>2. fstab' = IF form.fstab THEN content ELSE fstab
    BY <2>1
  <2> QED BY <2>1, <2>2 DEF IInv, Kept
<1>7. Written'
  BY DEF Written, IInv, Planned, Has, One
<1> QED BY <1>4, <1>5, <1>6, <1>7, <1>8 DEF IInv

\* The automount unit is written.
LEMMA WritingSecond == ASSUME IInv, WriteSecond PROVE IInv'
<1> USE DEF WriteSecond, IInv
<1>1. MaxAccepts \in Nat
  BY BoundsAssumption
<1>2. automnt' \in Versions
  BY <1>1 DEF Typed, Versions, Cut
<1>3. Typed'
  BY <1>2 DEF Typed, Old
<1>4. Parts' /\ Planned' /\ Asked' /\ Noticed' /\ Enabled'
  BY DEF Parts, Planned, Asked, Noticed, Enabled
<1>5. Kept'
  BY DEF Kept, Others, Foreign
<1>6. Written'
  BY DEF Written, Parts, Has, One
<1> QED BY <1>3, <1>4, <1>5, <1>6

\* Another program adds a line.
LEMMA OtherWriting == ASSUME IInv, OtherWrites PROVE IInv'
<1> USE DEF OtherWrites
<1>1. PICK n \in Names : LET l == [what |-> n, by |-> 0]
                         IN  fstab' = Append(fstab, l) /\ Foreign(l) /\ foreign' = Append(foreign, l)
  OBVIOUS
<1> DEFINE l == [what |-> n, by |-> 0]
<1>2. Typed /\ MaxAccepts \in Nat
  BY BoundsAssumption DEF IInv
<1>3. l \in Lines /\ l.by = 0 /\ Foreign(l)
  BY <1>1, <1>2 DEF Lines
<1>4. fstab' = Append(fstab, l) /\ foreign' = Append(foreign, l)
  BY <1>1
<1> HIDE DEF l
<1>5. fstab' \in Seq(Lines) /\ foreign' \in Seq(Lines)
  BY <1>2, <1>3, <1>4 DEF Typed
<1>6. Old(fstab)'
  <2>1. ToSet(fstab') = ToSet(fstab) \cup {l}
    <3>1. ToSet(Append(fstab, l)) = ToSet(fstab) \cup {l}
      BY <1>2, <1>3, AppendMembers DEF Typed
    <3> QED BY <1>4, <3>1
  <2>2. accepts' = accepts /\ accepts \in Nat
    BY <1>2 DEF Typed
  <2> QED BY <1>2, <1>3, <2>1, <2>2 DEF Typed, Old
<1>7. Typed'
  BY <1>2, <1>5, <1>6 DEF Typed, Old
<1>8. Parts' /\ Planned' /\ Asked' /\ Written' /\ Noticed' /\ Enabled'
  BY DEF IInv, Parts, Planned, Has, One, Asked, Written, Noticed, Enabled
<1>9. Kept'
  <2> SUFFICES ASSUME NamesApart, clean'
               PROVE  /\ Others(fstab') = foreign'
                      /\ ~(pc' \in {"ask", "write"})
    BY DEF Kept, Others, Foreign
  <2>1. clean /\ pc' \in {"closed", "open"}
    BY <1>2 DEF Typed
  <2>2. Others(fstab) = foreign
    BY <2>1 DEF IInv, Kept
  <2>3. Others(fstab') = Others(fstab) \o <<l>>
    BY <1>2, <1>3, <1>4, OthersAppend DEF Typed
  <2>4. foreign' = foreign \o <<l>>
    BY <1>2, <1>3, <1>4 DEF Typed
  <2> QED BY <2>1, <2>2, <2>3, <2>4
<1> QED BY <1>7, <1>8, <1>9 DEF IInv

\* Every step keeps the invariant.
LEMMA NextIInv == IInv /\ [Next]_vars => IInv'
<1> SUFFICES ASSUME IInv, [Next]_vars PROVE IInv'
  OBVIOUS
<1>1. CASE Open \/ AnswerYes \/ Reject \/ Reload \/ Enable \/ Fails \/ Return \/ UNCHANGED vars
  BY <1>1, Waiting
<1>2. CASE Accept
  BY <1>2, Accepting
<1>3. CASE WriteFirst
  BY <1>3, WritingFirst
<1>4. CASE WriteSecond
  BY <1>4, WritingSecond
<1>5. CASE OtherWrites
  BY <1>5, OtherWriting
<1> QED BY <1>1, <1>2, <1>3, <1>4, <1>5 DEF Next

\* It always holds.
LEMMA Invariance == Spec => []IInv
BY InitIInv, NextIInv, PTL DEF Spec
-----------------------------------------------------------------------------
(* The theorems.                                                           *)

\* The dialog, the files and the records about them keep their types, and the
\* parts of the command that are for units run for units only.
THEOREM TypeCorrect == Spec => []TypeOK
<1>1. IInv => TypeOK
  BY DEF IInv, Typed, Parts, TypeOK
<1> QED BY <1>1, Invariance, PTL

\* The lines of the other devices stay in /etc/fstab as they are, in their
\* order, however often Accept() writes it, refuses to or fails, if no name of
\* another device begins with one of this device's.
THEOREM KeepsOthers ==
  ASSUME NamesApart
  PROVE  Spec => []OthersKept
<1>1. IInv => OthersKept
  BY DEF IInv, Kept, OthersKept
<1> QED BY <1>1, Invariance, PTL

\* An entry that has been written is the only one of the device.
THEOREM HasOneEntry == Spec => []OneEntry
<1>1. IInv => OneEntry
  <2> SUFFICES ASSUME IInv, pc = "done", form.fstab, clean, Esc[form.id] = form.id,
                      NEW i \in DOMAIN fstab
               PROVE  fstab[i].what \in Device <=> fstab[i].by = accepts
    BY DEF OneEntry
  <2> QED BY DEF IInv, Written, One, ToSet
<1> QED BY <1>1, Invariance, PTL

\* When success is logged, everything the command was to do has been done.
THEOREM ReportsDone == Spec => []ReportedDone
<1>1. IInv => ReportedDone
  BY DEF IInv, Written, Has, ToSet, Noticed, Enabled, ReportedDone
<1> QED BY <1>1, Invariance, PTL

\* Accept(): the device's entry or the mount unit that is there, and the automount
\* unit next to a mount unit that is there, are not overwritten before the user has
\* agreed.
THEOREM AsksFirst == Spec => AskedFirst
<1>1. IInv /\ [Next]_vars =>
        [clean /\ pc' # "failed" =>
           /\ pc = "write" =>
                agreed \/ IF form.fstab THEN Existing(fstab) = {} ELSE unit = NoUnit
           /\ pc = "automnt" => agreed \/ automnt = NoUnit \/ ~found]_vars
  BY DEF IInv, Asked
<1> QED BY <1>1, Invariance, PTL DEF Spec, AskedFirst
=============================================================================
