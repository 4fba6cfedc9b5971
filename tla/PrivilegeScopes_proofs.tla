------------------------ MODULE PrivilegeScopes_proofs ------------------------
(***************************************************************************)
(* For every depth of nesting: the guards restore what they changed, the   *)
(* process never stays half dropped, and the guards implement lexically    *)
(* scoped identities.                                                      *)
(*                                                                         *)
(* The argument.  Call Seen[k] the credentials the k-th handler was        *)
(* entered with, the last one being those of the process.  The invariant   *)
(* says of every handler that Seen[k + 1] is Seen[k] or an outcome of      *)
(* drop() on Seen[k] which its guard remembers (Held); from that alone     *)
(* restore() gives Seen[k] back (RestoreUndoes), so a step only appends to *)
(* Seen, changes its last element, or removes it.                          *)
(***************************************************************************)
EXTENDS PrivilegeScopes, Lemmas

\* The scope s, entered with s.entry, has brought the process to c: it did
\* nothing, or drop() had an outcome its guard remembers.
Held(s, c) == \/ s.guard = Unarmed /\ c = s.entry
              \/ /\ s.entry.ruid = Root
                 /\ usr # Root
                 /\ [ok |-> ~s.failed, cred |-> c, guard |-> s.guard]
                      \in DropOutcomes(s.entry, usr, Unarmed)

\* What holds of the credentials at level k.
Sound(k) ==
  /\ WellFormed(Seen[k])
  /\ home = AllOf(User) => Seen[k] = home
  /\ (\A i \in 1 .. k - 1 : ~scopes[i].failed) => Seen[k] \in {home, ActingFor(usr, home)}
  /\ Seen[k].euid # home.euid <=> \E i \in 1 .. k - 1 : scopes[i].guard.uid # NoId

HeldAt(k) == Held(scopes[k], Seen[k + 1])

IInv ==
  /\ TypeOK
  /\ home \in {AllOf(Root), AllOf(User)}
  /\ home = AllOf(User) => usr = User
  /\ Seen[1] = home
  /\ \A k \in 1 .. Len(scopes) + 1 : Sound(k)
  /\ \A k \in 1 .. Len(scopes) : HeldAt(k)
-----------------------------------------------------------------------------
(* The guard on its own.                                                   *)

\* restore() gives a handler's caller the credentials the handler started with.
LEMMA RestoreUndoes ==
  ASSUME usr \in Ids, NEW s \in Scopes, WellFormed(s.entry), NEW c, Held(s, c)
  PROVE  Restore(c, s.guard) = s.entry
<1>1. CASE s.guard = Unarmed /\ c = s.entry
  BY <1>1 DEF Restore, Unarmed
<1>2. CASE /\ s.entry.ruid = Root
           /\ usr # Root
           /\ [ok |-> ~s.failed, cred |-> c, guard |-> s.guard]
                \in DropOutcomes(s.entry, usr, Unarmed)
  BY <1>2, RestoreUndoesDrop
<1> QED BY <1>1, <1>2 DEF Held
-----------------------------------------------------------------------------
(* The levels: what one step does to them.                                 *)

\* The levels are a sequence of credentials, one more than there are handlers.
LEMMA LevelsSeq ==
  ASSUME NEW ss \in Seq(Scopes), NEW c \in Creds
  PROVE  /\ Levels(ss, c) \in Seq(Creds)
         /\ Len(ss) \in Nat
         /\ Len(Levels(ss, c)) = Len(ss) + 1
         /\ Levels(ss, c)[Len(ss) + 1] = c
         /\ \A k \in 1 .. Len(ss) : Levels(ss, c)[k] = ss[k].entry
<1>1. Len(ss) \in Nat /\ \A k \in 1 .. Len(ss) : ss[k] \in Scopes
  OBVIOUS
<1>2. Levels(ss, c) \in [1 .. Len(ss) + 1 -> Creds]
  BY <1>1 DEF Levels, Scopes
<1>3. Levels(ss, c) \in Seq(Creds) /\ Len(Levels(ss, c)) = Len(ss) + 1
  BY <1>1, <1>2
<1>4. /\ Levels(ss, c)[Len(ss) + 1] = c
      /\ \A k \in 1 .. Len(ss) : Levels(ss, c)[k] = ss[k].entry
  BY <1>1 DEF Levels
<1> QED BY <1>1, <1>3, <1>4

\* A handler that starts adds a level.
LEMMA LevelsAppend ==
  ASSUME NEW ss \in Seq(Scopes), NEW c \in Creds, NEW s \in Scopes, s.entry = c, NEW d \in Creds
  PROVE  Levels(Append(ss, s), d) = Append(Levels(ss, c), d)
<1>1. /\ Append(ss, s) \in Seq(Scopes) /\ Len(Append(ss, s)) = Len(ss) + 1
      /\ Append(ss, s)[Len(ss) + 1] = s
      /\ \A k \in 1 .. Len(ss) : Append(ss, s)[k] = ss[k]
  BY AppendProperties
<1>2. /\ Append(Levels(ss, c), d) \in Seq(Creds)
      /\ Len(Append(Levels(ss, c), d)) = Len(ss) + 2
      /\ Append(Levels(ss, c), d)[Len(ss) + 2] = d
      /\ \A k \in 1 .. Len(ss) + 1 : Append(Levels(ss, c), d)[k] = Levels(ss, c)[k]
  BY LevelsSeq, AppendProperties
<1>3. /\ Levels(Append(ss, s), d) \in Seq(Creds)
      /\ Len(Levels(Append(ss, s), d)) = Len(ss) + 2
      /\ Levels(Append(ss, s), d)[Len(ss) + 2] = d
      /\ \A k \in 1 .. Len(ss) + 1 : Levels(Append(ss, s), d)[k] = Append(ss, s)[k].entry
  <2> DEFINE tt == Append(ss, s)
  <2>1. tt \in Seq(Scopes) /\ Len(tt) = Len(ss) + 1 /\ Len(ss) \in Nat
    BY <1>1, LevelsSeq
  <2> HIDE DEF tt
  <2>2. /\ Levels(tt, d) \in Seq(Creds)
        /\ Len(Levels(tt, d)) = Len(tt) + 1
        /\ Levels(tt, d)[Len(tt) + 1] = d
        /\ \A k \in 1 .. Len(tt) : Levels(tt, d)[k] = tt[k].entry
    BY <2>1, LevelsSeq
  <2>3. Len(tt) + 1 = Len(ss) + 2
    BY <2>1
  <2> QED BY <2>1, <2>2, <2>3 DEF tt
<1>4. \A k \in 1 .. Len(ss) + 1 : Append(ss, s)[k].entry = Levels(ss, c)[k]
  BY <1>1, LevelsSeq
<1>5. \A k \in 1 .. Len(ss) + 2 : Levels(Append(ss, s), d)[k] = Append(Levels(ss, c), d)[k]
  BY <1>2, <1>3, <1>4, LevelsSeq
<1> QED BY <1>2, <1>3, <1>5, LevelsSeq, SeqEqual

\* A handler that changes its guard or the credentials changes the last level.
LEMMA LevelsExcept ==
  ASSUME NEW ss \in Seq(Scopes), ss # <<>>, NEW c \in Creds, NEW d \in Creds,
         NEW s \in Scopes, s.entry = ss[Len(ss)].entry
  PROVE  Levels([ss EXCEPT ![Len(ss)] = s], d) = [Levels(ss, c) EXCEPT ![Len(ss) + 1] = d]
<1> DEFINE tt == [ss EXCEPT ![Len(ss)] = s]
<1>1. /\ Len(ss) \in Nat \ {0}
      /\ tt \in Seq(Scopes) /\ Len(tt) = Len(ss) /\ tt[Len(ss)] = s
      /\ \A k \in 1 .. Len(ss) : k # Len(ss) => tt[k] = ss[k]
  BY ExceptSeq
<1> HIDE DEF tt
<1>2. \A k \in 1 .. Len(ss) : tt[k].entry = ss[k].entry
  BY <1>1
<1> DEFINE ll == [Levels(ss, c) EXCEPT ![Len(ss) + 1] = d]
<1>3. /\ ll \in Seq(Creds) /\ Len(ll) = Len(ss) + 1 /\ ll[Len(ss) + 1] = d
      /\ \A k \in 1 .. Len(ss) : ll[k] = ss[k].entry
  BY LevelsSeq, ExceptSeq
<1> HIDE DEF ll
<1>4. /\ Levels(tt, d) \in Seq(Creds) /\ Len(Levels(tt, d)) = Len(ss) + 1
      /\ Levels(tt, d)[Len(ss) + 1] = d
      /\ \A k \in 1 .. Len(ss) : Levels(tt, d)[k] = tt[k].entry
  BY <1>1, LevelsSeq
<1>5. \A k \in 1 .. Len(ss) + 1 : Levels(tt, d)[k] = ll[k]
  BY <1>1, <1>2, <1>3, <1>4
<1>6. Levels(tt, d) = ll
  BY <1>1, <1>3, <1>4, <1>5, SeqEqual
<1> QED BY <1>6 DEF tt, ll

\* A handler that returns to the credentials it was entered with removes the
\* last level.
LEMMA LevelsFront ==
  ASSUME NEW ss \in Seq(Scopes), ss # <<>>, NEW c \in Creds
  PROVE  Levels(Front(ss), ss[Len(ss)].entry) = Front(Levels(ss, c))
<1> DEFINE e == ss[Len(ss)].entry
<1>1. /\ Len(ss) \in Nat \ {0} /\ Front(ss) \in Seq(Scopes) /\ Len(Front(ss)) = Len(ss) - 1
      /\ \A k \in 1 .. Len(ss) - 1 : Front(ss)[k] = ss[k]
      /\ e \in Creds
  <2>1. /\ Len(ss) \in Nat \ {0} /\ Front(ss) \in Seq(Scopes) /\ Len(Front(ss)) = Len(ss) - 1
        /\ \A k \in 1 .. Len(ss) - 1 : Front(ss)[k] = ss[k]
    BY FrontProperties
  <2>2. ss[Len(ss)] \in Scopes
    BY <2>1
  <2> QED BY <2>1, <2>2 DEF Scopes
<1>2. /\ Front(Levels(ss, c)) \in Seq(Creds) /\ Len(Front(Levels(ss, c))) = Len(ss)
      /\ \A k \in 1 .. Len(ss) : Front(Levels(ss, c))[k] = Levels(ss, c)[k]
  <2>1. /\ Levels(ss, c) \in Seq(Creds) /\ Levels(ss, c) # <<>>
        /\ Len(Levels(ss, c)) = Len(ss) + 1
    BY <1>1, LevelsSeq
  <2> DEFINE ll == Levels(ss, c)
  <2> HIDE DEF ll
  <2>2. /\ Front(ll) \in Seq(Creds) /\ Len(Front(ll)) = Len(ll) - 1
        /\ \A k \in 1 .. Len(ll) - 1 : Front(ll)[k] = ll[k]
    BY <2>1, FrontProperties DEF ll
  <2>3. Len(ll) - 1 = Len(ss)
    BY <1>1, <2>1 DEF ll
  <2> QED BY <2>2, <2>3 DEF ll
<1> HIDE DEF e
<1>3. /\ Levels(Front(ss), e) \in Seq(Creds) /\ Len(Levels(Front(ss), e)) = Len(ss)
      /\ Levels(Front(ss), e)[Len(ss)] = e
      /\ \A k \in 1 .. Len(ss) - 1 : Levels(Front(ss), e)[k] = Front(ss)[k].entry
  <2> DEFINE tt == Front(ss)
  <2>1. tt \in Seq(Scopes) /\ Len(tt) + 1 = Len(ss) /\ Len(tt) = Len(ss) - 1
    BY <1>1
  <2> HIDE DEF tt
  <2>2. /\ Levels(tt, e) \in Seq(Creds)
        /\ Len(Levels(tt, e)) = Len(tt) + 1
        /\ Levels(tt, e)[Len(tt) + 1] = e
        /\ \A k \in 1 .. Len(tt) : Levels(tt, e)[k] = tt[k].entry
    BY <1>1, <2>1, LevelsSeq
  <2> QED BY <2>1, <2>2 DEF tt
<1>4. \A k \in 1 .. Len(ss) : Levels(Front(ss), e)[k] = Front(Levels(ss, c))[k]
  <2> TAKE k \in 1 .. Len(ss)
  <2>1. Levels(ss, c)[k] = ss[k].entry /\ Front(Levels(ss, c))[k] = ss[k].entry
    BY <1>2, LevelsSeq
  <2>2. CASE k = Len(ss)
    BY <2>1, <2>2, <1>3 DEF e
  <2>3. CASE k \in 1 .. Len(ss) - 1
    BY <2>1, <2>3, <1>1, <1>3
  <2> QED BY <2>2, <2>3, <1>1
<1> QED BY <1>1, <1>2, <1>3, <1>4, SeqEqual DEF e
-----------------------------------------------------------------------------
(* The invariant.                                                          *)

\* Under the invariant the innermost handler's restore() gives back what the
\* handler was entered with.
LEMMA TopRestores ==
  ASSUME IInv, scopes # <<>>
  PROVE  /\ Restore(cred, Top.guard) = Top.entry
         /\ Top \in Scopes
         /\ Len(scopes) \in Nat \ {0}
         /\ Seen[Len(scopes) + 1] = cred
         /\ Seen[Len(scopes)] = Top.entry
<1>1. /\ Len(scopes) \in Nat \ {0}
      /\ scopes \in Seq(Scopes) /\ cred \in Creds /\ usr \in Ids
  BY DEF IInv, TypeOK
<1>2. Top \in Scopes
  BY <1>1 DEF Top
<1>3. Seen[Len(scopes) + 1] = cred /\ Seen[Len(scopes)] = Top.entry
  BY <1>1, LevelsSeq DEF Seen, Top
<1>4. Held(Top, cred) /\ WellFormed(Top.entry)
  BY <1>1, <1>3 DEF IInv, Sound, HeldAt, Top
<1> QED BY <1>1, <1>2, <1>3, <1>4, RestoreUndoes

\* What each step does to Seen: when a handler starts, ...
LEMMA SeenAppend ==
  ASSUME TypeOK, Enter
  PROVE  Seen' = Append(Seen, cred) /\ TypeOK'
<1> DEFINE s == [guard |-> Unarmed, failed |-> FALSE, entry |-> cred]
<1>1. s \in Scopes /\ s.entry = cred
  BY DEF TypeOK, Scopes, Guards, Unarmed
<1>2. scopes' = Append(scopes, s) /\ UNCHANGED <<usr, home, cred>>
  BY DEF Enter
<1> HIDE DEF s
<1>3. Seen' = Append(Seen, cred)
  BY <1>1, <1>2, LevelsAppend DEF TypeOK, Seen
<1>4. TypeOK'
  BY <1>1, <1>2 DEF TypeOK
<1> QED BY <1>3, <1>4

\* ... when a handler returns, ...
LEMMA SeenFront ==
  ASSUME IInv, Leave
  PROVE  Seen' = Front(Seen) /\ TypeOK' /\ cred' = Top.entry
<1>1. scopes # <<>> /\ cred' = Top.entry /\ scopes' = Front(scopes)
  BY TopRestores DEF Leave
<1>2. Top \in Scopes /\ scopes \in Seq(Scopes) /\ cred \in Creds
  BY <1>1, TopRestores DEF IInv, TypeOK
<1>3. Front(scopes) \in Seq(Scopes)
  BY <1>1, <1>2, FrontProperties
<1>4. TypeOK'
  BY <1>1, <1>2, <1>3 DEF IInv, TypeOK, Leave, Scopes
<1>5. Seen' = Front(Seen)
  BY <1>1, <1>2, LevelsFront DEF Seen, Top
<1> QED BY <1>1, <1>4, <1>5

\* ... and when the innermost handler changes its guard.
LEMMA SeenExcept ==
  ASSUME IInv, Drop
  PROVE  /\ Seen' = [Seen EXCEPT ![Len(scopes) + 1] = cred']
         /\ TypeOK'
         /\ UNCHANGED <<usr, home>>
         /\ Len(scopes') = Len(scopes)
         /\ \A k \in 1 .. Len(scopes) - 1 : scopes'[k] = scopes[k]
         /\ scopes'[Len(scopes)].entry = Top.entry
         /\ \/ /\ cred' = cred
               /\ scopes'[Len(scopes)] = Top
            \/ /\ cred.ruid = Root
               /\ usr # Root
               /\ Top.guard = Unarmed
               /\ cred = Top.entry
               /\ [ok |-> ~scopes'[Len(scopes)].failed, cred |-> cred',
                   guard |-> scopes'[Len(scopes)].guard] \in DropOutcomes(cred, usr, Unarmed)
<1> DEFINE n == Len(scopes)
<1>1. scopes # <<>> /\ ~Top.failed /\ UNCHANGED <<usr, home>>
  BY DEF Drop
<1>2. PICK o \in DropIfFeasible(cred, usr, Top.guard) :
        /\ cred' = o.cred
        /\ scopes' = [scopes EXCEPT ![n] = [Top EXCEPT !.guard = o.guard, !.failed = ~o.ok]]
  BY DEF Drop, Top
<1>3. /\ Top \in Scopes /\ n \in Nat \ {0} /\ scopes \in Seq(Scopes)
      /\ cred \in Creds /\ usr \in Ids /\ Held(Top, cred) /\ WellFormed(cred)
  <2>1. Top \in Scopes /\ n \in Nat \ {0} /\ Seen[n + 1] = cred
    BY <1>1, TopRestores
  <2>2. Held(Top, cred) /\ WellFormed(cred)
    BY <2>1 DEF IInv, Sound, HeldAt, Top
  <2> QED BY <2>1, <2>2 DEF IInv, TypeOK
<1>4. CASE cred.ruid # Root \/ usr = Root
  <2>1. o = [ok |-> TRUE, cred |-> cred, guard |-> Top.guard]
    BY <1>4 DEF DropIfFeasible
  <2>2. [Top EXCEPT !.guard = o.guard, !.failed = ~o.ok] = Top
    BY <1>1, <1>3, <2>1 DEF Scopes
  <2>3. scopes' = scopes /\ cred' = cred
    BY <1>2, <1>3, <2>1, <2>2 DEF Top
  <2>4. Seen' = [Seen EXCEPT ![n + 1] = cred']
    BY <1>3, <2>3, LevelsSeq DEF Seen
  <2> QED BY <1>1, <1>3, <2>3, <2>4 DEF IInv, TypeOK, Top
<1>5. CASE cred.ruid = Root /\ usr # Root
  <2>1. o \in DropOutcomes(cred, usr, Top.guard)
    BY <1>5 DEF DropIfFeasible
  <2>2. Top.guard = Unarmed /\ cred = Top.entry
    <3>1. CASE /\ Top.entry.ruid = Root
               /\ [ok |-> ~Top.failed, cred |-> cred, guard |-> Top.guard]
                    \in DropOutcomes(Top.entry, usr, Unarmed)
      <4>1. WellFormed(Top.entry)
        <5>1. n \in 1 .. n + 1 /\ Seen[n] = Top.entry
          BY <1>1, <1>3, TopRestores
        <5> QED BY <5>1 DEF IInv, Sound
      <4>2. cred.euid = usr
        BY <1>1, <1>3, <1>5, <3>1, <4>1, DropSound
      <4> QED BY <1>3, <1>5, <4>2 DEF WellFormed
    <3> QED BY <1>3, <3>1 DEF Held
  <2>3. o.ok \in BOOLEAN /\ o.guard \in Guards /\ o.cred \in Creds
    BY <1>3, <1>5, <2>1, <2>2, DropSound DEF WellFormed
  <2> DEFINE s == [Top EXCEPT !.guard = o.guard, !.failed = ~o.ok]
  <2>4. s \in Scopes /\ s.entry = Top.entry /\ s.guard = o.guard /\ s.failed = ~o.ok
    BY <1>3, <2>3 DEF Scopes
  <2> HIDE DEF s
  <2>5. scopes' = [scopes EXCEPT ![n] = s]
    BY <1>2 DEF s
  <2>6. /\ scopes' \in Seq(Scopes) /\ Len(scopes') = n /\ scopes'[n] = s
        /\ \A k \in 1 .. n - 1 : scopes'[k] = scopes[k]
    BY <1>3, <2>4, <2>5, ExceptSeq
  <2>7. Seen' = [Seen EXCEPT ![n + 1] = cred']
    <3>1. cred' \in Creds /\ s.entry = scopes[n].entry
      BY <1>2, <2>3, <2>4 DEF Top
    <3>2. Levels([scopes EXCEPT ![n] = s], cred') = [Levels(scopes, cred) EXCEPT ![n + 1] = cred']
      BY <1>1, <1>3, <2>4, <3>1, LevelsExcept
    <3> QED BY <2>5, <3>2 DEF Seen
  <2>8. TypeOK'
    BY <1>1, <1>2, <1>3, <2>3, <2>6 DEF IInv, TypeOK
  <2>9. [ok |-> ~s.failed, cred |-> cred', guard |-> s.guard] \in DropOutcomes(cred, usr, Unarmed)
    <3>1. o = [ok |-> o.ok, cred |-> o.cred, guard |-> o.guard]
      BY <2>1, <2>2 DEF DropOutcomes
    <3>2. ~s.failed = o.ok
      BY <2>3, <2>4
    <3>3. [ok |-> ~s.failed, cred |-> cred', guard |-> s.guard] = o
      <4>1. cred' = o.cred /\ s.guard = o.guard
        BY <1>2, <2>4
      <4>2. CASE o.ok = TRUE
        BY <2>4, <3>1, <4>1, <4>2
      <4>3. CASE o.ok = FALSE
        BY <2>4, <3>1, <4>1, <4>3
      <4> QED BY <2>3, <4>2, <4>3
    <3> QED BY <2>1, <2>2, <3>3
  <2> QED BY <1>1, <1>5, <2>2, <2>4, <2>6, <2>7, <2>8, <2>9
<1> QED BY <1>4, <1>5

\* The invariant holds when main() enters the event loop.
LEMMA InitIInv == Init => IInv
<1> SUFFICES ASSUME Init PROVE IInv
  OBVIOUS
<1>1. PICK start \in Ids : home = AllOf(start) /\ usr \in (IF start = Root THEN Ids ELSE {User})
  BY DEF Init
<1>2. cred = home /\ scopes = <<>> /\ Len(scopes) = 0
  BY DEF Init
<1>3. home \in {AllOf(Root), AllOf(User)} /\ home \in Creds /\ usr \in Ids
  BY <1>1 DEF AllOf, Ids, Creds
<1>4. home = AllOf(User) => usr = User
  BY <1>1, IdsAssumption DEF AllOf, Ids
<1>5. TypeOK
  BY <1>2, <1>3 DEF TypeOK
<1>6. Seen[1] = home
  BY <1>2 DEF Seen, Levels
<1>7. Sound(1)
  <2>1. WellFormed(home)
    BY <1>3, IdsAssumption DEF AllOf, WellFormed
  <2> QED BY <1>6, <2>1 DEF Sound
<1> QED BY <1>2, <1>3, <1>4, <1>5, <1>6, <1>7 DEF IInv

\* A handler that starts preserves the invariant.
LEMMA EnterIInv == IInv /\ Enter => IInv'
<1> SUFFICES ASSUME IInv, Enter PROVE IInv'
  OBVIOUS
<1> DEFINE n == Len(scopes)
           s == [guard |-> Unarmed, failed |-> FALSE, entry |-> cred]
<1>1. TypeOK /\ TypeOK' /\ Seen' = Append(Seen, cred) /\ UNCHANGED <<usr, home>>
  BY SeenAppend DEF IInv, Enter
<1>2. /\ n \in Nat /\ Len(scopes') = n + 1 /\ scopes'[n + 1] = s
      /\ \A k \in 1 .. n : scopes'[k] = scopes[k]
  <2>1. s \in Scopes
    BY <1>1 DEF TypeOK, Scopes, Guards, Unarmed
  <2> HIDE DEF s
  <2>2. scopes' = Append(scopes, s)
    BY DEF Enter, s
  <2> QED BY <1>1, <2>1, <2>2, AppendProperties DEF TypeOK
<1>3. /\ Seen[n + 1] = cred /\ Seen'[n + 2] = cred
      /\ \A k \in 1 .. n + 1 : Seen'[k] = Seen[k]
  <2>1. Seen \in Seq(Creds) /\ Len(Seen) = n + 1 /\ Seen[n + 1] = cred /\ cred \in Creds
    BY <1>1, LevelsSeq DEF Seen, TypeOK
  <2>2. /\ Append(Seen, cred)[Len(Seen) + 1] = cred
        /\ \A k \in 1 .. Len(Seen) : Append(Seen, cred)[k] = Seen[k]
    BY <2>1, AppendProperties
  <2> QED BY <1>1, <1>2, <2>1, <2>2
<1>4. Seen'[1] = home'
  BY <1>1, <1>2, <1>3 DEF IInv
<1>5. ASSUME NEW k \in 1 .. Len(scopes') + 1 PROVE Sound(k)'
  <2>1. CASE k \in 1 .. n + 1
    <3>1. Sound(k) /\ \A i \in 1 .. k - 1 : scopes'[i] = scopes[i]
      BY <1>2, <2>1 DEF IInv
    <3> QED BY <1>1, <1>3, <2>1, <3>1 DEF Sound
  <2>2. CASE k = n + 2
    <3>1. Sound(n + 1) /\ \A i \in 1 .. n : scopes'[i] = scopes[i]
      BY <1>2 DEF IInv
    <3>2. 1 .. k - 1 = 1 .. n + 1 /\ 1 .. (n + 1) - 1 = 1 .. n /\ 1 .. n + 1 = 1 .. n \cup {n + 1}
      BY <1>2, <2>2
    <3>3. ~scopes'[n + 1].failed /\ scopes'[n + 1].guard.uid = NoId
      BY <1>2 DEF Unarmed
    <3>4. Seen'[k] = Seen[n + 1]
      BY <1>3, <2>2
    <3> QED BY <1>1, <3>1, <3>2, <3>3, <3>4 DEF Sound
  <2> QED BY <1>2, <2>1, <2>2
<1>6. ASSUME NEW k \in 1 .. Len(scopes') PROVE HeldAt(k)'
  <2>1. CASE k \in 1 .. n
    <3>1. Held(scopes[k], Seen[k + 1]) /\ Seen'[k + 1] = Seen[k + 1] /\ scopes'[k] = scopes[k]
      BY <1>2, <1>3, <2>1 DEF IInv, HeldAt
    <3> QED BY <1>1, <3>1 DEF Held, HeldAt
  <2>2. CASE k = n + 1
    <3>1. Seen'[k + 1] = s.entry /\ scopes'[k] = s
      BY <1>2, <1>3, <2>2
    <3> QED BY <3>1 DEF Held, HeldAt
  <2> QED BY <1>2, <2>1, <2>2
<1> QED BY <1>1, <1>4, <1>5, <1>6 DEF IInv

\* restore() in the returning handler preserves the invariant.
LEMMA LeaveIInv == IInv /\ Leave => IInv'
<1> SUFFICES ASSUME IInv, Leave PROVE IInv'
  OBVIOUS
<1> DEFINE n == Len(scopes)
<1>1. /\ TypeOK /\ TypeOK' /\ Seen' = Front(Seen) /\ UNCHANGED <<usr, home>>
      /\ scopes # <<>> /\ scopes' = Front(scopes)
  BY SeenFront DEF IInv, Leave
<1>2. /\ n \in Nat \ {0} /\ Len(scopes') = n - 1
      /\ \A k \in 1 .. n - 1 : scopes'[k] = scopes[k]
  BY <1>1, FrontProperties DEF TypeOK
<1>3. \A k \in 1 .. n : Seen'[k] = Seen[k]
  <2>1. Seen \in Seq(Creds) /\ Len(Seen) = n + 1 /\ Seen # <<>>
    BY <1>1, <1>2, LevelsSeq DEF Seen, TypeOK
  <2>2. \A k \in 1 .. Len(Seen) - 1 : Seen'[k] = Seen[k]
    BY <1>1, <2>1, FrontProperties
  <2> QED BY <1>2, <2>1, <2>2
<1>4. Seen'[1] = home'
  BY <1>1, <1>2, <1>3 DEF IInv
<1>5. ASSUME NEW k \in 1 .. Len(scopes') + 1 PROVE Sound(k)'
  <2>1. Sound(k) /\ Seen'[k] = Seen[k] /\ \A i \in 1 .. k - 1 : scopes'[i] = scopes[i]
    BY <1>2, <1>3 DEF IInv
  <2> QED BY <1>1, <2>1 DEF Sound
<1>6. ASSUME NEW k \in 1 .. Len(scopes') PROVE HeldAt(k)'
  <2>1. Held(scopes[k], Seen[k + 1]) /\ Seen'[k + 1] = Seen[k + 1] /\ scopes'[k] = scopes[k]
    BY <1>2, <1>3 DEF IInv, HeldAt
  <2> QED BY <1>1, <2>1 DEF Held, HeldAt
<1> QED BY <1>1, <1>4, <1>5, <1>6 DEF IInv

\* drop_if_feasible(), successful or not, preserves the invariant.
LEMMA DropIInv == IInv /\ Drop => IInv'
<1> SUFFICES ASSUME IInv, Drop PROVE IInv'
  OBVIOUS
<1> DEFINE n == Len(scopes)
<1>1. /\ TypeOK /\ TypeOK' /\ UNCHANGED <<usr, home>>
      /\ Seen' = [Seen EXCEPT ![n + 1] = cred']
      /\ n \in Nat \ {0} /\ Len(scopes') = n
      /\ \A k \in 1 .. n - 1 : scopes'[k] = scopes[k]
      /\ Seen[n] = Top.entry /\ Seen[n + 1] = cred
  BY SeenExcept, TopRestores DEF IInv, Drop
<1>2. Seen'[n + 1] = cred' /\ \A k \in 1 .. n : Seen'[k] = Seen[k]
  <2>1. Seen \in Seq(Creds) /\ Len(Seen) = n + 1
    BY LevelsSeq, <1>1 DEF Seen, TypeOK
  <2>2. DOMAIN Seen = 1 .. n + 1 /\ n + 1 \in 1 .. n + 1 /\ \A k \in 1 .. n : k # n + 1
    BY <1>1, <2>1
  <2> HIDE DEF n
  <2> QED BY <1>1, <2>2
<1>3. Seen'[1] = home'
  BY <1>1, <1>2 DEF IInv
<1>4. ASSUME NEW k \in 1 .. n PROVE Sound(k)'
  <2>1. Sound(k) /\ Seen'[k] = Seen[k] /\ \A i \in 1 .. k - 1 : scopes'[i] = scopes[i]
    BY <1>1, <1>2 DEF IInv
  <2> QED BY <1>1, <2>1 DEF Sound
<1>5. ASSUME NEW k \in 1 .. n - 1 PROVE HeldAt(k)'
  <2>1. HeldAt(k) /\ Seen'[k + 1] = Seen[k + 1] /\ scopes'[k] = scopes[k]
    BY <1>1, <1>2 DEF IInv
  <2> QED BY <1>1, <2>1 DEF Held, HeldAt
<1>6. CASE cred' = cred /\ scopes'[n] = Top
  <2>1. Seen'[n + 1] = Seen[n + 1] /\ \A i \in 1 .. n : scopes'[i] = scopes[i]
    BY <1>1, <1>2, <1>6 DEF Top
  <2>2. Sound(n + 1) /\ HeldAt(n)
    BY <1>1 DEF IInv
  <2>3. (n + 1) - 1 = n
    BY <1>1
  <2>4. Sound(n + 1)' /\ HeldAt(n)'
    BY <1>1, <2>1, <2>2, <2>3 DEF Sound, Held, HeldAt
  <2> QED BY <1>1, <1>3, <1>4, <1>5, <2>4 DEF IInv
<1>7. CASE /\ cred.ruid = Root
           /\ usr # Root
           /\ Top.guard = Unarmed
           /\ cred = Top.entry
           /\ [ok |-> ~scopes'[n].failed, cred |-> cred', guard |-> scopes'[n].guard]
                \in DropOutcomes(cred, usr, Unarmed)
  <2> DEFINE s == scopes'[n]
             o == [ok |-> ~s.failed, cred |-> cred', guard |-> s.guard]
  <2>1. Sound(n) /\ Seen[n] = cred
    BY <1>1, <1>7 DEF IInv
  <2>2. WellFormed(cred) /\ usr \in Ids
    BY <1>1, <2>1 DEF Sound, TypeOK
  <2>3. o \in DropOutcomes(cred, usr, Unarmed)
    BY <1>7
  <2>4. /\ WellFormed(cred')
        /\ ~s.failed => cred'.euid = usr /\ cred' = ActingFor(usr, cred)
        /\ s.failed => cred'.euid = cred.euid
        /\ ~s.failed <=> s.guard.uid # NoId
    <3> HIDE DEF s
    <3>1. /\ WellFormed(o.cred)
          /\ o.ok => o.cred.euid = usr /\ o.cred = ActingFor(usr, cred)
          /\ ~o.ok => o.cred.euid = cred.euid
          /\ o.ok <=> o.guard.uid # NoId
      BY <1>7, <2>2, <2>3, DropSound
    <3>2. (o.ok <=> ~s.failed) /\ o.cred = cred' /\ o.guard = s.guard
      OBVIOUS
    <3> QED BY <3>1, <3>2
  <2> HIDE DEF s, o
  <2>5. usr = User /\ home = AllOf(Root)
    <3>1. usr = User
      BY <1>7, <2>2 DEF Ids
    <3>2. home # AllOf(User)
      BY <1>7, <2>1, IdsAssumption DEF Sound, AllOf
    <3> QED BY <3>1, <3>2 DEF IInv
  <2>6. cred.euid = Root /\ home.euid = Root /\ home.ruid = Root
    BY <1>7, <2>2, <2>5 DEF WellFormed, AllOf
  <2>7. \A i \in 1 .. n - 1 : scopes[i].guard.uid = NoId
    BY <2>1, <2>6 DEF Sound
  <2>8. (\A i \in 1 .. n - 1 : ~scopes[i].failed) => cred = home
    BY <1>7, <2>1, <2>5, <2>6, IdsAssumption DEF Sound, ActingFor, AllOf
  <2>9. 1 .. (n + 1) - 1 = 1 .. n - 1 \cup {n}
    BY <1>1
  <2>10. Sound(n + 1)'
    <3>1. WellFormed(Seen'[n + 1])
      BY <1>2, <2>4
    <3>2. home' = AllOf(User) => Seen'[n + 1] = home'
      BY <1>1, <2>5, IdsAssumption DEF AllOf
    <3>3. (\A i \in 1 .. (n + 1) - 1 : ~scopes'[i].failed)
            => Seen'[n + 1] \in {home', ActingFor(usr', home')}
      BY <1>1, <1>2, <2>4, <2>8, <2>9 DEF s
    <3>4. Seen'[n + 1].euid # home'.euid
            <=> \E i \in 1 .. (n + 1) - 1 : scopes'[i].guard.uid # NoId
      BY <1>1, <1>2, <1>7, <2>4, <2>6, <2>7, <2>9 DEF s
    <3> QED BY <1>1, <3>1, <3>2, <3>3, <3>4 DEF Sound
  <2>11. HeldAt(n)'
    <3>1. Seen'[n + 1] = cred' /\ s.entry = cred
      BY <1>2, <1>7, SeenExcept DEF s
    <3> QED BY <1>1, <1>7, <3>1 DEF Held, HeldAt, s
  <2> QED BY <1>1, <1>3, <1>4, <1>5, <2>10, <2>11 DEF IInv
<1> QED BY <1>1, <1>6, <1>7, SeenExcept

\* Every step preserves the invariant.
LEMMA Inductive == IInv /\ [Next]_vars => IInv'
<1> SUFFICES ASSUME IInv, [Next]_vars PROVE IInv'
  OBVIOUS
<1>1. CASE Enter
  BY <1>1, EnterIInv
<1>2. CASE Drop
  BY <1>2, DropIInv
<1>3. CASE Leave
  BY <1>3, LeaveIInv
<1>4. CASE UNCHANGED vars
  <2>1. UNCHANGED Seen
    BY <1>4 DEF vars, Seen
  <2>2. \A k \in 1 .. Len(scopes) + 1 : Sound(k)'
    BY <1>4, <2>1 DEF IInv, Sound, vars
  <2>3. \A k \in 1 .. Len(scopes) : HeldAt(k)'
    BY <1>4, <2>1 DEF IInv, HeldAt, Held, vars
  <2> QED BY <1>4, <2>1, <2>2, <2>3 DEF IInv, TypeOK, vars
<1> QED BY <1>1, <1>2, <1>3, <1>4 DEF Next
-----------------------------------------------------------------------------
(* Theorems.                                                               *)

\* The variables keep their types and every level stays sound: what the other
\* theorems rest on.
THEOREM Invariance == Spec => []IInv
BY InitIInv, Inductive, PTL DEF Spec

\* privileges_guard: the variables have their types in every reachable state.
THEOREM TypeCorrect == Spec => []TypeOK
<1>1. IInv => TypeOK
  BY DEF IInv
<1> QED BY <1>1, Invariance, PTL

\* privileges_guard, base.cpp 322-354: with no handler active the process has
\* the credentials main() left it with, however its handlers nested.
THEOREM HomeWhenIdle == Spec => []IdleIsHome
<1>1. IInv => IdleIsHome
  <2> SUFFICES ASSUME IInv, scopes = <<>> PROVE cred = home
    BY DEF IdleIsHome
  <2>1. Seen[1] = cred
    BY DEF IInv, TypeOK, Seen, Levels
  <2> QED BY <2>1 DEF IInv
<1> QED BY <1>1, Invariance, PTL

\* privileges_guard::drop(): as long as no drop() has failed, the process runs
\* all as it was started or all as the user.
THEOREM NeverAMixture == Spec => []AllOrNothing
<1>1. IInv => AllOrNothing
  <2> SUFFICES ASSUME IInv, \A i \in DOMAIN scopes : ~scopes[i].failed
               PROVE  cred \in {home, ActingFor(usr, home)}
    BY DEF AllOrNothing
  <2> DEFINE n == Len(scopes)
  <2>1. n \in Nat /\ DOMAIN scopes = 1 .. n /\ Seen[n + 1] = cred
    BY LevelsSeq DEF IInv, TypeOK, Seen
  <2>2. Sound(n + 1) /\ 1 .. (n + 1) - 1 = 1 .. n
    BY <2>1 DEF IInv
  <2> QED BY <2>1, <2>2 DEF Sound
<1> QED BY <1>1, Invariance, PTL

\* The process runs under the user's id exactly while one handler on the stack
\* holds a guard that changed it.
THEOREM UserOnlyInside == Spec => []UserIffArmed
<1>1. IInv => UserIffArmed
  <2> SUFFICES ASSUME IInv PROVE UserIffArmed
    OBVIOUS
  <2> DEFINE n == Len(scopes)
  <2>1. n \in Nat /\ DOMAIN scopes = 1 .. n /\ Seen[n + 1] = cred
    BY LevelsSeq DEF IInv, TypeOK, Seen
  <2>2. Sound(n + 1) /\ 1 .. (n + 1) - 1 = 1 .. n
    BY <2>1 DEF IInv
  <2>3. ASSUME NEW j \in 1 .. n, scopes[j].guard.uid # NoId
        PROVE  \A i \in 1 .. j - 1 : scopes[i].guard.uid = NoId
    <3>1. Sound(j) /\ HeldAt(j) /\ Seen[j] = scopes[j].entry
      BY <2>1, LevelsSeq DEF IInv, TypeOK, Seen
    <3>2. scopes[j].entry.ruid = Root /\ usr # Root
      BY <2>3, <3>1 DEF HeldAt, Held, Unarmed
    <3>3. home.euid = Root /\ Seen[j].euid = Root
      BY <3>1, <3>2, IdsAssumption DEF IInv, Sound, WellFormed, AllOf
    <3> QED BY <3>1, <3>3 DEF Sound
  <2>4. ASSUME NEW i \in 1 .. n, NEW j \in 1 .. n,
               scopes[i].guard.uid # NoId, scopes[j].guard.uid # NoId
        PROVE  i = j
    <3>1. i \notin 1 .. j - 1
      BY <2>3, <2>4
    <3>2. j \notin 1 .. i - 1
      BY <2>3, <2>4
    <3> QED BY <2>1, <3>1, <3>2
  <2> QED BY <2>1, <2>2, <2>4 DEF Sound, UserIffArmed
<1> QED BY <1>1, Invariance, PTL

\* privileges_guard::restore(): a handler that returns leaves the process with
\* exactly the credentials it was entered with.
THEOREM ReturnsRestore == Spec => LeaveRestores
<1>1. IInv /\ [Next]_vars => [Len(scopes') < Len(scopes) => cred' = Top.entry]_vars
  <2> SUFFICES ASSUME IInv, Next, Len(scopes') < Len(scopes) PROVE cred' = Top.entry
    OBVIOUS
  <2>1. CASE Enter
    BY <2>1, SeenAppend, AppendProperties DEF Enter, IInv, TypeOK, Scopes
  <2>2. CASE Drop
    BY <2>2, SeenExcept DEF IInv, TypeOK
  <2>3. CASE Leave
    BY <2>3, SeenFront
  <2> QED BY <2>1, <2>2, <2>3 DEF Next
<1> QED BY <1>1, Invariance, PTL DEF Spec, LeaveRestores

\* The guards implement lexically scoped identities: a handler's changes are
\* seen by itself and the handlers it starts, and by nobody after it returned.
THEOREM ImplementsLexicalScopes == Spec => LexicallyScoped
<1>1. Init => Lexical!Init
  <2> SUFFICES ASSUME Init PROVE Lexical!Init
    OBVIOUS
  <2>1. IInv
    BY InitIInv
  <2>2. Seen \in Seq(Creds) /\ Len(Seen) = 1 /\ Seen[1] = cred /\ cred \in Creds
    <3>1. scopes = <<>> /\ Len(scopes) = 0 /\ scopes \in Seq(Scopes) /\ cred \in Creds
      BY <2>1 DEF Init, IInv, TypeOK
    <3>2. /\ Seen \in Seq(Creds) /\ Len(Seen) = Len(scopes) + 1
          /\ Seen[Len(scopes) + 1] = cred
      BY <3>1, LevelsSeq DEF Seen
    <3> QED BY <3>1, <3>2
  <2>3. Seen = <<cred>>
    BY <2>2, SeqEqual
  <2> QED BY <2>2, <2>3 DEF Lexical!Init
<1>2. IInv /\ [Next]_vars => [Lexical!Next]_Seen
  <2> SUFFICES ASSUME IInv, [Next]_vars PROVE [Lexical!Next]_Seen
    OBVIOUS
  <2>1. /\ TypeOK /\ Seen \in Seq(Creds) /\ Len(Seen) = Len(scopes) + 1
        /\ Len(scopes) \in Nat
    BY LevelsSeq DEF IInv, TypeOK, Seen
  <2>2. CASE Enter
    <3>1. Seen' = Append(Seen, cred) /\ cred \in Creds
      BY <2>1, <2>2, SeenAppend DEF TypeOK
    <3>2. Len(Seen') = Len(Seen) + 1
      BY <2>1, <3>1
    <3> QED BY <3>1, <3>2 DEF Lexical!Next, Lexical!Enter
  <2>3. CASE Drop
    <3>1. Len(Seen) > 1 /\ cred' \in Creds
      <4>1. scopes # <<>> /\ TypeOK'
        BY <2>3, SeenExcept DEF Drop
      <4> QED BY <2>1, <4>1 DEF TypeOK
    <3>2. Seen' = [Seen EXCEPT ![Len(Seen)] = cred']
      BY <2>1, <2>3, SeenExcept
    <3>3. \E v \in Creds : Seen' = [Seen EXCEPT ![Len(Seen)] = v]
      BY <3>1, <3>2, Zenon
    <3>4. Seen' # Seen => Lexical!Change
      BY <3>1, <3>3 DEF Lexical!Change
    <3> QED BY <3>4 DEF Lexical!Next
  <2>4. CASE Leave
    <3>1. Len(Seen) > 1
      BY <2>1, <2>4 DEF Leave, TypeOK
    <3> QED BY <2>4, <3>1, SeenFront DEF Lexical!Next, Lexical!Leave, Lexical!Front, Front
  <2>5. CASE UNCHANGED vars
    BY <2>5 DEF vars, Seen
  <2> QED BY <2>2, <2>3, <2>4, <2>5 DEF Next
<1> QED BY <1>1, <1>2, Invariance, PTL DEF Spec, LexicallyScoped, Lexical!Spec
=============================================================================
