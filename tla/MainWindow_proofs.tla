--------------------------- MODULE MainWindow_proofs ---------------------------
(***************************************************************************)
(* For any number of handlers nested in each other's event loops: what     *)
(* MWWindow.cfg checks on small instances.                                 *)
(*                                                                         *)
(* The argument.  The invariant looks at the stack of handlers in three    *)
(* ways: at each handler with the credentials its guard brought the        *)
(* process to (Fit), at each pair of handlers, one somewhere below the     *)
(* other (Nested), and at what a handler needs to have below it            *)
(* (Grounded).  A step does one of four things to the stack: it leaves it  *)
(* alone, changes the innermost handler and nothing that matters in the    *)
(* others, adds a handler, or removes one; a lemma for each says when the  *)
(* three survive.                                                          *)
(***************************************************************************)
EXTENDS MainWindow, Lemmas

PlacesOf(h) == CASE h = "refresh" -> {"lsblk", "findmnt", "populate"}
                 [] h = "netscan" -> {"scan", "populate"}
                 [] h = "mount"   -> {"mkdir", "install", "decide", "run", "refresh", "leave"}
                 [] h = "unmount" -> {"run", "refresh", "leave"}
                 [] h = "dialog"  -> {"open", "accepted", "rejected", "refresh", "leave"}
                 [] h = "accept"  -> {"ask", "write", "run", "error", "leave"}

\* The handler f, whose guard brought the process to w, is where it may be with
\* that.
Fit(f, w) ==
  /\ f.pc \in PlacesOf(f.h)
  /\ WellFormed(f.entry) /\ Holds(f.guard, f.entry, w, usr)
  /\ f.h \notin {"mount", "accept"} => f.guard = Unarmed
  /\ HalfWay(f.guard) => f.pc \in {"leave", "error"}
  /\ f.pc \in {"mkdir", "install", "decide"} => f.req \in Requests /\ f.req.tl # "reject"
  /\ f.pc = "install" => w.ruid # Root
  /\ f.pc \in {"mkdir", "decide"} /\ w.ruid = Root =>
       f.dev = Pointer(f.req.listed) /\ f.mu = Pointer(f.req.unit # "none")
  /\ f.h = "mount" /\ f.pc = "run" /\ w.ruid = Root =>
       f.cmd.fresh /\ (usr # Root => RootMayMount(f.req))
  /\ f.h = "accept" /\ f.pc = "run" /\ w.ruid = Root => usr = Root
  /\ f.missed \subseteq Scanned
  /\ f.missed # {} => f.pc \in {"lsblk", "findmnt"}

\* The handler f is somewhere below g.
Nested(f, g) ==
  /\ f.pc \in Yielding \cup {"leave", "accepted", "rejected"}
  /\ f.pc \in {"ask", "error"} => g.h = "refresh"
  /\ HalfWay(f.guard) => f.pc = "error"
  /\ f.h = g.h => f.h \notin Guarded
  /\ f.h = "dialog" /\ g.h = "dialog" => f.pc # "open"

Whole(c) == c \in {home, ActingFor(usr, home)}

\* What the k-th handler needs below it: Accept() is a dialog's, which is open
\* while it asks; only an Accept() that reports an error has a guard that got
\* stuck.
Grounded(ss, k) ==
  /\ ss[k].h = "accept" => \E i \in 1 .. k - 1 : ss[i].h = "dialog"
  /\ ss[k].pc = "ask" => \E i \in 1 .. k - 1 : ss[i].h = "dialog" /\ ss[i].pc = "open"
  /\ ~Whole(ss[k].entry) => \E i \in 1 .. k - 1 : ss[i].pc = "error"

Nest(ss, c) ==
  /\ ss \in Seq(Frames) /\ c \in Creds
  /\ Level(ss, c, 1) = home
  /\ \A k \in 1 .. Len(ss) : Fit(ss[k], Level(ss, c, k + 1))
  /\ \A k \in 1 .. Len(ss) : \A i \in 1 .. k - 1 : Nested(ss[i], ss[k])
  /\ \A k \in 1 .. Len(ss) : Grounded(ss, k)

Scalars ==
  /\ usr \in Ids /\ home \in Creds /\ WellFormed(home)
  /\ running \in [Guarded -> BOOLEAN]
  /\ tree \in Pointers
  /\ behind \subseteq Changes /\ excused \subseteq Changes
  /\ posted \subseteq {"show", "dev", "config"}
  /\ acc \in BOOLEAN /\ watching \in BOOLEAN /\ closed \in BOOLEAN
  /\ settings \in AllSettings

Flags == \A h \in Guarded : running[h] <=> \E k \in 1 .. Len(stack) : stack[k].h = h

Treed == tree # "live" => stack # <<>> /\ Top.pc = "populate"

Missed == \A k \in 1 .. Len(stack) : stack[k].missed \subseteq behind

\* A refresh will be called.
Pending == \/ posted \cap {"show", "dev"} # {}
           \/ ~acc
           \/ \E k \in 1 .. Len(stack) : stack[k].pc \in {"refresh", "accepted"}

\* The handler f is going to scan what changed.
WillScan(f, c) == f.pc \in {"lsblk", "findmnt"} /\ c \in Scanned \ f.missed

Awaited == \/ Pending
           \/ \A c \in behind \ excused : \E k \in 1 .. Len(stack) : WillScan(stack[k], c)

IInv == Scalars /\ Nest(stack, cred) /\ Flags /\ Treed /\ Missed /\ Awaited
-----------------------------------------------------------------------------
(* The stack.                                                              *)

\* Changing the handler f to t, while others run above it, leaves it fit.
Follows(f, t) ==
  /\ t.h = f.h /\ t.entry = f.entry /\ t.guard = f.guard /\ t.req = f.req
  /\ f.h # "dialog" => t.pc = f.pc /\ t.cmd = f.cmd
  /\ f.h = "dialog" => t.pc \in {f.pc, "accepted", "rejected"}
  /\ t.missed \subseteq Scanned
  /\ t.missed # {} => t.pc \in {"lsblk", "findmnt"}

\* What a handler that is fit looks like.
LEMMA FitFacts ==
  ASSUME usr \in Ids, NEW f \in Frames, NEW w \in Creds, Fit(f, w)
  PROVE  /\ WellFormed(w) /\ WellFormed(f.entry) /\ f.guard \in Guards
         /\ Restore(w, f.guard) = f.entry
         /\ f.pc \in {"ask", "error"} => f.h = "accept"
         /\ f.pc \in {"open", "accepted", "rejected"} => f.h = "dialog"
         /\ f.h = "refresh" => f.pc \in {"lsblk", "findmnt", "populate"}
         /\ f.h = "dialog" => f.pc \in {"open", "accepted", "rejected", "refresh", "leave"}
<1>1. WellFormed(f.entry) /\ Holds(f.guard, f.entry, w, usr)
  BY DEF Fit
<1>2. WellFormed(w) /\ f.guard \in Guards
  BY <1>1, HoldsCases
<1>3. Restore(w, f.guard) = f.entry
  BY <1>1, RestoreUndoesHeld
<1>4. f.h \in Handlers /\ f.pc \in PlacesOf(f.h)
  BY DEF Fit, Frames
<1> QED BY <1>1, <1>2, <1>3, <1>4 DEF PlacesOf, Handlers, Guarded

\* A handler that waits stays fit when others change it.
LEMMA StaysFit ==
  ASSUME usr \in Ids, NEW f \in Frames, NEW t \in Frames, NEW w \in Creds, Fit(f, w),
         f.pc \notin {"mkdir", "decide"}, Follows(f, t)
  PROVE  Fit(t, w)
<1>1. f.h = "dialog" => f.guard = Unarmed /\ ~HalfWay(Unarmed)
  BY DEF Fit, HalfWay
<1>2. CASE f.h = "dialog"
  <2>1. t.pc \in {"open", "accepted", "rejected", "refresh", "leave"}
    BY <1>2, FitFacts DEF Follows
  <2>2. t.pc \in PlacesOf(t.h) /\ t.h = "dialog"
    BY <1>2, <2>1 DEF PlacesOf, Follows
  <2> QED BY <1>1, <2>1, <2>2 DEF Fit, Follows
<1>3. CASE f.h # "dialog"
  BY <1>3 DEF Fit, Follows
<1> QED BY <1>2, <1>3

\* The innermost handler changes, and those below it as far as it does not
\* matter.
LEMMA NestTop ==
  ASSUME usr \in Ids, NEW ss \in Seq(Frames), NEW c, Nest(ss, c), NEW d \in Creds,
         NEW n \in Nat \ {0}, Len(ss) = n,
         NEW tt \in Seq(Frames), Len(tt) = n,
         \A k \in 1 .. n - 1 : Follows(ss[k], tt[k]),
         tt[n].h = ss[n].h, tt[n].entry = ss[n].entry, Fit(tt[n], d),
         \/ \A k \in 1 .. n : tt[k].pc # "ask"
         \/ /\ \A k \in 1 .. n - 1 : tt[k].pc = ss[k].pc
            /\ tt[n].pc = "ask" => ss[n].pc = "ask"
  PROVE  Nest(tt, d)
<1>1. /\ \A k \in 1 .. n : ss[k] \in Frames /\ tt[k] \in Frames
      /\ \A k \in 1 .. n : tt[k].entry = ss[k].entry /\ tt[k].h = ss[k].h
      /\ \A k \in 1 .. n - 1 : tt[k].guard = ss[k].guard
  BY DEF Follows
<1>2. ASSUME NEW k \in 1 .. n, NEW i \in 1 .. k - 1 PROVE Nested(ss[i], ss[k]) /\ i \in 1 .. n - 1
  BY DEF Nest
<1>3. \A k \in 1 .. n - 1 : Level(ss, c, k + 1) = Level(tt, d, k + 1)
  BY <1>1 DEF Level
<1>4. Level(tt, d, 1) = home /\ \A k \in 1 .. n - 1 : Level(ss, c, k + 1) \in Creds
  BY <1>1 DEF Nest, Level, Frames
<1>5. ASSUME NEW k \in 1 .. n - 1 PROVE Fit(tt[k], Level(tt, d, k + 1))
  <2>1. Fit(ss[k], Level(ss, c, k + 1)) /\ Follows(ss[k], tt[k])
    BY DEF Nest
  <2>2. ss[k].pc \notin {"mkdir", "decide"}
    <3>1. Nested(ss[k], ss[n])
      BY <1>2
    <3> QED BY <3>1 DEF Nested, Yielding
  <2> QED BY <1>1, <1>3, <1>4, <2>1, <2>2, StaysFit
<1>6. Fit(tt[n], Level(tt, d, n + 1))
  BY DEF Level
<1>7. ASSUME NEW k \in 1 .. n, NEW i \in 1 .. k - 1 PROVE Nested(tt[i], tt[k])
  <2>1. Nested(ss[i], ss[k]) /\ i \in 1 .. n - 1 /\ Follows(ss[i], tt[i])
    BY <1>2
  <2>2. ss[k].h = tt[k].h
    BY <1>1
  <2>3. ss[i].h = "dialog" => ss[i].guard = Unarmed
    BY <2>1 DEF Nest, Fit
  <2> QED BY <2>1, <2>2, <2>3 DEF Nested, Follows, HalfWay
<1>8. ASSUME NEW k \in 1 .. n PROVE Grounded(tt, k)
  <2>1. Grounded(ss, k) /\ \A i \in 1 .. k - 1 : i \in 1 .. n - 1 /\ Follows(ss[i], tt[i])
    BY DEF Nest
  <2>2. tt[k].h = "accept" => \E i \in 1 .. k - 1 : tt[i].h = "dialog"
    BY <1>1, <2>1 DEF Grounded, Follows
  <2>3. ASSUME ~Whole(tt[k].entry) PROVE \E i \in 1 .. k - 1 : tt[i].pc = "error"
    <3>1. PICK i \in 1 .. k - 1 : ss[i].pc = "error"
      BY <1>1, <2>1, <2>3 DEF Grounded
    <3>2. ss[i].h = "accept"
      <4>1. Fit(ss[i], Level(ss, c, i + 1)) /\ Level(ss, c, i + 1) \in Creds /\ ss[i] \in Frames
        BY <1>1, <1>4, <2>1 DEF Nest
      <4> QED BY <3>1, <4>1, FitFacts
    <3> QED BY <2>1, <3>1, <3>2 DEF Follows
  <2>4. ASSUME tt[k].pc = "ask"
        PROVE  \E i \in 1 .. k - 1 : tt[i].h = "dialog" /\ tt[i].pc = "open"
    <3>1. ss[k].pc = "ask" /\ \A i \in 1 .. k - 1 : tt[i].pc = ss[i].pc
      BY <2>1, <2>4
    <3> QED BY <2>1, <3>1 DEF Grounded, Follows
  <2> QED BY <2>2, <2>3, <2>4 DEF Grounded
<1> QED BY <1>4, <1>5, <1>6, <1>7, <1>8 DEF Nest

\* A handler starts.
LEMMA NestPush ==
  ASSUME NEW ss \in Seq(Frames), NEW c, Nest(ss, c), NEW d \in Creds, NEW n \in Nat, Len(ss) = n,
         NEW f \in Frames, f.entry = c, Fit(f, d),
         \A k \in 1 .. n : Nested(ss[k], f),
         f.h = "accept" => \E i \in 1 .. n : ss[i].h = "dialog",
         f.pc = "ask" => \E i \in 1 .. n : ss[i].h = "dialog" /\ ss[i].pc = "open",
         ~Whole(c) => \E i \in 1 .. n : ss[i].pc = "error"
  PROVE  Nest(Append(ss, f), d)
<1> DEFINE tt == Append(ss, f)
<1>1. /\ tt \in Seq(Frames) /\ Len(tt) = n + 1 /\ tt[n + 1] = f
      /\ \A k \in 1 .. n : tt[k] = ss[k]
  BY AppendProperties
<1> HIDE DEF tt
<1>2. /\ \A k \in 1 .. n : Level(tt, d, k + 1) = Level(ss, c, k + 1)
      /\ Level(tt, d, n + 2) = d
      /\ Level(tt, d, 1) = Level(ss, c, 1)
  BY <1>1 DEF Level
<1>3. \A k \in 1 .. n + 1 : Fit(tt[k], Level(tt, d, k + 1))
  <2>1. \A k \in 1 .. n : Fit(tt[k], Level(tt, d, k + 1))
    BY <1>1, <1>2 DEF Nest
  <2> QED BY <1>1, <1>2, <2>1
<1>4. ASSUME NEW k \in 1 .. n + 1, NEW i \in 1 .. k - 1 PROVE Nested(tt[i], tt[k])
  BY <1>1 DEF Nest
<1>5. ASSUME NEW k \in 1 .. n + 1 PROVE Grounded(tt, k)
  <2>1. CASE k \in 1 .. n
    <3>1. Grounded(ss, k) /\ tt[k] = ss[k] /\ \A i \in 1 .. k - 1 : tt[i] = ss[i]
      BY <1>1, <2>1 DEF Nest
    <3> QED BY <3>1 DEF Grounded
  <2>2. CASE k = n + 1
    <3>1. k - 1 = n
      BY <2>2
    <3> QED BY <1>1, <2>2, <3>1 DEF Grounded
  <2> QED BY <2>1, <2>2
<1>6. Level(ss, c, 1) = home
  BY DEF Nest
<1> QED BY <1>1, <1>2, <1>3, <1>4, <1>5, <1>6 DEF Nest, tt

\* The innermost handler returns.
LEMMA NestPop ==
  ASSUME usr \in Ids, NEW ss \in Seq(Frames), NEW c, Nest(ss, c), ss # <<>>
  PROVE  Nest(Front(ss), Restore(c, ss[Len(ss)].guard))
<1> DEFINE n == Len(ss)
           tt == Front(ss)
           d == ss[n].entry
<1>1. /\ n \in Nat \ {0} /\ tt \in Seq(Frames) /\ Len(tt) = n - 1
      /\ \A k \in 1 .. n - 1 : tt[k] = ss[k]
  BY FrontProperties
<1>2. ss[n] \in Frames /\ Level(ss, c, n + 1) = c /\ Fit(ss[n], c)
  BY <1>1 DEF Nest, Level
<1>3. Restore(c, ss[n].guard) = d /\ d \in Creds
  BY <1>2, FitFacts DEF Nest, Frames
<1> HIDE DEF tt
<1>4. \A k \in 1 .. n : Level(tt, d, k) = Level(ss, c, k)
  BY <1>1 DEF Level
<1>5. Level(tt, d, 1) = home
  BY <1>1, <1>4 DEF Nest
<1>6. \A k \in 1 .. n - 1 : Fit(tt[k], Level(tt, d, k + 1))
  BY <1>1, <1>4 DEF Nest
<1>7. ASSUME NEW k \in 1 .. n - 1, NEW i \in 1 .. k - 1 PROVE Nested(tt[i], tt[k])
  <2>1. Nested(ss[i], ss[k]) /\ tt[i] = ss[i] /\ tt[k] = ss[k]
    BY <1>1 DEF Nest
  <2> QED BY <2>1
<1>8. ASSUME NEW k \in 1 .. n - 1 PROVE Grounded(tt, k)
  <2>1. Grounded(ss, k) /\ tt[k] = ss[k] /\ \A i \in 1 .. k - 1 : tt[i] = ss[i]
    BY <1>1 DEF Nest
  <2> QED BY <2>1 DEF Grounded
<1>9. Nest(tt, d)
  BY <1>1, <1>3, <1>5, <1>6, <1>7, <1>8 DEF Nest
<1> QED BY <1>3, <1>9 DEF tt

\* The process runs under whole credentials, unless an Accept() reports an error.
LEMMA WholeOrError ==
  ASSUME usr \in Ids, NEW ss \in Seq(Frames), NEW c, Nest(ss, c), NEW n \in Nat, Len(ss) = n,
         n > 0 => (HalfWay(ss[n].guard) => ss[n].pc = "error"), ~Whole(c)
  PROVE  \E i \in 1 .. n : ss[i].pc = "error"
<1>1. CASE n = 0
  <2>1. c = home
    BY <1>1 DEF Nest, Level
  <2> QED BY <2>1 DEF Whole
<1>2. CASE n > 0
  <2> DEFINE f == ss[n]
  <2>1. n \in 1 .. n /\ f \in Frames /\ Fit(f, c) /\ Grounded(ss, n)
    BY <1>2 DEF Nest, Level
  <2> HIDE DEF f
  <2>2. WellFormed(f.entry) /\ Holds(f.guard, f.entry, c, usr)
    BY <2>1 DEF Fit
  <2>3. \/ c = f.entry
        \/ f.entry.ruid = Root /\ usr # Root /\ c = ActingFor(usr, f.entry)
        \/ HalfWay(f.guard)
    BY <2>2, HoldsCases
  <2>4. ASSUME f.entry.ruid = Root, usr # Root, c = ActingFor(usr, f.entry)
        PROVE  ~Whole(f.entry)
    <3>1. f.entry # home
      BY <2>4 DEF Whole
    <3>2. f.entry # ActingFor(usr, home)
      <4>1. home \in Creds
        <5>1. ss[1] \in Frames /\ 1 <= Len(ss)
          BY <1>2
        <5> QED BY <5>1 DEF Nest, Level, Frames
      <4> QED BY <2>4, <4>1 DEF ActingFor, Creds
    <3> QED BY <3>1, <3>2 DEF Whole
  <2>5. CASE ~Whole(f.entry)
    BY <2>1, <2>5 DEF Grounded, f
  <2>6. CASE HalfWay(f.guard)
    BY <1>2, <2>1, <2>6 DEF f
  <2> QED BY <2>3, <2>4, <2>5, <2>6
<1> QED BY <1>1, <1>2
-----------------------------------------------------------------------------
(* Steps of the innermost handler.                                         *)

\* The innermost handler.
LEMMA TopFacts ==
  ASSUME IInv, stack # <<>>
  PROVE  /\ usr \in Ids /\ home \in Creds /\ cred \in Creds /\ stack \in Seq(Frames)
         /\ Len(stack) \in Nat \ {0} /\ Top = stack[Len(stack)] /\ Top \in Frames
         /\ Fit(Top, cred)
         /\ WellFormed(cred) /\ WellFormed(Top.entry) /\ Top.guard \in Guards
         /\ Holds(Top.guard, Top.entry, cred, usr)
         /\ Restore(cred, Top.guard) = Top.entry
         /\ Top.missed \subseteq behind
<1>1. /\ usr \in Ids /\ home \in Creds /\ cred \in Creds /\ stack \in Seq(Frames)
      /\ Nest(stack, cred) /\ Missed
  BY DEF IInv, Scalars, Nest
<1>2. Len(stack) \in Nat \ {0}
  BY <1>1
<1>3. Top = stack[Len(stack)] /\ Top \in Frames /\ Len(stack) \in 1 .. Len(stack)
  BY <1>1, <1>2 DEF Top, Last
<1>4. Fit(Top, cred)
  BY <1>2, <1>3 DEF IInv, Nest, Level
<1>5. Top.missed \subseteq behind
  BY <1>1, <1>3 DEF Missed
<1> QED BY <1>1, <1>2, <1>3, <1>4, <1>5, FitFacts DEF Fit

\* Nest is about usr and home, which no step changes.
LEMMA NestLater ==
  ASSUME UNCHANGED process, Nest(stack', cred')
  PROVE  Nest(stack, cred)'
BY DEF process, Nest, Level, Fit, Nested, Grounded, Whole

\* The innermost handler goes on; what it will do for the list it still will.
LEMMA TopStep ==
  ASSUME IInv, stack # <<>>, NEW g \in Frames, stack' = [stack EXCEPT ![Len(stack)] = g],
         UNCHANGED <<process, running, behind, excused, desktop>>,
         cred' \in Creds, tree' \in Pointers, Fit(g, cred'),
         g.h = Top.h, g.entry = Top.entry, g.missed = Top.missed,
         g.pc = "ask" => Top.pc = "ask",
         (tree' = tree /\ Top.pc # "populate") \/ g.pc = "populate",
         Top.pc \in {"refresh", "accepted"} => g.pc \in {"refresh", "accepted"},
         Top.pc \in {"lsblk", "findmnt"} => g.pc \in {"lsblk", "findmnt"}
  PROVE  IInv'
<1> DEFINE n == Len(stack)
<1>1. /\ usr \in Ids /\ stack \in Seq(Frames) /\ n \in Nat \ {0} /\ Top = stack[n]
      /\ Top \in Frames
  BY TopFacts
<1>2. /\ stack' \in Seq(Frames) /\ Len(stack') = n /\ stack'[n] = g
      /\ \A k \in 1 .. n - 1 : stack'[k] = stack[k]
      /\ \A k \in 1 .. n : stack[k] \in Frames
  BY <1>1
<1>3. Nest(stack', cred')
  <2>1. Nest(stack, cred) /\ \A k \in 1 .. n - 1 : Follows(stack[k], stack'[k])
    BY <1>2 DEF IInv, Nest, Fit, Follows
  <2>2. /\ stack'[n].h = stack[n].h /\ stack'[n].entry = stack[n].entry
        /\ Fit(stack'[n], cred')
        /\ \A k \in 1 .. n - 1 : stack'[k].pc = stack[k].pc
        /\ stack'[n].pc = "ask" => stack[n].pc = "ask"
    BY <1>1, <1>2
  <2> QED BY <1>1, <1>2, <2>1, <2>2, NestTop
<1>4. Nest(stack, cred)'
  BY <1>3, NestLater
<1>5. Scalars'
  BY DEF IInv, Scalars, process, desktop
<1>6. \A k \in 1 .. n : stack'[k].h = stack[k].h /\ stack'[k].missed = stack[k].missed
  BY <1>1, <1>2
<1>7. Flags'
  <2>1. \A h : (\E k \in 1 .. n : stack'[k].h = h) <=> (\E k \in 1 .. n : stack[k].h = h)
    BY <1>6
  <2>2. \A h \in Guarded : running[h] <=> \E k \in 1 .. n : stack[k].h = h
    BY DEF IInv, Flags
  <2>3. \A h \in Guarded : running'[h] <=> \E k \in 1 .. n : stack'[k].h = h
    BY <2>1, <2>2
  <2> QED BY <1>2, <2>3 DEF Flags
<1>8. Missed'
  BY <1>2, <1>6 DEF IInv, Missed
<1>9. Treed'
  <2>1. stack' # <<>> /\ Top' = g
    BY <1>1, <1>2 DEF Top, Last
  <2>2. tree = "live" \/ Top.pc = "populate"
    BY DEF IInv, Treed
  <2> QED BY <2>1, <2>2 DEF Treed
<1>10. Awaited'
  <2>1. CASE Pending
    <3>1. ASSUME NEW k \in 1 .. n, stack[k].pc \in {"refresh", "accepted"}
          PROVE  stack'[k].pc \in {"refresh", "accepted"}
      BY <1>1, <1>2, <3>1
    <3>2. Pending'
      BY <1>2, <2>1, <3>1 DEF Pending, desktop
    <3> QED BY <3>2 DEF Awaited
  <2>2. CASE \A c \in behind \ excused : \E k \in 1 .. n : WillScan(stack[k], c)
    <3>1. \A k \in 1 .. n : \A c : WillScan(stack[k], c) => WillScan(stack'[k], c)
      BY <1>1, <1>2, <1>6 DEF WillScan
    <3>2. \A c \in behind' \ excused' : \E k \in 1 .. Len(stack') : WillScan(stack'[k], c)
      BY <1>2, <2>2, <3>1
    <3> QED BY <3>2 DEF Awaited, WillScan
  <2> QED BY <2>1, <2>2 DEF IInv, Awaited
<1> QED BY <1>4, <1>5, <1>7, <1>8, <1>9, <1>10 DEF IInv

\* Nothing happens to the handlers.
LEMMA StillStep ==
  ASSUME IInv, UNCHANGED <<process, cred, stack, running, tree, behind, excused>>, Scalars',
         ~acc' \/ (posted \cap {"show", "dev"} \subseteq posted' /\ (~acc => ~acc'))
  PROVE  IInv'
<1>1. Nest(stack, cred)'
  BY NestLater DEF IInv
<1>2. Flags' /\ Treed' /\ Missed'
  BY DEF IInv, Flags, Treed, Missed, Top, Last
<1>3. Pending => Pending'
  BY DEF Pending
<1>4. Awaited'
  BY <1>3 DEF IInv, Awaited, WillScan, Pending
<1> QED BY <1>1, <1>2, <1>4 DEF IInv

\* A handler is entered, on a click or from the dialog.
LEMMA PushStep ==
  ASSUME IInv, Dispatching, ~Asking, NEW f \in Frames, Enter(f), f.entry = cred,
         cred' \in Creds, Fit(f, cred'), f.missed = {},
         UNCHANGED <<process, tree, behind, excused, desktop>>,
         f.h \in Guarded => ~running[f.h], f.h = "dialog" => ~DialogOpen,
         f.h = "accept" => DialogOpen
  PROVE  IInv'
<1> DEFINE n == Len(stack)
<1>1. /\ usr \in Ids /\ stack \in Seq(Frames) /\ n \in Nat /\ cred \in Creds
      /\ Nest(stack, cred) /\ Flags /\ DOMAIN stack = 1 .. n
      /\ running \in [Guarded -> BOOLEAN]
  <2>1. stack \in Seq(Frames) /\ cred \in Creds /\ Nest(stack, cred)
    BY DEF IInv, Nest
  <2> QED BY <2>1 DEF IInv, Scalars
<1>2. /\ stack' = Append(stack, f) /\ stack' \in Seq(Frames) /\ Len(stack') = n + 1
      /\ stack'[n + 1] = f /\ \A k \in 1 .. n : stack'[k] = stack[k]
  BY <1>1, AppendProperties DEF Enter
<1>3. ASSUME NEW k \in 1 .. n
      PROVE  /\ stack[k].pc \in Yielding \cup {"leave", "accepted", "rejected"}
             /\ stack[k].pc \notin {"ask", "error"}
             /\ ~HalfWay(stack[k].guard)
             /\ stack[k].pc = "open" => stack[k].h = "dialog"
  <2>1. n \in 1 .. n /\ stack # <<>> /\ stack[k] \in Frames
    BY <1>1
  <2>2. stack[k].pc \notin {"ask", "error"}
    BY <1>1 DEF Asking
  <2>3. Fit(stack[k], Level(stack, cred, k + 1)) /\ Level(stack, cred, k + 1) \in Creds
    <3>1. k + 1 <= n => stack[k + 1] \in Frames
      BY <1>1
    <3> QED BY <1>1, <3>1 DEF Nest, Level, Frames
  <2>4. stack[k].pc = "open" => stack[k].h = "dialog"
    BY <1>1, <2>1, <2>3, FitFacts
  <2>5. CASE k = n
    <3>1. Top = stack[n]
      BY <2>1, TopFacts
    <3>2. stack[k].pc \in Yielding
      BY <2>1, <2>5, <3>1 DEF Dispatching
    <3> QED BY <2>2, <2>3, <2>4, <3>2 DEF Fit, Yielding
  <2>6. CASE k # n
    <3>1. k \in 1 .. n - 1
      BY <2>6
    <3>2. Nested(stack[k], stack[n])
      BY <1>1, <2>1, <3>1 DEF Nest
    <3> QED BY <2>2, <2>4, <3>2 DEF Nested
  <2> QED BY <2>5, <2>6
<1>4. \A k \in 1 .. n : Nested(stack[k], f)
  <2> TAKE k \in 1 .. n
  <2>1. f.h \in Guarded => stack[k].h # f.h
    BY <1>1 DEF Flags
  <2>2. f.h = "dialog" => stack[k].pc # "open"
    BY <1>1 DEF DialogOpen
  <2> QED BY <1>3, <2>1, <2>2 DEF Nested
<1>5. DialogOpen => \E i \in 1 .. n : stack[i].h = "dialog" /\ stack[i].pc = "open"
  BY <1>1, <1>3 DEF DialogOpen
<1>6. f.pc = "ask" => f.h = "accept"
  BY <1>1, FitFacts
<1>7. ~Whole(cred) => \E i \in 1 .. n : stack[i].pc = "error"
  BY <1>1, <1>3, WholeOrError
<1>8. Nest(stack', cred')
  BY <1>1, <1>2, <1>4, <1>5, <1>6, <1>7, NestPush
<1>9. Nest(stack, cred)'
  BY <1>8, NestLater
<1>10. Scalars'
  BY <1>1 DEF IInv, Scalars, process, desktop, Enter
<1>11. Flags'
  <2> SUFFICES ASSUME NEW h \in Guarded
               PROVE  running'[h] <=> \E k \in 1 .. n + 1 : stack'[k].h = h
    BY <1>2 DEF Flags
  <2>1. running[h] <=> \E k \in 1 .. n : stack[k].h = h
    BY <1>1 DEF Flags
  <2>2. CASE h = f.h
    BY <1>1, <1>2, <2>2 DEF Enter
  <2>3. CASE h # f.h
    <3>1. running'[h] = running[h]
      BY <1>1, <2>3 DEF Enter
    <3> QED BY <1>2, <2>1, <2>3, <3>1
  <2> QED BY <2>2, <2>3
<1>12. Treed'
  <2>1. tree = "live"
    BY DEF IInv, Treed, Dispatching, Yielding
  <2> QED BY <2>1 DEF Treed
<1>13. Missed'
  BY <1>2 DEF IInv, Missed
<1>14. Awaited'
  <2>1. CASE Pending
    <3>1. Pending'
      BY <1>2, <2>1 DEF Pending, desktop
    <3> QED BY <3>1 DEF Awaited
  <2>2. CASE \A c \in behind \ excused : \E k \in 1 .. n : WillScan(stack[k], c)
    <3>1. \A c \in behind' \ excused' : \E k \in 1 .. n + 1 : WillScan(stack'[k], c)
      BY <1>2, <2>2
    <3> QED BY <1>2, <3>1 DEF Awaited, WillScan
  <2> QED BY <2>1, <2>2 DEF IInv, Awaited
<1> QED BY <1>9, <1>10, <1>11, <1>12, <1>13, <1>14 DEF IInv

\* A handler that does not wait with a guard that got stuck returns.
LEMMA PopStep ==
  ASSUME IInv, stack # <<>>, Return, UNCHANGED <<process, behind, excused, desktop>>,
         Top.pc \in {"populate", "leave"}, Top.pc = "leave" => tree' = tree,
         Top.pc = "populate" => tree' = "live"
  PROVE  IInv'
<1> DEFINE n == Len(stack)
<1>1. /\ usr \in Ids /\ stack \in Seq(Frames) /\ n \in Nat \ {0} /\ Top = stack[n]
      /\ Top \in Frames /\ Nest(stack, cred) /\ running \in [Guarded -> BOOLEAN]
  BY TopFacts DEF IInv, Scalars
<1>2. /\ stack' = Front(stack) /\ stack' \in Seq(Frames) /\ Len(stack') = n - 1
      /\ \A k \in 1 .. n - 1 : stack'[k] = stack[k]
  BY <1>1, FrontProperties DEF Return
<1>3. Nest(stack', cred')
  BY <1>1, <1>2, NestPop DEF Return
<1>4. Nest(stack, cred)'
  BY <1>3, NestLater
<1>5. Scalars'
  BY <1>1 DEF IInv, Scalars, process, desktop, Return, Pointers
<1>6. Flags'
  <2> SUFFICES ASSUME NEW h \in Guarded
               PROVE  running'[h] <=> \E k \in 1 .. n - 1 : stack'[k].h = h
    BY <1>2 DEF Flags
  <2>1. running[h] <=> \E k \in 1 .. n : stack[k].h = h
    BY DEF IInv, Flags
  <2>2. CASE h = Top.h
    <3>1. ASSUME NEW k \in 1 .. n - 1 PROVE stack[k].h # h
      <4>1. Nested(stack[k], stack[n])
        BY <1>1 DEF Nest
      <4> QED BY <1>1, <2>2, <4>1 DEF Nested
    <3> QED BY <1>1, <1>2, <2>2, <3>1 DEF Return
  <2>3. CASE h # Top.h
    <3>1. running'[h] = running[h]
      BY <1>1, <2>3 DEF Return
    <3>2. ASSUME NEW k \in 1 .. n, stack[k].h = h PROVE k \in 1 .. n - 1
      BY <1>1, <2>3, <3>2
    <3>3. \A k \in 1 .. n - 1 : k \in 1 .. n /\ stack'[k].h = stack[k].h
      BY <1>1, <1>2
    <3> QED BY <2>1, <3>1, <3>2, <3>3
  <2> QED BY <2>2, <2>3
<1>7. Treed'
  <2>1. tree' = "live"
    BY DEF IInv, Treed
  <2> QED BY <2>1 DEF Treed
<1>8. Missed'
  BY <1>2 DEF IInv, Missed
<1>9. Awaited'
  <2>1. CASE Pending
    <3>1. ASSUME NEW k \in 1 .. n, stack[k].pc \in {"refresh", "accepted"}
          PROVE  k \in 1 .. n - 1 /\ stack'[k] = stack[k]
      BY <1>1, <1>2, <3>1
    <3>2. Pending'
      BY <1>2, <2>1, <3>1 DEF Pending, desktop
    <3> QED BY <3>2 DEF Awaited
  <2>2. CASE \A c \in behind \ excused : \E k \in 1 .. n : WillScan(stack[k], c)
    <3>1. ASSUME NEW k \in 1 .. n, NEW c, WillScan(stack[k], c)
          PROVE  k \in 1 .. n - 1 /\ stack'[k] = stack[k]
      BY <1>1, <1>2, <3>1 DEF WillScan
    <3>2. \A c \in behind' \ excused' : \E k \in 1 .. n - 1 : WillScan(stack'[k], c)
      BY <2>2, <3>1
    <3> QED BY <1>2, <3>2 DEF Awaited, WillScan
  <2> QED BY <2>1, <2>2 DEF IInv, Awaited
<1> QED BY <1>4, <1>5, <1>6, <1>7, <1>8, <1>9 DEF IInv
-----------------------------------------------------------------------------
(* OnActionRefresh().                                                      *)

\* The pointers into system_db dangle.
LEMMA NestUnits ==
  ASSUME usr \in Ids, NEW s \in Seq(Frames), NEW n \in Nat, Len(s) = n, Nest(s, cred),
         n > 0 => s[n].pc \notin {"mkdir", "decide"}
  PROVE  /\ Nest(UnitsReplaced(s), cred)
         /\ UnitsReplaced(s) \in Seq(Frames) /\ Len(UnitsReplaced(s)) = n
         /\ \A k \in 1 .. n :
              \E m \in Pointers : UnitsReplaced(s)[k] = [s[k] EXCEPT !.mu = m]
<1> DEFINE tt == UnitsReplaced(s)
<1>1. DOMAIN s = 1 .. n /\ \A k \in 1 .. n : s[k] \in Frames
  OBVIOUS
<1>2. \A k \in 1 .. n : Dangle(s[k]).mu \in Pointers
  BY <1>1 DEF Dangle, Frames, Pointers
<1>3. \A k \in 1 .. n : tt[k] = [s[k] EXCEPT !.mu = Dangle(s[k]).mu]
  BY <1>1 DEF UnitsReplaced
<1>4. ASSUME NEW k \in 1 .. n PROVE tt[k] \in Frames
  <2>1. s[k] \in Frames /\ Dangle(s[k]).mu \in Pointers
    BY <1>1, <1>2
  <2> HIDE DEF tt
  <2> QED BY <1>3, <2>1 DEF Frames
<1>5. DOMAIN tt = 1 .. n /\ tt = [i \in 1 .. n |-> tt[i]]
  BY <1>1 DEF UnitsReplaced
<1> HIDE DEF tt
<1>6. tt \in Seq(Frames) /\ Len(tt) = n
  BY <1>4, <1>5
<1>7. \A k \in 1 .. n : \E m \in Pointers : tt[k] = [s[k] EXCEPT !.mu = m]
  BY <1>2, <1>3
<1>8. /\ \A k \in 1 .. n : tt[k].pc = s[k].pc /\ tt[k].h = s[k].h /\ tt[k].entry = s[k].entry
      /\ \A k \in 1 .. n : Follows(s[k], tt[k])
  <2> SUFFICES ASSUME NEW k \in 1 .. n
               PROVE  /\ tt[k].pc = s[k].pc /\ tt[k].h = s[k].h /\ tt[k].entry = s[k].entry
                      /\ Follows(s[k], tt[k])
    OBVIOUS
  <2>1. PICK m \in Pointers : tt[k] = [s[k] EXCEPT !.mu = m]
    BY <1>7
  <2>2. s[k] \in Frames /\ s[k].missed \subseteq Scanned
        /\ (s[k].missed # {} => s[k].pc \in {"lsblk", "findmnt"})
    BY <1>1 DEF Nest, Fit
  <2> QED BY <2>1, <2>2 DEF Follows, Frames
<1>9. CASE n > 0
  <2>1. n \in 1 .. n /\ cred \in Creds /\ Fit(s[n], cred)
    BY <1>9 DEF Nest, Level
  <2>2. Fit(tt[n], cred)
    BY <1>1, <1>4, <1>8, <1>9, <2>1, StaysFit
  <2>3. Nest(tt, cred)
    BY <1>6, <1>8, <1>9, <2>1, <2>2, NestTop
  <2> QED BY <1>6, <1>7, <2>3 DEF tt
<1>10. CASE n = 0
  <2>1. tt = s
    BY <1>6, <1>10
  <2> QED BY <1>6, <1>7, <2>1 DEF tt
<1> QED BY <1>9, <1>10

\* OnActionRefresh() is called by s: it returns, or starts to scan; either way
\* all that has changed will be scanned, or is excused.
LEMMA RefreshNest ==
  ASSUME IInv, NEW s \in Seq(Frames), NEW n \in Nat, Len(s) = n, Nest(s, cred),
         n > 0 => /\ s[n].pc \in Yielding \cup {"leave"}
                  /\ HalfWay(s[n].guard) => s[n].pc = "error",
         running["refresh"] <=> \E k \in 1 .. n : s[k].h = "refresh",
         \A h \in Guarded \ {"refresh"} : running[h] <=> \E k \in 1 .. n : s[k].h = h,
         \A k \in 1 .. n : s[k].missed \subseteq behind,
         RefreshCalled(s), UNCHANGED <<process, cred>>
  PROVE  /\ Nest(stack, cred)' /\ Flags' /\ Missed'
         /\ running' \in [Guarded -> BOOLEAN]
         /\ behind' \subseteq Changes /\ excused' \subseteq Changes
         /\ \A c \in behind' \ excused' : \E k \in 1 .. Len(stack') : WillScan(stack'[k], c)
<1> DEFINE f == NewFrame("refresh", "lsblk")
<1>1. /\ usr \in Ids /\ cred \in Creds /\ behind \subseteq Changes /\ excused \subseteq Changes
      /\ running \in [Guarded -> BOOLEAN]
      /\ DOMAIN s = 1 .. n /\ \A k \in 1 .. n : s[k] \in Frames
  BY DEF IInv, Scalars, Nest
<1>2. CASE running["refresh"]
  <2>1. stack' = s /\ UNCHANGED <<running, behind>> /\ excused' = excused \cup behind
    BY <1>2 DEF RefreshCalled
  <2>2. Nest(stack, cred)'
    BY <2>1, NestLater
  <2>3. Flags' /\ Missed'
    BY <1>2, <2>1 DEF Flags, Missed
  <2> QED BY <1>1, <2>1, <2>2, <2>3
<1>3. CASE ~running["refresh"]
  <2>1. PICK t \in {s, UnitsReplaced(s)} :
          /\ stack' = Append(t, f) /\ running' = [running EXCEPT !["refresh"] = TRUE]
          /\ behind' \in {behind, behind \ {"units"}}
          /\ excused' \in SUBSET Changes
          /\ "units" \notin behind' \ excused'
    BY <1>1, <1>3 DEF RefreshCalled
  <2>2. n > 0 => s[n].pc \notin {"mkdir", "decide"}
    BY DEF Yielding
  <2>3. /\ Nest(t, cred) /\ t \in Seq(Frames) /\ Len(t) = n
        /\ \A k \in 1 .. n : /\ t[k].h = s[k].h /\ t[k].pc = s[k].pc
                            /\ t[k].guard = s[k].guard /\ t[k].missed = s[k].missed
    <3>1. CASE t = s
      BY <3>1
    <3>2. CASE t = UnitsReplaced(s)
      <4>1. /\ Nest(t, cred) /\ t \in Seq(Frames) /\ Len(t) = n
            /\ \A k \in 1 .. n : \E m \in Pointers : t[k] = [s[k] EXCEPT !.mu = m]
        BY <1>1, <2>2, <3>2, NestUnits
      <4>2. ASSUME NEW k \in 1 .. n
            PROVE  /\ t[k].h = s[k].h /\ t[k].pc = s[k].pc
                   /\ t[k].guard = s[k].guard /\ t[k].missed = s[k].missed
        <5>1. PICK m \in Pointers : t[k] = [s[k] EXCEPT !.mu = m]
          BY <4>1
        <5> QED BY <1>1, <5>1 DEF Frames
      <4> QED BY <4>1, <4>2
    <3> QED BY <3>1, <3>2
  <2>4. /\ f \in Frames /\ f.entry = cred /\ f.h = "refresh" /\ f.pc = "lsblk" /\ f.missed = {}
    BY <1>1 DEF NewFrame, Frames, Handlers, Guarded, Places, Yielding, AllRequests, NoRequest,
                Pointers, Commands, NoCommand, Guards, Unarmed
  <2>5. Fit(f, cred)
    <3>1. WellFormed(cred)
      <4>1. n > 0 => Fit(s[n], cred) /\ s[n] \in Frames
        BY <1>1 DEF Nest, Level
      <4>2. n = 0 => cred = home
        BY DEF Nest, Level
      <4> QED BY <1>1, <4>1, <4>2, FitFacts DEF IInv, Scalars
    <3> QED BY <3>1 DEF NewFrame, Fit, PlacesOf, Holds, HalfWay
  <2> HIDE DEF f
  <2>6. ASSUME NEW k \in 1 .. n PROVE Nested(t[k], f)
    <3>1. t[k].pc \in Yielding \cup {"leave", "accepted", "rejected"}
          /\ (HalfWay(t[k].guard) => t[k].pc = "error")
      <4>1. CASE k = n
        <5>1. Fit(s[n], cred)
          BY <4>1 DEF Nest, Level
        <5> QED BY <2>3, <4>1, <5>1 DEF Yielding, Fit
      <4>2. CASE k # n
        <5>1. n \in 1 .. n /\ k \in 1 .. n - 1
          BY <4>2
        <5>2. Nested(t[k], t[n])
          BY <2>3, <5>1 DEF Nest
        <5> QED BY <5>2 DEF Nested
      <4> QED BY <4>1, <4>2
    <3> QED BY <1>3, <2>3, <2>4, <3>1 DEF Nested
  <2>7. ~Whole(cred) => \E i \in 1 .. n : t[i].pc = "error"
    <3>1. n > 0 => (HalfWay(t[n].guard) => t[n].pc = "error")
      BY <2>3, <2>6 DEF Nested
    <3> QED BY <1>1, <2>3, <3>1, WholeOrError
  <2>8. /\ stack' \in Seq(Frames) /\ Len(stack') = n + 1 /\ stack'[n + 1] = f
        /\ \A k \in 1 .. n : stack'[k] = t[k]
    BY <2>1, <2>3, <2>4, AppendProperties
  <2>9. Nest(stack, cred)'
    <3>1. Nest(Append(t, f), cred)
      BY <1>1, <2>3, <2>4, <2>5, <2>6, <2>7, NestPush
    <3> QED BY <2>1, <3>1, NestLater
  <2>10. Flags'
    <3> SUFFICES ASSUME NEW h \in Guarded
                 PROVE  running'[h] <=> \E k \in 1 .. n + 1 : stack'[k].h = h
      BY <2>8 DEF Flags
    <3>1. CASE h = "refresh"
      BY <1>1, <2>1, <2>4, <2>8, <3>1
    <3>2. CASE h # "refresh"
      <4>1. running'[h] = running[h]
        BY <1>1, <2>1, <3>2
      <4>2. running[h] <=> \E k \in 1 .. n : stack'[k].h = h
        BY <2>3, <2>8, <3>2
      <4> QED BY <2>4, <2>8, <3>2, <4>1, <4>2
    <3> QED BY <3>1, <3>2
  <2>11. Missed'
    <3> SUFFICES ASSUME NEW k \in 1 .. n + 1 PROVE stack'[k].missed \subseteq behind'
      BY <2>8 DEF Missed
    <3>1. CASE k = n + 1
      BY <2>4, <2>8, <3>1
    <3>2. CASE k \in 1 .. n
      <4>1. stack'[k].missed \subseteq behind
        BY <2>3, <2>8, <3>2
      <4>2. stack'[k].missed \subseteq Scanned
        BY <2>3, <2>8, <3>2 DEF Nest, Fit
      <4> QED BY <2>1, <4>1, <4>2 DEF Scanned
    <3> QED BY <3>1, <3>2
  <2>12. \A c \in behind' \ excused' : \E k \in 1 .. n + 1 : WillScan(stack'[k], c)
    <3>1. behind' \ excused' \subseteq Scanned /\ behind' \subseteq Changes
      BY <1>1, <2>1 DEF Changes, Scanned
    <3>2. \A c \in Scanned : WillScan(f, c)
      BY <2>4 DEF WillScan
    <3> QED BY <2>8, <3>1, <3>2
  <2>13. behind' \subseteq Changes /\ running' \in [Guarded -> BOOLEAN]
    BY <1>1, <2>1
  <2> QED BY <2>1, <2>8, <2>9, <2>10, <2>11, <2>12, <2>13
<1> QED BY <1>2, <1>3

-----------------------------------------------------------------------------
(* The actions.                                                            *)

\* The innermost handler can go to p with the credentials it has.
MayGo(p) ==
  /\ p \in Places /\ p \in PlacesOf(Top.h) /\ p \notin {"ask", "run"}
  /\ HalfWay(Top.guard) => p \in {"leave", "error"}
  /\ p \in {"mkdir", "install", "decide"} => Top.pc \in {"mkdir", "install", "decide"}
  /\ p = "install" => cred.ruid # Root
  /\ p \in {"mkdir", "decide"} /\ cred.ruid = Root => Top.pc \in {"mkdir", "decide"}
  /\ Top.pc \in {"refresh", "accepted"} => p \in {"refresh", "accepted"}
  /\ Top.pc \in {"lsblk", "findmnt"} => p \in {"lsblk", "findmnt"}
  /\ Top.pc # "populate"

\* A step of the innermost handler that leaves the credentials alone.
LEMMA GoStep ==
  ASSUME IInv, stack # <<>>, NEW p, MayGo(p), NEW c \in Commands,
         stack' = [stack EXCEPT ![Len(stack)] = [@ EXCEPT !.pc = p, !.cmd = c]],
         UNCHANGED <<process, cred, running, behind, excused, desktop>>,
         tree' \in Pointers, tree' = tree \/ p = "populate"
  PROVE  IInv'
<1> DEFINE g == [Top EXCEPT !.pc = p, !.cmd = c]
<1>1. /\ Top \in Frames /\ Fit(Top, cred) /\ Top = stack[Len(stack)] /\ cred \in Creds
      /\ stack \in Seq(Frames) /\ Len(stack) \in Nat \ {0}
  BY TopFacts
<1>2. /\ g \in Frames /\ g.h = Top.h /\ g.entry = Top.entry /\ g.missed = Top.missed
      /\ g.pc = p /\ g.guard = Top.guard /\ g.req = Top.req /\ g.dev = Top.dev
      /\ g.mu = Top.mu
  BY <1>1 DEF Frames, MayGo
<1>3. stack' = [stack EXCEPT ![Len(stack)] = g]
  BY <1>1
<1> HIDE DEF g
<1>4. Fit(g, cred') /\ cred' \in Creds
  BY <1>1, <1>2 DEF Fit, MayGo
<1> QED BY <1>1, <1>2, <1>3, <1>4, TopStep DEF MayGo

\* Only pc changes.
LEMMA GotoStep ==
  ASSUME IInv, stack # <<>>, NEW p, MayGo(p), Goto(p),
         UNCHANGED <<process, cred, running, behind, excused, desktop>>,
         tree' \in Pointers, tree' = tree \/ p = "populate"
  PROVE  IInv'
<1>1. /\ Top \in Frames /\ Top = stack[Len(stack)]
      /\ stack \in Seq(Frames) /\ Len(stack) \in Nat \ {0}
  BY TopFacts
<1>2. Top.cmd \in Commands
  BY <1>1 DEF Frames
<1>3. [Top EXCEPT !.pc = p] = [Top EXCEPT !.pc = p, !.cmd = Top.cmd]
  BY <1>1 DEF Frames
<1>4. stack' = [stack EXCEPT ![Len(stack)] = [@ EXCEPT !.pc = p, !.cmd = Top.cmd]]
  BY <1>1, <1>3 DEF Goto
<1> QED BY <1>2, <1>4, GoStep

\* Steps that go on to another place, as far as they do not touch main_dev_map.
LEMMA GoingOn ==
  ASSUME IInv,
         \/ NetScanEnds \/ WalkEnds \/ InstallDirectory \/ InstallEnds
         \/ AnswerYes \/ DismissError \/ DialogReturns
  PROVE  IInv'
<1>1. /\ stack # <<>> /\ Fit(Top, cred)
      /\ tree' \in Pointers /\ (tree' = tree \/ NetScanEnds)
  <2>1. stack # <<>>
    BY DEF NetScanEnds, WalkEnds, InstallDirectory, InstallEnds, AnswerYes, DismissError,
           DialogReturns, At
  <2>2. tree \in Pointers /\ tree' \in {tree, "dangling"} /\ (tree' = tree \/ NetScanEnds)
    BY DEF NetScanEnds, WalkEnds, InstallDirectory, InstallEnds, AnswerYes, DismissError,
           DialogReturns, IInv, Scalars
  <2> QED BY <2>1, <2>2, TopFacts DEF Pointers
<1>2. UNCHANGED <<process, cred, running, behind, excused, desktop>>
  BY DEF NetScanEnds, WalkEnds, InstallDirectory, InstallEnds, AnswerYes, DismissError,
         DialogReturns
<1>3. CASE NetScanEnds
  <2>1. MayGo("populate") /\ Goto("populate")
    BY <1>1, <1>3 DEF NetScanEnds, At, MayGo, PlacesOf, Places, Yielding, Fit
  <2> QED BY <1>1, <1>2, <2>1, GotoStep
<1>4. CASE WalkEnds
  <2>1. PICK p \in {"decide", "leave"} : Goto(p)
    BY <1>4 DEF WalkEnds
  <2>2. MayGo(p) /\ tree' = tree
    BY <1>1, <1>4 DEF WalkEnds, At, MayGo, PlacesOf, Places, Yielding, Fit
  <2> QED BY <1>1, <1>2, <2>1, <2>2, GotoStep
<1>5. CASE InstallDirectory
  <2> DEFINE c == [tool |-> "install", sudo |-> TRUE, fresh |-> TRUE]
  <2>1. MayGo("install") /\ tree' = tree
    BY <1>1, <1>5 DEF InstallDirectory, At, MayGo, PlacesOf, Places, Yielding, Fit
  <2>2. c \in Commands
    BY DEF Commands, Tools
  <2>3. stack' = [stack EXCEPT ![Len(stack)] = [@ EXCEPT !.pc = "install", !.cmd = c]]
    BY <1>1, <1>5, TopFacts DEF InstallDirectory
  <2> HIDE DEF c
  <2> QED BY <1>1, <1>2, <2>1, <2>2, <2>3, GoStep
<1>6. CASE InstallEnds
  <2>1. PICK p \in {"mkdir", "leave"} :
          stack' = [stack EXCEPT ![Len(stack)].pc = p, ![Len(stack)].cmd = NoCommand]
    BY <1>6 DEF InstallEnds
  <2>2. MayGo(p) /\ tree' = tree
    BY <1>1, <1>6 DEF InstallEnds, At, MayGo, PlacesOf, Places, Yielding, Fit
  <2>3. NoCommand \in Commands
    BY DEF Commands, NoCommand
  <2>4. stack' = [stack EXCEPT ![Len(stack)] = [@ EXCEPT !.pc = p, !.cmd = NoCommand]]
    BY <1>1, <2>1, TopFacts
  <2> QED BY <1>1, <1>2, <2>2, <2>3, <2>4, GoStep
<1>7. CASE AnswerYes
  <2>1. MayGo("write") /\ Goto("write") /\ tree' = tree
    BY <1>1, <1>7 DEF AnswerYes, At, MayGo, PlacesOf, Places, Yielding, Fit
  <2> QED BY <1>1, <1>2, <2>1, GotoStep
<1>8. CASE DismissError
  <2>1. MayGo("leave") /\ Goto("leave") /\ tree' = tree
    BY <1>1, <1>8 DEF DismissError, At, MayGo, PlacesOf, Places, Yielding, Fit
  <2> QED BY <1>1, <1>2, <2>1, GotoStep
<1>9. CASE DialogReturns
  <2>1. PICK p \in {"refresh", "leave"} :
          Goto(p) /\ At("dialog", IF p = "refresh" THEN "accepted" ELSE "rejected")
    BY <1>9 DEF DialogReturns
  <2>2. MayGo(p) /\ tree' = tree
    BY <1>1, <1>9, <2>1 DEF DialogReturns, At, MayGo, PlacesOf, Places, Yielding, Fit
  <2> QED BY <1>1, <1>2, <2>1, <2>2, GotoStep
<1> QED BY <1>3, <1>4, <1>5, <1>6, <1>7, <1>8, <1>9

\* When drop_if_feasible() leaves the process root's, it did nothing.
LEMMA StillRoot ==
  ASSUME NEW c \in Creds, NEW u \in Ids, NEW g, NEW o \in DropIfFeasible(c, u, g), o.ok,
         o.cred.ruid = Root
  PROVE  o.cred = c
<1>1. CASE c.ruid # Root \/ u = Root
  BY <1>1 DEF DropIfFeasible
<1>2. CASE c.ruid = Root /\ u # Root
  <2>1. o.cred = SetUid(SetGid(SetGroups(c, u), u), u)
    BY <1>2 DEF DropIfFeasible, DropOutcomes
  <2> QED BY <1>2, <2>1 DEF SetUid, SetGid, SetGroups, Creds
<1> QED BY <1>1, <1>2

\* When nothing has to be dropped.
LEMMA KeptFacts ==
  ASSUME NEW g, NEW o, o \in Kept(g)
  PROVE  o.ok = TRUE /\ o.cred = cred /\ o.guard = g
BY DEF Kept

\* What frames are filled with.
LEMMA Fillings ==
  /\ Unarmed \in Guards /\ ~HalfWay(Unarmed)
  /\ NoCommand \in Commands /\ NoRequest \in AllRequests
  /\ {"run", "refresh", "leave", "error", "accepted", "rejected"} \subseteq Places
  /\ \A b \in BOOLEAN : Pointer(b) \in Pointers
BY DEF Guards, Unarmed, HalfWay, Commands, NoCommand, AllRequests, NoRequest, Places, Yielding,
       Pointer, Pointers

\* mount() drops the privileges, if it must, and starts its command.
LEMMA Deciding == ASSUME IInv, MountDecides PROVE IInv'
<1>1. /\ stack # <<>> /\ Top.h = "mount" /\ Top.pc = "decide"
      /\ UNCHANGED <<process, running, tree, behind, excused, desktop>>
  BY DEF MountDecides, At
<1>2. /\ usr \in Ids /\ cred \in Creds /\ stack \in Seq(Frames) /\ Len(stack) \in Nat \ {0}
      /\ Top = stack[Len(stack)] /\ Top \in Frames /\ Fit(Top, cred)
      /\ WellFormed(Top.entry) /\ Holds(Top.guard, Top.entry, cred, usr)
      /\ tree \in Pointers /\ settings \in AllSettings
  BY <1>1, TopFacts DEF IInv, Scalars
<1> DEFINE uid0 == Top.entry.ruid
           tool(mapped) == MountTool(Top.req, uid0, settings, mapped)
           cmd(o, mapped) == [tool |-> tool(mapped),
                              sudo |-> MountSudo(Top.req, uid0, o.cred.ruid, settings),
                              fresh |-> /\ tool(mapped) = "mtpfs" => Top.dev = "live"
                                        /\ tool(mapped) = "systemctl" => Top.mu = "live"]
           g(o, mapped, starts) ==
             [stack[Len(stack)] EXCEPT !.guard = o.guard, !.dev = "none", !.mu = "none",
                                       !.pc = IF starts THEN "run" ELSE "leave",
                                       !.cmd = IF starts THEN cmd(o, mapped) ELSE NoCommand]
<1>4. Top.req \in Requests /\ Top.req \in AllRequests /\ Top.req.tl # "reject"
      /\ ~HalfWay(Top.guard)
      /\ (Top.req.mtp => Top.req.listed)
  BY <1>1, <1>2, RequestsAssumption DEF Fit, WellFormedRequest
<1>3. PICK o \in IF DropPriv(Top.req, uid0)
                 THEN DropIfFeasible(cred, usr, Top.guard) ELSE Kept(Top.guard),
           mapped \in BOOLEAN, starts \in BOOLEAN :
          /\ starts => o.ok
          /\ cred' = o.cred
          /\ stack' = [stack EXCEPT ![Len(stack)] = g(o, mapped, starts)]
  <2>1. PICK o \in IF DropPriv(Top.req, uid0)
                   THEN DropIfFeasible(cred, usr, Top.guard) ELSE Kept(Top.guard),
             mapped \in BOOLEAN :
          /\ cred' = o.cred
          /\ \E starts \in {o.ok} \cup (IF tool(mapped) = "mtpfs" THEN {FALSE} ELSE {}) :
               stack' = [stack EXCEPT ![Len(stack)] = g(o, mapped, starts)]
    BY Zenon DEF MountDecides
  <2> HIDE DEF g, tool
  <2>2. o.ok \in BOOLEAN
    <3>1. CASE o \in DropIfFeasible(cred, usr, Top.guard)
      BY <1>2, <1>4, <3>1, DropHeld
    <3>2. CASE o \in Kept(Top.guard)
      BY <3>2, KeptFacts
    <3> QED BY <2>1, <3>1, <3>2
  <2> QED BY <2>1, <2>2
<1>5. /\ Holds(o.guard, Top.entry, o.cred, usr)
      /\ o.ok => ~HalfWay(o.guard)
      /\ o.ok /\ o.cred.ruid = Root => o.cred = cred /\ (usr = Root \/ ~DropPriv(Top.req, uid0))
  <2>1. CASE DropPriv(Top.req, uid0)
    <3>1. o \in DropIfFeasible(cred, usr, Top.guard)
      BY <1>3, <2>1
    <3>2. /\ Holds(o.guard, Top.entry, o.cred, usr)
          /\ o.ok => ~HalfWay(o.guard) /\ (o.cred.ruid = Root => usr = Root)
      BY <1>2, <1>4, <3>1, DropHeld
    <3>3. o.ok /\ o.cred.ruid = Root => o.cred = cred
      BY <1>2, <3>1, StillRoot
    <3> QED BY <3>2, <3>3
  <2>2. CASE ~DropPriv(Top.req, uid0)
    BY <1>2, <1>3, <1>4, <2>2 DEF Kept
  <2> QED BY <2>1, <2>2
<1>6. WellFormed(o.cred) /\ o.guard \in Guards
  BY <1>2, <1>5, HoldsCases
<1>7. cmd(o, mapped) \in Commands /\ NoCommand \in Commands
  <2>1. tool(mapped) \in Tools
    BY DEF MountTool, Tools
  <2>2. MountSudo(Top.req, uid0, o.cred.ruid, settings) \in BOOLEAN
    BY <1>2 DEF MountSudo, AllSettings
  <2> HIDE DEF tool
  <2> QED BY <2>1, <2>2 DEF Commands, NoCommand
<1> DEFINE G == g(o, mapped, starts)
<1>8. /\ G.h = "mount" /\ G.entry = Top.entry /\ G.missed = Top.missed /\ G.req = Top.req
      /\ G.guard = o.guard /\ G.pc = (IF starts THEN "run" ELSE "leave")
      /\ G.cmd = (IF starts THEN cmd(o, mapped) ELSE NoCommand)
      /\ G \in Frames
  <2> HIDE DEF cmd
  <2> QED BY <1>1, <1>2, <1>6, <1>7 DEF Frames, Places, Yielding, Pointers
<1>9. ASSUME starts, o.cred.ruid = Root
      PROVE  G.cmd.fresh /\ (usr # Root => RootMayMount(G.req))
  <2>1. o.cred = cred /\ (usr = Root \/ ~DropPriv(Top.req, uid0))
    BY <1>3, <1>5, <1>9
  <2>2. Top.dev = Pointer(Top.req.listed) /\ Top.mu = Pointer(Top.req.unit # "none")
    BY <1>1, <1>2, <1>9, <2>1 DEF Fit
  <2>3. tool(mapped) = "mtpfs" => Top.dev = "live"
    BY <1>4, <2>2 DEF MountTool, Pointer
  <2>4. tool(mapped) = "systemctl" => Top.mu = "live"
    BY <1>4, <2>2 DEF MountTool, Pointer, Exact
  <2>5. usr # Root => RootMayMount(Top.req)
    BY <1>4, <2>1 DEF DropPriv, RootMayMount, AllRequests
  <2> HIDE DEF tool, g
  <2> QED BY <1>8, <1>9, <2>3, <2>4, <2>5
<1> HIDE DEF G, cmd
<1>10. Fit(G, cred')
  <2>1. G.pc \in PlacesOf("mount")
    BY <1>8 DEF PlacesOf
  <2> QED BY <1>1, <1>2, <1>3, <1>5, <1>8, <1>9, <2>1 DEF Fit
<1>11. stack' = [stack EXCEPT ![Len(stack)] = G] /\ cred' \in Creds
  BY <1>3, <1>6 DEF G, WellFormed
<1> QED BY <1>1, <1>2, <1>8, <1>10, <1>11, TopStep

\* What changes is noted by the refresh that looked already; the handlers go on
\* as they were.
LEMMA NestChanged ==
  ASSUME UNCHANGED process, usr \in Ids, NEW s \in Seq(Frames), NEW n \in Nat, Len(s) = n,
         Nest(s, cred'), NEW c \in Changes, Changed(c, s)
  PROVE  /\ Nest(stack, cred)' /\ Len(stack') = n
         /\ \A k \in 1 .. n : /\ stack'[k].h = s[k].h /\ stack'[k].pc = s[k].pc
                             /\ stack'[k].missed \subseteq s[k].missed \cup {c}
<1> DEFINE tt == stack'
           late(k) == \/ c = "devices" /\ s[k].pc \in {"lsblk", "findmnt"}
                      \/ c = "mounts" /\ s[k].pc = "findmnt"
<1>1. DOMAIN s = 1 .. n /\ \A k \in 1 .. n : s[k] \in Frames
  OBVIOUS
<1>2. tt = [k \in 1 .. n |-> IF late(k) THEN [s[k] EXCEPT !.missed = @ \cup {c}] ELSE s[k]]
  BY <1>1 DEF Changed
<1>3. ASSUME NEW k \in 1 .. n
      PROVE  /\ tt[k] \in Frames /\ Follows(s[k], tt[k])
             /\ tt[k].h = s[k].h /\ tt[k].pc = s[k].pc /\ tt[k].entry = s[k].entry
             /\ tt[k].missed \subseteq s[k].missed \cup {c}
             /\ \A w : Fit(s[k], w) => Fit(tt[k], w)
  <2>1. /\ s[k] \in Frames /\ s[k].missed \subseteq Scanned
        /\ s[k].missed # {} => s[k].pc \in {"lsblk", "findmnt"}
    BY <1>1 DEF Nest, Fit
  <2>2. CASE late(k)
    <3> DEFINE m == s[k].missed \cup {c}
    <3>1. tt[k] = [s[k] EXCEPT !.missed = m] /\ m \subseteq Scanned /\ m \in SUBSET Changes
          /\ s[k].pc \in {"lsblk", "findmnt"}
      BY <1>2, <2>1, <2>2 DEF Scanned, Changes
    <3>2. tt[k].missed = m
      BY <2>1, <3>1 DEF Frames
    <3> HIDE DEF m
    <3>3. /\ tt[k] \in Frames /\ tt[k].h = s[k].h /\ tt[k].pc = s[k].pc
          /\ tt[k].entry = s[k].entry /\ tt[k].guard = s[k].guard /\ tt[k].req = s[k].req
          /\ tt[k].cmd = s[k].cmd /\ tt[k].dev = s[k].dev /\ tt[k].mu = s[k].mu
      BY <2>1, <3>1 DEF Frames
    <3>4. Follows(s[k], tt[k])
      BY <3>1, <3>2, <3>3 DEF Follows
    <3>5. \A w : Fit(s[k], w) => Fit(tt[k], w)
      BY <3>1, <3>2, <3>3 DEF Fit
    <3> QED BY <3>2, <3>3, <3>4, <3>5 DEF m
  <2>3. CASE ~late(k)
    <3>1. tt[k] = s[k]
      BY <1>2, <2>3
    <3> QED BY <2>1, <3>1 DEF Follows
  <2> QED BY <2>2, <2>3
<1>4. DOMAIN tt = 1 .. n /\ tt = [k \in 1 .. n |-> tt[k]]
  BY <1>2
<1> HIDE DEF tt
<1>5. tt \in Seq(Frames) /\ Len(tt) = n
  BY <1>3, <1>4
<1>6. Nest(tt, cred')
  <2>1. CASE n = 0
    <3>1. tt = s
      BY <1>5, <2>1
    <3> QED BY <3>1
  <2>2. CASE n > 0
    <3>1. n \in 1 .. n /\ cred' \in Creds /\ Fit(s[n], cred')
      BY <2>2 DEF Nest, Level
    <3>2. Fit(tt[n], cred')
      BY <1>3, <3>1
    <3> QED BY <1>3, <1>5, <2>2, <3>1, <3>2, NestTop
  <2> QED BY <2>1, <2>2
<1>7. Nest(stack, cred)'
  BY <1>6, NestLater DEF tt
<1> QED BY <1>3, <1>5, <1>7 DEF tt

\* A command of mount() or unmount() ends, and their guard is gone.
LEMMA MountEnding == ASSUME IInv, MountEnds PROVE IInv'
<1> DEFINE n == Len(stack)
           f(ok) == [stack[n] EXCEPT !.guard = Unarmed, !.cmd = NoCommand, !.req = NoRequest,
                                     !.pc = IF ok THEN "refresh" ELSE "leave"]
           s(ok) == [stack EXCEPT ![n] = f(ok)]
<1>1. /\ stack # <<>> /\ Top.h \in {"mount", "unmount"} /\ Top.pc = "run"
      /\ UNCHANGED <<process, running, tree, excused, desktop>> /\ cred' = Restore(cred, Top.guard)
  BY DEF MountEnds, At
<1>2. PICK ok \in BOOLEAN : IF ok THEN Changed("mounts", s(ok))
                                  ELSE stack' = s(ok) /\ UNCHANGED behind
  BY Zenon DEF MountEnds
<1>3. /\ usr \in Ids /\ stack \in Seq(Frames) /\ n \in Nat \ {0} /\ Top = stack[n]
      /\ Top \in Frames /\ Fit(Top, cred) /\ WellFormed(Top.entry)
      /\ cred' = Top.entry /\ tree \in Pointers /\ Nest(stack, cred) /\ behind \subseteq Changes
      /\ Treed
  BY <1>1, TopFacts DEF IInv, Scalars
<1> DEFINE g == f(ok)
<1>4. /\ g \in Frames /\ g.h = Top.h /\ g.entry = Top.entry /\ g.missed = Top.missed
      /\ g.guard = Unarmed /\ g.pc = (IF ok THEN "refresh" ELSE "leave")
  BY <1>3, Fillings DEF Frames
<1> HIDE DEF f, g
<1>5. Fit(g, cred') /\ cred' \in Creds
  <2>1. g.pc \in PlacesOf(g.h)
    BY <1>1, <1>4 DEF PlacesOf
  <2>2. ~HalfWay(Unarmed)
    BY DEF HalfWay
  <2> QED BY <1>1, <1>3, <1>4, <2>1, <2>2 DEF Fit, Holds, WellFormed
<1>6. s(ok) = [stack EXCEPT ![n] = g]
  BY DEF g
<1>7. CASE ~ok
  <2>1. stack' = [stack EXCEPT ![n] = g] /\ UNCHANGED behind
    BY <1>2, <1>6, <1>7
  <2> QED BY <1>1, <1>3, <1>4, <1>5, <1>7, <2>1, TopStep
<1>8. CASE ok
  <2> DEFINE t == s(ok)
  <2>1. /\ t \in Seq(Frames) /\ Len(t) = n /\ t[n] = g
        /\ \A k \in 1 .. n - 1 : t[k] = stack[k]
    BY <1>3, <1>4, <1>6
  <2> HIDE DEF t, s
  <2>2. Nest(t, cred')
    <3>1. \A k \in 1 .. n - 1 : Follows(stack[k], t[k])
      BY <1>3, <2>1 DEF Nest, Fit, Follows
    <3>2. /\ t[n].h = stack[n].h /\ t[n].entry = stack[n].entry /\ Fit(t[n], cred')
          /\ t[n].pc # "ask" /\ \A k \in 1 .. n - 1 : t[k].pc = stack[k].pc
      BY <1>3, <1>4, <1>5, <1>8, <2>1
    <3> QED BY <1>3, <1>5, <2>1, <3>1, <3>2, NestTop
  <2>3. Changed("mounts", t) /\ "mounts" \in Changes
    BY <1>2, <1>8 DEF t, Changes
  <2>4. /\ Nest(stack, cred)' /\ Len(stack') = n
        /\ \A k \in 1 .. n : /\ stack'[k].h = t[k].h /\ stack'[k].pc = t[k].pc
                            /\ stack'[k].missed \subseteq t[k].missed \cup {"mounts"}
    BY <1>1, <1>3, <2>1, <2>2, <2>3, NestChanged
  <2>5. behind' = behind \cup {"mounts"}
    BY <2>3 DEF Changed
  <2>6. \A k \in 1 .. n : /\ stack'[k].h = stack[k].h
                        /\ stack'[k].missed \subseteq stack[k].missed \cup {"mounts"}
    BY <1>3, <1>4, <2>1, <2>4
  <2>7. Scalars'
    BY <1>1, <1>5, <2>3, <2>5 DEF IInv, Scalars, process, desktop
  <2>8. Flags'
    <3>1. \A h \in Guarded : running[h] <=> \E k \in 1 .. n : stack[k].h = h
      BY DEF IInv, Flags
    <3>2. \A h \in Guarded : running'[h] <=> \E k \in 1 .. n : stack'[k].h = h
      BY <1>1, <2>6, <3>1
    <3> QED BY <2>4, <3>2 DEF Flags
  <2>9. Missed'
    BY <2>4, <2>5, <2>6 DEF IInv, Missed
  <2>10. Treed'
    BY <1>1, <1>3 DEF Treed
  <2>11. Awaited'
    <3>1. stack'[n].pc = "refresh" /\ n \in 1 .. Len(stack')
      BY <1>3, <1>4, <1>8, <2>1, <2>4
    <3> QED BY <3>1 DEF Awaited, Pending
  <2> QED BY <2>4, <2>7, <2>8, <2>9, <2>10, <2>11 DEF IInv
<1> QED BY <1>7, <1>8

\* The dialog an Accept() belongs to is below it, and open while it asks.
LEMMA OwnDialog ==
  ASSUME IInv, stack # <<>>, Top.h = "accept"
  PROVE  /\ Own \in 1 .. Len(stack) - 1 /\ stack[Own].h = "dialog"
         /\ Top.pc = "ask" => stack[Own].pc = "open"
<1> DEFINE n == Len(stack)
           D == {i \in 1 .. n : stack[i].h = "dialog"}
<1>1. /\ n \in Nat \ {0} /\ Top = stack[n] /\ DOMAIN stack = 1 .. n /\ Nest(stack, cred)
  BY TopFacts DEF IInv
<1>2. Grounded(stack, n)
  BY <1>1 DEF Nest
<1>3. PICK d \in 1 .. n - 1 : stack[d].h = "dialog"
  BY <1>1, <1>2 DEF Grounded
<1>4. D # {} /\ D \in SUBSET (1 .. n)
  BY <1>1, <1>3
<1> HIDE DEF D
<1>5. PICK m \in D : \A k \in D : k <= m
  BY <1>1, <1>4, LastPosition
<1>6. /\ Own \in DOMAIN stack /\ stack[Own].h = "dialog"
      /\ \A j \in DOMAIN stack : stack[j].h = "dialog" => j <= Own
  <2>1. /\ m \in DOMAIN stack /\ stack[m].h = "dialog"
        /\ \A j \in DOMAIN stack : stack[j].h = "dialog" => j <= m
    BY <1>1, <1>5 DEF D
  <2> QED BY <2>1 DEF Own
<1>7. Own \in 1 .. n - 1
  BY <1>1, <1>6
<1>8. ASSUME Top.pc = "ask" PROVE stack[Own].pc = "open"
  <2>1. PICK i \in 1 .. n - 1 : stack[i].h = "dialog" /\ stack[i].pc = "open"
    BY <1>1, <1>2, <1>8 DEF Grounded
  <2>2. i <= Own
    BY <1>1, <1>6, <2>1
  <2>3. CASE i = Own
    BY <2>1, <2>3
  <2>4. CASE i # Own
    <3>1. Own \in 1 .. n /\ i \in 1 .. Own - 1
      BY <1>1, <1>7, <2>2, <2>4
    <3>2. Nested(stack[i], stack[Own])
      BY <1>1, <3>1 DEF Nest
    <3> QED BY <1>6, <2>1, <3>2 DEF Nested
  <2> QED BY <2>3, <2>4
<1> QED BY <1>6, <1>7, <1>8

\* From the stack to s the i-th handler, a dialog below the innermost one, comes to
\* p, with c, and the innermost one to g.
DialogMoves(s, i, p, c, g) ==
  /\ i \in 1 .. Len(stack) - 1 /\ stack[i].h = "dialog"
  /\ p \in {stack[i].pc, "accepted", "rejected"} /\ c \in Commands
  /\ g \in Frames /\ g.h = Top.h /\ g.entry = Top.entry /\ g.missed = Top.missed
  /\ Fit(g, cred)
  /\ s = [stack EXCEPT ![i] = [stack[i] EXCEPT !.pc = p, !.cmd = c], ![Len(stack)] = g]
  /\ \/ p = stack[i].pc /\ g.pc = Top.pc
     \/ g.pc # "ask" /\ \A k \in 1 .. Len(stack) - 1 : stack[k].pc # "ask"

\* A step that moves a dialog below and the innermost handler.
LEMMA NestDialog ==
  ASSUME IInv, stack # <<>>, NEW s, NEW i, NEW p, NEW c, NEW g, DialogMoves(s, i, p, c, g)
  PROVE  /\ Nest(s, cred) /\ s \in Seq(Frames) /\ Len(s) = Len(stack)
         /\ \A k \in 1 .. Len(stack) : s[k].h = stack[k].h /\ s[k].missed = stack[k].missed
         /\ s[i].pc = p /\ s[Len(stack)] = g
         /\ \A k \in 1 .. Len(stack) - 1 : k # i => s[k] = stack[k]
<1> USE DEF DialogMoves
<1> DEFINE n == Len(stack)
           d == [stack[i] EXCEPT !.pc = p, !.cmd = c]
<1>1. /\ usr \in Ids /\ cred \in Creds /\ stack \in Seq(Frames) /\ n \in Nat \ {0}
      /\ Top = stack[n] /\ Nest(stack, cred) /\ \A k \in 1 .. n : stack[k] \in Frames
  BY TopFacts DEF IInv
<1>2. /\ d \in Frames /\ d.h = "dialog" /\ d.pc = p /\ d.entry = stack[i].entry
      /\ d.guard = stack[i].guard /\ d.req = stack[i].req /\ d.missed = stack[i].missed
  <2>1. stack[i] \in Frames
    BY <1>1
  <2>2. p \in Places
    BY <2>1, Fillings DEF Frames
  <2> QED BY <2>1, <2>2 DEF Frames
<1> HIDE DEF d
<1>3. /\ s \in Seq(Frames) /\ Len(s) = n /\ s[n] = g /\ s[i] = d
      /\ \A k \in 1 .. n - 1 : k # i => s[k] = stack[k]
  <2> DEFINE r == [stack EXCEPT ![i] = d]
  <2>1. s = [r EXCEPT ![n] = g]
    BY DEF d
  <2>2. /\ r \in Seq(Frames) /\ Len(r) = n /\ r[i] = d
        /\ \A k \in 1 .. n : k # i => r[k] = stack[k]
    BY <1>1, <1>2
  <2> HIDE DEF r
  <2>3. /\ s \in Seq(Frames) /\ Len(s) = n /\ s[n] = g
        /\ \A k \in 1 .. n : k # n => s[k] = r[k]
    BY <1>1, <2>1, <2>2
  <2>4. i \in 1 .. n /\ i # n /\ \A k \in 1 .. n - 1 : k \in 1 .. n /\ k # n
    BY <1>1
  <2> QED BY <2>2, <2>3, <2>4
<1>4. ASSUME NEW k \in 1 .. n - 1 PROVE Follows(stack[k], s[k])
  <2>1. /\ stack[k].missed \subseteq Scanned
        /\ stack[k].missed # {} => stack[k].pc \in {"lsblk", "findmnt"}
        /\ k = i => stack[k].pc \notin {"lsblk", "findmnt"}
    <3>1. Fit(stack[k], Level(stack, cred, k + 1))
      BY <1>1 DEF Nest
    <3> QED BY <3>1 DEF Fit, PlacesOf
  <2> QED BY <1>2, <1>3, <2>1 DEF Follows
<1>5. /\ s[n].h = stack[n].h /\ s[n].entry = stack[n].entry /\ Fit(s[n], cred)
      /\ \/ \A k \in 1 .. n : s[k].pc # "ask"
         \/ /\ \A k \in 1 .. n - 1 : s[k].pc = stack[k].pc
            /\ s[n].pc = "ask" => stack[n].pc = "ask"
  <2>1. CASE p = stack[i].pc /\ g.pc = Top.pc
    BY <1>1, <1>2, <1>3, <2>1
  <2>2. CASE g.pc # "ask" /\ \A k \in 1 .. Len(stack) - 1 : stack[k].pc # "ask"
    BY <1>1, <1>2, <1>3, <2>2
  <2> QED BY <2>1, <2>2, <1>1, <1>3
<1>6. Nest(s, cred)
  BY <1>1, <1>3, <1>4, <1>5, NestTop
<1>7. \A k \in 1 .. n : s[k].h = stack[k].h /\ s[k].missed = stack[k].missed
  BY <1>1, <1>2, <1>3
<1> QED BY <1>2, <1>3, <1>6, <1>7

\* An open dialog that is below the innermost handler is told something, or is
\* rejected.
LEMMA DialogStep ==
  ASSUME IInv, stack # <<>>, NEW i, NEW p, NEW c, NEW g, DialogMoves(stack', i, p, c, g),
         stack[i].pc = "open", p \in {"open", "rejected"}, g = Top \/ Top.pc = "ask",
         UNCHANGED <<process, cred, running, tree, behind, excused, desktop>>
  PROVE  IInv'
<1> DEFINE n == Len(stack)
<1>1. /\ n \in Nat \ {0} /\ Top = stack[n] /\ Nest(stack, cred)
  BY TopFacts DEF IInv
<1>2. /\ Nest(stack', cred) /\ stack' \in Seq(Frames) /\ Len(stack') = n
      /\ \A k \in 1 .. n : stack'[k].h = stack[k].h /\ stack'[k].missed = stack[k].missed
      /\ stack'[i].pc = p /\ stack'[n] = g
      /\ \A k \in 1 .. n - 1 : k # i => stack'[k] = stack[k]
  BY NestDialog
<1>3. Nest(stack, cred)' /\ Scalars'
  BY <1>2, NestLater DEF IInv, Scalars, process, desktop
<1>4. Flags'
  <2>1. \A h \in Guarded : running[h] <=> \E k \in 1 .. n : stack[k].h = h
    BY DEF IInv, Flags
  <2>2. \A h \in Guarded : running'[h] <=> \E k \in 1 .. n : stack'[k].h = h
    BY <1>2, <2>1
  <2> QED BY <1>2, <2>2 DEF Flags
<1>5. Missed'
  BY <1>2 DEF IInv, Missed
<1>6. Treed'
  <2>1. stack' # <<>> /\ Top' = g
    BY <1>1, <1>2 DEF Top, Last
  <2>2. tree = "live" \/ Top.pc = "populate"
    BY DEF IInv, Treed
  <2> QED BY <2>1, <2>2 DEF Treed
<1>7. Awaited'
  <2>1. ASSUME NEW k \in 1 .. n, stack[k].pc \in {"refresh", "accepted", "lsblk", "findmnt"}
        PROVE  stack'[k] = stack[k]
    BY <1>1, <1>2, <2>1
  <2>2. CASE Pending
    <3>1. Pending'
      BY <1>2, <2>1, <2>2 DEF Pending, desktop
    <3> QED BY <3>1 DEF Awaited
  <2>3. CASE \A x \in behind \ excused : \E k \in 1 .. n : WillScan(stack[k], x)
    <3>1. \A x \in behind' \ excused' : \E k \in 1 .. n : WillScan(stack'[k], x)
      BY <2>1, <2>3 DEF WillScan
    <3> QED BY <1>2, <3>1 DEF Awaited, WillScan
  <2> QED BY <2>2, <2>3 DEF IInv, Awaited
<1> QED BY <1>3, <1>4, <1>5, <1>6, <1>7 DEF IInv

\* What is made of a device is a command, or part of one.
LEMMA FollowedTyped == ASSUME NEW d \in Frames PROVE Followed(d) \in Commands
BY DEF Followed, Frames, Commands

\* The dialog is told something, wherever it is on the stack.
LEMMA Answering == ASSUME IInv, Select \/ Reject PROVE IInv'
<1> DEFINE n == Len(stack)
<1>1. PICK i \in DOMAIN stack, p \in {"open", "rejected"} :
        /\ InDialog(i)
        /\ IF p = "open" THEN stack' = [stack EXCEPT ![i].cmd = Followed(stack[i])]
                         ELSE stack' = [stack EXCEPT ![i].pc = "rejected"]
  BY DEF Select, Reject
<1>2. UNCHANGED <<process, cred, running, tree, behind, excused, desktop>> /\ tree \in Pointers
  BY DEF Select, Reject, IInv, Scalars
<1>3. stack \in Seq(Frames) /\ n \in Nat \ {0} /\ stack # <<>> /\ i \in 1 .. n
      /\ stack[i] \in Frames
  <2>1. stack \in Seq(Frames)
    BY DEF IInv, Nest
  <2> QED BY <1>1, <2>1
<1>4. /\ Top = stack[n] /\ Top \in Frames /\ Fit(Top, cred)
  BY <1>3, TopFacts
<1>5. stack[i].h = "dialog" /\ stack[i].pc = "open" /\ \A k \in 1 .. n : stack[k].pc # "ask"
  BY <1>1, <1>3 DEF InDialog, Asking
<1>6. PICK c \in Commands : stack' = [stack EXCEPT ![i] = [@ EXCEPT !.pc = p, !.cmd = c]]
  <2>1. CASE p = "open"
    <3>1. Followed(stack[i]) \in Commands
      BY <1>3, FollowedTyped
    <3>2. [stack[i] EXCEPT !.cmd = Followed(stack[i])]
            = [stack[i] EXCEPT !.pc = p, !.cmd = Followed(stack[i])]
      BY <1>3, <1>5, <2>1 DEF Frames
    <3>3. stack' = [stack EXCEPT ![i] = [stack[i] EXCEPT !.cmd = Followed(stack[i])]]
      BY <1>1, <1>3, <2>1
    <3> QED BY <3>1, <3>2, <3>3
  <2>2. CASE p = "rejected"
    <3>1. stack[i].cmd \in Commands
      BY <1>3 DEF Frames
    <3>2. [stack[i] EXCEPT !.pc = p] = [stack[i] EXCEPT !.pc = p, !.cmd = stack[i].cmd]
      BY <1>3 DEF Frames
    <3>3. stack' = [stack EXCEPT ![i] = [stack[i] EXCEPT !.pc = p]]
      BY <1>1, <1>3, <2>2
    <3> QED BY <3>1, <3>2, <3>3
  <2> QED BY <2>1, <2>2
<1>7. CASE i = n
  <2>1. MayGo(p)
    BY <1>4, <1>5, <1>7 DEF MayGo, Places, Yielding, PlacesOf, Fit
  <2> QED BY <1>2, <1>3, <1>6, <1>7, <2>1, GoStep
<1>8. CASE i # n
  <2>1. i \in 1 .. n - 1
    BY <1>3, <1>8
  <2>2. stack' = [stack EXCEPT ![i] = [@ EXCEPT !.pc = p, !.cmd = c], ![n] = Top]
    BY <1>3, <1>4, <1>6, <1>8
  <2>3. Top.pc # "ask" /\ \A k \in 1 .. n - 1 : stack[k].pc # "ask"
    BY <1>3, <1>4, <1>5
  <2>4. DialogMoves(stack', i, p, c, Top)
    BY <1>4, <1>5, <2>1, <2>2, <2>3 DEF DialogMoves
  <2> QED BY <1>2, <1>3, <1>5, <2>4, DialogStep
<1> QED BY <1>7, <1>8

\* The user does not want to overwrite: Accept() rejects its dialog and returns.
LEMMA Refusing == ASSUME IInv, AnswerNo PROVE IInv'
<1> DEFINE n == Len(stack)
           g == [Top EXCEPT !.pc = "leave"]
<1>1. stack # <<>> /\ Top.h = "accept" /\ Top.pc = "ask"
      /\ stack' = [stack EXCEPT ![Own].pc = "rejected", ![n].pc = "leave"]
      /\ UNCHANGED <<process, cred, running, tree, behind, excused, desktop>>
  BY DEF AnswerNo, At
<1>2. /\ stack \in Seq(Frames) /\ n \in Nat \ {0} /\ Top = stack[n] /\ Top \in Frames
      /\ Fit(Top, cred) /\ Nest(stack, cred)
  BY <1>1, TopFacts DEF IInv
<1>3. Own \in 1 .. n - 1 /\ stack[Own].h = "dialog" /\ stack[Own].pc = "open"
  BY <1>1, OwnDialog
<1>4. /\ g \in Frames /\ g.h = Top.h /\ g.entry = Top.entry /\ g.missed = Top.missed
      /\ g.pc = "leave" /\ g.guard = Top.guard
  BY <1>2, Fillings DEF Frames
<1> HIDE DEF g
<1>5. Fit(g, cred)
  <2>1. g.pc \in PlacesOf(g.h)
    BY <1>1, <1>4 DEF PlacesOf
  <2> QED BY <1>1, <1>2, <1>4, <2>1 DEF Fit
<1>6. stack[Own] \in Frames /\ Own \in 1 .. n
  BY <1>2, <1>3
<1>7. stack[Own].cmd \in Commands
  BY <1>6 DEF Frames
<1>8. stack' = [stack EXCEPT ![Own] = [@ EXCEPT !.pc = "rejected", !.cmd = stack[Own].cmd],
                             ![n] = g]
  <2>1. [stack[Own] EXCEPT !.pc = "rejected"]
          = [stack[Own] EXCEPT !.pc = "rejected", !.cmd = stack[Own].cmd]
    BY <1>6 DEF Frames
  <2>2. stack' = [stack EXCEPT ![Own] = [stack[Own] EXCEPT !.pc = "rejected"],
                               ![n] = [stack[n] EXCEPT !.pc = "leave"]]
    BY <1>1, <1>2, <1>3
  <2> QED BY <1>2, <2>1, <2>2 DEF g
<1>9. \A k \in 1 .. n - 1 : stack[k].pc # "ask"
  <2>1. \A k \in 1 .. n - 1 : Nested(stack[k], stack[n])
    BY <1>2 DEF Nest
  <2> QED BY <1>1, <1>2, <2>1 DEF Nested
<1>10. DialogMoves(stack', Own, "rejected", stack[Own].cmd, g)
  BY <1>3, <1>4, <1>5, <1>7, <1>8, <1>9 DEF DialogMoves
<1> QED BY <1>1, <1>3, <1>10, DialogStep

\* Accept() drops the privileges and starts the shell that writes, or reports
\* that it cannot.
LEMMA Writing == ASSUME IInv, AcceptWrite PROVE IInv'
<1>1. /\ stack # <<>> /\ Top.h = "accept" /\ Top.pc = "write"
      /\ UNCHANGED <<process, running, tree, behind, excused, desktop>>
  BY DEF AcceptWrite, At
<1>2. /\ usr \in Ids /\ cred \in Creds /\ stack \in Seq(Frames) /\ Len(stack) \in Nat \ {0}
      /\ Top = stack[Len(stack)] /\ Top \in Frames /\ Fit(Top, cred)
      /\ WellFormed(Top.entry) /\ Holds(Top.guard, Top.entry, cred, usr)
      /\ tree \in Pointers /\ settings \in AllSettings
  BY <1>1, TopFacts DEF IInv, Scalars
<1>3. ~HalfWay(Top.guard)
  BY <1>1, <1>2 DEF Fit
<1> DEFINE made(byPath) == IF stack[Own].fstab \/ byPath THEN Top.cmd ELSE Followed(stack[Own])
           cmd(byPath) == [tool |-> "sh", sudo |-> settings.sudo, fresh |-> made(byPath).fresh]
           g(o, byPath) == [stack[Len(stack)] EXCEPT
                              !.guard = o.guard,
                              !.pc  = IF o.ok THEN "run" ELSE "error",
                              !.cmd = IF o.ok THEN cmd(byPath) ELSE NoCommand]
<1>4. PICK o \in DropIfFeasible(cred, usr, Top.guard), byPath \in BOOLEAN :
        cred' = o.cred /\ stack' = [stack EXCEPT ![Len(stack)] = g(o, byPath)]
  BY Zenon DEF AcceptWrite
<1>5. /\ Holds(o.guard, Top.entry, o.cred, usr) /\ o.ok \in BOOLEAN
      /\ o.ok => ~HalfWay(o.guard) /\ (o.cred.ruid = Root => usr = Root)
  BY <1>2, <1>3, DropHeld
<1>6. WellFormed(o.cred) /\ o.guard \in Guards
  BY <1>2, <1>5, HoldsCases
<1>7. cmd(byPath) \in Commands
  <2>1. stack[Own] \in Frames
    BY <1>1, <1>2, OwnDialog
  <2>2. made(byPath) \in Commands
    BY <1>2, <2>1, FollowedTyped DEF Frames
  <2> HIDE DEF made
  <2>3. made(byPath).fresh \in BOOLEAN /\ settings.sudo \in BOOLEAN /\ "sh" \in Tools
    BY <1>2, <2>2 DEF Commands, AllSettings, Tools
  <2> QED BY <2>3 DEF Commands
<1> DEFINE G == g(o, byPath)
<1> HIDE DEF cmd
<1>8. /\ G.h = "accept" /\ G.entry = Top.entry /\ G.missed = Top.missed
      /\ G.guard = o.guard /\ G.pc = (IF o.ok THEN "run" ELSE "error")
      /\ G \in Frames
  BY <1>1, <1>2, <1>5, <1>6, <1>7, Fillings DEF Frames
<1>9. stack' = [stack EXCEPT ![Len(stack)] = G] /\ cred' \in Creds
  BY <1>4, <1>6 DEF WellFormed
<1> HIDE DEF G, g
<1>10. Fit(G, cred')
  <2>1. G.pc \in PlacesOf("accept")
    BY <1>8 DEF PlacesOf
  <2> QED BY <1>1, <1>2, <1>4, <1>5, <1>8, <2>1 DEF Fit
<1> QED BY <1>1, <1>2, <1>5, <1>8, <1>9, <1>10, TopStep

\* The shell has written, or failed to.
LEMMA Written == ASSUME IInv, AcceptEnds PROVE IInv'
<1> DEFINE n == Len(stack)
           g == [stack[n] EXCEPT !.pc = "leave", !.cmd = NoCommand]
           s == [stack EXCEPT ![Own].pc = "accepted", ![n].pc = "leave", ![n].cmd = NoCommand]
<1>1. /\ stack # <<>> /\ Top.h = "accept" /\ Top.pc = "run"
      /\ UNCHANGED <<process, cred, running, tree, excused, desktop>>
  BY DEF AcceptEnds, At
<1>2. /\ usr \in Ids /\ stack \in Seq(Frames) /\ n \in Nat \ {0} /\ Top = stack[n]
      /\ Top \in Frames /\ Fit(Top, cred) /\ tree \in Pointers /\ behind \subseteq Changes
      /\ Nest(stack, cred) /\ Treed
  BY <1>1, TopFacts DEF IInv, Scalars
<1>3. CASE /\ stack' = [stack EXCEPT ![n].pc = "error", ![n].cmd = NoCommand]
           /\ UNCHANGED behind
  <2>1. MayGo("error")
    BY <1>1, <1>2 DEF MayGo, Places, Yielding, PlacesOf, Fit
  <2>2. stack' = [stack EXCEPT ![n] = [@ EXCEPT !.pc = "error", !.cmd = NoCommand]]
    BY <1>2, <1>3
  <2> QED BY <1>1, <1>2, <1>3, <2>1, <2>2, Fillings, GoStep
<1>4. CASE Changed("units", s)
  <2>1. Own \in 1 .. n - 1 /\ stack[Own].h = "dialog"
    BY <1>1, OwnDialog
  <2>2. stack[Own] \in Frames /\ Own \in 1 .. n
    BY <1>2, <2>1
  <2>3. stack[Own].cmd \in Commands
    BY <2>2 DEF Frames
  <2>4. /\ g \in Frames /\ g.h = Top.h /\ g.entry = Top.entry /\ g.missed = Top.missed
        /\ g.pc = "leave" /\ g.guard = Top.guard
    BY <1>2, Fillings DEF Frames
  <2>5. s = [stack EXCEPT ![Own] = [stack[Own] EXCEPT !.pc = "accepted", !.cmd = stack[Own].cmd],
                          ![n] = g]
    <3>1. [stack[Own] EXCEPT !.pc = "accepted"]
            = [stack[Own] EXCEPT !.pc = "accepted", !.cmd = stack[Own].cmd]
      BY <2>2 DEF Frames
    <3>2. s = [stack EXCEPT ![Own] = [stack[Own] EXCEPT !.pc = "accepted"], ![n] = g]
      BY <1>2, <2>1
    <3> QED BY <3>1, <3>2
  <2> HIDE DEF g, s
  <2>6. Fit(g, cred)
    <3>1. g.pc \in PlacesOf(g.h)
      BY <1>1, <2>4 DEF PlacesOf
    <3> QED BY <1>1, <1>2, <2>4, <3>1 DEF Fit
  <2>7. \A k \in 1 .. n - 1 : stack[k].pc # "ask"
    <3>1. \A k \in 1 .. n - 1 : Nested(stack[k], stack[n])
      BY <1>2 DEF Nest
    <3> QED BY <1>1, <1>2, <3>1 DEF Nested
  <2>8. DialogMoves(s, Own, "accepted", stack[Own].cmd, g)
    BY <2>1, <2>3, <2>4, <2>5, <2>6, <2>7 DEF DialogMoves
  <2>9. /\ Nest(s, cred') /\ s \in Seq(Frames) /\ Len(s) = n /\ s[Own].pc = "accepted"
        /\ \A k \in 1 .. n : s[k].h = stack[k].h /\ s[k].missed = stack[k].missed
    BY <1>1, <2>8, NestDialog
  <2>10. /\ Nest(stack, cred)' /\ Len(stack') = n
         /\ \A k \in 1 .. n : /\ stack'[k].h = s[k].h /\ stack'[k].pc = s[k].pc
                             /\ stack'[k].missed \subseteq s[k].missed \cup {"units"}
    BY <1>1, <1>2, <1>4, <2>9, NestChanged DEF Changes
  <2>11. behind' = behind \cup {"units"}
    BY <1>4 DEF Changed
  <2>12. Scalars'
    BY <1>1, <2>11 DEF IInv, Scalars, process, desktop, Changes
  <2>13. Flags'
    <3>1. \A h \in Guarded : running[h] <=> \E k \in 1 .. n : stack[k].h = h
      BY DEF IInv, Flags
    <3>2. \A h \in Guarded : running'[h] <=> \E k \in 1 .. n : stack'[k].h = h
      BY <1>1, <2>9, <2>10, <3>1
    <3> QED BY <2>10, <3>2 DEF Flags
  <2>14. Missed'
    BY <2>9, <2>10, <2>11 DEF IInv, Missed
  <2>15. Treed'
    BY <1>1, <1>2 DEF Treed
  <2>16. Awaited'
    <3>1. stack'[Own].pc = "accepted" /\ Own \in 1 .. Len(stack')
      BY <2>2, <2>9, <2>10
    <3> QED BY <3>1 DEF Awaited, Pending
  <2> QED BY <2>10, <2>12, <2>13, <2>14, <2>15, <2>16 DEF IInv
<1> QED BY <1>3, <1>4 DEF AcceptEnds

\* A device appears or disappears.
LEMMA Plugged == ASSUME IInv, DeviceChanges PROVE IInv'
<1> DEFINE n == Len(stack)
<1>1. /\ Changed("devices", stack) /\ behind' = behind \cup {"devices"}
      /\ posted' = posted \cup {"dev"}
      /\ UNCHANGED <<process, cred, running, tree, excused, acc, watching, settings, closed>>
  BY DEF DeviceChanges, Changed
<1>2. /\ usr \in Ids /\ stack \in Seq(Frames) /\ n \in Nat /\ Nest(stack, cred')
  BY <1>1 DEF IInv, Scalars, Nest
<1>3. /\ Nest(stack, cred)' /\ Len(stack') = n
      /\ \A k \in 1 .. n : /\ stack'[k].h = stack[k].h /\ stack'[k].pc = stack[k].pc
                          /\ stack'[k].missed \subseteq stack[k].missed \cup {"devices"}
  BY <1>1, <1>2, NestChanged DEF Changes
<1>4. Scalars'
  BY <1>1 DEF IInv, Scalars, process, Changes
<1>5. Flags'
  <2>1. \A h \in Guarded : running[h] <=> \E k \in 1 .. n : stack[k].h = h
    BY DEF IInv, Flags
  <2>2. \A h \in Guarded : running'[h] <=> \E k \in 1 .. n : stack'[k].h = h
    BY <1>1, <1>3, <2>1
  <2> QED BY <1>3, <2>2 DEF Flags
<1>6. Missed'
  BY <1>1, <1>3 DEF IInv, Missed
<1>7. Treed'
  <2> SUFFICES ASSUME tree # "live" PROVE stack' # <<>> /\ Top'.pc = "populate"
    BY <1>1 DEF Treed
  <2>1. stack # <<>> /\ Top.pc = "populate"
    BY DEF IInv, Treed
  <2>2. Top = stack[n] /\ n \in Nat \ {0}
    BY <2>1, TopFacts
  <2> QED BY <1>3, <2>1, <2>2 DEF Top, Last
<1>8. Awaited'
  BY <1>1 DEF Awaited, Pending
<1> QED BY <1>3, <1>4, <1>5, <1>6, <1>7, <1>8 DEF IInv

\* The scan of the devices ends, with a result or without, and so the only
\* refresh goes on to fill the list.
LEMMA ScanEnding ==
  ASSUME IInv, stack # <<>>, Top.h = "refresh", Top.pc \in {"lsblk", "findmnt"},
         UNCHANGED <<process, cred, running, desktop>>,
         NEW lost \in SUBSET Scanned, AssignDevices(lost) \/ ScanThrows
  PROVE  IInv'
<1> DEFINE n == Len(stack)
<1>1. /\ usr \in Ids /\ cred \in Creds /\ stack \in Seq(Frames)
      /\ Top = stack[n] /\ Top \in Frames /\ Fit(Top, cred) /\ Top.missed \subseteq behind
      /\ Nest(stack, cred)
      /\ behind \subseteq Changes /\ excused \subseteq Changes /\ tree \in Pointers
  BY TopFacts DEF IInv, Scalars
<1>2. n \in Nat \ {0} /\ n \in 1 .. n /\ \A k \in 1 .. n : k = n \/ k \in 1 .. n - 1
  <2>1. n \in Nat \ {0}
    BY TopFacts
  <2> QED BY <2>1
<1>3. ASSUME NEW k \in 1 .. n - 1
      PROVE  /\ stack[k].pc \notin {"lsblk", "findmnt", "mkdir", "decide"}
             /\ stack[k].missed = {}
  <2>1. Nested(stack[k], stack[n]) /\ stack[k] \in Frames
    BY <1>1, <1>2 DEF Nest
  <2>2. Fit(stack[k], Level(stack, cred, k + 1)) /\ stack[k].h # "refresh"
    BY <1>1, <1>2, <2>1 DEF Nest, Nested, Guarded
  <2> QED BY <2>1, <2>2 DEF Fit, PlacesOf, Frames, Handlers, Guarded, Nested, Yielding
<1>4. /\ stack' \in Seq(Frames) /\ Len(stack') = n
      /\ stack'[n].h = stack[n].h /\ stack'[n].missed = {} /\ stack'[n].pc = "populate"
      /\ stack'[n].entry = stack[n].entry /\ stack'[n].guard = stack[n].guard
      /\ \A k \in 1 .. n - 1 : /\ stack'[k].missed = {} /\ stack'[k].pc = stack[k].pc
                              /\ Follows(stack[k], stack'[k])
  <2> DEFINE Alike(f, e) ==
               /\ e.pc = f.pc /\ e.missed = f.missed /\ e.h = f.h /\ e.entry = f.entry
               /\ e.guard = f.guard /\ e.req = f.req /\ e.cmd = f.cmd
             Ended(f) == [f EXCEPT !.pc = "populate", !.missed = {}]
  <2>1. PICK r \in Seq(Frames) :
          /\ Len(r) = n /\ stack' = [r EXCEPT ![n] = Ended(r[n])]
          /\ \A k \in 1 .. n : Alike(stack[k], r[k])
    <3>1. CASE AssignDevices(lost)
      <4> DEFINE r == DevicesReplaced(stack)
      <4>1. DOMAIN stack = 1 .. n /\ \A k \in 1 .. n : stack[k] \in Frames
        BY <1>1
      <4>2. ASSUME NEW k \in 1 .. n PROVE r[k] \in Frames /\ Alike(stack[k], r[k])
        <5>1. r[k] = [stack[k] EXCEPT !.dev = Dangle(stack[k]).dev]
          BY <4>1 DEF DevicesReplaced
        <5>2. Dangle(stack[k]).dev \in Pointers /\ stack[k] \in Frames
          BY <4>1 DEF Dangle, Frames, Pointers
        <5> HIDE DEF r
        <5> QED BY <5>1, <5>2 DEF Frames
      <4>3. DOMAIN r = 1 .. n /\ r = [k \in 1 .. n |-> r[k]]
        BY <4>1 DEF DevicesReplaced
      <4>4. stack' = [r EXCEPT ![n].pc = "populate", ![n].missed = {}]
        BY <3>1 DEF AssignDevices
      <4> HIDE DEF r, Alike
      <4>5. r \in Seq(Frames) /\ Len(r) = n
        BY <1>2, <4>2, <4>3
      <4>6. stack' = [r EXCEPT ![n] = Ended(r[n])]
        BY <1>2, <4>4, <4>5
      <4> QED BY <4>2, <4>5, <4>6
    <3>2. CASE ScanThrows
      <4>1. stack' = [stack EXCEPT ![n] = Ended(stack[n])]
        BY <1>1, <1>2, <3>2 DEF ScanThrows
      <4>2. \A k \in 1 .. n : Alike(stack[k], stack[k])
        OBVIOUS
      <4> HIDE DEF Alike, Ended
      <4> QED BY <1>1, <4>1, <4>2
    <3> QED BY <3>1, <3>2
  <2> DEFINE e == Ended(r[n])
  <2>2. /\ e \in Frames /\ e.h = r[n].h /\ e.missed = {} /\ e.pc = "populate"
        /\ e.entry = r[n].entry /\ e.guard = r[n].guard
    <3>1. r[n] \in Frames
      BY <1>2, <2>1
    <3> QED BY <3>1 DEF Frames, Places
  <2>3. stack' = [r EXCEPT ![n] = e]
    BY <2>1
  <2> HIDE DEF e, Ended
  <2>4. /\ stack' \in Seq(Frames) /\ Len(stack') = n /\ stack'[n] = e
        /\ \A k \in 1 .. n : k # n => stack'[k] = r[k]
    BY <1>2, <2>1, <2>2, <2>3, Replaced
  <2>5. Alike(stack[n], r[n])
    BY <1>2, <2>1
  <2>6. ASSUME NEW k \in 1 .. n - 1
        PROVE  /\ stack'[k].missed = {} /\ stack'[k].pc = stack[k].pc
               /\ Follows(stack[k], stack'[k])
    <3>1. k \in 1 .. n /\ k # n
      BY <1>2
    <3>2. stack'[k] = r[k] /\ Alike(stack[k], r[k])
      BY <2>1, <2>4, <3>1
    <3> QED BY <1>3, <3>2 DEF Follows
  <2> QED BY <2>2, <2>4, <2>5, <2>6
<1>5. n \in Nat
  BY <1>2
<1>6. \A k \in 1 .. n - 1 : stack'[k].h = stack[k].h
  BY <1>4 DEF Follows
<1>7. \A k \in 1 .. n : stack'[k].h = stack[k].h /\ stack'[k].missed = {}
  BY <1>2, <1>4, <1>6
<1>8. Fit(stack'[n], cred)
  BY <1>1, <1>4 DEF Fit, PlacesOf
<1>9. Nest(stack', cred)
  <2>1. stack'[n].pc # "ask"
    BY <1>4
  <2> QED BY <1>1, <1>2, <1>4, <1>8, <2>1, NestTop
<1>10. Nest(stack, cred)'
  BY <1>9, NestLater
<1>11. Scalars'
  BY <1>1 DEF IInv, Scalars, process, desktop, AssignDevices, ScanThrows, Pointers, Scanned,
              Changes
<1>12. Flags'
  <2>1. \A h \in Guarded : running[h] <=> \E k \in 1 .. n : stack[k].h = h
    BY DEF IInv, Flags
  <2>2. \A h \in Guarded : running'[h] <=> \E k \in 1 .. n : stack'[k].h = h
    BY <1>7, <2>1
  <2> QED BY <1>4, <2>2 DEF Flags
<1>13. Missed'
  BY <1>4, <1>7 DEF Missed
<1>14. Treed'
  BY <1>2, <1>4 DEF Treed, Top, Last
<1>15. Awaited'
  <2>1. CASE Pending
    <3>1. ASSUME NEW k \in 1 .. n, stack[k].pc \in {"refresh", "accepted"}
          PROVE  stack'[k].pc = stack[k].pc
      BY <1>1, <1>2, <1>4, <3>1
    <3>2. Pending'
      BY <1>4, <2>1, <3>1 DEF Pending, desktop
    <3> QED BY <3>2 DEF Awaited
  <2>2. CASE \A c \in behind \ excused : \E k \in 1 .. n : WillScan(stack[k], c)
    <3>1. ASSUME NEW c \in behind \ excused PROVE c \in Scanned \ Top.missed
      BY <1>1, <1>2, <1>3, <2>2 DEF WillScan
    <3>2. behind' \ excused' = {}
      <4>1. CASE AssignDevices(lost)
        <5>1. /\ behind' = (behind \ Scanned) \cup Top.missed \cup lost
              /\ excused' = (excused \ (Scanned \ Top.missed)) \cup lost
          BY <4>1 DEF AssignDevices
        <5> QED BY <1>1, <3>1, <5>1
      <4>2. CASE ScanThrows
        BY <3>1, <4>2 DEF ScanThrows
      <4> QED BY <4>1, <4>2
    <3> QED BY <3>2 DEF Awaited
  <2> QED BY <2>1, <2>2 DEF IInv, Awaited
<1> QED BY <1>10, <1>11, <1>12, <1>13, <1>14, <1>15 DEF IInv

\* lsblk and findmnt end.
LEMMA Scanning == ASSUME IInv, LsblkEnds \/ FindmntEnds PROVE IInv'
<1>1. /\ stack # <<>> /\ Top.h = "refresh" /\ Top.pc \in {"lsblk", "findmnt"}
      /\ UNCHANGED <<process, cred, running, desktop>>
  BY DEF LsblkEnds, FindmntEnds, At
<1>2. \/ \E lost \in SUBSET Scanned : AssignDevices(lost) \/ ScanThrows
      \/ Goto("findmnt") /\ UNCHANGED <<tree, behind, excused>>
  BY DEF LsblkEnds, FindmntEnds, Scanned
<1>3. CASE \E lost \in SUBSET Scanned : AssignDevices(lost) \/ ScanThrows
  BY <1>1, <1>3, ScanEnding
<1>4. CASE Goto("findmnt") /\ UNCHANGED <<tree, behind, excused>>
  <2>1. Fit(Top, cred) /\ tree \in Pointers
    BY <1>1, TopFacts DEF IInv, Scalars
  <2>2. MayGo("findmnt")
    BY <1>1, <2>1 DEF MayGo, PlacesOf, Places, Yielding, Fit
  <2> QED BY <1>1, <1>4, <2>1, <2>2, GotoStep
<1> QED BY <1>2, <1>3, <1>4

\* OnActionRefresh() is called by an event.
LEMMA RefreshStep ==
  ASSUME IInv, Dispatching, RefreshCalled(stack), UNCHANGED <<process, cred, tree>>,
         posted' \subseteq posted, acc' \in BOOLEAN, UNCHANGED <<watching, settings, closed>>
  PROVE  IInv'
<1> DEFINE n == Len(stack)
<1>1. /\ stack \in Seq(Frames) /\ n \in Nat /\ Nest(stack, cred)
      /\ \A h \in Guarded : running[h] <=> \E k \in 1 .. n : stack[k].h = h
      /\ \A k \in 1 .. n : stack[k].missed \subseteq behind
      /\ tree = "live"
  <2>1. tree = "live"
    BY DEF IInv, Treed, Dispatching, Yielding
  <2> QED BY <2>1 DEF IInv, Flags, Missed, Nest
<1>2. n > 0 => /\ stack[n].pc \in Yielding \cup {"leave"}
               /\ HalfWay(stack[n].guard) => stack[n].pc = "error"
  <2> SUFFICES ASSUME n > 0 PROVE /\ stack[n].pc \in Yielding \cup {"leave"}
                                  /\ HalfWay(stack[n].guard) => stack[n].pc = "error"
    OBVIOUS
  <2>1. stack # <<>>
    BY <1>1
  <2>2. Top = stack[n] /\ Fit(Top, cred)
    BY <2>1, TopFacts
  <2>3. Top.pc \in Yielding
    BY <2>1 DEF Dispatching
  <2> QED BY <2>2, <2>3 DEF Fit, Yielding
<1>3. /\ Nest(stack, cred)' /\ Flags' /\ Missed'
      /\ running' \in [Guarded -> BOOLEAN]
      /\ behind' \subseteq Changes /\ excused' \subseteq Changes
      /\ \A c \in behind' \ excused' : \E k \in 1 .. Len(stack') : WillScan(stack'[k], c)
  BY <1>1, <1>2, RefreshNest DEF Guarded
<1>4. Scalars'
  BY <1>3 DEF IInv, Scalars, process
<1>5. Treed' /\ Awaited'
  BY <1>1, <1>3 DEF Treed, Awaited, WillScan
<1> QED BY <1>3, <1>4, <1>5 DEF IInv

\* A handler calls OnActionRefresh() as its last act.
LEMMA Calling == ASSUME IInv, CallRefresh PROVE IInv'
<1> DEFINE n == Len(stack)
           g == [stack[n] EXCEPT !.pc = "leave"]
           s == [stack EXCEPT ![n] = g]
<1>1. /\ stack # <<>> /\ Top.pc = "refresh" /\ UNCHANGED <<process, cred, tree, desktop>>
      /\ RefreshCalled(s)
  BY Zenon DEF CallRefresh
<1>2. /\ usr \in Ids /\ stack \in Seq(Frames) /\ n \in Nat \ {0} /\ n \in 1 .. n
      /\ Top = stack[n] /\ cred \in Creds
      /\ Top \in Frames /\ Fit(Top, cred) /\ Nest(stack, cred)
      /\ \A h \in Guarded : running[h] <=> \E k \in 1 .. n : stack[k].h = h
      /\ \A k \in 1 .. n : stack[k].missed \subseteq behind
      /\ tree = "live"
  BY <1>1, TopFacts DEF IInv, Flags, Missed, Treed
<1>3. /\ g \in Frames /\ g.h = Top.h /\ g.pc = "leave" /\ g.entry = Top.entry
      /\ g.guard = Top.guard /\ g.missed = Top.missed
  BY <1>2, Fillings DEF Frames
<1> HIDE DEF g
<1>4. s \in Seq(Frames) /\ Len(s) = n /\ s[n] = g /\ \A k \in 1 .. n : k # n => s[k] = stack[k]
  BY <1>2, <1>3, Replaced
<1> HIDE DEF s
<1>5. Fit(g, cred) /\ ~HalfWay(g.guard)
  <2>1. g.pc \in PlacesOf(g.h)
    BY <1>1, <1>2, <1>3 DEF PlacesOf, Fit, Frames, Handlers, Guarded
  <2> QED BY <1>1, <1>2, <1>3, <2>1 DEF Fit
<1>6. Nest(s, cred)
  <2>1. \A k \in 1 .. n - 1 : s[k] = stack[k]
    BY <1>2, <1>4
  <2>2. \A k \in 1 .. n - 1 : Follows(stack[k], s[k])
    BY <1>2, <2>1 DEF Nest, Fit, Follows
  <2>3. s[n].h = stack[n].h /\ s[n].entry = stack[n].entry /\ s[n].pc # "ask" /\ Fit(s[n], cred)
    BY <1>2, <1>3, <1>4, <1>5
  <2> QED BY <1>2, <1>4, <2>1, <2>2, <2>3, NestTop
<1>7. \A k \in 1 .. n : s[k].h = stack[k].h /\ s[k].missed = stack[k].missed
  BY <1>2, <1>3, <1>4
<1>8. /\ \A h \in Guarded : running[h] <=> \E k \in 1 .. n : s[k].h = h
      /\ \A k \in 1 .. n : s[k].missed \subseteq behind
  BY <1>2, <1>7
<1>9. /\ Nest(stack, cred)' /\ Flags' /\ Missed'
      /\ running' \in [Guarded -> BOOLEAN]
      /\ behind' \subseteq Changes /\ excused' \subseteq Changes
      /\ \A c \in behind' \ excused' : \E k \in 1 .. Len(stack') : WillScan(stack'[k], c)
  <2>1. s[n].pc \in Yielding \cup {"leave"} /\ ~HalfWay(s[n].guard) /\ n \in Nat
    BY <1>2, <1>3, <1>4, <1>5
  <2> QED BY <1>1, <1>4, <1>6, <1>8, <2>1, RefreshNest DEF Guarded
<1>10. Scalars'
  BY <1>1, <1>9 DEF IInv, Scalars, process, desktop
<1>11. Treed' /\ Awaited'
  BY <1>1, <1>2, <1>9 DEF Treed, Awaited, WillScan
<1> QED BY <1>9, <1>10, <1>11 DEF IInv

\* The events that call OnActionRefresh().
LEMMA Refreshing == ASSUME IInv, RefreshClicked \/ Shown \/ TimerFires PROVE IInv'
<1>1. Dispatching /\ RefreshCalled(stack) /\ UNCHANGED <<process, cred, tree>>
  BY DEF RefreshClicked, Shown, TimerFires, CanStart, UserCanClick
<1>2. posted' \subseteq posted /\ acc' \in BOOLEAN /\ UNCHANGED <<watching, settings, closed>>
  BY DEF RefreshClicked, Shown, TimerFires, desktop, IInv, Scalars
<1> QED BY <1>1, <1>2, RefreshStep

\* Events and clicks that start no handler.
LEMMA Still ==
  ASSUME IInv, \/ FSWatchDev \/ FSWatchConfig \/ EditPreferences \/ UseSystemdChanged
               \/ CloseWindow \/ ConfigWritten \/ UNCHANGED vars
  PROVE  IInv'
<1>1. UNCHANGED <<process, cred, stack, running, tree, behind, excused>>
  BY DEF FSWatchDev, FSWatchConfig, EditPreferences, UseSystemdChanged, CloseWindow,
         ConfigWritten, vars, process
<1>2. /\ usr \in Ids /\ home \in Creds /\ WellFormed(home) /\ running \in [Guarded -> BOOLEAN]
      /\ tree \in Pointers /\ behind \subseteq Changes /\ excused \subseteq Changes
      /\ posted \subseteq {"show", "dev", "config"}
      /\ acc \in BOOLEAN /\ watching \in BOOLEAN /\ closed \in BOOLEAN
      /\ settings \in AllSettings
  BY DEF IInv, Scalars
<1>3. /\ posted' \subseteq {"show", "dev", "config"}
      /\ acc' \in BOOLEAN /\ watching' \in BOOLEAN /\ closed' \in BOOLEAN
  BY <1>2 DEF FSWatchDev, FSWatchConfig, EditPreferences, UseSystemdChanged, CloseWindow,
              ConfigWritten, vars
<1>4. settings' \in AllSettings
  <2>1. CASE FSWatchConfig
    BY <2>1, ConfigsAssumption DEF FSWatchConfig
  <2>2. CASE UseSystemdChanged
    BY <1>2, <2>2 DEF UseSystemdChanged, AllSettings
  <2>3. CASE UNCHANGED settings
    BY <1>2, <2>3
  <2> QED BY <2>1, <2>2, <2>3 DEF FSWatchDev, EditPreferences, CloseWindow, ConfigWritten, vars
<1>5. ~acc' \/ (posted \cap {"show", "dev"} \subseteq posted' /\ (~acc => ~acc'))
  BY DEF FSWatchDev, FSWatchConfig, EditPreferences, UseSystemdChanged, CloseWindow,
         ConfigWritten, vars
<1>6. Scalars'
  BY <1>1, <1>2, <1>3, <1>4 DEF Scalars, process
<1> QED BY <1>1, <1>5, <1>6, StillStep

\* Handlers the user starts.
LEMMA Starting ==
  ASSUME IInv, NetScanClicked \/ MountClicked \/ UnmountClicked \/ OpenDialog \/ Accept
  PROVE  IInv'
<1>1. /\ usr \in Ids /\ cred \in Creds /\ WellFormed(cred) /\ settings \in AllSettings
      /\ stack \in Seq(Frames)
  <2>1. stack = <<>> => cred = home
    BY DEF IInv, Nest, Level
  <2> QED BY <2>1, TopFacts DEF IInv, Scalars, Nest
<1>2. \A p \in Places, h \in Handlers : NewFrame(h, p) \in Frames
  BY <1>1, Fillings DEF NewFrame, Frames, Pointers
<1>3. /\ Dispatching /\ ~Asking
      /\ UNCHANGED <<process, tree, behind, excused, desktop>>
  BY DEF NetScanClicked, MountClicked, UnmountClicked, OpenDialog, Accept, CanStart, UserCanClick,
         InDialog
<1>4. CASE NetScanClicked
  <2> DEFINE f == NewFrame("netscan", "scan")
  <2>1. f \in Frames
    BY <1>2 DEF Places, Yielding, Handlers, Guarded
  <2>2. f.entry = cred /\ f.missed = {} /\ f.h = "netscan" /\ f.guard = Unarmed /\ f.pc = "scan"
    BY DEF NewFrame
  <2>3. Enter(f) /\ ~running["netscan"] /\ cred' = cred
    BY <1>4 DEF NetScanClicked, CanStart, Guarded
  <2> HIDE DEF f
  <2>4. Fit(f, cred')
    BY <1>1, <2>2, <2>3, Fillings DEF Fit, Holds, PlacesOf
  <2> QED BY <1>1, <1>3, <2>1, <2>2, <2>3, <2>4, PushStep
<1>5. CASE UnmountClicked
  <2>1. PICK byUser \in BOOLEAN, hasUnit \in BOOLEAN, sdumount \in BOOLEAN :
          Enter([NewFrame("unmount", "run") EXCEPT
                   !.cmd = [tool |-> UnmountTool(byUser, hasUnit, sdumount),
                            sudo |-> UnmountSudo(byUser, cred.ruid, settings), fresh |-> TRUE]])
    BY <1>5 DEF UnmountClicked
  <2> DEFINE c == [tool |-> UnmountTool(byUser, hasUnit, sdumount),
                   sudo |-> UnmountSudo(byUser, cred.ruid, settings), fresh |-> TRUE]
             f == [NewFrame("unmount", "run") EXCEPT !.cmd = c]
  <2>2. c \in Commands
    <3>1. UnmountTool(byUser, hasUnit, sdumount) \in Tools
      BY DEF UnmountTool, Tools
    <3>2. UnmountSudo(byUser, cred.ruid, settings) \in BOOLEAN
      BY <1>1 DEF UnmountSudo, AllSettings
    <3> QED BY <3>1, <3>2 DEF Commands
  <2> HIDE DEF c
  <2>3. NewFrame("unmount", "run") \in Frames
    BY <1>2 DEF Places, Yielding, Handlers, Guarded
  <2>4. f \in Frames
    BY <2>2, <2>3 DEF Frames
  <2>5. f.entry = cred /\ f.missed = {} /\ f.h = "unmount" /\ f.guard = Unarmed /\ f.pc = "run"
    BY DEF NewFrame
  <2>6. Enter(f)
    BY <2>1 DEF c
  <2>7. ~running["unmount"] /\ cred' = cred
    BY <1>5 DEF UnmountClicked, CanStart, Guarded
  <2> HIDE DEF f
  <2>8. Fit(f, cred')
    BY <1>1, <2>5, <2>7, Fillings DEF Fit, Holds, PlacesOf
  <2> QED BY <1>1, <1>3, <2>4, <2>5, <2>6, <2>7, <2>8, PushStep
<1>6. CASE OpenDialog
  <2>1. PICK listed \in BOOLEAN, fstab \in BOOLEAN :
          Enter([NewFrame("dialog", "open") EXCEPT !.dev = Pointer(listed), !.fstab = fstab])
    BY <1>6 DEF OpenDialog
  <2> DEFINE f == [NewFrame("dialog", "open") EXCEPT !.dev = Pointer(listed), !.fstab = fstab]
  <2>2. NewFrame("dialog", "open") \in Frames
    BY <1>2 DEF Places, Yielding, Handlers, Guarded
  <2>3. f \in Frames
    BY <2>2, Fillings DEF Frames
  <2>4. f.entry = cred /\ f.missed = {} /\ f.h = "dialog" /\ f.guard = Unarmed /\ f.pc = "open"
    BY DEF NewFrame
  <2>5. Enter(f) /\ ~DialogOpen /\ cred' = cred
    BY <1>6, <2>1 DEF OpenDialog, CanStart, UserCanClick
  <2> HIDE DEF f
  <2>6. Fit(f, cred')
    BY <1>1, <2>4, <2>5, Fillings DEF Fit, Holds, PlacesOf
  <2> QED BY <1>1, <1>3, <2>3, <2>4, <2>5, <2>6, PushStep DEF Guarded
<1>7. CASE Accept
  <2>1. PICK i \in DOMAIN stack, p \in {"ask", "write"} :
          /\ InDialog(i)
          /\ Enter([NewFrame("accept", p) EXCEPT
                      !.cmd = IF stack[i].fstab THEN Followed(stack[i]) ELSE NoCommand])
    BY <1>7 DEF Accept
  <2> DEFINE c == IF stack[i].fstab THEN Followed(stack[i]) ELSE NoCommand
             f == [NewFrame("accept", p) EXCEPT !.cmd = c]
  <2>2. c \in Commands
    <3>1. stack[i] \in Frames
      BY <1>1
    <3> QED BY <3>1, FollowedTyped, Fillings
  <2>3. NewFrame("accept", p) \in Frames
    BY <1>2 DEF Places, Yielding, Handlers
  <2>4. Enter(f)
    BY <2>1
  <2> HIDE DEF c
  <2>5. f \in Frames
    BY <2>2, <2>3 DEF Frames
  <2>6. f.entry = cred /\ f.missed = {} /\ f.h = "accept" /\ f.guard = Unarmed /\ f.pc = p
    BY DEF NewFrame
  <2>7. DialogOpen /\ cred' = cred
    BY <1>7, <2>1 DEF Accept, InDialog, DialogOpen
  <2> HIDE DEF f
  <2>8. Fit(f, cred')
    BY <1>1, <2>6, <2>7, Fillings DEF Fit, Holds, PlacesOf
  <2> QED BY <1>1, <1>3, <2>4, <2>5, <2>6, <2>7, <2>8, PushStep DEF Guarded
<1>8. CASE MountClicked
  <2> DEFINE F(r, o) == [NewFrame("mount", IF o.ok THEN "mkdir" ELSE "leave")
                           EXCEPT !.req = r, !.guard = o.guard,
                                  !.dev = Pointer(r.listed), !.mu = Pointer(r.unit # "none")]
  <2>1. PICK r \in Requests,
             o \in DropIfFeasible(cred, usr, Unarmed) \cup Kept(Unarmed) :
          r.tl # "reject" /\ cred' = o.cred /\ Enter(F(r, o))
    <3> HIDE DEF F
    <3>1. PICK r \in Requests : 
            /\ r.tl # "reject"
            /\ \E o \in IF DropPriv(r, cred.ruid) /\ r.tl # "trusted"
                        THEN DropIfFeasible(cred, usr, Unarmed) ELSE Kept(Unarmed) :
                 cred' = o.cred /\ Enter(F(r, o))
      BY <1>8 DEF MountClicked, F
    <3> QED BY <3>1
  <2>2. /\ Holds(o.guard, cred, o.cred, usr) /\ o.ok \in BOOLEAN
        /\ o.ok => ~HalfWay(o.guard)
    <3>1. Holds(Unarmed, cred, cred, usr)
      BY DEF Holds
    <3>2. CASE o \in DropIfFeasible(cred, usr, Unarmed)
      BY <1>1, <3>1, <3>2, Fillings, DropHeld
    <3>3. CASE o \in Kept(Unarmed)
      BY <3>1, <3>3, KeptFacts, Fillings
    <3> QED BY <2>1, <3>2, <3>3
  <2>3. WellFormed(o.cred) /\ o.guard \in Guards
    BY <1>1, <2>2, HoldsCases
  <2>4. r \in AllRequests /\ r.listed \in BOOLEAN
    BY RequestsAssumption DEF AllRequests
  <2>5. NewFrame("mount", IF o.ok THEN "mkdir" ELSE "leave") \in Frames
    BY <1>2, <2>2 DEF Places, Yielding, Handlers, Guarded
  <2> DEFINE f == F(r, o)
  <2>6. f \in Frames
    BY <2>3, <2>4, <2>5, Fillings DEF Frames
  <2>7. /\ f.entry = cred /\ f.missed = {} /\ f.h = "mount" /\ f.guard = o.guard
        /\ f.pc = (IF o.ok THEN "mkdir" ELSE "leave") /\ f.req = r
        /\ f.dev = Pointer(r.listed) /\ f.mu = Pointer(r.unit # "none")
    BY DEF NewFrame
  <2>8. Enter(f) /\ cred' = o.cred
    BY <2>1
  <2>9. ~running["mount"]
    BY <1>8 DEF MountClicked, CanStart, Guarded
  <2> HIDE DEF f, F
  <2>10. Fit(f, cred')
    BY <1>1, <2>1, <2>2, <2>7, <2>8 DEF Fit, PlacesOf
  <2> QED BY <1>1, <1>3, <2>3, <2>6, <2>7, <2>8, <2>9, <2>10, PushStep DEF WellFormed
<1> QED BY <1>4, <1>5, <1>6, <1>7, <1>8

\* Handlers return.
LEMMA Returning == ASSUME IInv, Populate \/ Leave PROVE IInv'
<1>1. CASE Populate
  BY <1>1, PopStep DEF Populate
<1>2. CASE Leave
  BY <1>2, PopStep DEF Leave
<1> QED BY <1>1, <1>2
-----------------------------------------------------------------------------
(* Theorems.                                                               *)

\* The window is ready before any handler starts.
LEMMA InitIInv == Init => IInv
<1> SUFFICES ASSUME Init PROVE IInv
  OBVIOUS
<1>1. PICK s \in Starts : home = AllOf(s[1]) /\ usr = s[2]
  BY DEF Init
<1>2. s[1] \in Ids /\ s[2] \in Ids
  BY StartsAssumption
<1>3. usr \in Ids /\ WellFormed(home) /\ home \in Creds
  BY <1>1, <1>2, IdsAssumption DEF AllOf, WellFormed, Creds, Ids
<1>4. stack = <<>> /\ cred = home /\ Len(stack) = 0
  BY DEF Init
<1>5. settings \in AllSettings
  <2>1. PICK c \in Configs : settings = [c EXCEPT !.sudo = @ /\ usr # Root]
    BY DEF Init
  <2> QED BY <2>1, ConfigsAssumption DEF AllSettings
<1>6. Scalars
  BY <1>3, <1>5 DEF Init, Scalars, Pointers
<1>7. Nest(stack, cred)
  BY <1>3, <1>4 DEF Nest, Level
<1>8. Flags /\ Treed /\ Missed
  BY <1>4 DEF Init, Flags, Treed, Missed
<1>9. Awaited
  BY DEF Init, Awaited, Pending
<1> QED BY <1>6, <1>7, <1>8, <1>9 DEF IInv

\* Every step preserves the invariant.
LEMMA NextIInv == IInv /\ [Next]_vars => IInv'
<1> SUFFICES ASSUME IInv, [Next]_vars PROVE IInv'
  OBVIOUS
<1>1. CASE Proceed
  BY <1>1, Scanning, GoingOn, Returning, Deciding, MountEnding, Calling, Writing, Written
     DEF Proceed
<1>2. CASE Dispatch
  BY <1>2, Refreshing, Still DEF Dispatch
<1>3. CASE Answer
  BY <1>3, Answering, Starting, GoingOn, Refusing DEF Answer
<1>4. CASE Click
  BY <1>4, Refreshing, Starting, Still DEF Click
<1>5. CASE World
  BY <1>5, Plugged, Still DEF World
<1>6. CASE Terminated \/ UNCHANGED vars
  BY <1>6, Still DEF Terminated
<1> QED BY <1>1, <1>2, <1>3, <1>4, <1>5, <1>6 DEF Next

\* So it holds in every reachable state.
LEMMA Invariance == Spec => []IInv
BY InitIInv, NextIInv, PTL DEF Spec

\* The handlers on the stack, in the terms of the properties.
LEMMA StackFacts ==
  ASSUME IInv
  PROVE  /\ stack \in Seq(Frames) /\ Len(stack) \in Nat /\ DOMAIN stack = 1 .. Len(stack)
         /\ \A k \in 1 .. Len(stack) : stack[k] \in Frames
         /\ \A k \in 1 .. Len(stack) : \E w \in Creds : Fit(stack[k], w)
         /\ \A k \in 1 .. Len(stack) : \A i \in 1 .. k - 1 : Nested(stack[i], stack[k])
<1>1. stack \in Seq(Frames) /\ cred \in Creds /\ Nest(stack, cred)
  BY DEF IInv, Nest
<1>2. \A k \in 1 .. Len(stack) : stack[k] \in Frames
  BY <1>1
<1>3. ASSUME NEW k \in 1 .. Len(stack) PROVE \E w \in Creds : Fit(stack[k], w)
  <2>1. Level(stack, cred, k + 1) \in Creds
    BY <1>1, <1>2 DEF Level, Frames
  <2> QED BY <1>1, <2>1 DEF Nest
<1> QED BY <1>1, <1>2, <1>3 DEF Nest

\* The variables have their types, and the flags of IF_REENTRY_RETURN are true:
\* no guarded handler runs inside itself.
THEOREM TypeCorrect == Spec => []TypeOK
<1>1. IInv => TypeOK
  <2> SUFFICES ASSUME IInv PROVE TypeOK
    OBVIOUS
  <2>1. NoReentry
    <3> SUFFICES ASSUME NEW h \in Guarded
                 PROVE  running[h] <=> \E i \in {j \in 1 .. Len(stack) : stack[j].h = h} :
                                         {j \in 1 .. Len(stack) : stack[j].h = h} = {i}
      BY StackFacts DEF NoReentry
    <3> DEFINE active == {j \in 1 .. Len(stack) : stack[j].h = h}
    <3>1. running[h] <=> \E k \in 1 .. Len(stack) : stack[k].h = h
      BY DEF IInv, Flags
    <3>2. ASSUME NEW i \in active, NEW j \in active, i < j PROVE FALSE
      <4>1. Nested(stack[i], stack[j])
        BY <3>2, StackFacts
      <4> QED BY <4>1 DEF Nested
    <3>3. \A i, j \in active : i = j
      BY <3>2, StackFacts
    <3> QED BY <3>1, <3>3
  <2>2. cred \in Creds /\ stack \in Seq(Frames)
    BY DEF IInv, Nest
  <2> QED BY <2>1, <2>2 DEF IInv, Scalars, TypeOK
<1> QED BY <1>1, Invariance, PTL

\* README.md, "Sudo and passwords": whatever handlers run inside each other, a
\* command root carries out for the user is one the settings allow.
THEOREM RootIsAllowed == Spec => []RootRunsOnlyAllowed
<1>1. IInv => RootRunsOnlyAllowed
  <2> SUFFICES ASSUME IInv, stack # <<>>, cred.euid = Root, usr # Root
               PROVE  /\ Running(Top, {"mount"}) => RootMayMount(Top.req)
                      /\ ~Running(Top, {"accept"})
    BY DEF RootRunsOnlyAllowed
  <2>1. Fit(Top, cred) /\ cred.ruid = Root
    BY TopFacts DEF WellFormed
  <2>2. Top.h = "accept" => Top.pc # "install"
    BY <2>1 DEF Fit, PlacesOf
  <2> QED BY <2>1, <2>2 DEF Fit, Running
<1> QED BY <1>1, Invariance, PTL

\* Items that can be selected carry live pointers, and root mounts what it looked
\* up without an event in between.
THEOREM PointersStayLive == Spec => []PointersLive
<1>1. IInv => TreeIsLive
  BY DEF IInv, Treed, TreeIsLive, Dispatching, Yielding
<1>2. IInv => RootMountsFresh
  <2> SUFFICES ASSUME IInv, stack # <<>>, cred.euid = Root, Running(Top, {"mount"})
               PROVE  Top.cmd.fresh
    BY DEF RootMountsFresh
  <2>1. Fit(Top, cred) /\ cred.ruid = Root
    BY TopFacts DEF WellFormed
  <2> QED BY <2>1 DEF Fit, Running
<1> QED BY <1>1, <1>2, Invariance, PTL DEF PointersLive

\* A handler that runs its command has the credentials main() left, or all of the
\* user's: drop() that failed half way ends the handler, and what it left is
\* never inherited by a handler that goes on.
THEOREM RunWhole == Spec => []CommandsRunWhole
<1>1. IInv => CommandsRunWhole
  <2> SUFFICES ASSUME IInv, stack # <<>>, Running(Top, {"mount", "unmount", "accept"}),
                      ~Whole(cred)
               PROVE  FALSE
    BY DEF CommandsRunWhole, Whole
  <2> DEFINE n == Len(stack)
  <2>1. n \in Nat \ {0} /\ Top = stack[n] /\ Top \in Frames /\ Fit(Top, cred) /\ usr \in Ids
    BY TopFacts
  <2>2. Top.pc \in {"install", "run"} /\ Top.h # "refresh"
    BY DEF Running
  <2>3. ~HalfWay(Top.guard)
    BY <2>1, <2>2 DEF Fit
  <2>4. \E i \in 1 .. n : stack[i].pc = "error"
    <3>1. Nest(stack, cred) /\ stack \in Seq(Frames)
      BY DEF IInv, Nest
    <3> QED BY <2>1, <2>3, <3>1, WholeOrError
  <2>5. PICK i \in 1 .. n : stack[i].pc = "error"
    BY <2>4
  <2>6. i # n
    BY <2>1, <2>2, <2>5
  <2>7. Nested(stack[i], stack[n])
    <3>1. n \in 1 .. n /\ i \in 1 .. n - 1
      BY <2>1, <2>6
    <3> QED BY <3>1, StackFacts
  <2> QED BY <2>1, <2>2, <2>5, <2>7 DEF Nested
<1> QED BY <1>1, Invariance, PTL

\* When the window is quiet its containers show all that happened, except what a
\* failed scan or a refused refresh missed.
THEOREM Quiet == Spec => []QuietIsFresh
<1>1. IInv => QuietIsFresh
  <2> SUFFICES ASSUME IInv, ~Pending,
                      \A k \in 1 .. Len(stack) : stack[k].h # "refresh"
               PROVE  behind \subseteq excused
    BY StackFacts DEF QuietIsFresh, Pending
  <2>1. ASSUME NEW k \in 1 .. Len(stack) PROVE stack[k].pc \notin {"lsblk", "findmnt"}
    <3>1. PICK w \in Creds : Fit(stack[k], w)
      BY StackFacts
    <3>2. stack[k].h \in Handlers /\ stack[k].h # "refresh"
      BY StackFacts DEF Frames
    <3> QED BY <3>1, <3>2 DEF Fit, PlacesOf, Handlers, Guarded
  <2>2. ASSUME NEW c \in behind \ excused PROVE FALSE
    <3>1. \E k \in 1 .. Len(stack) : WillScan(stack[k], c)
      BY <2>2 DEF IInv, Awaited
    <3> QED BY <2>1, <3>1 DEF WillScan
  <2> QED BY <2>2
<1> QED BY <1>1, Invariance, PTL
-----------------------------------------------------------------------------
(* The refinement of LexicalScopes: what a step does to the levels.        *)

\* The levels are credentials, one more of them than there are handlers.
LEMMA LevelsSeq ==
  ASSUME NEW ss \in Seq(Frames), NEW c \in Creds
  PROVE  /\ Levels(ss, c) \in Seq(Creds)
         /\ Len(ss) \in Nat
         /\ Len(Levels(ss, c)) = Len(ss) + 1
         /\ Levels(ss, c)[Len(ss) + 1] = c
         /\ \A k \in 1 .. Len(ss) : Levels(ss, c)[k] = ss[k].entry
<1>1. Len(ss) \in Nat /\ \A k \in 1 .. Len(ss) : ss[k] \in Frames
  OBVIOUS
<1>2. Levels(ss, c) \in [1 .. Len(ss) + 1 -> Creds]
  BY <1>1 DEF Levels, Level, Frames
<1>3. Levels(ss, c) \in Seq(Creds) /\ Len(Levels(ss, c)) = Len(ss) + 1
  BY <1>1, <1>2
<1>4. /\ Levels(ss, c)[Len(ss) + 1] = c
      /\ \A k \in 1 .. Len(ss) : Levels(ss, c)[k] = ss[k].entry
  BY <1>1 DEF Levels, Level
<1> QED BY <1>1, <1>3, <1>4

\* In t the same handlers stand as in s.
SameEntries(s, t) == DOMAIN t = DOMAIN s /\ \A k \in DOMAIN s : t[k].entry = s[k].entry

\* A step that adds and removes no handler changes the last level at most.
LEMMA LevelsKept ==
  ASSUME NEW ss \in Seq(Frames), NEW tt \in Seq(Frames), NEW c \in Creds, NEW d \in Creds,
         SameEntries(ss, tt)
  PROVE  /\ Len(tt) = Len(ss)
         /\ Levels(tt, d) = [Levels(ss, c) EXCEPT ![Len(ss) + 1] = d]
<1> DEFINE n == Len(ss)
           ll == Levels(ss, c)
           mm == [ll EXCEPT ![n + 1] = d]
<1>1. n \in Nat /\ DOMAIN ss = 1 .. n /\ Len(tt) \in Nat /\ DOMAIN tt = 1 .. Len(tt)
  OBVIOUS
<1>2. Len(tt) = n
  BY <1>1 DEF SameEntries
<1>3. /\ ll \in Seq(Creds) /\ Len(ll) = n + 1
      /\ \A k \in 1 .. n : ll[k] = ss[k].entry
  BY LevelsSeq
<1>4. /\ Levels(tt, d) \in Seq(Creds) /\ Len(Levels(tt, d)) = n + 1
      /\ Levels(tt, d)[n + 1] = d
      /\ \A k \in 1 .. n : Levels(tt, d)[k] = tt[k].entry
  BY <1>2, LevelsSeq
<1> HIDE DEF ll
<1>5. /\ mm \in Seq(Creds) /\ Len(mm) = n + 1 /\ mm[n + 1] = d
      /\ \A k \in 1 .. n : mm[k] = ll[k]
  BY <1>1, <1>3, ExceptSeq
<1> HIDE DEF mm
<1>6. ASSUME NEW k \in 1 .. n + 1 PROVE Levels(tt, d)[k] = mm[k]
  <2>1. CASE k = n + 1
    BY <1>4, <1>5, <2>1
  <2>2. CASE k \in 1 .. n
    <3>1. tt[k].entry = ss[k].entry
      BY <1>1, <2>2 DEF SameEntries
    <3> QED BY <1>3, <1>4, <1>5, <2>2, <3>1
  <2> QED BY <1>1, <2>1, <2>2
<1>7. Levels(tt, d) = mm
  BY <1>4, <1>5, <1>6, SeqEqual
<1> QED BY <1>2, <1>7 DEF mm, ll

\* A handler that starts adds a level.
LEMMA LevelsAdded ==
  ASSUME NEW ss \in Seq(Frames), NEW tt \in Seq(Frames), NEW c \in Creds, NEW d \in Creds,
         SameEntries(ss, tt), NEW f \in Frames, f.entry = c
  PROVE  Levels(Append(tt, f), d) = Append(Levels(ss, c), d)
<1> DEFINE n == Len(ss)
           uu == Append(tt, f)
           ll == Levels(ss, c)
           mm == Append(ll, d)
<1>1. n \in Nat /\ DOMAIN ss = 1 .. n /\ Len(tt) = n
  BY LevelsKept
<1>2. /\ uu \in Seq(Frames) /\ Len(uu) = n + 1 /\ uu[n + 1] = f
      /\ \A k \in 1 .. n : uu[k] = tt[k]
  BY <1>1, AppendProperties
<1>3. /\ ll \in Seq(Creds) /\ Len(ll) = n + 1 /\ ll[n + 1] = c
      /\ \A k \in 1 .. n : ll[k] = ss[k].entry
  BY LevelsSeq
<1> HIDE DEF uu, ll
<1>4. /\ mm \in Seq(Creds) /\ Len(mm) = n + 2 /\ mm[n + 2] = d
      /\ \A k \in 1 .. n + 1 : mm[k] = ll[k]
  BY <1>1, <1>3, AppendProperties
<1> HIDE DEF mm
<1>5. /\ Levels(uu, d) \in Seq(Creds) /\ Len(Levels(uu, d)) = n + 2
      /\ Levels(uu, d)[n + 2] = d
      /\ \A k \in 1 .. n + 1 : Levels(uu, d)[k] = uu[k].entry
  <2>1. /\ Levels(uu, d) \in Seq(Creds) /\ Len(Levels(uu, d)) = Len(uu) + 1
        /\ Levels(uu, d)[Len(uu) + 1] = d
        /\ \A k \in 1 .. Len(uu) : Levels(uu, d)[k] = uu[k].entry
    BY <1>2, LevelsSeq
  <2>2. Len(uu) + 1 = n + 2
    BY <1>1, <1>2
  <2> QED BY <1>2, <2>1, <2>2
<1>6. \A k \in 1 .. n + 1 : uu[k].entry = ll[k]
  BY <1>1, <1>2, <1>3 DEF SameEntries
<1>7. \A k \in 1 .. n + 2 : Levels(uu, d)[k] = mm[k]
  BY <1>1, <1>4, <1>5, <1>6
<1>8. Levels(uu, d) = mm
  BY <1>1, <1>4, <1>5, <1>7, SeqEqual
<1> QED BY <1>8 DEF mm, ll, uu

\* A handler that returns to the credentials it was entered with removes a level.
LEMMA LevelsRemoved ==
  ASSUME NEW ss \in Seq(Frames), ss # <<>>, NEW c \in Creds
  PROVE  Levels(Front(ss), ss[Len(ss)].entry) = Front(Levels(ss, c))
<1> DEFINE n == Len(ss)
           tt == Front(ss)
           e == ss[n].entry
           ll == Levels(ss, c)
<1>1. /\ n \in Nat \ {0} /\ tt \in Seq(Frames) /\ Len(tt) = n - 1
      /\ \A k \in 1 .. n - 1 : tt[k] = ss[k]
  BY FrontProperties
<1>2. e \in Creds
  <2>1. ss[n] \in Frames
    BY <1>1
  <2> QED BY <2>1 DEF Frames
<1>3. /\ ll \in Seq(Creds) /\ Len(ll) = n + 1 /\ ll # <<>>
      /\ \A k \in 1 .. n : ll[k] = ss[k].entry
  <2>1. /\ ll \in Seq(Creds) /\ Len(ll) = n + 1
        /\ \A k \in 1 .. n : ll[k] = ss[k].entry
    BY LevelsSeq
  <2> QED BY <1>1, <2>1
<1> HIDE DEF tt, e, ll
<1>4. /\ Front(ll) \in Seq(Creds) /\ Len(Front(ll)) = n
      /\ \A k \in 1 .. n : Front(ll)[k] = ll[k]
  <2>1. /\ Front(ll) \in Seq(Creds) /\ Len(Front(ll)) = Len(ll) - 1
        /\ \A k \in 1 .. Len(ll) - 1 : Front(ll)[k] = ll[k]
    BY <1>3, FrontProperties
  <2>2. Len(ll) - 1 = n
    BY <1>1, <1>3
  <2> QED BY <2>1, <2>2
<1>5. /\ Levels(tt, e) \in Seq(Creds) /\ Len(Levels(tt, e)) = n
      /\ Levels(tt, e)[n] = e
      /\ \A k \in 1 .. n - 1 : Levels(tt, e)[k] = tt[k].entry
  <2>1. /\ Levels(tt, e) \in Seq(Creds) /\ Len(Levels(tt, e)) = Len(tt) + 1
        /\ Levels(tt, e)[Len(tt) + 1] = e
        /\ \A k \in 1 .. Len(tt) : Levels(tt, e)[k] = tt[k].entry
    BY <1>1, <1>2, LevelsSeq
  <2>2. Len(tt) + 1 = n
    BY <1>1
  <2> QED BY <1>1, <2>1, <2>2
<1>6. ASSUME NEW k \in 1 .. n PROVE Levels(tt, e)[k] = Front(ll)[k]
  <2>1. CASE k = n
    BY <1>3, <1>4, <1>5, <2>1 DEF e
  <2>2. CASE k \in 1 .. n - 1
    BY <1>1, <1>3, <1>4, <1>5, <2>2
  <2> QED BY <1>1, <2>1, <2>2
<1>7. Levels(tt, e) = Front(ll)
  BY <1>1, <1>4, <1>5, <1>6, SeqEqual
<1> QED BY <1>7 DEF tt, e, ll

\* No handler starts or returns.
Staying == SameEntries(stack, stack') /\ (stack = <<>> => cred' = cred)

\* A handler starts, under the credentials the process had.
Entering == \E s, f : /\ SameEntries(stack, s) /\ stack' = Append(s, f)
                      /\ s \in Seq(Frames) /\ f \in Frames /\ f.entry = cred

\* The innermost handler returns to the credentials it was entered with.
Leaving == stack # <<>> /\ stack' = Front(stack) /\ cred' = stack[Len(stack)].entry

\* Each of the three is a step of LexicalScopes, or none.
LEMMA LexicalStep ==
  ASSUME IInv, IInv', Staying \/ Entering \/ Leaving
  PROVE  [Lexical!Next]_Seen
<1> DEFINE n == Len(stack)
<1>1. /\ stack \in Seq(Frames) /\ stack' \in Seq(Frames) /\ cred \in Creds /\ cred' \in Creds
      /\ n \in Nat
  BY DEF IInv, Nest
<1>2. Seen \in Seq(Creds) /\ Len(Seen) = n + 1 /\ Seen[n + 1] = cred
  BY <1>1, LevelsSeq DEF Seen
<1>3. CASE Staying
  <2>1. Len(stack') = n /\ Seen' = [Seen EXCEPT ![n + 1] = cred']
    BY <1>1, <1>3, LevelsKept DEF Seen, Staying
  <2>2. CASE stack = <<>>
    <3>1. [Seen EXCEPT ![n + 1] = cred] = Seen
      BY <1>1, <1>2
    <3> QED BY <1>3, <2>1, <2>2, <3>1 DEF Staying
  <2>3. CASE stack # <<>>
    <3>1. Len(Seen) > 1 /\ n + 1 = Len(Seen)
      BY <1>1, <1>2, <2>3
    <3>2. Seen' = [Seen EXCEPT ![Len(Seen)] = cred']
      BY <2>1, <3>1
    <3>3. \E v \in Creds : Seen' = [Seen EXCEPT ![Len(Seen)] = v]
      BY <1>1, <3>2, Zenon
    <3>4. Seen' # Seen => Lexical!Change
      BY <3>1, <3>3 DEF Lexical!Change
    <3> QED BY <3>4 DEF Lexical!Next
  <2> QED BY <2>2, <2>3
<1>4. CASE Entering
  <2>1. PICK s, f : /\ SameEntries(stack, s) /\ stack' = Append(s, f)
                    /\ s \in Seq(Frames) /\ f \in Frames /\ f.entry = cred
    BY <1>4 DEF Entering
  <2>2. Seen' = Append(Seen, cred')
    BY <1>1, <2>1, LevelsAdded DEF Seen
  <2>3. Len(Seen') = Len(Seen) + 1
    BY <1>1, <1>2, <2>2
  <2> QED BY <1>1, <2>2, <2>3 DEF Lexical!Next, Lexical!Enter
<1>5. CASE Leaving
  <2>1. Seen' = Front(Seen)
    BY <1>1, <1>5, LevelsRemoved DEF Seen, Leaving
  <2>2. Len(Seen) > 1
    BY <1>1, <1>2, <1>5 DEF Leaving
  <2> QED BY <2>1, <2>2 DEF Lexical!Next, Lexical!Leave, Lexical!Front, Front
<1> QED BY <1>3, <1>4, <1>5

\* OnActionRefresh() starts, or returns at once.
LEMMA RefreshShape ==
  ASSUME IInv, NEW s \in Seq(Frames), SameEntries(stack, s), RefreshCalled(s), cred' = cred
  PROVE  Staying \/ Entering
<1> DEFINE f == NewFrame("refresh", "lsblk")
<1>1. f \in Frames /\ f.entry = cred
  <2>1. cred \in Creds
    BY DEF IInv, Nest
  <2>2. f \in Frames
    BY <2>1, Fillings DEF NewFrame, Frames, Handlers, Guarded, Places, Yielding, Pointers
  <2> QED BY <2>2 DEF NewFrame
<1> HIDE DEF f
<1>2. SameEntries(stack, UnitsReplaced(s)) /\ UnitsReplaced(s) \in Seq(Frames)
  <2>1. \A k \in DOMAIN s : s[k] \in Frames
    OBVIOUS
  <2>2. ASSUME NEW k \in DOMAIN s
        PROVE  UnitsReplaced(s)[k] \in Frames /\ UnitsReplaced(s)[k].entry = s[k].entry
    BY <2>1 DEF UnitsReplaced, Dangle, Frames, Pointers
  <2>3. UnitsReplaced(s) \in [DOMAIN s -> Frames] /\ DOMAIN s = 1 .. Len(s) /\ Len(s) \in Nat
    BY <2>2 DEF UnitsReplaced
  <2> QED BY <2>2, <2>3 DEF SameEntries, UnitsReplaced
<1>3. CASE stack' = s
  BY <1>3 DEF Staying
<1>4. CASE stack' = Append(s, f)
  BY <1>1, <1>4 DEF Entering
<1>5. CASE stack' = Append(UnitsReplaced(s), f)
  BY <1>1, <1>2, <1>5 DEF Entering
<1> QED BY <1>3, <1>4, <1>5 DEF RefreshCalled, f

\* An event is recorded with the handlers in s.
LEMMA ChangedShape ==
  ASSUME NEW c, NEW s \in Seq(Frames), SameEntries(stack, s), Changed(c, s)
  PROVE  SameEntries(stack, stack')
<1>1. \A k \in DOMAIN s : s[k] \in Frames
  OBVIOUS
<1>2. DOMAIN stack' = DOMAIN s
  BY DEF Changed
<1>3. ASSUME NEW k \in DOMAIN s PROVE stack'[k].entry = s[k].entry
  BY <1>1 DEF Changed, Frames
<1> QED BY <1>2, <1>3 DEF SameEntries

\* Steps of the handlers that wait.
LEMMA StayingShape ==
  ASSUME IInv,
         \/ LsblkEnds \/ FindmntEnds \/ NetScanEnds
         \/ WalkEnds \/ InstallDirectory \/ InstallEnds \/ MountDecides
         \/ AcceptWrite \/ DialogReturns
         \/ Select \/ Reject \/ AnswerYes \/ AnswerNo \/ DismissError
  PROVE  Staying
<1>1. /\ stack \in Seq(Frames) /\ DOMAIN stack = 1 .. Len(stack) /\ Len(stack) \in Nat
      /\ \A k \in DOMAIN stack : stack[k] \in Frames
  BY StackFacts
<1>2. stack # <<>> => Len(stack) \in DOMAIN stack /\ Top = stack[Len(stack)]
  BY <1>1, TopFacts
<1>3. SUFFICES SameEntries(stack, stack') /\ (stack = <<>> => cred' = cred)
  BY DEF Staying
<1>4. ASSUME stack # <<>>, NEW lost, AssignDevices(lost) PROVE SameEntries(stack, stack')
  <2> DEFINE s == DevicesReplaced(stack)
  <2>1. /\ stack' = [s EXCEPT ![Len(stack)].pc = "populate", ![Len(stack)].missed = {}]
        /\ Len(stack) \in DOMAIN stack /\ DOMAIN s = DOMAIN stack
    BY <1>2, <1>4 DEF AssignDevices, DevicesReplaced
  <2>2. ASSUME NEW k \in DOMAIN stack PROVE s[k] \in Frames /\ s[k].entry = stack[k].entry
    BY <1>1 DEF DevicesReplaced, Dangle, Frames, Pointers
  <2> HIDE DEF s
  <2> QED BY <2>1, <2>2 DEF SameEntries, Frames
<1>5. CASE LsblkEnds \/ FindmntEnds
  <2>1. stack # <<>> /\ cred' = cred
    BY <1>5 DEF LsblkEnds, FindmntEnds, At
  <2>2. CASE Goto("findmnt") \/ ScanThrows
    BY <1>1, <1>2, <2>1, <2>2 DEF Goto, ScanThrows, SameEntries, Frames
  <2> QED BY <1>4, <1>5, <2>1, <2>2 DEF LsblkEnds, FindmntEnds
<1>6. CASE NetScanEnds \/ WalkEnds \/ InstallDirectory \/ InstallEnds
  BY <1>1, <1>2, <1>6
     DEF NetScanEnds, WalkEnds, InstallDirectory, InstallEnds, At, Goto, SameEntries, Frames
<1>7. CASE MountDecides
  <2>1. stack # <<>>
    BY <1>7 DEF MountDecides, At
  <2> DEFINE uid0 == Top.entry.ruid
             tool(mapped) == MountTool(Top.req, uid0, settings, mapped)
             cmd(o, mapped) == [tool |-> tool(mapped),
                                sudo |-> MountSudo(Top.req, uid0, o.cred.ruid, settings),
                                fresh |-> /\ tool(mapped) = "mtpfs" => Top.dev = "live"
                                          /\ tool(mapped) = "systemctl" => Top.mu = "live"]
             g(o, mapped, starts) ==
               [stack[Len(stack)] EXCEPT !.guard = o.guard, !.dev = "none", !.mu = "none",
                                         !.pc = IF starts THEN "run" ELSE "leave",
                                         !.cmd = IF starts THEN cmd(o, mapped) ELSE NoCommand]
  <2>2. \E o, mapped, starts : stack' = [stack EXCEPT ![Len(stack)] = g(o, mapped, starts)]
    <3>1. PICK o \in IF DropPriv(Top.req, uid0)
                     THEN DropIfFeasible(cred, usr, Top.guard) ELSE Kept(Top.guard),
               mapped \in BOOLEAN :
            /\ cred' = o.cred
            /\ \E starts \in {o.ok} \cup (IF tool(mapped) = "mtpfs" THEN {FALSE} ELSE {}) :
                 stack' = [stack EXCEPT ![Len(stack)] = g(o, mapped, starts)]
      BY <1>7, Zenon DEF MountDecides
    <3> HIDE DEF g, tool
    <3> QED BY <3>1
  <2>3. \A o, mapped, starts : g(o, mapped, starts).entry = stack[Len(stack)].entry
    BY <1>1, <1>2, <2>1 DEF Frames
  <2> HIDE DEF g
  <2> QED BY <1>1, <1>2, <2>1, <2>2, <2>3 DEF SameEntries
<1>8. CASE AcceptWrite
  <2>1. stack # <<>>
    BY <1>8 DEF AcceptWrite, At
  <2> DEFINE made(byPath) == IF stack[Own].fstab \/ byPath THEN Top.cmd ELSE Followed(stack[Own])
             cmd(byPath) == [tool |-> "sh", sudo |-> settings.sudo,
                             fresh |-> made(byPath).fresh]
             g(o, byPath) == [stack[Len(stack)] EXCEPT
                                !.guard = o.guard,
                                !.pc  = IF o.ok THEN "run" ELSE "error",
                                !.cmd = IF o.ok THEN cmd(byPath) ELSE NoCommand]
  <2>2. PICK o \in DropIfFeasible(cred, usr, Top.guard), byPath \in BOOLEAN :
          cred' = o.cred /\ stack' = [stack EXCEPT ![Len(stack)] = g(o, byPath)]
    BY <1>8, Zenon DEF AcceptWrite
  <2>3. g(o, byPath).entry = stack[Len(stack)].entry
    BY <1>1, <1>2, <2>1 DEF Frames
  <2> HIDE DEF g
  <2> QED BY <1>1, <1>2, <2>1, <2>2, <2>3 DEF SameEntries
<1>9. CASE DialogReturns \/ Select \/ Reject
  BY <1>1, <1>2, <1>9 DEF DialogReturns, Select, Reject, InDialog, At, Goto, SameEntries, Frames
<1>10. CASE AnswerYes \/ AnswerNo \/ DismissError
  BY <1>1, <1>2, <1>10 DEF AnswerYes, AnswerNo, DismissError, At, Goto, SameEntries, Frames
<1> QED BY <1>5, <1>6, <1>7, <1>8, <1>9, <1>10

\* Steps that record an event.
LEMMA RecordingShape ==
  ASSUME IInv, MountEnds \/ AcceptEnds \/ DeviceChanges
  PROVE  Staying
<1>1. /\ stack \in Seq(Frames) /\ DOMAIN stack = 1 .. Len(stack) /\ Len(stack) \in Nat
      /\ \A k \in DOMAIN stack : stack[k] \in Frames
  BY StackFacts
<1>2. stack # <<>> => Len(stack) \in DOMAIN stack /\ Top = stack[Len(stack)]
  BY <1>1, TopFacts
<1>3. SameEntries(stack, stack)
  BY DEF SameEntries
<1>4. CASE MountEnds
  <2>1. PICK ok \in BOOLEAN :
          LET s == [stack EXCEPT ![Len(stack)] =
                      [@ EXCEPT !.guard = Unarmed, !.cmd = NoCommand, !.req = NoRequest,
                                !.pc = IF ok THEN "refresh" ELSE "leave"]]
          IN IF ok THEN Changed("mounts", s) ELSE stack' = s /\ UNCHANGED behind
    BY <1>4, Zenon DEF MountEnds
  <2> DEFINE s == [stack EXCEPT ![Len(stack)] =
                      [@ EXCEPT !.guard = Unarmed, !.cmd = NoCommand, !.req = NoRequest,
                                !.pc = IF ok THEN "refresh" ELSE "leave"]]
  <2>2. Changed("mounts", s) \/ stack' = s
    BY <2>1
  <2>3. stack # <<>>
    BY <1>4 DEF MountEnds, At
  <2>4. SameEntries(stack, s) /\ s \in Seq(Frames)
    <3>1. SameEntries(stack, s)
      BY <1>1, <1>2, <2>3 DEF SameEntries, Frames
    <3>2. s[Len(stack)] \in Frames
      BY <1>1, <1>2, <2>3, Fillings DEF Frames
    <3>3. s \in [1 .. Len(stack) -> Frames]
      BY <1>1, <1>2, <2>3, <3>2
    <3> QED BY <1>1, <3>1, <3>3
  <2> HIDE DEF s
  <2> QED BY <2>2, <2>3, <2>4, ChangedShape DEF Staying
<1>5. CASE AcceptEnds
  <2> DEFINE s == [stack EXCEPT ![Own].pc = "accepted",
                                ![Len(stack)].pc = "leave",
                                ![Len(stack)].cmd = NoCommand]
  <2>1. stack # <<>> /\ cred' = cred
    BY <1>5 DEF AcceptEnds, At
  <2>2. \/ Changed("units", s)
        \/ stack' = [stack EXCEPT ![Len(stack)].pc = "error", ![Len(stack)].cmd = NoCommand]
    BY <1>5, Zenon DEF AcceptEnds
  <2>3. SameEntries(stack, s) /\ s \in Seq(Frames)
    <3>1. SameEntries(stack, s)
      BY <1>1, <1>2, <2>1 DEF SameEntries, Frames
    <3>2. ASSUME NEW k \in DOMAIN stack PROVE s[k] \in Frames
      <4>1. \A f \in Frames : /\ [f EXCEPT !.pc = "accepted"] \in Frames
                               /\ [f EXCEPT !.pc = "leave", !.cmd = NoCommand] \in Frames
        BY Fillings DEF Frames
      <4> DEFINE t == [stack EXCEPT ![Own].pc = "accepted"]
      <4>2. DOMAIN t = DOMAIN stack /\ t[k] \in Frames
        BY <1>1, <4>1
      <4>3. s = [t EXCEPT ![Len(stack)].pc = "leave", ![Len(stack)].cmd = NoCommand]
        OBVIOUS
      <4> HIDE DEF t, s
      <4>4. s[k] \in {t[k], [t[k] EXCEPT !.pc = "leave", !.cmd = NoCommand]}
        BY <4>2, <4>3
      <4> QED BY <4>1, <4>2, <4>4
    <3>3. DOMAIN s = DOMAIN stack /\ s = [k \in DOMAIN s |-> s[k]]
      OBVIOUS
    <3> HIDE DEF s
    <3>4. s \in [1 .. Len(stack) -> Frames]
      BY <1>1, <3>2, <3>3
    <3> QED BY <1>1, <3>1, <3>4
  <2>4. CASE Changed("units", s)
    <3> HIDE DEF s
    <3> QED BY <2>1, <2>3, <2>4, ChangedShape DEF Staying
  <2>5. CASE stack' = [stack EXCEPT ![Len(stack)].pc = "error", ![Len(stack)].cmd = NoCommand]
    BY <1>1, <1>2, <2>1, <2>5 DEF SameEntries, Frames, Staying
  <2> QED BY <2>2, <2>4, <2>5
<1>6. CASE DeviceChanges
  BY <1>1, <1>3, <1>6, ChangedShape DEF DeviceChanges, Staying
<1> QED BY <1>4, <1>5, <1>6

\* Handlers that start.
LEMMA EnteringShape ==
  ASSUME IInv, IInv', NetScanClicked \/ MountClicked \/ UnmountClicked \/ OpenDialog \/ Accept
  PROVE  Entering
<1>1. /\ stack \in Seq(Frames) /\ stack' \in Seq(Frames) /\ SameEntries(stack, stack)
  BY DEF IInv, Nest, SameEntries
<1>2. PICK f : stack' = Append(stack, f) /\ f.entry = cred
  <2>1. PICK p, h, f : Enter(f) /\ f.entry = NewFrame(h, p).entry
    <3>1. CASE NetScanClicked
      BY <3>1 DEF NetScanClicked
    <3>2. CASE MountClicked
      <4> DEFINE p(o) == IF o.ok THEN "mkdir" ELSE "leave"
                 f(r, o) == [NewFrame("mount", p(o)) EXCEPT
                               !.req = r, !.guard = o.guard,
                               !.dev = Pointer(r.listed), !.mu = Pointer(r.unit # "none")]
      <4>1. PICK r, o : Enter(f(r, o))
        BY <3>2, Zenon DEF MountClicked
      <4>2. f(r, o).entry = NewFrame("mount", p(o)).entry
        BY DEF NewFrame
      <4> HIDE DEF f, p
      <4> QED BY <4>1, <4>2
    <3>3. CASE UnmountClicked
      BY <3>3 DEF UnmountClicked, NewFrame
    <3>4. CASE OpenDialog
      <4> DEFINE f(listed, fstab) == [NewFrame("dialog", "open") EXCEPT
                                        !.dev = Pointer(listed), !.fstab = fstab]
      <4>1. PICK listed, fstab : Enter(f(listed, fstab))
        BY <3>4, Zenon DEF OpenDialog
      <4>2. f(listed, fstab).entry = NewFrame("dialog", "open").entry
        BY DEF NewFrame
      <4> HIDE DEF f
      <4> QED BY <4>1, <4>2
    <3>5. CASE Accept
      BY <3>5 DEF Accept, NewFrame
    <3> QED BY <3>1, <3>2, <3>3, <3>4, <3>5
  <2> QED BY <2>1 DEF Enter, NewFrame
<1>3. f \in Frames
  <2>1. stack'[Len(stack) + 1] = f /\ Len(stack') = Len(stack) + 1 /\ Len(stack) \in Nat
    BY <1>1, <1>2
  <2> QED BY <1>1, <2>1
<1> QED BY <1>1, <1>2, <1>3 DEF Entering

\* privileges_guard: whatever handlers nest in each other's event loops, each
\* leaves the credentials as it found them; the window implements LexicalScopes.
THEOREM ImplementsLexicalScopes == Spec => LexicallyScoped
<1>1. Init => Lexical!Init
  <2> SUFFICES ASSUME Init PROVE Lexical!Init
    OBVIOUS
  <2>1. IInv /\ stack = <<>> /\ Len(stack) = 0
    BY InitIInv DEF Init
  <2>2. cred \in Creds /\ stack \in Seq(Frames)
    BY <2>1 DEF IInv, Nest
  <2>3. Seen \in Seq(Creds) /\ Len(Seen) = 1 /\ Seen[1] = cred
    <3>1. /\ Seen \in Seq(Creds) /\ Len(Seen) = Len(stack) + 1
          /\ Seen[Len(stack) + 1] = cred
      BY <2>2, LevelsSeq DEF Seen
    <3> QED BY <2>1, <3>1
  <2>4. Seen = <<cred>>
    BY <2>2, <2>3, SeqEqual
  <2> QED BY <2>2, <2>4 DEF Lexical!Init
<1>2. IInv /\ IInv' /\ [Next]_vars => [Lexical!Next]_Seen
  <2> SUFFICES ASSUME IInv, IInv', [Next]_vars PROVE Staying \/ Entering \/ Leaving
    BY LexicalStep
  <2>1. stack \in Seq(Frames) /\ SameEntries(stack, stack)
    BY DEF IInv, Nest, SameEntries
  <2>2. CASE UNCHANGED <<stack, cred>>
    BY <2>1, <2>2 DEF Staying
  <2>3. CASE RefreshClicked \/ Shown \/ TimerFires
    BY <2>1, <2>3, RefreshShape DEF RefreshClicked, Shown, TimerFires
  <2>4. CASE CallRefresh
    <3> DEFINE s == [stack EXCEPT ![Len(stack)].pc = "leave"]
    <3>1. stack # <<>> /\ RefreshCalled(s) /\ cred' = cred
      BY <2>4 DEF CallRefresh
    <3>2. s \in Seq(Frames) /\ SameEntries(stack, s)
      <4>1. /\ DOMAIN stack = 1 .. Len(stack) /\ Len(stack) \in DOMAIN stack
            /\ \A k \in DOMAIN stack : stack[k] \in Frames
        BY <3>1, StackFacts, TopFacts
      <4>2. ASSUME NEW k \in DOMAIN stack PROVE s[k] \in Frames /\ s[k].entry = stack[k].entry
        BY <4>1, Fillings DEF Frames
      <4>3. DOMAIN s = DOMAIN stack /\ s = [k \in DOMAIN s |-> s[k]]
        OBVIOUS
      <4> HIDE DEF s
      <4>4. s \in [1 .. Len(stack) -> Frames]
        BY <4>1, <4>2, <4>3
      <4> QED BY <4>1, <4>2, <4>3, <4>4, StackFacts DEF SameEntries
    <3> HIDE DEF s
    <3> QED BY <3>1, <3>2, RefreshShape
  <2>5. CASE Populate \/ Leave
    <3>1. stack # <<>> /\ Return
      BY <2>5 DEF Populate, Leave
    <3> QED BY <3>1, TopFacts DEF Return, Leaving
  <2>6. CASE Proceed
    BY <2>4, <2>5, <2>6, StayingShape, RecordingShape DEF Proceed
  <2>7. CASE Dispatch
    BY <2>2, <2>3, <2>7 DEF Dispatch, FSWatchDev, FSWatchConfig, process
  <2>8. CASE Answer
    BY <2>8, StayingShape, EnteringShape DEF Answer
  <2>9. CASE Click
    BY <2>2, <2>3, <2>9, EnteringShape
       DEF Click, EditPreferences, UseSystemdChanged, CloseWindow
  <2>10. CASE World
    BY <2>2, <2>10, RecordingShape DEF World, ConfigWritten
  <2>11. CASE Terminated \/ UNCHANGED vars
    BY <2>2, <2>11 DEF Terminated, vars
  <2> QED BY <2>6, <2>7, <2>8, <2>9, <2>10, <2>11 DEF Next
<1> QED BY <1>1, <1>2, Invariance, PTL DEF Spec, LexicallyScoped, Lexical!Spec
=============================================================================
