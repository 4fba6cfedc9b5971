---------------------------- MODULE Execute_proofs ----------------------------
(***************************************************************************)
(* For every size of the input, the output and the pipes: execute() hands  *)
(* on all of the output, reports a success only of a command that had one, *)
(* and leaves no part of the input unwritten without saying so.            *)
(*                                                                         *)
(* The argument.  An end of a pipe that its holders have let go is never   *)
(* held again, so that a stream that was Drained stays so; eof_cnt counts, *)
(* in the order in which sync() looks at the streams, streams that are     *)
(* Drained (Ended).  In the same way the input is Settled for good when    *)
(* all of it was taken, when nobody is left to read it, or when a failure  *)
(* will be reported; pipe_in is closed only then (Fed).                    *)
(***************************************************************************)
EXTENDS Execute, TLAPS

\* Everything written to s has been read, and nobody can write to it any more.
Drained(s) == got[s] = made[s] /\ ~Held(s)

\* No more of the input has to be written, or it cannot be.
Settled == pos = Input \/ ~Held("in") \/ status = -1

\* What eof_cnt has counted at each place of sync(), and what f_eof remembers.
Ended ==
  /\ pc = "out" => eof_cnt = 0
  /\ pc = "err" => eof_cnt <= 1 /\ (eof_cnt = 1 => Drained("out"))
  /\ pc = "in"  => eof_cnt <= 2 /\ (eof_cnt = 2 => \A s \in Outs : Drained(s))
  /\ pc = "check" /\ eof_cnt = Streams => Settled /\ \A s \in Outs : Drained(s)
  /\ f_eof => /\ pc \in {"close", "wait", "done", "lost"}
              /\ Settled /\ \A s \in Outs : Drained(s)

\* What poll() said of the input, as long as sync() uses it.
Polled ==
  /\ broken => ~Held("in")
  /\ ~do_write => ~broken /\ "in" \notin revents
  /\ pc \in {"out", "err", "in", "check"} /\ ~do_write => Settled

\* The input on its way: what was taken of s_in, written, and read.
Fed ==
  /\ fed = pos \/ (ShortTail /\ pos = Input /\ fed = Input - 1)
  /\ eaten <= fed
  /\ ~pipe_in => Settled
  /\ sated /\ status # -1 => pos = Input /\ eaten = fed

\* The process: before it is started, and what is known when it is waited for.
Started ==
  /\ pc = "open" => child = "none" /\ pipe_in /\ ~broken /\ ~f_eof
  /\ pc = "close" => f_eof \/ status = -1
  /\ \A s \in Outs : got[s] <= made[s]

IInv == TypeOK /\ Ended /\ Polled /\ Fed /\ Started /\ StatusTrue
-----------------------------------------------------------------------------
\* The invariant holds before the command is opened.
LEMMA InitIInv == Init => IInv
<1> SUFFICES ASSUME Init PROVE IInv
  OBVIOUS
<1> USE ChunksAssumption DEF Init
<1>1. TypeOK
  <2>1. pc \in {"open", "poll", "out", "err", "in", "check", "close", "wait", "done", "lost"}
    OBVIOUS
  <2>2. pos \in 0 .. Input /\ fed \in 0 .. Input /\ eaten \in 0 .. Input
    OBVIOUS
  <2>3. {pipe_in, do_write, broken, f_eof, sated} \subseteq BOOLEAN
    OBVIOUS
  <2>4. revents \subseteq {"in", "out", "err"} /\ eof_cnt \in 0 .. 3
    OBVIOUS
  <2>5. status \in {-1, 0, 1, 141} /\ verdict \in {0, 1, 141}
    OBVIOUS
  <2>6. got \in [Outs -> 0 .. MaxOutput] /\ made \in [Outs -> 0 .. MaxOutput]
    OBVIOUS
  <2> QED BY <2>1, <2>2, <2>3, <2>4, <2>5, <2>6 DEF TypeOK, Habits
<1>2. Ended /\ Polled /\ StatusTrue
  BY DEF Ended, Polled, StatusTrue, Reaped, Returned
<1>3. Fed /\ Started
  BY DEF Fed, Started, Outs
<1> QED BY <1>1, <1>2, <1>3 DEF IInv

\* Every step of execute(), of the command and of what it leaves behind keeps it.
LEMMA NextIInv == IInv /\ [Next]_vars => IInv'
<1> SUFFICES ASSUME IInv, [Next]_vars PROVE IInv'
  OBVIOUS
<1> USE ChunksAssumption
    DEF IInv, TypeOK, Ended, Polled, Fed, Started, StatusTrue, Reaped, Returned,
        Outs, Habits, Drained, Settled, Held, Streams, Pending, program, command
<1>1. CASE Open
  <2> USE <1>1 DEF Open
  <2>1. TypeOK'
    <3>1. /\ pc' \in {"poll", "done"}
          /\ child' \in {"none", "alive", "zombie", "reaped"} /\ fds' \subseteq {"in", "out", "err"}
          /\ status' \in {-1, 0, 1, 141}
      OBVIOUS
    <3> QED BY <3>1
  <2>2. Ended'
    OBVIOUS
  <2>3. Polled'
    OBVIOUS
  <2>4. Fed' /\ Started' /\ StatusTrue'
    OBVIOUS
  <2> QED BY <2>1, <2>2, <2>3, <2>4
<1>2. CASE Poll
  <2> USE <1>2 DEF Poll
  <2>1. TypeOK'
    OBVIOUS
  <2>2. Ended'
    OBVIOUS
  <2>3. Polled'
    OBVIOUS
  <2>4. Fed' /\ Started' /\ StatusTrue'
    OBVIOUS
  <2> QED BY <2>1, <2>2, <2>3, <2>4
<1>3. CASE Interrupted
  BY <1>3 DEF Interrupted
<1>4. CASE Write
  BY <1>4 DEF Write
<1>5. CASE WriteNoMore
  <2> USE <1>5 DEF WriteNoMore, PutBack
  <2>1. TypeOK'
    OBVIOUS
  <2>2. Ended'
    OBVIOUS
  <2>3. Polled'
    OBVIOUS
  <2>4. Fed' /\ Started' /\ StatusTrue'
    OBVIOUS
  <2> QED BY <2>1, <2>2, <2>3, <2>4
<1>6. CASE Check
  <2> USE <1>6 DEF Check
  <2>1. TypeOK'
    OBVIOUS
  <2>2. Ended'
    OBVIOUS
  <2>3. Polled'
    OBVIOUS
  <2>4. Fed' /\ Started' /\ StatusTrue'
    OBVIOUS
  <2> QED BY <2>1, <2>2, <2>3, <2>4
<1>7. CASE Close
  <2> USE <1>7 DEF Close
  <2>1. TypeOK'
    OBVIOUS
  <2>2. Ended'
    OBVIOUS
  <2>3. Polled'
    OBVIOUS
  <2>4. Fed' /\ Started' /\ StatusTrue'
    OBVIOUS
  <2> QED BY <2>1, <2>2, <2>3, <2>4
<1>8. CASE Wait
  BY <1>8 DEF Wait
<1>9. CASE WaitInterrupted
  BY <1>9 DEF WaitInterrupted
<1>10. CASE Eat
  BY <1>10 DEF Eat
<1>11. CASE EndOfInput
  BY <1>11 DEF EndOfInput
<1>12. CASE Exit
  BY <1>12 DEF Exit, Reading, Returned
<1>13. ASSUME NEW s \in Outs, Read(s) PROVE IInv'
  BY <1>13 DEF Read
<1>14. ASSUME NEW s \in Outs, ReadNoMore(s) PROVE IInv'
  BY <1>14 DEF ReadNoMore, After
<1>15. ASSUME NEW s \in Outs, Make(s) PROVE IInv'
  BY <1>15 DEF Make, Reading, Returned
<1>16. ASSUME NEW s \in Outs \cup {"in"}, CloseEnd(s) PROVE IInv'
  BY <1>16 DEF CloseEnd
<1>17. ASSUME NEW s \in Outs \cup {"in"}, HeirEnds(s) PROVE IInv'
  BY <1>17 DEF HeirEnds
<1>18. CASE UNCHANGED vars
  BY <1>18 DEF vars
<1> HIDE DEF IInv, TypeOK, Ended, Polled, Fed, Started, StatusTrue, Reaped, Returned, Outs, Habits,
             Drained, Settled, Held, Streams, Pending, program, command
<1> QED BY <1>1, <1>2, <1>3, <1>4, <1>5, <1>6, <1>7, <1>8, <1>9, <1>10, <1>11, <1>12,
         <1>13, <1>14, <1>15, <1>16, <1>17, <1>18
     DEF Next, Program, Sync, Command, Terminated

\* So it holds in every reachable state.
LEMMA Invariance == Spec => []IInv
  BY InitIInv, NextIInv, PTL DEF Spec
-----------------------------------------------------------------------------
(* The theorems.                                                           *)

\* All variables keep their types, eof_cnt never exceeds the number of streams
\* and no more is read than was written, whatever the pipes hold.
THEOREM TypeCorrect == Spec => []TypeOK
<1>1. IInv => TypeOK
  BY DEF IInv
<1> QED BY <1>1, Invariance, PTL

\* When sync() has found the end of every stream (tpopen.cpp counts them in
\* eof_cnt) the caller has all of the output, also what children of the command
\* wrote after it had exited.
THEOREM OutputIsComplete == Spec => []OutputComplete
<1>1. IInv => OutputComplete
  BY DEF IInv, Ended, Drained, OutputComplete
<1> QED BY <1>1, Invariance, PTL

\* What execute() returns is the status of a command that has been waited for,
\* or -1: Tp_open::close() is called on every path on which the command was
\* started.
THEOREM StatusIsTrue == Spec => []StatusTrue
<1>1. IInv => StatusTrue
  BY DEF IInv
<1> QED BY <1>1, Invariance, PTL

\* The loop of sync() and close_0() in execute() lose no input of a command that
\* reads all of it, but for a short chunk at the end, without reporting it.
THEOREM InputIsComplete == Spec => []InputComplete
<1>1. IInv => InputComplete
  BY DEF IInv, Fed, InputComplete
<1> QED BY <1>1, Invariance, PTL
=============================================================================
