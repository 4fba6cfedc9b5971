------------------------------- MODULE Execute -------------------------------
(***************************************************************************)
(* execute() and the process it talks to through a Tp_open (execute.h,     *)
(* tpopen.h, tpopen.cpp).                                                  *)
(*                                                                         *)
(* execute() starts a command with three pipes and calls sync() in a loop, *)
(* with the event loop in between, until the pipes have ended; then it     *)
(* closes them and waits for the command.  The command runs concurrently:  *)
(* it reads, writes, closes and exits as it likes, and may leave children  *)
(* of its own behind that hold its output open ("heirs").                  *)
(*                                                                         *)
(* Data is counted in chunks of BUFF_SZ bytes, which a pipe takes whole or *)
(* not at all; the streams are first in, first out by nature, so counters  *)
(* are enough.  The last chunk of the input may be shorter.                *)
(***************************************************************************)
EXTENDS Naturals, Integers

CONSTANTS Input,       \* chunks of input, s_in.size()
          ShortTail,   \* the last of them is shorter than BUFF_SZ
          Capacity,    \* chunks a pipe holds
          MaxOutput,   \* chunks the command writes to a stream (a bound)
          Interrupts   \* signals may interrupt poll(2) and waitpid(2)

ASSUME ChunksAssumption == /\ Input \in Nat /\ MaxOutput \in Nat /\ Capacity \in Nat \ {0}
                           /\ {ShortTail, Interrupts} \subseteq BOOLEAN

Outs == {"out", "err"}

\* What is known of the command: nothing; or that it exits only when it has read
\* its input to the end and written MaxOutput to both streams, in any order or
\* one after the other.
Habits == {"any", "diligent", "reads_first", "writes_first"}

VARIABLES
  pc,       \* what execute() does next
  pos,      \* chunks taken from s_in
  fed,      \* chunks written to pipe_in
  pipe_in,  \* the program's end of it is open
  do_write, \* sync(): there is input to write
  revents,  \* poll(): the streams to look at ("in" if it takes more)
  broken,   \* poll(): pipe_in has no reader
  eof_cnt,  \* sync(): the streams that ended
  f_eof,
  status,
  got,      \* chunks read from each stream, s_out and s_err
  habit,    \* the one of Habits the command has
  child,    \* "none", "alive", "zombie", "reaped"
  verdict,  \* the status the command exits with
  fds,      \* the ends of the pipes the command holds
  heirs,    \* the ends its children still hold
  eaten,    \* chunks the command read
  sated,    \* the command found the end of its input (a history variable)
  made      \* chunks written to each stream by the command and its heirs

program == <<pc, pos, fed, pipe_in, do_write, revents, broken, eof_cnt, f_eof, status, got>>
command == <<habit, child, verdict, fds, heirs, eaten, sated, made>>
vars    == <<program, command>>

Pending(s) == made[s] - got[s]              \* chunks in the pipe
Held(s)    == s \in fds \cup heirs          \* its other end is open
Returned   == pc \in {"done", "lost"}
Reading    == pc # "wait" /\ ~Returned    \* the program's ends are open
-----------------------------------------------------------------------------
(* The program.                                                            *)

\* Tp_open::open(): the command runs, or its execvp() (or a system call before
\* it) fails and execute() returns -1.
Open ==
  /\ pc = "open"
  /\ \/ /\ pc' = "poll" /\ child' = "alive" /\ fds' = {"in", "out", "err"}
        /\ UNCHANGED status
     \/ /\ pc' = "done" /\ status' = -1
        /\ UNCHANGED <<child, fds>>
  /\ UNCHANGED <<pos, fed, pipe_in, do_write, revents, broken, eof_cnt, f_eof, got,
                 habit, verdict, heirs, eaten, sated, made>>

\* sync() polls the two outputs, and the input while there is some left to
\* write; with nothing to do it returns after its timeout.
Poll ==
  /\ pc = "poll"
  /\ do_write' = (pipe_in /\ pos < Input)
  /\ broken' = (do_write' /\ ~Held("in"))
  /\ revents' = {s \in Outs : Pending(s) > 0 \/ ~Held(s)}
                  \cup {s \in {"in"} : do_write' /\ (broken' \/ fed - eaten < Capacity)}
  /\ eof_cnt' = 0
  /\ pc' = IF revents' = {} THEN "check" ELSE "out"
  /\ UNCHANGED <<pos, fed, pipe_in, f_eof, status, got, command>>

\* poll() is interrupted: it returns -1, which is not EINTR, and sync() fails.
Interrupted ==
  /\ pc = "poll" /\ Interrupts
  /\ status' = -1
  /\ pc' = "close"
  /\ UNCHANGED <<pos, fed, pipe_in, do_write, revents, broken, eof_cnt, f_eof, got, command>>

\* (Used to test the properties: the loop over the outputs does not advance.)
AfterItself(s) == "err"

After(s) == IF s = "out" THEN "err" ELSE "in"

\* read() of s returns a chunk, ...
Read(s) ==
  /\ pc = s /\ s \in revents
  /\ Pending(s) > 0
  /\ got' = [got EXCEPT ![s] = @ + 1]
  /\ UNCHANGED <<pc, pos, fed, pipe_in, do_write, revents, broken, eof_cnt, f_eof, status, command>>

\* ... or the end of the stream, or EAGAIN; or s is not to be read.
ReadNoMore(s) ==
  /\ pc = s
  /\ s \in revents => Pending(s) = 0
  /\ eof_cnt' = IF s \in revents /\ ~Held(s) THEN eof_cnt + 1 ELSE eof_cnt
  /\ pc' = After(s)
  /\ UNCHANGED <<pos, fed, pipe_in, do_write, revents, broken, f_eof, status, got, command>>

\* write() takes a chunk of s_in, ...
Write ==
  /\ pc = "in" /\ "in" \in revents /\ ~broken
  /\ pos < Input
  /\ Held("in") /\ fed - eaten < Capacity
  /\ pos' = pos + 1 /\ fed' = fed + 1
  /\ UNCHANGED <<pc, pipe_in, do_write, revents, broken, eof_cnt, f_eof, status, got, command>>

\* The position of s_in after a failed write(): the chunk is put back by seekg(),
\* which does nothing once a short chunk has set the stream's failbit.  (Used to
\* test the properties: without seekg().)
Skipped == pos + 1
PutBack == IF ShortTail /\ pos + 1 = Input THEN Input ELSE pos

\* ... or there is none left, or it fails with EPIPE (SIGPIPE is taken to be
\* ignored) or with EAGAIN.
WriteNoMore ==
  LET fails == "in" \in revents /\ ~broken /\ pos < Input
  IN /\ pc = "in"
     /\ fails => ~Held("in") \/ fed - eaten = Capacity
     /\ eof_cnt' = IF broken \/ (fails /\ ~Held("in")) THEN eof_cnt + 1 ELSE eof_cnt
     /\ pos' = IF fails THEN PutBack ELSE pos
     /\ pc' = "check"
     /\ UNCHANGED <<fed, pipe_in, do_write, revents, broken, f_eof, status, got, command>>

\* sync() returns; execute() closes pipe_in when s_in has been used up, which it
\* never does for a command without input, processes events, and goes on until
\* every pipe sync() looks at has ended.
Streams == IF do_write THEN 3 ELSE 2

\* (Used to test the properties: one pipe's end is taken for the end.)
CheckAny ==
  /\ pc = "check"
  /\ f_eof' = (eof_cnt > 0)
  /\ pipe_in' = (pipe_in /\ ~(Input > 0 /\ pos = Input))
  /\ pc' = IF f_eof' THEN "close" ELSE "poll"
  /\ UNCHANGED <<pos, fed, do_write, revents, broken, eof_cnt, status, got, command>>

\* (Used to test the properties: without close_0().)
CheckKeepsOpen ==
  /\ pc = "check"
  /\ f_eof' = (eof_cnt = Streams)
  /\ pc' = IF f_eof' THEN "close" ELSE "poll"
  /\ UNCHANGED <<pos, fed, pipe_in, do_write, revents, broken, eof_cnt, status, got, command>>

Check ==
  /\ pc = "check"
  /\ f_eof' = (eof_cnt = Streams)
  /\ pipe_in' = (pipe_in /\ ~(Input > 0 /\ pos = Input))
  /\ pc' = IF f_eof' THEN "close" ELSE "poll"
  /\ UNCHANGED <<pos, fed, do_write, revents, broken, eof_cnt, status, got, command>>

\* Tp_open::close(), called whether or not sync() failed (execute.h: "not ||").
\* (Used to test the properties: with "||".)
CloseUnlessFailed ==
  /\ pc = "close"
  /\ pipe_in' = FALSE
  /\ pc' = IF status = 0 THEN "wait" ELSE "done"
  /\ UNCHANGED <<pos, fed, do_write, revents, broken, eof_cnt, f_eof, status, got, command>>

Close ==
  /\ pc = "close"
  /\ pipe_in' = FALSE
  /\ pc' = "wait"
  /\ UNCHANGED <<pos, fed, do_write, revents, broken, eof_cnt, f_eof, status, got, command>>

\* waitpid() returns; -1 stays -1 whatever is or-ed to it.
Wait ==
  /\ pc = "wait" /\ child = "zombie"
  /\ child' = "reaped"
  /\ status' = IF status = -1 THEN -1 ELSE verdict
  /\ pc' = "done"
  /\ UNCHANGED <<pos, fed, pipe_in, do_write, revents, broken, eof_cnt, f_eof, got,
                 habit, verdict, fds, heirs, eaten, sated, made>>

\* waitpid() is interrupted: close() and execute() return -1, and the command is
\* left to itself.
WaitInterrupted ==
  /\ pc = "wait" /\ Interrupts
  /\ status' = -1
  /\ pc' = "lost"
  /\ UNCHANGED <<pos, fed, pipe_in, do_write, revents, broken, eof_cnt, f_eof, got, command>>
-----------------------------------------------------------------------------
(* The command.                                                            *)

Written  == \A s \in Outs : made[s] = MaxOutput
Finished == Input > 0 => sated

Eat == /\ Held("in") /\ eaten < fed
       /\ habit = "writes_first" => Written
       /\ eaten' = eaten + 1
       /\ UNCHANGED <<program, habit, child, verdict, fds, heirs, sated, made>>

EndOfInput == /\ Held("in") /\ eaten = fed /\ ~pipe_in
              /\ sated' = TRUE
              /\ UNCHANGED <<program, habit, child, verdict, fds, heirs, eaten, made>>

Make(s) == /\ Held(s) /\ Reading
           /\ habit = "reads_first" => Finished
           /\ made[s] < MaxOutput /\ Pending(s) < Capacity
           /\ made' = [made EXCEPT ![s] = @ + 1]
           /\ UNCHANGED <<program, habit, child, verdict, fds, heirs, eaten, sated>>

CloseEnd(s) == /\ habit = "any"
               /\ s \in fds
               /\ fds' = fds \ {s}
               /\ UNCHANGED <<program, habit, child, verdict, heirs, eaten, sated, made>>

\* The command exits, or is killed by SIGPIPE when the program does not read
\* any more, and leaves some of its ends to children.
Exit == /\ child = "alive"
        /\ habit # "any" /\ Reading => Finished /\ Written
        /\ child' = "zombie"
        /\ verdict' \in IF Reading THEN {0, 1} ELSE {0, 1, 141}
        /\ heirs' \in SUBSET fds
        /\ fds' = {}
        /\ UNCHANGED <<program, habit, eaten, sated, made>>

HeirEnds(s) == /\ s \in heirs
               /\ heirs' = heirs \ {s}
               /\ UNCHANGED <<program, habit, child, verdict, fds, eaten, sated, made>>
-----------------------------------------------------------------------------
Init ==
  /\ pc = "open" /\ pos = 0 /\ fed = 0 /\ pipe_in = TRUE
  /\ do_write = FALSE /\ revents = {} /\ broken = FALSE /\ eof_cnt = 0 /\ f_eof = FALSE
  /\ status = 0 /\ got = [s \in Outs |-> 0]
  /\ habit \in Habits
  /\ child = "none" /\ verdict = 0 /\ fds = {} /\ heirs = {}
  /\ eaten = 0 /\ sated = FALSE /\ made = [s \in Outs |-> 0]

Sync == \/ Poll \/ Interrupted \/ Write \/ WriteNoMore \/ Check
        \/ \E s \in Outs : Read(s) \/ ReadNoMore(s)

Program == Open \/ Sync \/ Close \/ Wait \/ WaitInterrupted

Command == \/ Eat \/ EndOfInput \/ Exit
           \/ \E s \in Outs : Make(s)
           \/ \E s \in Outs \cup {"in"} : CloseEnd(s) \/ HeirEnds(s)

\* execute() has returned, and nobody is left.
Terminated == Returned /\ child # "alive" /\ heirs = {} /\ UNCHANGED vars

Next == Program \/ Command \/ Terminated

Spec == Init /\ [][Next]_vars

\* Both processes run; what the command leaves behind ends, too.
Fairness == /\ WF_vars(Program)
            /\ WF_vars(Eat) /\ WF_vars(EndOfInput) /\ WF_vars(Exit)
            /\ \A s \in Outs : WF_vars(Make(s))
            /\ \A s \in Outs \cup {"in"} : WF_vars(HeirEnds(s))

FairSpec == Spec /\ Fairness
-----------------------------------------------------------------------------
(* Properties.                                                             *)

TypeOK ==
  /\ pc \in {"open", "poll", "out", "err", "in", "check", "close", "wait", "done", "lost"}
  /\ pos \in 0 .. Input /\ fed \in 0 .. Input /\ eaten \in 0 .. Input
  /\ {pipe_in, do_write, broken, f_eof, sated} \subseteq BOOLEAN
  /\ revents \subseteq {"in", "out", "err"} /\ eof_cnt \in 0 .. 3
  /\ status \in {-1, 0, 1, 141} /\ verdict \in {0, 1, 141}
  /\ got \in [Outs -> 0 .. MaxOutput] /\ made \in [Outs -> 0 .. MaxOutput]
  /\ habit \in Habits
  /\ child \in {"none", "alive", "zombie", "reaped"}
  /\ fds \subseteq {"in", "out", "err"} /\ heirs \subseteq {"in", "out", "err"}

\* When sync() has found the end, the caller gets everything the command, and
\* whatever it left behind, has written (lsblk's and findmnt's lists are parsed
\* from it).
OutputComplete == f_eof => \A s \in Outs : got[s] = made[s] /\ ~Held(s)

\* A command that was started is waited for, also after a failed sync(), unless
\* waitpid() itself is interrupted: no zombies, and no command that still runs
\* when its caller goes on.
Reaped == pc = "done" => child \in {"none", "reaped"}

\* execute() reports success only of a command that ran, ended and said so, and
\* a command's failure is never lost.
StatusTrue == Reaped /\ (Returned /\ status # -1 => child = "reaped" /\ status = verdict)

\* A command that reads its standard input to the end gets all of it (the
\* contents of /etc/fstab or of the units, systemd_dialog.cpp:317), unless sync()
\* failed, which execute() reports; only a last chunk that is shorter may be lost
\* unreported.
InputComplete ==
  sated /\ status # -1 => eaten = Input \/ (ShortTail /\ eaten = Input - 1)

\* execute() returns: neither side waits for the other for ever, however small
\* the pipes are.
Returns == <>Returned
=============================================================================
