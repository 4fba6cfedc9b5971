---------------------------- MODULE SystemdDialog ----------------------------
(***************************************************************************)
(* What SystemdDialog::Accept() writes: an entry of /etc/fstab, or a mount *)
(* unit with its automount unit (systemd_dialog.cpp).                      *)
(*                                                                         *)
(* Accept() reads /etc/fstab, or looks whether the unit exists, asks the   *)
(* user, and pipes the new contents into a shell command that writes the   *)
(* files with head(1) and has systemd look at them.  Between any two steps *)
(* another program may write /etc/fstab.  (Which handlers run in between,  *)
(* and with which privileges, is the subject of MainWindow.)               *)
(*                                                                         *)
(* Of a line of /etc/fstab the model keeps what it names and which call of *)
(* Accept() has written it, 0 standing for somebody else; of a unit which  *)
(* call has written it.                                                    *)
(***************************************************************************)
EXTENDS Integers, Sequences, SequencesExt, FiniteSetsExt

CONSTANTS Names,      \* what a line of /etc/fstab may begin with
          Device,     \* those that name the device (path, label, uuid, ...)
          Begins,     \* the pairs <<w, n>> where the text of n begins with w's
          Esc,        \* fstab_esc()
          Fstabs,     \* what /etc/fstab names at first
          MaxAccepts, \* bound on the calls of Accept()
          MaxLines    \* bound on the lines of /etc/fstab

ASSUME NamesAssumption == /\ Device \subseteq Names /\ Device # {}
                          /\ Esc \in [Names -> Names]
                          /\ Fstabs \subseteq Seq(Names)
ASSUME BeginsAssumption == /\ Begins \subseteq Names \X Names
                           /\ \A n \in Names : <<n, n>> \in Begins
ASSUME BoundsAssumption == {MaxAccepts, MaxLines} \subseteq Nat

NoUnit   == -1
Cut      == -2   \* not all of a unit
Versions == Cut .. MaxAccepts
Lines    == [what : Names, by : 0 .. MaxAccepts]
Forms    == [fstab : BOOLEAN, id : Device, automount : BOOLEAN, noauto : BOOLEAN]

VARIABLES
  pc,       \* where the dialog is: "closed", "open", "ask", ...
  form,     \* what GatherInfo() found in it, and fstab_entry
  content,  \* the contents for /etc/fstab
  accepts,  \* how often Accept() was called
  fstab,    \* /etc/fstab
  unit,     \* the mount unit
  automnt,  \* the automount unit
  enabled,  \* the units that were enabled
  loaded,   \* systemd has seen the files as they are
  found,    \* Accept() has found the entry, or the mount unit, there
  agreed,   \* the user has been asked and said yes
  foreign,  \* the lines of other devices, as they were when Accept() read them
            \* and as others have written them since
  clean     \* no output of the command was lost on its way, and nobody wrote
            \* /etc/fstab while Accept() did (this one and the three above
            \* are history variables)

vars  == <<pc, form, content, accepts, fstab, unit, automnt, enabled, loaded, found, agreed,
           foreign, clean>>
files == <<fstab, unit, automnt, enabled, loaded>>

\* A line of another device, and those lines of a file.
Foreign(l) == l.what \notin Device \cup {Esc[w] : w \in Device}
Others(lines) ==
  FlattenSeq([i \in DOMAIN lines |-> IF Foreign(lines[i]) THEN <<lines[i]>> ELSE <<>>])
-----------------------------------------------------------------------------
(* MakeFstab().                                                            *)

Mine(l)    == \E w \in Device : <<w, l.what>> \in Begins
Entry(id)  == [what |-> Esc[id], by |-> accepts + 1]
Existing(lines) == {i \in DOMAIN lines : Mine(lines[i])}

\* (Used to test the properties: duplicates are not skipped; and "skip" is not
\* reset, so that everything after a duplicate is.)
MakeFstabTwice(lines, id) ==
  IF Existing(lines) = {} THEN Append(lines, Entry(id))
  ELSE [lines EXCEPT ![Min(Existing(lines))] = Entry(id)]

MakeFstabSkipsOn(lines, id) ==
  LET mine == Existing(lines)
  IN IF mine = {} THEN Append(lines, Entry(id))
     ELSE FlattenSeq([i \in DOMAIN lines |->
            IF i = Min(mine) THEN <<Entry(id)>>
            ELSE IF \E j \in mine \ {Min(mine)} : j <= i THEN <<>> ELSE <<lines[i]>>])

\* The first line that begins with a name of the device is replaced, the others
\* are skipped; if there is none, the entry is appended.
MakeFstab(lines, id) ==
  LET mine == Existing(lines)
  IN IF mine = {} THEN Append(lines, Entry(id))
     ELSE FlattenSeq([i \in DOMAIN lines |->
            IF i = Min(mine) THEN <<Entry(id)>>
            ELSE IF i \in mine THEN <<>> ELSE <<lines[i]>>])
-----------------------------------------------------------------------------
(* The dialog.                                                             *)

\* OnActionMakeSystemdUnit().
Open == /\ pc = "closed" /\ accepts < MaxAccepts
        /\ pc' = "open"
        /\ form' \in Forms
        /\ UNCHANGED <<content, accepts, files, found, agreed, foreign, clean>>

\* Accept() up to its question, or past it.  (Used to test the properties:
\* without the question for a unit.)
AcceptUnasked ==
  /\ pc = "open" /\ accepts < MaxAccepts
  /\ \E f \in Forms : /\ f.fstab = form.fstab
                      /\ form' = f
                      /\ content' = IF f.fstab THEN MakeFstab(fstab, f.id) ELSE <<>>
  /\ accepts' = accepts + 1
  /\ found' = (IF form.fstab THEN Existing(fstab) # {} ELSE unit # NoUnit)
  /\ pc' = IF form.fstab /\ found' THEN "ask" ELSE "write"
  /\ agreed' = FALSE /\ clean' = TRUE /\ foreign' = Others(fstab)
  /\ UNCHANGED files

Accept ==
  /\ pc = "open" /\ accepts < MaxAccepts
  /\ \E f \in Forms : /\ f.fstab = form.fstab
                      /\ form' = f
                      /\ content' = IF f.fstab THEN MakeFstab(fstab, f.id) ELSE <<>>
  /\ accepts' = accepts + 1
  /\ found' = (IF form.fstab THEN Existing(fstab) # {} ELSE unit # NoUnit)
  /\ pc' = IF found' THEN "ask" ELSE "write"
  /\ agreed' = FALSE /\ clean' = TRUE /\ foreign' = Others(fstab)
  /\ UNCHANGED files

AnswerYes == /\ pc = "ask"
             /\ pc' = "write" /\ agreed' = TRUE
             /\ UNCHANGED <<form, content, accepts, files, found, foreign, clean>>

\* The question is answered with no, or the dialog cancelled: reject().
Reject == /\ pc \in {"ask", "open"}
          /\ pc' = "closed"
          /\ UNCHANGED <<form, content, accepts, files, found, agreed, foreign, clean>>
-----------------------------------------------------------------------------
(* The command: head >unit [&& head >automount] && daemon-reload [&& enable] *)

\* (Used to test the properties: an automount unit for fstab, too.)
AfterHeadAlways == IF form.automount THEN "automnt" ELSE "reload"

AfterHead == IF form.automount /\ ~form.fstab THEN "automnt" ELSE "reload"

AfterReload == IF form.noauto \/ form.fstab THEN "done" ELSE "enable"

\* The first head(1) gets all of what execute() was given, or less (module
\* Execute), which it does not notice.
WriteFirst ==
  /\ pc = "write"
  /\ loaded' = FALSE
  /\ IF form.fstab
     THEN /\ \/ fstab' = content /\ UNCHANGED clean
             \/ \E n \in 0 .. Len(content) - 1 : fstab' = SubSeq(content, 1, n) /\ clean' = FALSE
          /\ UNCHANGED unit
     ELSE /\ \/ unit' = accepts /\ UNCHANGED clean
             \/ unit' = Cut /\ clean' = FALSE
          /\ UNCHANGED fstab
  /\ pc' = AfterHead
  /\ UNCHANGED <<form, content, accepts, automnt, enabled, found, agreed, foreign>>

\* The second head(1) gets what the first has not read: head(1) reads blocks,
\* and it cannot put back into a pipe what it has read beyond its last line.
WriteSecond ==
  /\ pc = "automnt"
  /\ automnt' \in {accepts, Cut}
  /\ loaded' = FALSE
  /\ pc' = "reload"
  /\ UNCHANGED <<form, content, accepts, fstab, unit, enabled, found, agreed, foreign, clean>>

Reload == /\ pc = "reload"
          /\ loaded' = TRUE
          /\ pc' = AfterReload
          /\ UNCHANGED <<form, content, accepts, fstab, unit, automnt, enabled, found, agreed, foreign, clean>>

Enable == /\ pc = "enable"
          /\ enabled' = enabled \cup {IF form.automount THEN "automnt" ELSE "unit"}
          /\ pc' = "done"
          /\ UNCHANGED <<form, content, accepts, fstab, unit, automnt, loaded, found, agreed, foreign, clean>>

\* The part of the command that runs, or what starts it (privileges_guard, sudo,
\* the shell), fails, and with it the rest; what it has done, it has done.
\* (Used to test the properties: with ";" instead of "&&".)
Skip == CASE pc = "write"   -> AfterHead
          [] pc = "automnt" -> "reload"
          [] pc = "reload"  -> AfterReload
          [] pc = "enable"  -> "done"
FailsOn == /\ pc \in {"write", "automnt", "reload", "enable"}
           /\ pc' = Skip
           /\ UNCHANGED <<form, content, accepts, files, found, agreed, foreign, clean>>

Fails == /\ pc \in {"write", "automnt", "reload", "enable"}
         /\ pc' = "failed"
         /\ UNCHANGED <<form, content, accepts, files, found, agreed, foreign, clean>>

\* Success is logged and the dialog ends; a failure is told, and it stays open.
Return == /\ \/ pc = "done" /\ pc' = "closed"
             \/ pc = "failed" /\ pc' = "open"
          /\ UNCHANGED <<form, content, accepts, files, found, agreed, foreign, clean>>

\* Another program adds a line for another device.
OtherWrites ==
  /\ Len(fstab) < MaxLines
  /\ \E n \in Names : /\ fstab' = Append(fstab, [what |-> n, by |-> 0])
                      /\ Foreign([what |-> n, by |-> 0])
                      /\ foreign' = Append(foreign, [what |-> n, by |-> 0])
  /\ clean' = (clean /\ pc \in {"closed", "open"})
  /\ loaded' = FALSE
  /\ UNCHANGED <<pc, form, content, accepts, unit, automnt, enabled, found, agreed>>
-----------------------------------------------------------------------------
Init == /\ pc = "closed" /\ form \in Forms /\ content = <<>> /\ accepts = 0
        /\ \E s \in Fstabs : fstab = [i \in DOMAIN s |-> [what |-> s[i], by |-> 0]]
        /\ unit \in {NoUnit, 0} /\ automnt \in {NoUnit, 0} /\ enabled = {}
        /\ loaded = TRUE
        /\ found = FALSE /\ agreed = FALSE /\ foreign = Others(fstab) /\ clean = TRUE

Next == \/ Open \/ Accept \/ AnswerYes \/ Reject
        \/ WriteFirst \/ WriteSecond \/ Reload \/ Enable \/ Fails \/ Return
        \/ OtherWrites

Spec == Init /\ [][Next]_vars
-----------------------------------------------------------------------------
(* Properties.                                                             *)

TypeOK ==
  /\ pc \in {"closed", "open", "ask", "write", "automnt", "reload", "enable", "done", "failed"}
  /\ form \in Forms /\ accepts \in 0 .. MaxAccepts
  /\ content \in Seq(Lines) /\ fstab \in Seq(Lines) /\ foreign \in Seq(Lines)
  /\ unit \in Versions /\ automnt \in Versions /\ enabled \subseteq {"unit", "automnt"}
  /\ {loaded, found, agreed, clean} \subseteq BOOLEAN
  /\ pc \in {"automnt", "enable"} => ~form.fstab

\* However often entries are written, refused or fail, the lines of the other
\* devices stay in /etc/fstab as they are, unless somebody else wrote the file
\* after it was read or a part of the contents did not arrive.
OthersKept == clean => Others(fstab) = foreign

\* "skip duplicate entries": when an entry has been written it is the only one
\* of the device, by any of its names, unless its name has to be escaped.
OneEntry ==
  pc = "done" /\ form.fstab /\ clean /\ Esc[form.id] = form.id =>
    \A i \in DOMAIN fstab : fstab[i].what \in Device <=> fstab[i].by = accepts

\* An entry or a mount unit that is there is not overwritten before the user
\* agreed, unless somebody else wrote the entry after /etc/fstab was read; nor is
\* the automount unit next to a mount unit that was found.  (An automount unit
\* without a mount unit is overwritten unasked: Accept() looks for the mount unit
\* only, systemd_dialog.cpp:287, and writes both, 305.)
AskedFirst ==
  [][clean /\ pc' # "failed" =>
       /\ pc = "write" => agreed \/ IF form.fstab THEN Existing(fstab) = {} ELSE unit = NoUnit
       /\ pc = "automnt" => agreed \/ automnt = NoUnit \/ ~found]_vars

\* When success is logged, the entry or the mount unit is written, systemd has
\* been told of it, and what was to be enabled is: a part of the command that
\* fails is never passed over.
ReportedDone ==
  pc = "done" /\ clean =>
    /\ loaded
    /\ IF form.fstab THEN \E i \in DOMAIN fstab : fstab[i] = [what |-> Esc[form.id], by |-> accepts]
       ELSE /\ unit = accepts
            /\ form.noauto \/ (IF form.automount THEN "automnt" ELSE "unit") \in enabled

\* systemd_dialog.ui: "An automount unit will be created for the file system."
AutomountWritten ==
  pc = "done" /\ clean /\ ~form.fstab /\ form.automount => automnt = accepts
=============================================================================
