------------------------------ MODULE MainWindow ------------------------------
(***************************************************************************)
(* The handlers of the main window and of the systemd dialog, as one       *)
(* thread runs them (mainwindow.cpp, mount.cpp, systemd_dialog.cpp).       *)
(*                                                                         *)
(* There are no threads, and yet handlers interleave: execute() runs the   *)
(* event loop while it waits for a command (execute.h, refresh_ui()), and  *)
(* so does every dialog, so that any handler can start inside another one  *)
(* that waits.  The state of the thread is therefore a stack of handlers;  *)
(* only the innermost one makes progress, and whoever waits below it finds *)
(* the program changed when it resumes.                                    *)
(*                                                                         *)
(* An action is a stretch of one handler between two points where events   *)
(* are processed, or a part of such a stretch.  A pointer into one of the  *)
(* containers main_dev_map and system_db is "none" (nullptr), "live", or   *)
(* "dangling" once the container was assigned anew.                        *)
(***************************************************************************)
EXTENDS Naturals, Sequences, FiniteSets, SequencesExt, MountPolicy

CONSTANTS Requests,    \* the mount requests the user makes
          Starts,      \* the pairs <<started by, usr_info.uid>> considered
          Configs,     \* what the configuration file may come to say
          Uses,        \* which of Features are used (a bound)
          MaxDepth     \* bound on the number of nested handlers

ASSUME RequestsAssumption == /\ Requests \subseteq AllRequests
                             /\ \A r \in Requests : WellFormedRequest(r)
ASSUME StartsAssumption   == Starts \subseteq (Ids \X Ids) \ {<<User, Root>>}
ASSUME ConfigsAssumption  == Configs \subseteq AllSettings /\ Configs # {}

\* Starting a handler, changing the settings, closing the window, plugging devices.
Features == {"refresh", "mount", "unmount", "netscan", "dialog", "preferences", "systemd",
             "close", "devices"}
ASSUME UsesAssumption     == Uses \subseteq Features
ASSUME DepthAssumption    == MaxDepth \in Nat

VARIABLES
  usr,       \* usr_info.uid
  home,      \* the credentials main() leaves the process with
  cred,      \* the credentials of the process
  stack,     \* the handlers that have not returned, the innermost last
  running,   \* the flags of IF_REENTRY_RETURN
  tree,      \* the pointers of the items of BlkListWidget: "live", "dangling"
  behind,    \* what changed since the scans main_dev_map and system_db come from
  excused,   \* what of it will not be scanned, because a refresh was refused
             \* or a scan failed (a history variable)
  posted,    \* queued signals: "show", "dev" and "config" (QFileSystemWatcher)
  acc,       \* FSWatch's static acc: no 500 ms timer is running
  watching,  \* the configuration file is watched
  settings,  \* the settings, as far as the handlers look at them
  closed     \* the main window was closed

vars == <<usr, home, cred, stack, running, tree, behind, excused, posted, acc,
          watching, settings, closed>>

process == <<usr, home>>
desktop == <<posted, acc, watching, settings, closed>>
-----------------------------------------------------------------------------
(* The handlers on the stack.                                              *)

Guarded  == {"refresh", "mount", "unmount", "netscan"}   \* IF_REENTRY_RETURN
Handlers == Guarded \cup {"dialog", "accept"}

\* Places where a handler processes events: a command is executed, the dialog
\* is open, a message box asks or reports an error.
Yielding == {"lsblk", "findmnt", "scan", "install", "run", "open", "ask", "error"}
Places   == Yielding \cup {"populate", "mkdir", "decide", "write", "refresh", "leave",
                           "rejected", "accepted"}

Pointers == {"none", "live", "dangling"}
Changes  == {"devices", "mounts", "units"}
Scanned  == {"devices", "mounts"}   \* what main_dev_map shows; system_db is "units"

\* The command a handler runs: the tool, whether sudo runs it, and whether
\* every pointer that was followed to build it was live.
NoCommand == [tool |-> "none", sudo |-> FALSE, fresh |-> TRUE]
Commands  == [tool : Tools \cup {"none"}, sudo : BOOLEAN, fresh : BOOLEAN]

NoRequest == [tl |-> "trusted", listed |-> FALSE, mtp |-> FALSE, nosuid |-> FALSE,
              unit |-> "none", user |-> "no"]

Frames == [h : Handlers, pc : Places,
           req : AllRequests,      \* mount: the request
           dev : Pointers,         \* mount_info::dev
           mu : Pointers,          \* mount: the unit found for it
           fstab : BOOLEAN,        \* dialog: fstab_entry
           cmd : Commands,
           missed : SUBSET Changes,  \* refresh: what changed since it looked
           guard : Guards,
           entry : Creds]          \* the credentials it was entered with (history)

NewFrame(h, pc) == [h |-> h, pc |-> pc, req |-> NoRequest, dev |-> "none", mu |-> "none",
                    fstab |-> FALSE, cmd |-> NoCommand, missed |-> {},
                    guard |-> Unarmed, entry |-> cred]

Pointer(b) == IF b THEN "live" ELSE "none"

\* A container is assigned: the pointers handlers hold into it dangle.
Dangle(f) == [dev |-> IF f.dev = "live" THEN "dangling" ELSE f.dev,
              mu  |-> IF f.mu = "live" THEN "dangling" ELSE f.mu]
DevicesReplaced(s) == [i \in DOMAIN s |-> [s[i] EXCEPT !.dev = Dangle(s[i]).dev]]
UnitsReplaced(s)   == [i \in DOMAIN s |-> [s[i] EXCEPT !.mu = Dangle(s[i]).mu]]

Top == Last(stack)

\* The innermost handler goes on at pc.
Goto(pc) == stack' = [stack EXCEPT ![Len(stack)].pc = pc]

\* The innermost handler is h, at pc.
At(h, pc) == stack # <<>> /\ Top.h = h /\ Top.pc = pc

\* Events are processed: by main()'s event loop, which closing the window
\* ends, or by a handler that waits.
Dispatching == IF stack = <<>> THEN ~closed ELSE Top.pc \in Yielding

\* Modal dialogs and message boxes keep the user from the windows below them.
Asking      == \E i \in DOMAIN stack : stack[i].pc \in {"ask", "error"}
DialogOpen  == \E i \in DOMAIN stack : stack[i].pc = "open"
UserCanClick == Dispatching /\ ~closed /\ ~Asking /\ ~DialogOpen

\* Used to test the properties: a handler without IF_REENTRY_RETURN.
CanStartAgain(h) == UserCanClick /\ Len(stack) < MaxDepth /\ h \in Uses

CanStart(h) == /\ UserCanClick /\ Len(stack) < MaxDepth /\ h \in Uses
               /\ h \in Guarded => ~running[h]

\* The handler f is entered, unless it is one of the guarded ones; its flag is
\* set.
Enter(f) == /\ stack' = Append(stack, f)
            /\ running' = IF f.h \in Guarded THEN [running EXCEPT ![f.h] = TRUE] ELSE running
-----------------------------------------------------------------------------
(* OnActionRefresh().                                                      *)

\* What a change of kind c makes main_dev_map or system_db miss.
Changed(c, s) ==
  /\ behind' = behind \cup {c}
  /\ stack' = [i \in DOMAIN s |->
       IF \/ c = "devices" /\ s[i].pc \in {"lsblk", "findmnt"}
          \/ c = "mounts" /\ s[i].pc = "findmnt"
       THEN [s[i] EXCEPT !.missed = @ \cup {c}] ELSE s[i]]

\* OnActionRefresh() is called by s: it returns at once while another one runs
\* (IF_REENTRY_RETURN), else it assigns system_db, unless the scan of the units
\* throws, and starts lsblk.
RefreshCalled(s) ==
  \/ /\ running["refresh"]
     /\ stack' = s
     /\ excused' = excused \cup behind
     /\ UNCHANGED <<running, behind>>
  \/ /\ ~running["refresh"]
     /\ \/ /\ stack' = Append(UnitsReplaced(s), NewFrame("refresh", "lsblk"))
           /\ behind' = behind \ {"units"}
           /\ excused' = excused \ {"units"}
        \/ /\ stack' = Append(s, NewFrame("refresh", "lsblk"))
           /\ excused' = excused \cup (behind \cap {"units"})
           /\ UNCHANGED behind
     /\ running' = [running EXCEPT !["refresh"] = TRUE]

\* main_dev_map is assigned the result of a scan that shows everything but lost.
AssignDevices(lost) ==
  /\ stack' = [DevicesReplaced(stack) EXCEPT ![Len(stack)].pc = "populate",
                                             ![Len(stack)].missed = {}]
  /\ tree' = "dangling"
  /\ behind' = (behind \ Scanned) \cup Top.missed \cup lost
  /\ excused' = (excused \ (Scanned \ Top.missed)) \cup lost

\* The scan throws: main_dev_map stays as it was.
ScanThrows ==
  /\ stack' = [stack EXCEPT ![Len(stack)].pc = "populate", ![Len(stack)].missed = {}]
  /\ excused' = excused \cup (behind \cap Scanned)
  /\ UNCHANGED <<tree, behind>>

\* lsblk ends; without its result the scan returns an empty list.
LsblkEnds == /\ At("refresh", "lsblk")
             /\ \/ Goto("findmnt") /\ UNCHANGED <<tree, behind, excused>>
                \/ AssignDevices(Scanned)
                \/ ScanThrows
             /\ UNCHANGED <<process, cred, running, desktop>>

\* Used to test the properties: the scan starts anew without findmnt's result.
FindmntRetried == /\ At("refresh", "findmnt")
                  /\ \/ AssignDevices({})
                     \/ Goto("lsblk") /\ UNCHANGED <<tree, behind, excused>>
                  /\ UNCHANGED <<process, cred, running, desktop>>

\* findmnt ends; without its result every device of the list looks unmounted.
FindmntEnds == /\ At("refresh", "findmnt")
               /\ \/ AssignDevices({})
                  \/ AssignDevices({"mounts"})
                  \/ ScanThrows
               /\ UNCHANGED <<process, cred, running, desktop>>

\* The click on Refresh; the call queued by showEvent().
RefreshClicked == /\ CanStart("refresh")
                  /\ RefreshCalled(stack)
                  /\ UNCHANGED <<process, cred, tree, desktop>>

Shown == /\ Dispatching /\ Len(stack) < MaxDepth
         /\ "show" \in posted
         /\ posted' = posted \ {"show"}
         /\ RefreshCalled(stack)
         /\ UNCHANGED <<process, cred, tree, acc, watching, settings, closed>>
-----------------------------------------------------------------------------
(* OnActionNetworkScan() and the end of the two handlers that fill the list. *)

NetScanClicked == /\ CanStart("netscan")
                  /\ Enter(NewFrame("netscan", "scan"))
                  /\ UNCHANGED <<process, cred, tree, behind, excused, desktop>>

\* The last command of the scan ends and net_dev_map is assigned, unless the
\* scan throws.
NetScanEnds == /\ At("netscan", "scan")
               /\ Goto("populate")
               /\ tree' \in {tree, "dangling"}
               /\ UNCHANGED <<process, cred, running, behind, excused, desktop>>

\* The innermost handler returns: its guard is destroyed, its flag unset.
Return == /\ cred' = Restore(cred, Top.guard)
          /\ stack' = Front(stack)
          /\ running' = IF Top.h \in Guarded THEN [running EXCEPT ![Top.h] = FALSE] ELSE running

\* PopulateBlkListWidget() makes the items anew.
Populate == /\ stack # <<>> /\ Top.pc = "populate"
            /\ tree' = "live"
            /\ Return
            /\ UNCHANGED <<process, behind, excused, desktop>>

\* The other handlers return.
Leave == /\ stack # <<>> /\ Top.pc = "leave"
         /\ Return
         /\ UNCHANGED <<process, tree, behind, excused, desktop>>
-----------------------------------------------------------------------------
(* OnActionMount() and mount_helper::mount().                              *)

Kept(g) == {[ok |-> TRUE, cred |-> cred, guard |-> g]}

\* The request is gathered, judged and its device and unit are looked up; for
\* a target that is not trusted the privileges are dropped before the
\* mountpoint is made.
MountClicked ==
  /\ CanStart("mount")
  /\ \E r \in Requests :
       /\ r.tl # "reject"
       /\ \E o \in IF DropPriv(r, cred.ruid) /\ r.tl # "trusted"
                   THEN DropIfFeasible(cred, usr, Unarmed) ELSE Kept(Unarmed) :
            /\ cred' = o.cred
            /\ Enter([NewFrame("mount", IF o.ok THEN "mkdir" ELSE "leave")
                        EXCEPT !.req = r, !.guard = o.guard,
                               !.dev = Pointer(r.listed), !.mu = Pointer(r.unit # "none")])
  /\ UNCHANGED <<process, tree, behind, excused, desktop>>

\* create_mountpoint() goes along the target's path: the rest of it exists or
\* can be made, or it cannot, ...
WalkEnds ==
  /\ At("mount", "mkdir")
  /\ Goto("decide") \/ Goto("leave")
  /\ UNCHANGED <<process, cred, running, tree, behind, excused, desktop>>

\* (Used to test the properties: root, too, calls install.)
InstallAsRoot ==
  /\ At("mount", "mkdir")
  /\ settings.sudo
  /\ stack' = [stack EXCEPT ![Len(stack)].pc = "install",
                 ![Len(stack)].cmd = [tool |-> "install", sudo |-> TRUE, fresh |-> TRUE]]
  /\ UNCHANGED <<process, cred, running, tree, behind, excused, desktop>>

\* ... or a directory has to be made by sudo, for which a process that is not
\* root's needs a sudo command.
InstallDirectory ==
  /\ At("mount", "mkdir")
  /\ cred.ruid # Root /\ settings.sudo
  /\ stack' = [stack EXCEPT ![Len(stack)].pc = "install",
                 ![Len(stack)].cmd = [tool |-> "install", sudo |-> TRUE, fresh |-> TRUE]]
  /\ UNCHANGED <<process, cred, running, tree, behind, excused, desktop>>

InstallEnds ==
  /\ At("mount", "install")
  /\ \E pc \in {"mkdir", "leave"} :
       stack' = [stack EXCEPT ![Len(stack)].pc = pc, ![Len(stack)].cmd = NoCommand]
  /\ UNCHANGED <<process, cred, running, tree, behind, excused, desktop>>

\* The privileges are dropped if they have to and still are there; the command
\* is chosen, which follows info.dev for an MTP device and the unit found
\* before for systemctl, and started, unless the MTP tool is unknown.
MountDecides ==
  /\ At("mount", "decide")
  /\ LET uid0 == Top.entry.ruid
     IN \E o \in IF DropPriv(Top.req, uid0)
                 THEN DropIfFeasible(cred, usr, Top.guard) ELSE Kept(Top.guard),
           mapped \in BOOLEAN :
          LET tool == MountTool(Top.req, uid0, settings, mapped)
              cmd  == [tool |-> tool,
                       sudo |-> MountSudo(Top.req, uid0, o.cred.ruid, settings),
                       fresh |-> /\ tool = "mtpfs" => Top.dev = "live"
                                 /\ tool = "systemctl" => Top.mu = "live"]
          IN /\ cred' = o.cred
             /\ \E starts \in {o.ok} \cup (IF tool = "mtpfs" THEN {FALSE} ELSE {}) :
                  stack' = [stack EXCEPT ![Len(stack)] =
                    [@ EXCEPT !.guard = o.guard, !.dev = "none", !.mu = "none",
                              !.pc = IF starts THEN "run" ELSE "leave",
                              !.cmd = IF starts THEN cmd ELSE NoCommand]]
  /\ UNCHANGED <<process, running, tree, behind, excused, desktop>>

\* OnActionUnmount(): the unit is found and used before the command starts.
UnmountClicked ==
  /\ CanStart("unmount")
  /\ \E byUser, hasUnit, sdumount \in BOOLEAN :
       Enter([NewFrame("unmount", "run") EXCEPT
                !.cmd = [tool |-> UnmountTool(byUser, hasUnit, sdumount),
                         sudo |-> UnmountSudo(byUser, cred.ruid, settings), fresh |-> TRUE]])
  /\ UNCHANGED <<process, cred, tree, behind, excused, desktop>>

\* The command of mount() or unmount() ends; the function returns, which
\* restores the privileges, and its caller refreshes the list after a success.
MountEnds ==
  /\ At("mount", "run") \/ At("unmount", "run")
  /\ cred' = Restore(cred, Top.guard)
  /\ \E ok \in BOOLEAN :
       LET s == [stack EXCEPT ![Len(stack)] =
                   [@ EXCEPT !.guard = Unarmed, !.cmd = NoCommand, !.req = NoRequest,
                             !.pc = IF ok THEN "refresh" ELSE "leave"]]
       IN IF ok THEN Changed("mounts", s) ELSE stack' = s /\ UNCHANGED behind
  /\ UNCHANGED <<process, running, tree, excused, desktop>>

\* Mount, Unmount and the dialog call OnActionRefresh() directly.
CallRefresh ==
  /\ stack # <<>> /\ Top.pc = "refresh"
  /\ RefreshCalled([stack EXCEPT ![Len(stack)].pc = "leave"])
  /\ UNCHANGED <<process, cred, tree, desktop>>
-----------------------------------------------------------------------------
(* OnActionMakeSystemdUnit() and the SystemdDialog.                        *)

\* The dialog keeps a reference to the handler's mount_info.
OpenDialog ==
  /\ CanStart("dialog")
  /\ \E listed, fstab \in BOOLEAN :
       Enter([NewFrame("dialog", "open") EXCEPT !.dev = Pointer(listed), !.fstab = fstab])
  /\ UNCHANGED <<process, cred, tree, behind, excused, desktop>>

\* The user has the dialog, and no message box, in front of him.
InDialog(i) == /\ Dispatching /\ ~Asking
               /\ stack[i].h = "dialog" /\ stack[i].pc = "open"

\* Whether what d's handlers made of the device so far, and what they make of
\* it now, came from a live pointer.
Followed(d) == [d.cmd EXCEPT !.fresh = @ /\ d.dev # "dangling"]

\* RadioSelect() shows the device's label or id.
Select ==
  /\ \E i \in DOMAIN stack :
       /\ InDialog(i) /\ stack[i].dev # "none"
       /\ stack' = [stack EXCEPT ![i].cmd = Followed(stack[i])]
  /\ UNCHANGED <<process, cred, running, tree, behind, excused, desktop>>

Reject ==
  /\ \E i \in DOMAIN stack : InDialog(i) /\ stack' = [stack EXCEPT ![i].pc = "rejected"]
  /\ UNCHANGED <<process, cred, running, tree, behind, excused, desktop>>

\* Accept() starts; nothing keeps it from starting again inside execute().  The
\* contents of an fstab are made first, for all the device's ids; then, if there
\* is something to overwrite, the user is asked.
Accept ==
  /\ Len(stack) < MaxDepth
  /\ \E i \in DOMAIN stack, pc \in {"ask", "write"} :
       /\ InDialog(i)
       /\ Enter([NewFrame("accept", pc) EXCEPT
                   !.cmd = IF stack[i].fstab THEN Followed(stack[i]) ELSE NoCommand])
  /\ UNCHANGED <<process, cred, tree, behind, excused, desktop>>

\* The dialog the innermost Accept() belongs to.
Own == CHOOSE i \in DOMAIN stack :
         /\ stack[i].h = "dialog"
         /\ \A j \in DOMAIN stack : stack[j].h = "dialog" => j <= i

AnswerYes == /\ At("accept", "ask")
             /\ Goto("write")
             /\ UNCHANGED <<process, cred, running, tree, behind, excused, desktop>>

AnswerNo == /\ At("accept", "ask")
            /\ stack' = [stack EXCEPT ![Own].pc = "rejected", ![Len(stack)].pc = "leave"]
            /\ UNCHANGED <<process, cred, running, tree, behind, excused, desktop>>

\* The contents of a unit are made, from the device unless it is named by its
\* path; the privileges are dropped and the shell that writes is started.
AcceptWrite ==
  /\ At("accept", "write")
  /\ \E o \in DropIfFeasible(cred, usr, Top.guard), byPath \in BOOLEAN :
       LET made == IF stack[Own].fstab \/ byPath THEN Top.cmd ELSE Followed(stack[Own])
       IN /\ cred' = o.cred
          /\ stack' = [stack EXCEPT ![Len(stack)] =
               [@ EXCEPT !.guard = o.guard,
                         !.pc  = IF o.ok THEN "run" ELSE "error",
                         !.cmd = IF o.ok THEN [tool |-> "sh", sudo |-> settings.sudo,
                                               fresh |-> made.fresh]
                                 ELSE NoCommand]]
  /\ UNCHANGED <<process, running, tree, behind, excused, desktop>>

AcceptEnds ==
  /\ At("accept", "run")
  /\ \/ Changed("units", [stack EXCEPT ![Own].pc = "accepted",
                                       ![Len(stack)].pc = "leave",
                                       ![Len(stack)].cmd = NoCommand])
     \/ /\ stack' = [stack EXCEPT ![Len(stack)].pc = "error", ![Len(stack)].cmd = NoCommand]
        /\ UNCHANGED behind
  /\ UNCHANGED <<process, cred, running, tree, excused, desktop>>

\* The message box, under which the guard still stands, is closed.
DismissError == /\ At("accept", "error")
                /\ Goto("leave")
                /\ UNCHANGED <<process, cred, running, tree, behind, excused, desktop>>

\* exec() returns the verdict to OnActionMakeSystemdUnit().
DialogReturns ==
  /\ \/ At("dialog", "accepted") /\ Goto("refresh")
     \/ At("dialog", "rejected") /\ Goto("leave")
  /\ UNCHANGED <<process, cred, running, tree, behind, excused, desktop>>
-----------------------------------------------------------------------------
(* The file system watcher, the configuration file and the window.         *)

\* A device appears or disappears (the environment).
DeviceChanges == /\ ~closed /\ "devices" \in Uses
                 /\ Changed("devices", stack)
                 /\ posted' = posted \cup {"dev"}
                 /\ UNCHANGED <<process, cred, running, tree, excused, acc, watching,
                                settings, closed>>

\* Used to test the properties: FSWatch() ignores what happens during a refresh.
FSWatchUnlessBusy == /\ Dispatching /\ "dev" \in posted
                     /\ posted' = posted \ {"dev"}
                     /\ acc' = (acc /\ running["refresh"])
                     /\ UNCHANGED <<process, cred, stack, running, tree, behind, excused,
                                    watching, settings, closed>>

\* FSWatch() starts the timer, unless it runs already.
FSWatchDev == /\ Dispatching /\ "dev" \in posted
              /\ posted' = posted \ {"dev"}
              /\ acc' = FALSE
              /\ UNCHANGED <<process, cred, stack, running, tree, behind, excused, watching,
                             settings, closed>>

\* Used to test the properties: the timer's refresh is skipped while mounting.
TimerUnlessMounting == /\ Dispatching /\ Len(stack) < MaxDepth
                       /\ ~acc
                       /\ acc' = TRUE
                       /\ IF running["mount"] THEN UNCHANGED <<stack, running, behind, excused>>
                                              ELSE RefreshCalled(stack)
                       /\ UNCHANGED <<process, cred, tree, posted, watching, settings, closed>>

\* The timer's lambda runs outside FSWatch().
TimerFires == /\ Dispatching /\ Len(stack) < MaxDepth
              /\ ~acc
              /\ acc' = TRUE
              /\ RefreshCalled(stack)
              /\ UNCHANGED <<process, cred, tree, posted, watching, settings, closed>>

\* OnActionEditPreferences(), which drops the privileges and restores them, has
\* saved the settings and started the editor.
EditPreferences == /\ UserCanClick /\ "preferences" \in Uses
                   /\ watching' = TRUE
                   /\ UNCHANGED <<process, cred, stack, running, tree, behind, excused,
                                  posted, acc, settings, closed>>

\* The editor writes the file (the environment).
ConfigWritten == /\ watching
                 /\ posted' = posted \cup {"config"}
                 /\ UNCHANGED <<process, cred, stack, running, tree, behind, excused, acc,
                                watching, settings, closed>>

\* FSWatch() loads the file and watches it no longer.
FSWatchConfig == /\ Dispatching /\ "config" \in posted
                 /\ posted' = posted \ {"config"}
                 /\ settings' \in Configs
                 /\ watching' = FALSE
                 /\ UNCHANGED <<process, cred, stack, running, tree, behind, excused, acc,
                                closed>>

CloseWindow == /\ Dispatching /\ ~closed /\ ~Asking /\ ~DialogOpen /\ "close" \in Uses
               /\ closed' = TRUE
               /\ UNCHANGED <<process, cred, stack, running, tree, behind, excused, posted,
                              acc, watching, settings>>

\* OnUseSystemdChanged().
UseSystemdChanged == /\ UserCanClick /\ "systemd" \in Uses
                     /\ settings' = [settings EXCEPT !.systemctl = ~@]
                     /\ UNCHANGED <<process, cred, stack, running, tree, behind, excused,
                                    posted, acc, watching, closed>>

\* main() returned.
Terminated == closed /\ stack = <<>> /\ UNCHANGED vars
-----------------------------------------------------------------------------
(* The specification.                                                      *)

\* main() leaves real, effective and saved ids alike; the constructor loads the
\* settings and forgets the sudo command when root works for itself.
Init ==
  /\ \E s \in Starts : home = AllOf(s[1]) /\ usr = s[2]
  /\ cred = home
  /\ stack = <<>>
  /\ running = [h \in Guarded |-> FALSE]
  /\ tree = "live"
  /\ behind = Changes
  /\ excused = {}
  /\ posted = {"show"}
  /\ acc = TRUE
  /\ watching = FALSE
  /\ \E c \in Configs : settings = [c EXCEPT !.sudo = @ /\ usr # Root]
  /\ closed = FALSE

\* Steps of the program, which go on by themselves once commands end ...
Proceed == \/ LsblkEnds \/ FindmntEnds \/ NetScanEnds \/ Populate \/ Leave
           \/ WalkEnds \/ InstallDirectory \/ InstallEnds \/ MountDecides \/ MountEnds
           \/ CallRefresh \/ AcceptWrite \/ AcceptEnds \/ DialogReturns

\* ... events the program takes from its queue and its timer, ...
Dispatch == Shown \/ FSWatchDev \/ FSWatchConfig \/ TimerFires

\* ... answers a dialog or a message box waits for, ...
Answer == Select \/ Reject \/ Accept \/ AnswerYes \/ AnswerNo \/ DismissError

\* ... what the user does in the main window, and the world.
Click == \/ RefreshClicked \/ NetScanClicked \/ MountClicked \/ UnmountClicked
         \/ OpenDialog \/ EditPreferences \/ UseSystemdChanged \/ CloseWindow

World == DeviceChanges \/ ConfigWritten

Next == Proceed \/ Dispatch \/ Answer \/ Click \/ World \/ Terminated

Spec == Init /\ [][Next]_vars

\* What the handler that is d-th on the stack waits for comes to an end.
WaitEnds(d) ==
  /\ Len(stack) = d
  /\ \/ LsblkEnds \/ FindmntEnds \/ NetScanEnds \/ InstallEnds \/ MountEnds \/ AcceptEnds
     \/ AnswerYes \/ AnswerNo \/ DismissError

\* Commands end, also those that ask for a password, and the user closes dialogs
\* and message boxes.  The loop of execute() looks at its command each time it
\* has processed events, so that a handler to which handlers nested in it return
\* again and again leaves the loop in the end (strong fairness, for each depth).
\* The walk along a path comes to the path's end.  Events are taken from the
\* queue.
Fairness ==
  /\ \A d \in 1 .. MaxDepth + 1 : SF_vars(WaitEnds(d))
  /\ SF_vars(WalkEnds) /\ SF_vars(Reject)
  /\ SF_vars(Shown) /\ SF_vars(FSWatchDev) /\ SF_vars(TimerFires)
  /\ WF_vars(Populate \/ Leave \/ MountDecides \/ CallRefresh \/ AcceptWrite \/ DialogReturns)

FairSpec == Spec /\ Fairness
-----------------------------------------------------------------------------
(* Properties.                                                             *)

\* IF_REENTRY_RETURN: the static flag of a handler is set exactly while the
\* handler is on the stack, and it is there once.
NoReentry ==
  \A h \in Guarded :
    LET active == {i \in DOMAIN stack : stack[i].h = h}
    IN running[h] <=> (\E i \in active : active = {i})

\* The types; and no handler that is guarded starts in its own event loop.
TypeOK == /\ usr \in Ids
          /\ home \in Creds /\ cred \in Creds
          /\ stack \in Seq(Frames)
          /\ running \in [Guarded -> BOOLEAN]
          /\ tree \in Pointers
          /\ behind \subseteq Changes /\ excused \subseteq Changes
          /\ posted \subseteq {"show", "dev", "config"}
          /\ acc \in BOOLEAN /\ watching \in BOOLEAN /\ closed \in BOOLEAN
          /\ settings \in AllSettings
          /\ NoReentry

\* Whenever events are processed, and an item of BlkListWidget can be selected,
\* the pointers the items carry are those of the present containers.
TreeIsLive == Dispatching => tree = "live"

\* When no refresh is running, queued or to come, main_dev_map and system_db
\* show everything that happened, except what a failed scan or a refresh that
\* was refused because another one was running made them miss.
QuietIsFresh ==
  \/ posted \cap {"show", "dev"} # {}
  \/ ~acc
  \/ \E i \in DOMAIN stack : \/ stack[i].h = "refresh"
                             \/ stack[i].pc \in {"refresh", "accepted"}
  \/ behind \subseteq excused

\* f is one of the handlers hs and waits for a command that changes the system.
Running(f, hs) == f.h \in hs /\ f.pc \in {"install", "run"}

\* README.md, "Sudo and passwords": a command that mounts for the user, made by
\* a process that still is root's, is one root may run, and the files of the
\* dialog are never written by root for a user.
RootRunsOnlyAllowed ==
  stack # <<>> /\ cred.euid = Root /\ usr # Root =>
    /\ Running(Top, {"mount"}) => RootMayMount(Top.req)
    /\ ~Running(Top, {"accept"})

\* What root mounts was looked up without an event in between: the pointers its
\* command was built from were live (install, which processes events, is only
\* run by a process that is not root's).
RootMountsFresh ==
  stack # <<>> /\ cred.euid = Root /\ Running(Top, {"mount"}) => Top.cmd.fresh

\* No pointer into a container that was replaced is followed: by an item that can
\* be selected, or by root's mount().
PointersLive == TreeIsLive /\ RootMountsFresh

\* No handler runs its command with credentials that are partly the user's and
\* partly root's; a drop() that failed half way ends the handler.
CommandsRunWhole ==
  stack # <<>> /\ Running(Top, {"mount", "unmount", "accept"}) =>
    cred \in {home, ActingFor(usr, home)}

\* The credentials the k-th handler was entered with; the last level has those of
\* the process.
Level(ss, c, k) == IF k <= Len(ss) THEN ss[k].entry ELSE c
Levels(ss, c)   == [k \in 1 .. Len(ss) + 1 |-> Level(ss, c, k)]

Seen == Levels(stack, cred)

\* Whatever handlers start in the event loop of another handler, they leave the
\* credentials as they found them (LexicalScopes).
Lexical == INSTANCE LexicalScopes WITH Views <- Creds, views <- Seen

LexicallyScoped == Lexical!Spec

\* Whatever the handlers nest in each other's event loops, all of them end, over
\* and over again: none waits for ever, for a command, an answer or another one.
HandlersReturn == []<>(stack = <<>>)

\* If devices stop coming and going, the list shows them in the end, except
\* what a failed scan or a refused refresh missed, unless the window is closed.
ListCatchesUp ==
  <>[][~DeviceChanges]_vars => []<>(closed \/ behind \subseteq excused)

\* devmap.h calls mount_info "information about device being mounted": what a
\* mount command says of its device and unit is true when the command starts.
MountUsesLive ==
  \A i \in DOMAIN stack : Running(stack[i], {"mount"}) => stack[i].cmd.fresh
=============================================================================
