# mount-gui: a verification project

mount-gui is a Qt program that lists block devices, network shares and MTP devices, mounts and
unmounts them, and writes fstab entries and systemd units for them. It is normally started with
root's privileges through pkexec, on behalf of the user who sits in front of it. This directory
holds TLA+ modules that model its core logic, TLC configurations that check them on small
instances, and proofs checked by TLAPS. `PROJECT.json` lists the runs, the source lines each
definition stands for, the hazards, the findings and the theorems.

## The system

| part | state it keeps | operations | source |
| --- | --- | --- | --- |
| privileges guard | real, effective and saved ids of the process; in the guard, what to give back | `drop`, `drop_if_feasible`, `restore` | base.h, base.cpp |
| mount helper | none; reads the settings and the unit database; makes directories | `mount`, `unmount`, `create_mountpoint`, `check_mountpoint`, `replace_placeholders` | mount.h, mount.cpp |
| main window | `main_dev_map`, `net_dev_map`, `system_db`, the list's items, the settings, one re-entry flag per guarded handler, the watcher and its timer | refresh, network scan, mount, unmount, save options, preferences, export, close | mainwindow.h, mainwindow.cpp |
| command execution | three pipes, three streams, a process id, the eof flag | `Tp_open::open`, `sync`, `close_0`, `close`; `execute` | common/tpopen.h, common/tpopen.cpp, common/execute.h |
| settings file | the settings in memory, the configuration file | load, save, find an entry, add an entry | base.h, base.cpp, mainwindow.cpp |
| systemd dialog | the form, a reference to the request | `GatherInfo`, `MakeFstab`, `MakeMountUnit`, `MakeAutomountUnit`, `Accept` | systemd_dialog.h, systemd_dialog.cpp |
| mount units | `system_db` | `scan_systemd_units`, `read_systemd_unit`, three `find_mount_unit` | devmap.h, devmap.cpp |
| device scan | `main_dev_map` | `system_scan_devices`: lsblk, MTP, findmnt, units | devmap.h, devmap.cpp |
| network scan | `net_dev_map` | Avahi, WS-Discovery, nmap, smbclient, showmount; collapsing hosts and shares | netmap.h, netmap.cpp |
| WS-Discovery probe | sockets, the answers so far | `wsd_probe` | wsd_probe.h, wsd_probe.cpp |
| text helpers | none | options, paths, names of units, escapes, units, the configuration's lines, UTF-8 | common/str.h, path.h, regex.h, systemd_escape.h, tiniline.h, ucs.h |
| start | ids, environment | `main`, `fetch_current` | main.cpp, base.cpp |

**How they interact.** There is one thread. Handlers of the window call the helpers, the helpers
call `execute()`, and `execute()` runs Qt's event loop (`refresh_ui()`) each time it has looked at
its command. So do the dialog and every message box, and so does the WS-Discovery probe. Any
handler can therefore start *inside* another one that waits, and runs to its end before the waiting
one goes on. Handlers share the window's containers, the settings, the files and, above all, the
credentials of the process: a handler that has dropped root's privileges lends its identity to
whatever starts in its event loop.

**What is hard here.**

- Re-entrancy: what a handler has read before `execute()` may be gone after it. Four handlers keep
  themselves from starting twice by `IF_REENTRY_RETURN`; a call that is refused is lost.
- Identity: `drop()` is three system calls that can each fail, `restore()` three more whose order
  matters, and guards nest in each other through the event loop.
- Two processes and three pipes: full pipes, half-closed pipes, a command whose children outlive
  it, interrupted system calls, a stream whose position is repaired by hand.
- Files shared with others: an editor that saves the configuration when it likes, other programs
  that write `/etc/fstab`, a chain of commands that fails in the middle.
- Networks: lost and repeated answers, hosts known by several names.

**What makes each part correct.**

- Privileges guard: whoever resumes has the identity he had; nobody runs with half of one.
- Mount policy: root runs only the mounts README.md (section "Sudo and passwords") lets it run.
- Main window: items never carry dangling pointers when they can be clicked; the list catches up
  with the devices; every handler ends; guarded handlers never nest in themselves.
- Command execution: all of the output, all of the input, the true status, no zombie, no deadlock.
- Settings file: what the user was told is saved is there the next time, and found.
- Systemd dialog: other lines survive, one entry per device, nothing overwritten unasked, and
  success reported only of what was done.
- Mount units and mount requests: what the form shows is what is mounted, by mount(8) and by systemd.
- Device and network scan: nothing found gets lost on the way to the list, nothing is listed twice.
- WS-Discovery probe: an answer that arrives is listed, once; every link is asked; it ends.
- Texts: what the program writes is read again as it was meant, by itself and by others.

## The modules

| module | models | state and actions in the code |
| --- | --- | --- |
| `Credentials` | the ids of the process, the kernel's rules for changing them, the guard | `DropOutcomes` is every way `drop()` can end, `Restore` is `restore()` |
| `LexicalScopes` | abstract: identities are lexically scoped | none: what the guards promise |
| `PrivilegeScopes` | any nesting of handlers with a guard each; implements `LexicalScopes` | `Enter`, `Drop`, `Leave`: constructor, `drop_if_feasible()`, destructor |
| `MountPolicy` | the decisions of `mount()` and `unmount()` | `DropPriv` is `drop_priv`, `UserMount` is `user_mount`, `MountTool` the chain of ifs that builds the command |
| `MainWindow` | the handlers on one thread; implements `LexicalScopes` | `stack` is the C++ stack, one action per stretch of a handler between two places where events are processed |
| `Execute` | `execute()` and the command it runs | one action per system call of the loop, and the command's own steps |
| `SettingsFile` | settings, file and editor over several runs of the program | one action per handler that touches them |
| `SystemdDialog` | `Accept()` and the files it writes | one action per part of the shell command |
| `MountUnits` | the unit database | operators: `glob`, `read_systemd_unit`, `scan_systemd_units`, the three lookups |
| `MountTarget` | mount points: placeholders, the check against the system directories, one step of making them | operators over a file system with symbolic links and closed directories |
| `MountRequest` | from the selected device to the command | `Select`, `Edit`, `Refresh` (the form); `MountClicked`, `Judge`, the walk that makes the directory, `Decide`, `RunSucceeds`, `RunFails`; `Unmount` likewise; `Change` is the world |
| `Discovery` | abstract: what WS-Discovery promises | a list that only grows, of addresses that answered, each once; failure only when a system call failed |
| `WsdProbe` | `wsd_probe()`, its sockets and the network; implements `Discovery` | one action per system call of its loops, the network's steps, the clock |
| `DeviceScan` | `system_scan_devices()` | operators: the merge of lsblk, MTP, findmnt and units |
| `NetScan` | `network_scan()` | operators: hosts of three tools united, shares united, names looked up |
| `DeviceList` | refreshes, network scans and the list | `OnActionRefresh`; the scan in its steps `Avahi`, `Wsd`, `Nmap`, `ScanShares`, `Finish` |
| `Texts`, `Escapes`, `IniFile`, `Utf8` | the helpers on texts | operators with the code's names |
| `DialogText` | what the dialog reads, ticks and writes | `OptionStr`, `MakeMountUnit`, `MakeAutomountUnit` |
| `SettingsText` | the configuration file, line by line | `load_settings`, `save_settings` |
| `TextChecks` | every text up to a bound | its only action lengthens the text |
| `Lemmas` | lemmas: what `drop()` can leave behind, and that `restore()` undoes it; induction, folds, flattening, quotients, sequences | |
| `PrivilegeScopes_proofs`, `MainWindow_proofs`, `Execute_proofs`, `WsdProbe_proofs`, `SettingsFile_proofs`, `SystemdDialog_proofs`, `MountRequest_proofs` | the theorems about these modules | |

Composition: `MainWindow` uses `Credentials` and `MountPolicy`; `MountRequest` uses `MountPolicy`,
`MountUnits`, `MountTarget` and `Texts`; `DeviceList` uses `NetScan`, which uses `DeviceScan`;
`TextChecks` uses `DialogText` (on `MountUnits`), `SettingsText` (on `IniFile`) and `Utf8`. `Execute`,
`SettingsFile`, `SystemdDialog`, `MountRequest` and `DeviceList` model, one level deeper, what is one
waiting step or one choice in `MainWindow`: the loss of input that `Execute` admits is what
`SystemdDialog` calls `Cut`, and a request of `MainWindow` is the record that `MountRequest` computes
from names and units. Definitions marked "used to test the properties" are wrong variants of the
definition that follows them: each property is violated by one of them, which shows that it depends
on the code it is about.

### Credentials, PrivilegeScopes

An id is abstracted to whose it is, root's or the user's; the 32-bit -1 that `setresuid(2)` takes
for "leave it" is not an id (`NoId`). `drop()` returns at the first call that fails and keeps in the
guard what it has changed; `restore()` tries all three, user ids first. In `PrivilegeScopes` any
handler may or may not drop, any call may fail, and handlers nest to depth `MaxDepth`.

### MainWindow

A frame of `stack` has the handler, its place, the request it gathered, what it knows of the
pointers it holds (`dev`, `mu`: `none`, `live`, `dangling`), the command it runs, its guard, and, as
a history variable, the credentials it was entered with. Assigning `main_dev_map` or `system_db`
turns the live pointers of all frames below into dangling ones. `behind` is what has changed in the
world since the scan the window shows (devices, mounts, units); `excused` is the part of it that no
later refresh will bring because one was refused by `IF_REENTRY_RETURN` or a scan failed: the
code loses those, and the properties about freshness say exactly that it loses nothing else.

Abstractions: the contents of the maps (`DeviceList`); the text of the form (`MountRequest`; here a
request is one record of what `mount()` looks at); one configuration the editor may write out of `Configs`; the directory walk of
`create_mountpoint()`, which may call sudo's `install` any number of times. Modal windows keep the
user from the windows behind them; posted events and timers come through nevertheless.
Connections made with `Qt::QueuedConnection` are members of `posted`, taken at any place where
events are processed.

### Execute

Streams are first in, first out, so chunks are counted, a chunk being `BUFF_SZ` bytes. The command
does what it likes (`habit` = `"any"`), or, for the liveness property, insists on reading its input
to the end and on writing all of its output, interleaved or one after the other: the cases in which
the two sides could wait for each other. When it exits it may leave any of its pipe ends to
children (`heirs`). `ShortTail` says that the last chunk is shorter than the buffer, in which case
reading it sets failbit and the `seekg()` after a failed `write()` does nothing.

### SettingsFile

Of the file the model keeps one switch and the list of `Options/N` entries. `clean` says that
nothing has failed and that no editor has been seen half-way through a write; `promised` are the
entries the log told the user were saved, `saves` what the editor has saved since it was last
opened, one sequence of entries for each save, and `session` whether the program had a change of the
file still to read at that opening (`Pending`: the file is watched or an event of the watch is
queued), in which case the settings it saves first may be older than the file ("stale"). An editor may
outlive the program.

### SystemdDialog

A line of `/etc/fstab` is the name it begins with and which call of `Accept()` wrote it. `Begins`
is the prefix relation `starts_with(line, w)` tests; `Esc` is `fstab_esc()`. `found` says whether the mount unit was there when `Accept()` looked. `Others` are the lines
of other devices, in their order. The shell command is
modelled part by part, each of which may fail and ends the chain. `clean` says that no one else
wrote `/etc/fstab` between reading and writing, and that the whole input arrived.

### MountUnits, MountTarget, MountRequest

Names, options and paths are sequences of symbols, and a placeholder is one symbol, so that the code's
searches, comparisons and replacements can be written as it does them. A file system maps paths to
directories (the user's, root's, closed to the user), files and symbolic links; `Lookup` resolves a
path as the kernel does for a user, `.` and `..` included, while `path_walk()` parts it, as the code
does, at slashes and at backslashes. `create_mountpoint()` walks the prefixes of the target, one action
each: it is there, it is made, it is made by sudo's `install`, or the walk fails. Unit files lie in
the directories systemd searches (`SystemdPath`), of which the program looks at all but one
(`SearchPath`); each is a file, a mask (a link to /dev/null) or a link to a unit file, and drop-ins
may give a unit other options. What systemd makes of this is `Loaded`, what the program makes of it
`scan_systemd_units`. `Effective` is what mount(8) reads in a list of options, with quotes,
backslashes and values; the code's own reading is `contains_opt`. A world has the
directories of units, the file system, the devices, the settings and what the user may type. Between
requests others mount, unmount and remove devices. Handlers run one at a time here, since `MainWindow`
nests them; a request in which `find_mount_unit` reads behind the end of `tie[]` ends in the place
`"crashed"`, and nothing is claimed of what follows.

### WsdProbe

A socket has an interface, a queue of datagrams and possibly an error; a datagram is the name of who
answers, or no answer. The network loses probes and answers, delays an answer into a later probe,
delivers it again and sends other messages; a signal can interrupt any call of sendto, poll and recv; a socket fails
when it likes. The clock counts in parts of the interval in which the event loop has to run. `since`
and `asked` are history variables. The ids of probes are numbers, and an answer to an older probe is
an answer: the code does not compare ids.

### DeviceScan, NetScan, DeviceList

Hosts, names and shares are numbers, because the code sorts them; `MCUpperCase` says which differ
only in case. A path is a short sequence of them, as `//server/share`. The tools' output is given as
lines that are already cut up. What a machine has mounted and configured follows one of the three ways
to name the server. A refresh between two steps of a scan touches only `main_dev_map`, which the scan
reads at its end, so that it is taken before or after it.

### Texts and TextChecks

A text is a sequence of symbols; an alphabet has one symbol for each class of characters a helper
tells apart, with an option or the name of a section as one symbol. `TextChecks` enumerates them, and
`read_systemd_unit` of `MountUnits` reads what `DialogText` writes, `load_settings` what
`save_settings` writes, and models of systemd-escape, lsblk, avahi-browse and mount(8) what the
escapes make, or the other way round. UTF-8 is over bytes and code points at the boundaries of their
classes.

## The runs

Every run is a module and a cfg in this directory (`tlc -config X.cfg M`).

| run | module, cfg | question | bounds | states |
| --- | --- | --- | --- | --- |
| privilege_scopes | MCPrivilegeScopes | Do guards give back what they took, nested, with every failure? | 4 handlers | 463 |
| window | MCMainWindow, MWWindow | Do flags, credentials, pointers and the list stay right while handlers nest? | depth 2, two requests, started by root for a user and by the user, everything but the box "use systemd" | 647 k |
| handlers_return | MCMainWindow, MWReturns | Do all handlers end, and does the list catch up? | depth 2, one request, no dialogs, liveness | 44 k |
| stale_mount | MCMainWindow, MWMountStale | (finding) | depth 2 | |
| command | MCExecute | Is a command's input, output and status complete, and does `execute()` return? | 4 chunks in, 2 out per stream, pipes of 1 chunk, interrupts | 603 k |
| settings | MCSettingsFile | Is what was saved kept? | 2 runs, 2 openings, 2 entries, 2 saves of the editor | 3.18 M |
| dialog | MCSystemdDialog | Does the dialog write what it says and no more? | 2 calls of Accept, 4 lines, 5 initial files | 755 k |
| automount_lost | MCSystemdDialog, SDAutomount | (finding) | 1 call | |
| probe | MCWsdProbe | Is the list of WS-Discovery right, whatever the network does? | 3 probes with 2 ids, waiting for 2 intervals each, 2 links, 2 hosts, 2 datagrams, 1 signal | 962 k |
| shares | MCDeviceList | Does the list show everything found, once? | 2 refreshes, 2 network scans, 2 servers, 5 worlds | 611 k |
| mount_request | MCMountRequest | Is what is mounted what the form shows and root may? | 16 worlds, 1 edit, 2 changes from outside, started by root for a user and by the user | 917 k |
| texts | MCTexts | Are texts read as they were written? | paths and labels of 6 symbols, options and values of 5, names of 3, lines of 5, files of 4 lines, 5 bytes, 3 code points | 233 k |

**What they show.** A property that is a conjunction of named parts is given with its parts.

- *privilege_scopes*: `TypeOK`; `UserIffArmed` (one guard on the stack is responsible for the user's
  id); `LexicallyScoped`, the refinement of `LexicalScopes`, of which follows that a handler that
  returns leaves the credentials it found (`LeaveRestores`), also after half a drop. Depth 4 has an
  outer handler, a dropping one, one nested below its drop, and one more. `IdleIsHome` and
  `AllOrNothing` are proved, below.
- *window*: `TypeOK` with `NoReentry` (flags and stack agree); `CommandsRunWhole` (no mount, unmount or
  export runs while the credentials are a mixture; message boxes do open then); `RootRunsOnlyAllowed`;
  `PointersLive` = `TreeIsLive` (between assigning a map and filling the list no event is processed)
  and `RootMountsFresh` (what root mounts was looked up without an event in between, although
  *stale_mount* shows that it is not so for an unprivileged process); `QuietIsFresh` (at rest, everything
  unseen is accounted for by a refused refresh or a failed scan); `LexicallyScoped` for the real handlers.
  A handler in the loop of another one is where every one of these can go wrong; deeper nesting is
  what *privilege_scopes* and its proofs are about. What other programs mount, or write as units, is
  not in this window's world (no event tells the program of it); the devices are. A drop that fails
  half way and the box that reports it are; the commands of a refresh that the timer starts below that
  box do run on mixed ids, which `CommandsRunWhole` leaves out.
- *handlers_return*: `HandlersReturn`, `ListCatchesUp`.
- *command*: `OutputComplete`; `StatusTrue` with `Reaped` (success only of a command that ended and said
  so; no zombies); `InputComplete`; `Returns`. Pipes of one chunk make every blocking case happen; four
  chunks of input fill the pipe, block, are partly read and end with the short one.
- *settings*: `EditorsWorkKept` (of what the editor has saved since it was opened, one save is in the
  file as a whole when the window is closed, in either run and at either opening, if that opening
  found the program neither watching the file nor with an event of the watch still to handle; the second of two saves can be lost, and
  so can what was saved before an opening that does not, see Findings), `PromisesKept`, and in `TypeOK`
  that a truncated file leaves no switch unset (it may leave it stale). Two saves of the editor have an
  event of the watch before, between and after them; two openings have an editor that saves before,
  between and after them.
- *dialog*: `OthersKept`, `OneEntry`, `AskedFirst` (an entry, a mount unit, and the automount unit next
  to a mount unit that was found are not written before the user has agreed; an automount unit
  without a mount unit is, see Findings), `ReportedDone`. Two calls are enough for one to meet
  what the other has written; the initial files have the device by no name, by one, by two, in both
  orders, and by its escaped name.
- *probe*: `NothingForgotten` (an answer that has reached a socket is listed or still to be read);
  `EveryLinkAsked` (each link that is up, `total_probes` times, through one socket, with the ids in
  their order); `TypeOK` with `UiAlive` (the event loop runs at least once in three intervals);
  `Terminates`; `Discovers`, the refinement of `Discovery`. The interval in which the event loop has to
  run is one unit of the clock here; the theorem about `UiAlive` is for any. Three probes have a change of the id and a
  repetition; two links have a host that is on one of them and a host that answers on both.
- *shares*: `SharesShown` = `HostsUnited` (no host twice, no service lost), `FoundShown` (what a tool has
  found is in the list, up to the case of its letters), `ShownOnce` (where names are consistent) and
  that no failed lookup is shown as a name; `MountsKnown` (mounted and configured devices are in
  `main_dev_map` once, mounted where findmnt saw them last).
- *mount_request*: `RootMountsOnlyAllowed` (over what the options mean to mount(8) and what the
  directory really is, not over the code's own tests); `MountpointMade` = `MountpointIsThere` (success
  only if the directory exists) and `RootMakesOnlyAllowed` (no directory is made by root below the
  system's); `FormMountsUnit` = `FormIsUnit` (the unit the form was filled from is the unit `mount()`
  finds) and `StartsWhatWasShown` (systemd has that unit under that name); `FormFollows` = `EditsKept`
  (a refresh keeps the user's edits) and `MountedOnce` (a device the list shows as mounted is not
  mounted again); `TypeOK` also says that credentials are home when no request is under way. Where
  the program and the rest of the system read a thing differently, the worlds have the case and the
  property leaves it out by a name of its own, and only for the part it concerns: `Straight` (targets
  that `path_walk()` and the kernel walk alike), `Ordinary` (options that `contains_opt()` and mount(8)
  read alike), `KnownToBoth` (units that the program and systemd both know), and paths that are typed
  without blanks at their ends. What lies outside is under Findings.
- *texts*: `NamesMade` = `WalksPrefixes` (`path_walk()` yields prefixes, each longer than the one before,
  and, for a path without a backslash, by one name), `SanitizedShape`, `UnitNamed`; `EncodingsKept` =
  `PiecesWhole`, `CodePointsKept`, `PairsRead`, `EscapesKept`; `DialogReadBack` = `ContainsOption`,
  `OptionsKept`, `OpenedUnchanged`, `UnitReadBack`; `SettingsKept` = `LinesReadBack`,
  `SettingsReadBack`, `CommentsKept`.

Deadlock is checked in the runs of `MainWindow`, `PrivilegeScopes`, `Execute` and `WsdProbe` (where a
program that has ended stutters by an action of its own); `SettingsFile`, `SystemdDialog`, `MountRequest`,
`DeviceList` and `TextChecks` stop when their bounds are used up, so it is not checked there.

**Bounds.** `MaxDepth` (handlers on the stack), `MaxOutput` (chunks a command writes), `MaxRuns`,
`MaxOpens`, `MaxEntries`, `MaxWrites` (starts of the program, openings of the editor, entries, saves of
the editor), `MaxAccepts`, `MaxLines` (calls of Accept, lines of fstab), `MaxQueue` (datagrams a socket
holds), `MaxDatagrams`, `MaxSignals` (what arrives in a behaviour), `MaxRefreshes`, `MaxScans`,
`MaxEdits` (changes to the form), `MaxChanges` (what others do to the devices), `Longest` (symbols of a
text), and `Uses`, which says which parts of the window a run exercises. Each bounds an environment
that could go on for ever; none cuts a handler short.

**Inputs left out.** The file system changes only by what the program does while a request is under
way. The system directories exist (`IsWorld`); a device's path neither begins nor ends in blanks. What
the properties themselves leave out, because it is false of the code (each under Findings), has a name in
the formula: `Straight` (backslashes and `..` in a mount point; `.` is left out with them), `Ordinary`
(quotes and backslashes in options, `nosuid` or `nodev` with a value), `KnownToBoth` (units that are linked, changed
by drop-ins, misnamed, unreadable or in /usr/lib/systemd/system), `NamesApart` (names of which one
begins with another), `session = "fresh"`, `clean`, and the cases that the comments of `AskedFirst`, `MountedOnce`, `UnitNamed`, `UnitReadBack`,
`OpenedUnchanged` and `SettingsReadBack` name.

## Fairness

`MainWindow!FairSpec`: commands end and the user answers message boxes and closes dialogs, in the
end (`WaitEnds`, `Reject`); the loop of `execute()` looks at its command after each turn of the event
loop, so that a handler to which nested handlers return again and again leaves the loop in the end:
strong fairness, for each depth of the stack. The directory walk is finite (`WalkEnds`). Qt delivers
posted events and timers whenever events are processed (`Shown`, `FSWatchDev`, `TimerFires`). The
stretches between waiting places are plain code (weak fairness). Nothing is assumed of clicks, of
devices or of the editor.

(The run handlers_return has no dialogs, so that it does not rest on their being closed.)

`WsdProbe!FairSpec`: the program runs and time passes, weak fairness of each; nothing is asked of the
network, which need not answer, nor stop sending.

`Execute!FairSpec`: both processes run; a command that can read, write or exit does, in the end
(weak fairness), and children it leaves behind end, which is an assumption about the commands the
program runs (mount, lsblk, findmnt, nmap, ...), not about the program: a daemon that keeps its
standard output open would keep `execute()` waiting. That a `write()` to a command that reads no
more fails, rather than ending the program, assumes that SIGPIPE is ignored by whoever starts it;
nothing in src/ does so.

## What is proved

Eight modules hold theorems and lemmas; `PROJECT.json` lists the theorems. They hold for every value
of the constants that the named assumptions of the modules admit (`IdsAssumption`,
`RequestsAssumption`, `WorldsAssumption`, `BoundsAssumption`, ...). Those say what kind of thing a constant is; the few
that say more are: root, the user and -1 are different (`Credentials`); nobody starts the program
as himself on behalf of root (`StartsAssumption`); a pipe holds at least one chunk (`Execute`); the
wait for answers is at least two intervals, and addresses of one name are of one interface
(`WsdProbe`); a line begins with what it begins with (`BeginsAssumption`). `StringsAssumption`
(`MountRequest`) lists the strings that the module writes as literals: the provers know of a literal
that it differs from others, but not that it is in `STRING`.

No property is inductive by itself. Each proof module begins with an inductive invariant in
named parts (`IInv`, or a row of invariants that rest on each other), each of which TLC has checked on
the run of the module, proves that `Init` gives it and that each action keeps it, and derives the
properties.

**PrivilegeScopes** (any depth): `TypeCorrect`, `UserOnlyInside` (`UserIffArmed`), `HomeWhenIdle` and
`NeverAMixture` (with no handler active the process has the ids it started with; without a failed
drop it is all root's or all the user's), `ReturnsRestore` (the action property `LeaveRestores`), and
`ImplementsLexicalScopes`. That a handler restores the ids it found depends on what its
guard remembers, and that the guard can do so depends on what the handlers *below* did. `IInv` is
about `Seen`, the credentials each level was entered with. For every
level it says that (1) the credentials are well formed: real and effective ids agree, and where
root's real id is in use the saved user id is root's, which is the way back; (2) they are the home
credentials, or the user's if no drop below failed; (3) the effective user id differs from home's
exactly if a guard below has changed it; and (`HeldAt`) the credentials of the next level are those
of this level or an outcome of `drop()` on them that the guard remembers. `RestoreUndoesDrop`
(`Lemmas`) proves
from (1) and `HeldAt` alone that `restore()` is the inverse of each of the four outcomes; the steps
then only append to `Seen`, change its last element or remove it (`SeenAppend`, `SeenExcept`,
`SeenFront`), which is also the refinement.

**MainWindow** (any depth of nesting, any requests and settings): all invariants of the run *window*,
`TypeCorrect`, `RootIsAllowed` (`RootRunsOnlyAllowed`), `PointersStayLive` (`PointersLive`), `RunWhole`
(`CommandsRunWhole`), `Quiet` (`QuietIsFresh`), and the refinement `ImplementsLexicalScopes`
(`LexicallyScoped`). What a handler may rely on when it goes on depends on who can have run in
its event loop, so `IInv` looks at the stack in three ways: `Fit`, each handler
with the credentials its guard has brought the process to (a `mount()` that is about to run as root
has asked for what root may mount, and looked it up just now); `Nested`, each pair of handlers one
somewhere below the other (guarded handlers are not below themselves, a guard that got stuck half-way
is below nothing but what a message box lets in); `Grounded`, what a handler needs below it (the
dialog below its `Accept()`, which is open while it asks). `Flags`, `Treed`, `Missed` and `Awaited` tie the
stack to the re-entry flags, to the list's pointers, and to what was changed and not seen
yet: a change that no refused refresh excuses waits for a refresh that is pending, or for a scan that
has yet to look for it. A step leaves the stack alone, changes its innermost handler, adds one or removes
one (`StillStep`, `TopStep`, `PushStep`, `PopStep`); each action is brought to one of these four. For the
refinement the shapes are three, `Staying`, `Entering` and `Leaving`, of which each is a step of
`LexicalScopes` or none.

**Execute** (any amount of input and output, any size of the pipes, with and without interrupts):
`TypeCorrect`, `OutputIsComplete`, `StatusIsTrue`, `InputIsComplete`. Ends of pipes that their holders
have let go are never held again, so that a stream that was drained stays so; `IInv` says
which streams are at each place where `eof_cnt` has counted one (`Ended`), what `poll()` has said of the input
(`Polled`), and how much of the input is where (`Fed`).

**WsdProbe** (any network, addresses, number of probes and times): `TypeCorrect` with `UiAlive`,
`NoneForgotten`, `LinksAsked`, and `ImplementsDiscovery`, step by step. `IInv` has five parts: `Sized`, which rests on what
`list_active_interfaces()` returns, a fold over the addresses (`Listed`); `Timed`, how
long ago the event loop ran as a function of the clock's position in its interval, which needs the
arithmetic of quotients by an unknown number; `Counted`, that the number of the probe, its id and what was
sent agree at each place of the loops; `Heeded`, that who is in a queue has heard a probe; and `Seen`,
that what `poll()` has called readable still is.

**SettingsFile** (any number of runs, of openings in each, and of saves): `TypeCorrect`, `KeepsPromises`
(`PromisesKept`), `KeepsEditorsWork` (`EditorsWorkKept`). `Promised` follows the entries from the settings into the
file and back; `Edited` says that from the first save after a fresh opening on the file has all of some save, and
that the settings have it too, or the event that makes the program read the file is still to come
while the watch keeps it from writing. An opening with `Pending` may break this, and the next fresh one
mends it.

**SystemdDialog** (any device, any `/etc/fstab`, any number of calls and of other writers' lines):
`TypeCorrect`, `KeepsOthers` (`OthersKept`), `HasOneEntry` (`OneEntry`), `ReportsDone` (`ReportedDone`) and the
action property `AsksFirst` (`AskedFirst`, of entries, mount units and the automount units beside them). `IInv` says what the contents promise between `Accept()` and
the command (`Planned`, `Kept`, `Asked`) and what each part of the command has done (`Written`, `Noticed`,
`Enabled`). What `MakeFstab()` promises (`Making`) is proved by induction over the lines it has looked at.
`KeepsOthers` has the hypothesis `NamesApart`: no name of another device begins with one of this device's.
Without it the property is false, as the code is (Findings).

**MountRequest** (any worlds, that is, any devices, unit files, links and directories, any texts in the
fields, any number of edits and of changes of the system): all properties of its run,
`TypeOKHolds` (`TypeOK`), `RootMountsOnlyAllowedHolds` (`RootMountsOnlyAllowed`), `MountpointMadeHolds`
(`MountpointMade`), `FormMountsUnitHolds` (`FormMountsUnit`) and `FormFollowsHolds` (`FormFollows`, an action
property and an invariant). What `mount()` decides, it decides from texts and from directories, and
acts later; so the invariants say what the decision was and that what it rested on is still true:

- `Typed` and `Decided`: while the directory is made and while the command runs, the unit and the
  judgement of the options are those that `Judge` made of this request. They are inductive only
  together.
- `Trees`: the file system stays a tree (`Tree`), what `create_mountpoint()` has passed is a directory
  (`Walking`), and at the end the mount point is (`MountpointIsThere`).
- `Allowed`: why the privileges are kept (`KeepsRoot`), and that what root makes on the way to a target
  that is `Straight` is outside the system directories. The directory is made name by name after `check_mountpoint()` has looked at the
  longest prefix that exists, and each name that is made changes what exists. The invariant is
  `StopsOutside`: wherever on the walk a lookup stops, it stops outside. `MadeOutside` shows that `mkdir(2)`
  keeps it: a directory that is made turns no other path into one that leads elsewhere (`LookupKept`),
  and nothing was below it (`NothingBelow`). With a `..` or a backslash in the target this fails, as the
  code does: the walk then stops at a name that is missing although the kernel, once it is made, goes
  on elsewhere.
- `FormInv` and `Shown`: a form that nobody has modified, and the request taken from it, say what the
  unit of the device says, through refreshes, selections and changes of the devices.
- `Asked`: a request to mount is for the device that the trimmed path of the form names in the list, and
  was made with the button enabled; the button looked at the same device if there was nothing to trim.

What the pure code computes is proved for every text and every file system: `path_walk()` yields the
prefixes of a path, name by name if it has no backslash, whatever slashes it has (`PathWalked`); `replace_placeholders()` and
`sanitize_name()` leave texts that are texts (`PlaceholdersReplaced`); `contains_opt()` finds exactly the items
between the commas (`ItemFound`), so that a request with `Ordinary` options that `mount()` takes for
nosuid and nodev has them in effect for mount(8), which reads the list from the left and takes what
is last (`BareItems`, `NosuidMeans`);
`scan_systemd_units()` keeps the files in the order of the search path, so that the file systemd
takes for a name is no later than the one the program takes, and is the same if it is `KnownToBoth`
(`UnitLoads`).

The conditions are those under which the program and the rest of the system mean the same. `Ordinary`,
`Straight` and `KnownToBoth` stand in the properties where they are needed: `RootMountsOnlyAllowedHolds`
says nothing of the options of a request that is not `Ordinary`, nothing of the place of a target that
is not `Straight`, and nothing of what systemd starts under a name that is not `KnownToBoth`; the other
parts of it hold there, too. `MountpointMadeHolds` needs only that the target has no backslash for its
first half and `Straight` for its second.

**How.** Induction over data is done over sets: `Induction` in `Lemmas` is about a set of numbers
that has 0 and with a number the next one. From it `FoldExists`, `FlattensExists` and `RecursionExists`
prove that the recursive functions exist by which the community modules define folds and `FlattenSeq`,
and by which the texts are read; an invariant over their values is then proved by the same induction
(`Chain`, `FoldChain`).

**Only model-checked.** Liveness (`HandlersReturn`,
`ListCatchesUp`, `Returns`, `Terminates`), since TLAPS does not reason about ENABLED and
fairness. `DeviceList`: `ShownOnce` and `FoundShown` (of `SharesShown`) are about what sorting does with two
comparisons that are not weak orders, and hold for servers that are known by consistent names; for
every input they do not hold. `MountsKnown` rests on folds over lists of unknown length, as
`MountRequest` does, and could be proved in the same way. The texts (`NamesMade`, `EncodingsKept`,
`DialogReadBack`, `SettingsKept`): that what is written
is read again is a statement about two recursions over a text of any length, a parser's and a
printer's, each with a state of its own; TLC checks it for every text up to a bound. Of it the walk
over a path and the search for an option are proved for every text (`PathWalked`, `ItemFound`).

## Findings

Shown by a run:

1. *stale_mount* (mount.cpp:112): `mount()` holds a pointer into `main_dev_map` (mainwindow.cpp:282) and
   one into `system_db` (mount.cpp:177) across the `execute()` of `create_mountpoint()` (line 198); a refresh
   nested there (the watcher's timer is enough) replaces both, and lines 156, 160, 164 and 214 then follow
   dangling pointers. Needs a process that is not root's and a sudo command.
2. *automount_lost* (systemd_dialog.cpp:305): the two units are piped into one shell; the first
   `head` reads a block, which is all there is, and the second writes an empty automount unit.

Met while modelling, in the models or excluded by name from a property, without a run of their own:

- base.cpp:100: options saved for a key that has an entry already, as the built-in configuration's
  vfat and ntfs have, are appended behind it and never found.
- path.h:32-35: `path_walk()` takes a backslash for a separator, which it is not for the kernel, and
  CMakeLists.txt does not say otherwise. `check_mountpoint()` (mount.cpp:267) and `create_mountpoint()`
  (line 95) then look at, and make, directories that are not on the way to the target: the verdict on such a target is
  about another directory, and the target itself may not exist when the command runs.
- mount.cpp:267-273: `check_mountpoint()` stops at the first part of the target that does not exist.
  With a `..` behind that part its verdict is about a directory that the kernel leaves again, once
  the part is made.
- mount.cpp:43: `contains_opt()` parts options at every comma and takes `nosuid=x` for nosuid;
  mount(8) keeps commas in double quotes or behind a backslash together and knows no such flag.
- devmap.cpp:206-223: units that are linked (`systemctl link`), lie in /usr/lib/systemd/system or are
  changed by drop-ins are not, or not so, in `system_db`; `systemctl start` (mount.cpp:214) may start
  another unit than the one that was found, if one that is not known to the program comes first. The
  same goes for a file of that name that the program cannot read.
- mainwindow.cpp:296: `OnMntDeviceChanged()` looks the device up by the text as it is, line 271 trims
  it: a mounted device whose path is typed with a blank at its end can be mounted again.
- systemd_dialog.cpp:206: an entry for /dev/sda1 replaces the line of /dev/sda10; `OthersKept` is
  checked with names of which none begins another. Lines 206-208: a label that `fstab_esc()` changes is
  not recognised in the entry the dialog has written before, which gives a second one; an existing
  automount unit without a mount unit is overwritten without a question (line 287 asks for the mount
  unit only, 305 writes both).
- systemd_dialog.cpp:165: the dialog's device pointer dangles after a refresh by the watcher's timer.
- systemd_dialog.cpp:70: `fstab_esc()` leaves backslashes as they are. Line 55: `remove_opt()` takes
  `user=joe` for `user` and removes it.
- mainwindow.cpp:98 takes a watched file for an open editor ("external editor isn't still open"),
  but the watch ends with the editor's first save (line 345): later saves may be overwritten at
  closing, which is why `EditorsWorkKept` asks for one save only. Line 466: to open the editor again saves the
  settings over the file first; what it has saved meanwhile is lost if the program has not read it
  yet. Options saved in the window while the editor is open are dropped at closing.
- tpopen.cpp:164: a short last chunk that `write()` refuses is lost, and the command reads less
  than it was sent; `InputComplete` admits exactly that chunk.
- tpopen.cpp:173, "all 3 pipes should be closed to set eof flag": for a command without input the
  flag is set with `pipe_in` open.
- tpopen.cpp:133: an interrupted `poll()` ends `execute()` with -1 although the command may succeed.
- devmap.cpp:279: a unit whose "What=" has a tag that is not known, or a path with a "=", has
  `what_sel` = `INV_SEL`, and `find_mount_unit()` reads behind the end of `tie[]`.
- devmap.cpp:296: `find(",.")` looks for the two characters in a row and never finds them, so that
  "nfs,nfs4" is not shortened.
- devmap.cpp: labels and mount points with blanks at their ends are cut by `Tini_line`, so that the
  unit the dialog wrote for them is not found again.
- systemd_escape.h:47-53 says that a leading "." is escaped, but line 60 keeps it for "/.x", and
  systemd refuses a unit of that name; a mount point that ends in "//" gets a "-" at its end.
- base.cpp:136: `section` is read uninitialised if the file begins with a name and a value. Line 153: a
  section that comes twice loses the comments before it, and comments follow the numbers of the
  entries, which are given anew. `clear()` leaves the options of which the file has no line.
- base.cpp:357: `toupper()`, which base.h:105 calls the "Utf-8 version", hands characters beyond
  ASCII to toupper(3), which knows bytes only (glibc's returns them as they are), and turns bytes
  that are not UTF-8 into four other bytes.
- netmap.cpp: a server that is found by address and has no name keeps the name its shares had before,
  and a share is listed twice, for which `ShownOnce` requires consistent names; exports of NFS that
  differ in case only are shown as one.
- mainwindow.cpp: if a device that is mounted but not listed goes away, its Unmount button stays.
- mount.cpp: a system directory that does not exist is not recognised by `check_mountpoint()`, which
  compares directories, not names.

## What is not modelled

- Columns, colours, sizes, log and help windows, icons, translations: layout. Formatting of sizes,
  conversions to Qt's strings: nothing is decided by them.
- `optionparser.h`, third-party code used once at the start; the command line and `fetch_current()`
  (the initial states are what they lead to).
- The regular expressions that cut up the output of avahi-browse, nmap, smbclient and showmount: their
  results are the inputs of `NetScan`.
- Validators and the enabling of widgets in the systemd dialog; `Accept()` nested in itself in
  `SystemdDialog` (its outcome is a lost update, as with any other writer).
- The parts of `ucs.h` and `path.h` that nothing here calls; the tables behind `iswalnum()`.
- A crash of the program: nothing is persisted but the configuration file, whose interrupted
  writing is modelled as a failing one (`Truncated`).

## Plan

1. (done) The core: `Credentials`, `PrivilegeScopes` and its proofs, `MountPolicy`, `MainWindow`,
   `Execute`, `SettingsFile`, `SystemdDialog`.
2. (done) The data under the window: `MountUnits`, `MountTarget`, `MountRequest`; `DeviceScan`,
   `NetScan`, `DeviceList`; `WsdProbe` and `Discovery`; the texts.
3. (done) Proofs: `PrivilegeScopes`, `MainWindow`, `Execute`, `WsdProbe`, `SettingsFile`, `SystemdDialog`,
   `MountRequest`.
4. Left: of `DeviceList` that a refresh and a network scan leave each other's part of the list alone, and
   `MountsKnown`; of the texts what reads back what.
