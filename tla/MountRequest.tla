----------------------------- MODULE MountRequest -----------------------------
(***************************************************************************)
(* From a device in the list to the command that mounts it: the form of    *)
(* the main window (mainwindow.cpp), mount_helper::mount() and unmount()   *)
(* (mount.cpp) over concrete devices, units, options and directories.      *)
(*                                                                         *)
(* The handlers run one at a time here (MainWindow has them in each        *)
(* other's event loops); between two of them devices come and go and are   *)
(* mounted by others.                                                      *)
(***************************************************************************)
EXTENDS MountUnits, MountTarget, FiniteSets

CONSTANTS Worlds,      \* the systems considered
          Starts,      \* the pairs <<started by, usr_info.uid>> considered
          MaxEdits,    \* bound on the changes the user makes to the form
          MaxChanges   \* bound on what happens to the devices from outside

\* A world has the unit directories, the options that drop-ins of systemd's give
\* to units, the links below /dev/disk, the file system, the devices, the settings
\* (program_settings; mtp_type is "fuse." and default_mtpfs), the mount someone
\* else makes, and what the user may type.
\* The system directories exist: one that does not is no place of the system's
\* for check_mountpoint(), which judges by the directories there are.  The
\* kernel gives every device a path of its own, and none begins or ends in blanks.
SavedOptions == [fs_type : STRING, label : Text, uuid : Text, mountpoint : Text, options : Text]
Attached     == [MOUNTPOINT : Text, OPTIONS : Text]

IsWorld(w) ==
  /\ IsFileSystem(w.fs) /\ \A d \in SystemDirs : <<d>> \in DOMAIN w.fs
  /\ w.dirs \in [ToSet(SystemdPath) -> Seq(UnitFiles)] /\ w.dropins \in [DOMAIN w.dropins -> Text]
  /\ \A l \in DOMAIN w.links : w.links[l] \in Text
  /\ w.devices \subseteq Devices /\ w.elsewhere \in Attached
  /\ \A d, e \in w.devices : (d.PATH = e.PATH => d = e) /\ trim(d.PATH) = d.PATH
  /\ w.settings \in AllSettings /\ w.sdumount \in BOOLEAN
  /\ w.saved \in Seq(SavedOptions) /\ w.aliases \in [DOMAIN w.aliases -> STRING] /\ w.mtp_type \in STRING
  /\ w.types \subseteq STRING
  /\ {w.mountpoint, w.default_opts} \cup w.paths \cup w.targets \cup w.options \subseteq Text

\* What TLA+ knows of strings, and its provers have to be told.
ASSUME StringsAssumption == Marks \cup ToSet(Selectors) \cup {INV_SEL, "", "me", "us"} \subseteq STRING

ASSUME WorldsAssumption == \A w \in Worlds : IsWorld(w)
ASSUME StartsAssumption == Starts \subseteq (Ids \X Ids) \ {<<User, Root>>}
ASSUME BoundsAssumption == MaxEdits \in Nat /\ MaxChanges \in Nat

VARIABLES
  world,     \* the system
  usr,       \* usr_info
  uid,       \* getuid()
  fs,        \* the file system
  system_db, \* the mount units that were read
  mounts,    \* what is plugged in: device -> the MOUNTPOINT and OPTIONS it has
  devs,      \* main_dev_map: the same at the last scan
  form,      \* the fields, whether one was modified, the buttons, and (history)
             \* the device that filled the fields
  pc,        \* where the handler is
  info,      \* its mount_info, what it was judged by (req) and the unit found for
             \* it; plain is the device the form was filled from if no field was
             \* modified since (history)
  k, r,      \* create_mountpoint(): the prefix, the enum
  cmd,       \* the command
  made,      \* the directories made by the process: [at, as] (history)
  edits, changes

vars == <<world, usr, uid, fs, system_db, mounts, devs, form, pc, info, k, r, cmd, made, edits, changes>>
request == <<info, k, r, cmd, made>>
-----------------------------------------------------------------------------
(* The form.                                                               *)

find_device(list, path) == IF \E d \in DOMAIN list : d.PATH = path
                           THEN CHOOSE d \in DOMAIN list : d.PATH = path ELSE NoDevice

\* find_suitable(): the saved options that fit best.
find_suitable(type, dev) ==
  LET For(l, u) == SelectInSeq(world.saved, LAMBDA x : x.fs_type = type /\ x.label = l /\ x.uuid = u)
      Or(i, j)  == IF i # 0 THEN i ELSE j
  IN Or(For(dev.LABEL, dev.UUID), Or(For(<<>>, dev.UUID), Or(For(dev.LABEL, <<>>), For(<<>>, <<>>))))

\* The first half of PopulateFormFields(): what the fields should show.
Fields(list, dev) ==
  LET raw     == IF dev.mtp THEN world.mtp_type ELSE dev.FSTYPE
      type    == IF raw \in DOMAIN world.aliases THEN world.aliases[raw] ELSE raw
      s       == find_suitable(type, dev)
      u       == UnitOf(system_db, dev)
  IN CASE list[dev].MOUNTPOINT # <<>> ->
            [path |-> dev.PATH, target |-> list[dev].MOUNTPOINT, options |-> list[dev].OPTIONS,
             type |-> dev.FSTYPE]
       [] list[dev].MOUNTPOINT = <<>> /\ u # NoUnit ->
            [path |-> dev.PATH, target |-> u.where, options |-> u.options,
             type |-> IF u.fstype = "" THEN dev.FSTYPE ELSE u.fstype]
       [] list[dev].MOUNTPOINT = <<>> /\ u = NoUnit ->
            [path |-> dev.PATH, type |-> type,
             target  |-> IF s # 0 /\ world.saved[s].mountpoint # <<>>
                         THEN world.saved[s].mountpoint ELSE world.mountpoint,
             options |-> IF s # 0 THEN world.saved[s].options
                         ELSE IF type # "" THEN world.default_opts ELSE list[dev].OPTIONS]

\* OnMntDeviceChanged(): the buttons.
Buttons(list, path) ==
  LET d == find_device(list, path)
  IN [mount   |-> path # <<>> /\ (d = NoDevice \/ list[d].MOUNTPOINT = <<>>),
      unmount |-> d # NoDevice /\ list[d].MOUNTPOINT # <<>>]

\* Used to test the properties: whether a field was modified is not looked at.
PopulateAlways(list, dev) ==
  LET f == Fields(list, dev)
  IN [path |-> f.path, target |-> f.target, type |-> f.type, options |-> f.options,
      modified |-> FALSE, of |-> dev, buttons |-> Buttons(list, dev.PATH)]

\* PopulateFormFields(): fields the user has modified are left alone, unless
\* they are another device's.
PopulateFormFields(list, dev) ==
  IF form.path # dev.PATH \/ ~form.modified
  THEN LET f == Fields(list, dev)
       IN [path |-> f.path, target |-> f.target, type |-> f.type, options |-> f.options,
           modified |-> FALSE, of |-> dev, buttons |-> Buttons(list, dev.PATH)]
  ELSE [form EXCEPT !.buttons = Buttons(list, dev.PATH)]

\* The end of PopulateBlkListWidget(): the device of the form is selected, if
\* it is still there.
Reselect(list) == IF find_device(list, form.path) = NoDevice THEN form
                  ELSE PopulateFormFields(list, find_device(list, form.path))

Select == /\ pc = "idle"
          /\ \E d \in DOMAIN devs : form' = PopulateFormFields(devs, d)
          /\ UNCHANGED <<world, usr, uid, fs, system_db, mounts, devs, pc, request, edits, changes>>

\* The user types; only the field of the device is watched (OnMntDeviceChanged()).
Edit == /\ pc = "idle" /\ edits < MaxEdits
        /\ edits' = edits + 1
        /\ \/ \E p \in world.paths :
                form' = [form EXCEPT !.path = p, !.buttons = Buttons(devs, p), !.of = NoDevice]
           \/ \E t \in world.targets :
                form' = [form EXCEPT !.target = t, !.modified = TRUE]
           \/ \E o \in world.options :
                form' = [form EXCEPT !.options = o, !.modified = TRUE]
           \/ \E y \in world.types :
                form' = [form EXCEPT !.type = y, !.modified = TRUE]
        /\ UNCHANGED <<world, usr, uid, fs, system_db, mounts, devs, pc, request, changes>>

\* OnActionRefresh(), by hand or because a device was changed.
Refresh == /\ pc = "idle" /\ devs # mounts
           /\ system_db' = scan_systemd_units(world.dirs, world.links)
           /\ devs' = mounts
           /\ form' = Reselect(mounts)
           /\ UNCHANGED <<world, usr, uid, fs, mounts, pc, request, edits, changes>>

\* Someone else plugs, unplugs, mounts or unmounts a device.
NotMounted == [MOUNTPOINT |-> <<>>, OPTIONS |-> <<>>]
Change == /\ pc = "idle" /\ changes < MaxChanges
          /\ changes' = changes + 1
          /\ \/ \E d \in world.devices \ DOMAIN mounts :
                  mounts' = [e \in DOMAIN mounts \cup {d} |-> IF e = d THEN NotMounted ELSE mounts[e]]
             \/ \E d \in DOMAIN mounts : mounts' = [e \in DOMAIN mounts \ {d} |-> mounts[e]]
             \/ \E d \in DOMAIN mounts, m \in {NotMounted, world.elsewhere} :
                  mounts[d] # m /\ mounts' = [mounts EXCEPT ![d] = m]
          /\ UNCHANGED <<world, usr, uid, fs, system_db, devs, form, pc, request, edits>>
-----------------------------------------------------------------------------
(* The request.                                                            *)

NoInfo == [path |-> <<>>, fs_type |-> "", target |-> <<>>, options |-> <<>>, dev |-> NoDevice,
           listed |-> FALSE, plain |-> NoDevice, unit |-> NoUnit,
           req |-> [tl |-> "reject", listed |-> FALSE, mtp |-> FALSE, nosuid |-> FALSE,
                    unit |-> "none", user |-> "no"]]
NoCmd  == [job |-> "none", tool |-> "none", sudo |-> FALSE]

\* GatherMountInfo()
Gathered ==
  LET p == trim(form.path)
      d == find_device(devs, p)
  IN [NoInfo EXCEPT !.path = p, !.fs_type = form.type, !.target = trim(form.target),
        !.options = trim(form.options), !.dev = d, !.listed = d # NoDevice,
        !.plain = IF form.modified THEN NoDevice ELSE form.of]

Complete(i) == /\ i.path # <<>> /\ i.fs_type # "" /\ i.target # <<>>
               /\ sanitize_name(i.path) # <<>>

\* Used to test the properties: an option taken back later is not noticed.
NosuidOnce(o) == contains_opt(o, <<"nosuid">>) /\ contains_opt(o, <<"nodev">>)

\* nosuid of mount()
Nosuid(o) == /\ contains_opt(o, <<"nosuid">>) /\ contains_opt(o, <<"nodev">>)
             /\ ~contains_opt(o, <<"suid">>) /\ ~contains_opt(o, <<"dev">>)
             /\ ~contains_opt(o, <<"defaults">>)

\* What mount() finds out about the request before it does anything.
Judged(i, u) ==
  [tl     |-> check_mountpoint(fs, uid, i.target),
   listed |-> i.listed,
   mtp    |-> i.listed /\ i.dev.mtp,
   nosuid |-> Nosuid(i.options),
   unit   |-> IF u = NoUnit THEN "none"
              ELSE IF u.fstype = i.fs_type /\ u.options = i.options THEN "exact" ELSE "other",
   user   |-> IF contains_opt(i.options, <<"user">>) THEN "user"
              ELSE IF contains_opt(i.options, <<"users">>) THEN "users" ELSE "no"]

\* The privileges are dropped before the directory is made.
DropsEarly(req) == DropPriv(req, usr.home) /\ req.tl # "trusted"

\* privileges_guard::drop_if_feasible(), when it succeeds.
Dropped == IF uid = Root THEN usr.uid ELSE uid

\* Used to test the properties: the guard is forgotten.
ReturnDropped == /\ pc' = "idle" /\ uid' = uid
                 /\ info' = NoInfo /\ k' = 0 /\ r' = "OK" /\ cmd' = NoCmd /\ made' = {}

\* The handler returns, and its guard restores the privileges.
Return == /\ pc' = "idle" /\ uid' = usr.home
          /\ info' = NoInfo /\ k' = 0 /\ r' = "OK" /\ cmd' = NoCmd /\ made' = {}

\* OnActionMount() and OnActionUnmount() up to the lookup of the unit.
Clicked(button, at) ==
  /\ pc = "idle" /\ button
  /\ \E g \in {Gathered} :
       /\ Complete(g)
       /\ info' = [g EXCEPT !.target  = replace_placeholders(g.target, g, usr),
                            !.options = IF at = "judge" THEN replace_placeholders(g.options, g, usr)
                                        ELSE g.options]
  /\ pc' = at
  /\ UNCHANGED <<world, usr, uid, fs, system_db, mounts, devs, form, k, r, cmd, made, edits, changes>>

MountClicked   == Clicked(form.buttons.mount, "judge")
UnmountClicked == Clicked(form.buttons.unmount, "unmount")

\* The decisions of mount(), up to create_mountpoint().
Judge ==
  /\ pc = "judge"
  /\ \E u \in {UnitFor(system_db, info)} : info' = [info EXCEPT !.unit = u, !.req = Judged(info, u)]
  /\ info'.req.tl # "reject"
  /\ uid' = IF DropsEarly(info'.req) THEN Dropped ELSE uid
  /\ pc' = "mkdir" /\ k' = 1
  /\ UNCHANGED <<world, usr, fs, system_db, mounts, devs, form, r, cmd, made, edits, changes>>

Rejected == /\ pc = "judge" /\ check_mountpoint(fs, uid, info.target) = "reject"
            /\ Return
            /\ UNCHANGED <<world, usr, fs, system_db, mounts, devs, form, edits, changes>>

\* A unit with an unknown tag: what lies behind tie[] may end the program.
ReadPastTie ==
  /\ \/ pc \in {"judge", "unmount"} /\ ReadsPastTie(system_db, info)
     \/ pc = "idle" /\ \E d \in DOMAIN devs : devs[d].MOUNTPOINT = <<>> /\ ScansPastTie(system_db, d)
  /\ pc' = "crashed"
  /\ UNCHANGED <<world, usr, uid, fs, system_db, mounts, devs, form, request, edits, changes>>
-----------------------------------------------------------------------------
(* create_mountpoint()                                                     *)

walk == path_walk(info.target)
Here == names(walk[k])

\* Used to test the properties: a refused command is forgotten.
RefusedAs == "OK"
Refused   == "CMD"

MakingDir == pc = "mkdir" /\ k <= Len(walk)
Missing   == MakingDir /\ Lookup(fs, uid, Here).err = "ENOENT"

DirExists == /\ MakingDir /\ IsDirectory(fs, uid, Here)
             /\ r' = "OK" /\ k' = k + 1
             /\ UNCHANGED <<world, usr, uid, fs, system_db, mounts, devs, form, pc, info, cmd, made, edits, changes>>

MakeDir == LET m == mkdir(fs, uid, Here)
           IN /\ Missing /\ m.ok
              /\ fs' = m.fs
              /\ made' = made \cup {[at |-> m.at, as |-> uid]}
              /\ r' = "OK" /\ k' = k + 1
              /\ UNCHANGED <<world, usr, uid, system_db, mounts, devs, form, pc, info, cmd, edits, changes>>

\* mkdir(2) failed, and sudo makes the directory, or is refused; the walk goes
\* on in both cases.
InstallDir == /\ Missing /\ ~mkdir(fs, uid, Here).ok
              /\ uid # Root /\ world.settings.sudo
              /\ \/ fs' = install(fs, Here) /\ IsDirectory(fs', Root, Here) /\ r' = "OK"
                 \/ fs' = fs /\ r' = Refused
              /\ k' = k + 1
              /\ UNCHANGED <<world, usr, uid, system_db, mounts, devs, form, pc, info, cmd, made, edits, changes>>

NoMountpoint == /\ \/ MakingDir /\ ~Missing /\ ~IsDirectory(fs, uid, Here)
                   \/ Missing /\ ~mkdir(fs, uid, Here).ok /\ (uid = Root \/ ~world.settings.sudo)
                   \/ pc = "mkdir" /\ k > Len(walk) /\ r # "OK"
                /\ Return
                /\ UNCHANGED <<world, usr, fs, system_db, mounts, devs, form, edits, changes>>
-----------------------------------------------------------------------------
(* The command.                                                            *)

\* mtp_mount_cmd()
FuseMtp  == {"fuse.aft-mtp-mount", "fuse.simple-mtpfs", "fuse.jmtpfs"}
MtpTypes == {"aft-mtp-mount", "simple-mtpfs", "jmtpfs"} \cup FuseMtp

\* The types that begin with "fuse."; the last stands for those of no MTP tool.
FuseTypes == FuseMtp \cup {"fuse.other"}

Unsupported == info.req.mtp /\ info.fs_type \notin MtpTypes

Decide == /\ pc = "mkdir" /\ k > Len(walk) /\ r = "OK"
          /\ uid' = IF DropPriv(info.req, usr.home) THEN Dropped ELSE uid
          /\ ~Unsupported
          /\ cmd' = [job  |-> "mount",
                     tool |-> MountTool(info.req, usr.home, world.settings,
                                        UnitAt(system_db, info.target) # NoUnit),
                     sudo |-> MountSudo(info.req, usr.home, uid', world.settings)]
          /\ pc' = "run"
          /\ UNCHANGED <<world, usr, fs, system_db, mounts, devs, form, info, k, r, made, edits, changes>>

NoCommand == /\ pc = "mkdir" /\ k > Len(walk) /\ r = "OK" /\ Unsupported
             /\ Return
             /\ UNCHANGED <<world, usr, fs, system_db, mounts, devs, form, edits, changes>>

\* unmount()
DecideUnmount ==
  /\ pc = "unmount"
  /\ \E u \in {UnitFor(system_db, info)} :
       LET byUser == IF u = NoUnit THEN info.fs_type \in FuseTypes
                     ELSE contains_opt(u.options, <<"user">>) \/ contains_opt(u.options, <<"users">>)
       IN cmd' = [job  |-> "unmount",
                  tool |-> UnmountTool(byUser, u # NoUnit, world.sdumount),
                  sudo |-> UnmountSudo(byUser, uid, world.settings)]
  /\ pc' = "run"
  /\ UNCHANGED <<world, usr, uid, fs, system_db, mounts, devs, form, info, k, r, made, edits, changes>>

\* The unit systemd starts under a name: the first file of that name in the
\* order of its directories, or what it links to, unless that is /dev/null or not
\* named for its Where; a drop-in may give it other options.
LoadedFile(base) ==
  LET In(d) == SelectInSeq(world.dirs[d], LAMBDA f : f.base = base)
      dir   == SystemdPath[SelectInSeq(SystemdPath, LAMBDA d : In(d) # 0)]
  IN [dir |-> dir, file |-> world.dirs[dir][In(dir)]]

Loaded(base) ==
  LET f    == LoadedFile(base)
      unit == read_systemd_unit(f.dir, f.file, world.links).unit
  IN IF f.file.link = "mask" \/ unit.where # base THEN NoUnit
     ELSE IF base \in DOMAIN world.dropins THEN [unit EXCEPT !.options = world.dropins[base]]
     ELSE unit

\* What is mounted by the command, if it succeeds.
Result == IF cmd.tool = "systemctl" THEN Loaded(info.unit.base)
          ELSE [NoUnit EXCEPT !.what = info.path, !.where = info.target,
                  !.options = info.options, !.fstype = info.fs_type]

\* What the command has done to the devices.
Mounted   == IF info.listed /\ info.dev \in DOMAIN mounts
             THEN [mounts EXCEPT ![info.dev] = [MOUNTPOINT |-> Result.where, OPTIONS |-> Result.options]]
             ELSE mounts
Unmounted == [d \in DOMAIN mounts |-> IF mounts[d].MOUNTPOINT = info.target THEN NotMounted ELSE mounts[d]]

\* The command succeeds, and the list is refreshed.
RunSucceeds == /\ pc = "run"
               /\ \/ cmd.job = "mount" /\ Result # NoUnit /\ mounts' = Mounted
                  \/ cmd.job = "unmount" /\ mounts' = Unmounted
               /\ system_db' = scan_systemd_units(world.dirs, world.links)
               /\ devs' = mounts' /\ form' = Reselect(mounts')
               /\ Return
               /\ UNCHANGED <<world, usr, fs, edits, changes>>

RunFails == pc = "run" /\ Return /\ UNCHANGED <<world, usr, fs, system_db, mounts, devs, form, edits, changes>>
-----------------------------------------------------------------------------
Init == /\ world \in Worlds
        /\ \E s \in Starts : /\ uid = s[1]
                             /\ usr = [user |-> "me", group |-> "us", uid |-> s[2], home |-> s[1]]
        /\ fs = world.fs /\ system_db = scan_systemd_units(world.dirs, world.links)
        /\ mounts = [d \in world.devices |-> NotMounted] /\ devs = mounts
        /\ form = [path |-> <<>>, target |-> <<>>, type |-> "", options |-> <<>>,
                   modified |-> FALSE, of |-> NoDevice,
                   buttons |-> [mount |-> FALSE, unmount |-> FALSE]]
        /\ pc = "idle" /\ info = NoInfo /\ k = 0 /\ r = "OK" /\ cmd = NoCmd /\ made = {}
        /\ edits = 0 /\ changes = 0

Next == \/ Select \/ Edit \/ Refresh \/ Change
        \/ MountClicked \/ Judge \/ Rejected \/ ReadPastTie
        \/ DirExists \/ MakeDir \/ InstallDir \/ NoMountpoint
        \/ Decide \/ NoCommand
        \/ UnmountClicked \/ DecideUnmount \/ RunSucceeds \/ RunFails

Spec == Init /\ [][Next]_vars
-----------------------------------------------------------------------------
\* What the variables hold, and which of them belong together: a request is
\* under way exactly when the handler is, and only then the process may be
\* other than it was started.
TypeOK ==
  /\ uid \in Ids /\ pc \in {"idle", "judge", "unmount", "mkdir", "run", "crashed"}
  /\ world \in Worlds /\ DOMAIN mounts \subseteq world.devices /\ DOMAIN devs \subseteq world.devices
  /\ DOMAIN world.fs \subseteq DOMAIN fs
  /\ info.req \in AllRequests /\ WellFormedRequest(info.req)
  /\ r \in {"OK", "CMD"} /\ edits \in 0 .. MaxEdits /\ changes \in 0 .. MaxChanges
  /\ pc = "idle" => info = NoInfo /\ uid = usr.home /\ made = {}
  /\ (pc = "run") = (cmd # NoCmd)
  /\ uid \in {usr.home, usr.uid}

\* What the options say to mount(8) (mnt_optstr_get_flags() of libmount): a comma
\* in double quotes or behind a backslash separates nothing, an option with a
\* value is no flag, and the last one counts.
Quoted(o, p) == Cardinality({q \in 1 .. p : o[q] = "\""}) % 2 = 1 \/ (p > 1 /\ o[p - 1] = Backslash)

OptionsOf(o) == items([p \in DOMAIN o |-> IF o[p] = "," /\ Quoted(o, p) THEN "~" ELSE o[p]])

NameOf(item) == IF Len(item) = 1 THEN item[1] ELSE ""

Effective(o) ==
  LET opts         == OptionsOf(o)
      Last1(words) == LET I == {i \in DOMAIN opts : NameOf(opts[i]) \in words}
                      IN IF I = {} THEN "" ELSE NameOf(opts[Max(I)])
  IN [suid |-> Last1({"suid", "nosuid", "defaults"}) # "nosuid",
      dev  |-> Last1({"dev", "nodev", "defaults"}) # "nodev"]

\* contains_opt() and mount(8) read such options alike: there are no quotes and no
\* backslashes, and neither nosuid nor nodev is given a value.
Ordinary(o) ==
  /\ ToSet(o) \cap {"\"", Backslash} = {}
  /\ \A p \in 1 .. Len(o) - 1 : ~(o[p] \in {"nosuid", "nodev"} /\ o[p + 1] = "=")

\* check_mountpoint() and the kernel walk such a target alike: it has no
\* backslash, which separates for path_walk() only, and no "..", which may lead
\* out of a directory that is still to be made.
Straight(t) == Backslash \notin ToSet(t) /\ ToSet(names(t)) \cap {Dot, DotDot} = {}

\* A unit of the system is for the device and says exactly this.
AsAUnitSays(m) == \E i \in DOMAIN system_db :
  /\ system_db[i].where = m.where /\ system_db[i].options = m.options /\ system_db[i].fstype = m.fstype
  /\ Matches(system_db[i], info.dev, info.path)

\* systemd and the program mean the same by the name of a unit they both know: it
\* is named for its mount point, as systemd wants it, no drop-in changes it, and the
\* file systemd finds first under the name is where the program looks, too, and is
\* one that read_systemd_unit() understands or a mask.  Not so for a unit file that
\* is linked into the directories, or is in /usr/lib/systemd/system.
KnownToBoth(u) ==
  LET f == LoadedFile(u.base)
  IN /\ u.base = u.where /\ u.base \notin DOMAIN world.dropins
     /\ f.dir \in ToSet(SearchPath)
     /\ \/ f.file.link = "mask"
        \/ f.file.link = "no" /\ read_systemd_unit(f.dir, f.file, world.links).ok

\* What root, acting for a user, mounts with its own privileges is what
\* README.md:14 lets it: a listed device, with options that to mount(8) mean nosuid
\* and nodev, on a directory that really is outside the system directories, or
\* what a unit of the system says (mount.cpp:169-223, over the units, names and
\* directories its decisions come from).  The options are known to mean that if
\* they are Ordinary, the directory to be outside if the target is Straight, and
\* systemd to do what a unit says if it is KnownToBoth; otherwise this says nothing.
RootMountsOnlyAllowed ==
  pc = "run" /\ cmd.job = "mount" /\ uid = Root /\ usr.uid # Root =>
    \/ cmd.tool = "systemctl" /\ (Result = NoUnit \/ ~KnownToBoth(info.unit))
    \/ /\ info.listed
       /\ Ordinary(Result.options) => Effective(Result.options) = [suid |-> FALSE, dev |-> FALSE]
       /\ Straight(Result.where) => ~InSystemDir(Lookup(fs, Root, names(Result.where)).at)
    \/ AsAUnitSays(Result)

\* A directory root makes for a user on the way to a Straight target is outside the
\* system directories, unless a unit of the system has it for its mountpoint
\* (mount.cpp:195-200).
RootMakesOnlyAllowed ==
  Straight(info.target) =>
    \A m \in made : m.as = Root /\ usr.uid # Root =>
      ~InSystemDir(m.at) \/ Exact(info.req)

\* create_mountpoint() says that there is a mountpoint only if there is one,
\* also when the user refused one of the commands on the way (mount.cpp:88-124),
\* and unless a backslash in the target has it make other directories.
MountpointIsThere ==
  pc = "run" /\ cmd.job = "mount" /\ Backslash \notin ToSet(info.target) =>
    IsDirectory(fs, Root, names(info.target))

\* What create_mountpoint() does, as a whole.
MountpointMade == MountpointIsThere /\ RootMakesOnlyAllowed

Plain(t) == trim(t) = t /\ ToSet(t) \cap Placeholders = {}

\* What the form shows for a listed device that has a unit is the unit: to mount it
\* is taken for exactly the unit, if the unit names its type, has nothing that
\* mount() would replace, and is the first for its mountpoint
\* (mainwindow.cpp:153-158 and devmap.cpp:266-291 look units up in two ways).
FormIsUnit ==
  pc = "mkdir" /\ info.listed /\ info.plain # NoDevice =>
    LET u == UnitOf(system_db, info.plain)
    IN u # NoUnit /\ u.fstype # "" /\ UnitAt(system_db, u.where) = u /\ Plain(u.where) /\ Plain(u.options)
       => Exact(info.req) /\ info.unit = u

\* What systemd is told to start is what the form showed: the unit found first
\* is the one systemd has under that name, or systemd refuses (devmap.cpp:206-223,
\* "order matters").  This is said of units that are KnownToBoth.
StartsWhatWasShown ==
  cmd.tool = "systemctl" =>
    \/ Loaded(info.unit.base) = NoUnit \/ ~KnownToBoth(info.unit)
    \/ LET u == Loaded(info.unit.base)
       IN /\ u.where = info.target /\ u.options = info.options /\ u.fstype = info.fs_type
          /\ Matches(u, info.dev, info.path)

\* What the user sees in the form of a device with a unit is what is mounted, by
\* mount(8) or by systemd.
FormMountsUnit == FormIsUnit /\ StartsWhatWasShown

\* Fields the user has modified stay as they are when the list is refreshed
\* below him; only he changes them, or takes another device
\* (mainwindow.cpp:162-170).
EditsKept == [][form.modified => \/ <<form'.path, form'.target, form'.type, form'.options>>
                                      = <<form.path, form.target, form.type, form.options>>
                                 \/ edits' # edits
                                 \/ form'.of # form.of /\ form'.path # form.path]_vars

\* No request is made to mount a device the list shows as mounted, whatever was
\* typed, selected, plugged or refreshed before (mainwindow.cpp:294-298).  The
\* buttons look at the path as it was typed, the request at the trimmed one
\* (mainwindow.cpp:271): with a path that begins or ends in blanks they may differ,
\* and this says nothing.
MountedOnce ==
  (pc \in {"judge", "mkdir"} \/ cmd.job = "mount") /\ info.listed /\ trim(form.path) = form.path =>
    devs[info.dev].MOUNTPOINT = <<>>

\* A refresh of the list keeps of the form what is the user's and brings what is
\* the device's.
FormFollows == EditsKept /\ []MountedOnce
=============================================================================
