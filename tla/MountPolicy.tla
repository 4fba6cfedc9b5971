----------------------------- MODULE MountPolicy -----------------------------
(***************************************************************************)
(* The decisions of mount_helper::mount() and unmount() (mount.cpp): which *)
(* requests are run without root's privileges, and which command is run.   *)
(*                                                                         *)
(* A request is what the two functions look at:                            *)
(*   tl      what check_mountpoint() said of the target directory          *)
(*   listed  the device is in main_dev_map (info.dev # nullptr)            *)
(*   mtp     it is an MTP device there                                     *)
(*   nosuid  the options have nosuid and nodev and do not take them back   *)
(*   unit    the mount unit find_mount_unit() found: none, one whose type  *)
(*           or options differ, or one that is exactly the request         *)
(*   user    which of the options "user" and "users" the request has       *)
(* and what they read of the settings is                                   *)
(*   sudo       a sudo command is configured (settings.sudo_cmd)           *)
(*   systemctl  UseSystemctl                                               *)
(*   sdmount    UseSystemdMount                                            *)
(***************************************************************************)
EXTENDS Credentials

AllRequests == [tl : {"trusted", "system", "reject"}, listed : BOOLEAN, mtp : BOOLEAN,
                nosuid : BOOLEAN, unit : {"none", "other", "exact"},
                user : {"no", "user", "users"}]

\* An MTP device is one that is listed as such.
WellFormedRequest(r) == r.mtp => r.listed

AllSettings == [sudo : BOOLEAN, systemctl : BOOLEAN, sdmount : BOOLEAN]

Tools == {"install", "mtpfs", "mount --target", "systemctl", "systemd-mount", "mount",
          "umount", "sh"}

\* mu_exact
Exact(r) == r.unit = "exact"

\* user_mount: mount(8) itself lets the user mount an fstab entry that says
\* "user" or "users"; root leaves its privileges for it only if it says "user",
\* where the user who mounted it is remembered.  uid is getuid().
UserMount(r, uid) == Exact(r) /\ r.user \in (IF uid = Root THEN {"user"} ELSE {"user", "users"})

\* drop_priv (check_mountpoint() never answers TLVL_ASKPASS).
DropPriv(r, uid) == \/ r.mtp
                    \/ UserMount(r, uid)
                    \/ ~r.listed
                    \/ ~r.nosuid /\ ~Exact(r)
                    \/ r.tl = "system" /\ ~Exact(r)

\* The command mount() runs: r was judged by the uid the process had when
\* mount() was called, uid is its uid now; mapped says that a unit for the
\* target directory exists at this moment.
MountTool(r, uid0, s, mapped) ==
  CASE r.mtp                        -> "mtpfs"
    [] ~r.mtp /\ UserMount(r, uid0) -> "mount --target"
    [] OTHER -> IF s.systemctl /\ Exact(r)  THEN "systemctl"
                ELSE IF s.sdmount /\ ~mapped THEN "systemd-mount"
                ELSE "mount"

\* Whether the command is run by sudo.
MountSudo(r, uid0, uid, s) == uid # Root /\ ~r.mtp /\ ~UserMount(r, uid0) /\ s.sudo

\* unmount(): the same for umount; byUser says that the unit has "user" or
\* "users", or, without a unit, that the file system is a fuse one.
UnmountTool(byUser, hasUnit, sdumount) ==
  IF sdumount /\ hasUnit /\ ~byUser THEN "systemd-mount" ELSE "umount"
UnmountSudo(byUser, uid, s) == uid # Root /\ ~byUser /\ s.sudo

\* What README.md lets root do for the user: mount a listed device, with
\* nosuid and nodev and outside the system directories, or exactly as a unit
\* of the system says.
RootMayMount(r) == /\ r.listed
                   /\ (r.nosuid /\ r.tl = "trusted") \/ Exact(r)
=============================================================================
