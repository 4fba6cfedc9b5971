---------------------------- MODULE MCMountRequest ----------------------------
(* MountRequest for TLC: devices, units, directories and settings in the      *)
(* combinations the decisions of mount() tell apart.                          *)
EXTENDS MountRequest

LOCAL INSTANCE TLC

Dev(n) == <<"/", "dev", "/", n>>
Stick == [PATH |-> Dev("sdb1"), LABEL |-> <<"stick">>, UUID |-> <<"4F2">>, PARTLABEL |-> <<>>,
          PARTUUID |-> <<>>, FSTYPE |-> "vfat", mtp |-> FALSE]
\* A label that is a path, and one that is an option.
Slashed == [Stick EXCEPT !.PATH = Dev("sdc1"), !.LABEL = <<"etc", "/", "x">>, !.UUID = <<"9A">>]
Comma   == [Slashed EXCEPT !.LABEL = <<" ", "a", ",", "suid">>]
Phone == [Stick EXCEPT !.PATH = Dev("007"), !.LABEL = <<>>, !.UUID = <<>>, !.FSTYPE = "", !.mtp = TRUE]

Data(n, t, v) == [kind |-> "data", name |-> n, tag |-> t, value |-> v]
Section(n)    == [kind |-> "section", name |-> n, tag |-> "", value |-> <<>>]
UnitFile(tag, what, where, type, options) ==
  [base |-> where, link |-> "no",
   lines |-> <<Section("Unit"), Data("What", "", <<"not", "this">>), Section("Mount"),
               Data("What", tag, what), Data("Where", "", where), Data("Type", "", type),
               Data("Options", "", options)>>]
NoUnits == [d \in ToSet(SystemdPath) |-> <<>>]
Admin == "/etc/systemd/system"
Fstab == "/run/systemd/generator"
Vendor == "/usr/lib/systemd/system"
Late  == "/run/systemd/generator.late"

OnEtc   == <<"/", "etc", "/", "x">>
OnMnt   == <<"/", "mnt", "/", "x">>
Safe    == <<"nodev", ",", "nosuid">>
Unsafe  == <<"rw", ",", "suid">>
Users   == <<"users", ",", "rw">>
Link    == <<"/", "dev", "/", "disk", "/", "stick">>

ByLabel   == UnitFile("LABEL", <<"stick">>, OnEtc, "vfat", Unsafe)
ByLink    == UnitFile("", Link, OnMnt, "vfat", Users)
Other     == UnitFile("UUID", <<"9A">>, OnMnt, "vfat", Unsafe)
ByUser    == UnitFile("UUID", <<"4F2">>, OnMnt, "vfat", <<"user", ",", "suid">>)
Masked    == [ByLabel EXCEPT !.link = "mask"]
Linked    == [ByLabel EXCEPT !.link = "unit"]
Unknown   == UnitFile("ID", <<"stick">>, OnEtc, "vfat", Unsafe)
Untyped   == UnitFile("UUID", <<"4F2">>, OnEtc, "", Safe)
Shadowed  == UnitFile("LABEL", <<"stick">>, OnEtc, "vfat", Safe)
Broken    == [ByLink EXCEPT !.lines = Append(@, [Section("") EXCEPT !.kind = "invalid"])]

\* What the unit directories hold, and the drop-ins.
UnitDirs == { NoUnits,
              [NoUnits EXCEPT ![Admin] = <<ByLabel>>, ![Fstab] = <<Shadowed, Other>>],
              [NoUnits EXCEPT ![Admin] = <<Masked, ByLink>>, ![Fstab] = <<ByLabel>>],
              [NoUnits EXCEPT ![Admin] = <<Other>>, ![Fstab] = <<ByLink>>],
              [NoUnits EXCEPT ![Admin] = <<Broken, Untyped>>, ![Fstab] = <<ByUser>>],
              [NoUnits EXCEPT ![Admin] = <<Linked>>, ![Fstab] = <<Shadowed>>,
                              ![Vendor] = <<ByLink>>, ![Late] = <<ByUser>>] }
Changed == [NoUnits EXCEPT ![Fstab] = <<Unknown, ByUser>>]

Dir(u) == [type |-> "dir", user |-> u]
P(a)    == <<<<a>>>>
PP(a, b) == <<<<a>>, <<b>>>>
FileSystem == [p \in {<<d>> : d \in SystemDirs} \cup {<<>>, P("mnt")} |-> Dir(FALSE)]
  @@ P("home") :> Dir(TRUE)
  @@ PP("home", "conf") :> [type |-> "link", to |-> P("etc")]
  @@ PP("home", "gone") :> [type |-> "link", to |-> PP("mnt", "no")]
  @@ PP("home", "note") :> [type |-> "file"]
  @@ PP("mnt", "private") :> [type |-> "closed", user |-> FALSE]

Default   == <<"/", "mnt", "/", "%d">>
Saved == <<[fs_type |-> "vfat", label |-> <<>>, uuid |-> <<>>, mountpoint |-> <<"/", "%L", "/", "%t">>,
            options |-> <<"nosuid", ",", "nodev", ",", "x", "=", "%L">>],
           [fs_type |-> "vfat", label |-> <<"stick">>, uuid |-> <<>>, mountpoint |-> <<>>,
            options |-> <<"nodev", ",", "nosuid", ",", "uid", "=", "%u">>]>>

World(u, s, saved, sudo, mtp) ==
  [dirs |-> u, dropins |-> IF u = Changed THEN OnMnt :> Safe ELSE <<>>,
   links |-> Link :> Dev("sdb1"), fs |-> FileSystem, devices |-> s,
   settings |-> [sudo |-> sudo, systemctl |-> TRUE, sdmount |-> TRUE], sdumount |-> TRUE,
   mountpoint |-> Default, default_opts |-> Safe, mtp_type |-> mtp, saved |-> saved,
   aliases |-> "ntfs" :> "ntfs3", elsewhere |-> [MOUNTPOINT |-> OnMnt, OPTIONS |-> <<"rw">>],
   paths |-> {Dev("sdb1"), <<"/", "~">>, Dev("sdx"), Append(Dev("sdb1"), Blank)},
   types |-> {"fuse.other"},
   targets |-> {<<"/", "home", "/", "conf", "/", "new">>, <<"/", "mnt", "/", "private", "/", "a">>,
               <<"/", "home", "/", "gone", "/", "/", "a">>, <<"mnt">>,
               <<"/", "mnt", "/", "a", Backslash, "b">>, <<"/", "mnt", "/", ".", "/", "a", "/", ".", ".">>},
   options |-> {<<"nosuid", ",", "nodev", ",", "suid">>, <<"nodev", ",", "rw">>,
                <<"nosuid", ",", "x", "=", "\"", "a", ",", "nodev", "\"">>}]

AllWorlds ==
  {World(u, {Stick}, <<>>, s, "fuse.jmtpfs") : u \in UnitDirs \cup {Changed}, s \in BOOLEAN}
    \cup {World(NoUnits, {Slashed, Phone}, Saved, TRUE, "fuse.jmtpfs"),
           World(NoUnits, {Comma, Phone}, Saved, FALSE, "fuse.other")}

ForAUser == {<<Root, User>>, <<User, User>>}
==============================================================================
