------------------------------ MODULE DialogText ------------------------------
(***************************************************************************)
(* What the dialog writes: the list of options, the names of the device    *)
(* and of the unit, and the texts of the units (systemd_dialog.cpp); and   *)
(* the lines of a unit as read_systemd_unit() meets them again.            *)
(*                                                                         *)
(* d holds what SystemdDialog does: mnt_info, as [options, target, path,   *)
(* fs_type, dev], the check boxes, as the set checks of the options they   *)
(* stand for, "fsck" and "force_unmount", the two timeouts and id_type.    *)
(***************************************************************************)
EXTENDS Escapes, IniFile, MountUnits

\* The options the dialog manages, in the order in which OptionStr() writes them.
Managed  == <<"x-systemd.automount", "x-systemd.rw-only", "_netdev", "noauto", "nofail", "user">>
Timeouts == <<"x-systemd.mount-timeout", "x-systemd.idle-timeout">>

\* The places where the option stands in src, up to one of the symbols behind it.
Whole(src, opt, behind, p) == /\ src[p] = opt
                              /\ p = 1 \/ src[p - 1] = ","
                              /\ p = Len(src) \/ src[p + 1] \in behind
Ends(src, p) == LET inside(c) == c # "," IN EndOfRun(src, p, inside)

\* read_opt(): the value of the first one that has a "=" with something behind it.
read_opt(src, opt) ==
  LET at == {p \in DOMAIN src : p + 1 < Len(src) /\ Whole(src, opt, {"="}, p)}
  IN IF at = {} THEN <<>>
     ELSE LET p == CHOOSE p \in at : \A q \in at : p <= q IN SubSeq(src, p + 2, Ends(src, p + 2) - 1)

Chopped(t) == IF t # <<>> /\ Last(t) = "," THEN Front(t) ELSE t

\* Used to test the properties: behind a removed option the next is not looked at.
remove_opt_once(src, opt) ==
  LET From[p \in 1 .. Len(src) + 1] ==
        IF p > Len(src) THEN <<>>
        ELSE IF Whole(src, opt, {",", "="}, p)
             THEN SubSeq(src, Ends(src, p) + 1, Len(src))
             ELSE <<src[p]>> \o From[p + 1]
  IN Chopped(From[1])

\* remove_opt(): every one is erased with its value and the comma behind it,
\* then a comma at the end.
remove_opt(src, opt) ==
  LET From[p \in 1 .. Len(src) + 1] ==
        IF p > Len(src) THEN <<>>
        ELSE IF Whole(src, opt, {",", "="}, p)
             THEN IF Ends(src, p) < Len(src) THEN From[Ends(src, p) + 1] ELSE <<>>
             ELSE <<src[p]>> \o From[p + 1]
  IN Chopped(From[1])

\* OptionStr()
OptionStr(d) ==
  LET Check(res, o) == remove_opt(res, o) \o (IF o \in d.checks THEN <<",", o>> ELSE <<>>)
      Time(res, o)  == remove_opt(res, o) \o
                       (IF d.timeout[o] # <<>> THEN <<",", o, "=">> \o d.timeout[o] ELSE <<>>)
      res == FoldLeft(Time, FoldLeft(Check, d.mnt_info.options, Managed), Timeouts)
  IN IF res # <<>> /\ res[1] = "," THEN Tail(res) ELSE res
-----------------------------------------------------------------------------
\* The check boxes and the timeouts as the constructor and GatherInfo() set them.
Opened(mnt_info, fstab, netdev) ==
  [mnt_info |-> mnt_info, id_type |-> "PATH",
   checks   |-> {o \in ToSet(Managed) \ {"_netdev", "user"} : contains_opt(mnt_info.options, <<o>>)}
                \cup {o \in {"user"} : fstab /\ contains_opt(mnt_info.options, <<o>>)}
                \cup (IF netdev THEN {"_netdev"} ELSE {"fsck"}),
   timeout  |-> [o \in ToSet(Timeouts) |-> read_opt(mnt_info.options, o)]]

\* The name of the unit that the constructor suggests.
UnitName(target) == systemd_escape(target, TRUE) \o <<".mount">>

WhatStr(d, id) ==
  IF id = "PATH" THEN d.mnt_info.path
  ELSE IF d.mnt_info.dev[id] = <<>> THEN <<>> ELSE <<id, "=">> \o d.mnt_info.dev[id]

DevPath(d) ==
  IF d.id_type = "PATH" THEN d.mnt_info.path
  ELSE <<"/", "dev", "/", "disk", "/", "by-" , d.id_type, "/">>
       \o dev_disk_by_label_escape(d.mnt_info.dev[d.id_type])

Section(s)     == <<"[", s, "]">>
Line(name, v)  == <<name, "=">> \o v
If(c, lines)   == IF c THEN lines ELSE <<>>
FsTarget(d)    == IF "_netdev" \in d.checks THEN <<"remote-fs", ".target">> ELSE <<"local-fs", ".target">>
Install(d)     == <<Section("Install"),
                    Line(IF "nofail" \in d.checks THEN "WantedBy" ELSE "RequiredBy", FsTarget(d))>>
Fsck(d)        == <<"systemd-fsck", "@">> \o systemd_escape(DevPath(d), TRUE) \o <<".service">>

\* MakeMountUnit(): the lines of the unit.
MakeMountUnit(d) ==
  <<Section("Unit"), Line("Documentation", <<"Mount unit for", Blank>> \o d.mnt_info.target)>>
  \o If("nofail" \notin d.checks, <<Line("Before", FsTarget(d))>>)
  \o If("fsck" \in d.checks, <<Line("Requires", Fsck(d)), Line("After", Fsck(d))>>)
  \o If("_netdev" \notin d.checks /\ IsPrefix(<<"/", "dev", "/">>, d.mnt_info.path),
        <<Line("After", <<"blockdev", "@">> \o systemd_escape(DevPath(d), TRUE) \o <<".target">>)>>)
  \o <<Section("Mount"), Line("What", WhatStr(d, d.id_type)), Line("Where", d.mnt_info.target),
       Line("Type", d.mnt_info.fs_type), Line("Options", OptionStr(d))>>
  \o If(d.timeout["x-systemd.mount-timeout"] # <<>>,
        <<Line("TimeoutSec", d.timeout["x-systemd.mount-timeout"])>>)
  \o If("force_unmount" \in d.checks, <<Line("ForceUnmount", <<"yes">>)>>)
  \o If("x-systemd.rw-only" \in d.checks, <<Line("ReadWriteOnly", <<"yes">>)>>)
  \o Install(d)

\* MakeAutomountUnit()
MakeAutomountUnit(d) ==
  <<Section("Unit"), Line("Documentation", <<"Automount unit for", Blank>> \o d.mnt_info.target),
    Section("Automount"), Line("Where", d.mnt_info.target)>>
  \o If(d.timeout["x-systemd.idle-timeout"] # <<>>,
        <<Line("TimeoutIdleSec", d.timeout["x-systemd.idle-timeout"])>>)
  \o Install(d)
-----------------------------------------------------------------------------
\* A line of a unit: for a "What" with a "=", what stands before it and, where
\* that is the name of an attribute, what stands behind it.
UnitLine(text) ==
  LET l  == Tini_line(text)
      l2 == Tini_line(l.value)
  IN CASE l.type = "INV"     -> [kind |-> "invalid"]
       [] l.type = "SECTION" -> [kind |-> "section", name |-> Head(l.section)]
       [] l.type = "DATA"    ->
            IF "=" \in ToSet(l.value) /\ l2.type = "DATA" /\ l2.name \in {<<s>> : s \in ToSet(Tail(Selectors))}
            THEN [kind |-> "data", name |-> Head(l.name), tag |-> Head(l2.name), value |-> l2.value]
            ELSE [kind |-> "data", name |-> Head(l.name), value |-> l.value,
                  tag |-> IF "=" \in ToSet(l.value) THEN INV_SEL ELSE ""]
       [] OTHER -> [kind |-> "none"]
=============================================================================
