------------------------------ MODULE MountUnits ------------------------------
(***************************************************************************)
(* The mount units of the system as devmap.cpp reads and finds them:       *)
(* scan_systemd_units(), read_systemd_unit() and the three                 *)
(* find_mount_unit().                                                      *)
(*                                                                         *)
(* The unit directories are a function from systemd's search path to what  *)
(* glob(3) finds there, in the order of the names.  A file is a record     *)
(* [base, link, lines]: no symbolic link, one to /dev/null ("mask") or one *)
(* to a unit file ("unit", as `systemctl link` makes it), whose lines are  *)
(* those of the file.  A line is what Tini_line makes of it: a record      *)
(* [kind, name, tag, value], where tag is the text before the first "="    *)
(* of the value of a "What" ("" if it has none).                           *)
(***************************************************************************)
EXTENDS Texts

\* Where systemd looks (systemd.unit(5)).
SystemdPath == <<"/etc/systemd/system.control", "/run/systemd/system.control",
                 "/run/systemd/transient", "/run/systemd/generator.early",
                 "/etc/systemd/system", "/etc/systemd/system.attached",
                 "/run/systemd/system", "/run/systemd/system.attached",
                 "/run/systemd/generator", "/usr/local/lib/systemd/system",
                 "/usr/lib/systemd/system", "/run/systemd/generator.late">>

\* Where the program looks.
SearchPath == <<"/etc/systemd/system.control", "/run/systemd/system.control",
                "/run/systemd/transient", "/run/systemd/generator.early",
                "/etc/systemd/system", "/etc/systemd/system.attached",
                "/run/systemd/system", "/run/systemd/system.attached",
                "/run/systemd/generator", "/usr/local/lib/systemd/system",
                "/run/systemd/generator.late">>

\* mount_unit::what_sel
Selectors == <<"PATH", "LABEL", "UUID", "PARTLABEL", "PARTUUID">>
INV_SEL   == "INV_SEL"

Lines == [kind : STRING, name : STRING \ {"Type"}, tag : STRING, value : Text]
           \cup [kind : STRING, name : {"Type"}, tag : STRING, value : STRING]

UnitFiles == [base : Text, link : {"no", "mask", "unit"}, lines : Seq(Lines)]

Units == [base : Text \cup {""}, dir : ToSet(SystemdPath) \cup {""}, what_sel : STRING, what : Text,
          where : Text, fstype : STRING, options : Text]

NoUnit == [base |-> "", dir |-> "", what_sel |-> "PATH", what |-> <<>>, where |-> <<>>,
           fstype |-> "", options |-> <<>>]

\* resolve_dev_link(): links is what the links below /dev/disk name.
resolve_dev_link(links, src) == IF src \in DOMAIN links THEN links[src] ELSE src

\* A line of the section "Mount".  A tag that none of the selectors has leaves
\* what_sel one past the last of them, and the value is taken for a path.
ReadLine(u, l, links) ==
  CASE l.name = "Options" -> [u EXCEPT !.options = l.value]
    [] l.name = "Type"    -> [u EXCEPT !.fstype = l.value]
    [] l.name = "Where"   -> [u EXCEPT !.where = l.value]
    [] l.name = "What" /\ l.tag = "" -> [u EXCEPT !.what = resolve_dev_link(links, l.value)]
    [] l.name = "What" /\ l.tag \in ToSet(Tail(Selectors)) ->
         [u EXCEPT !.what_sel = l.tag, !.what = l.value]
    [] l.name = "What" /\ l.tag \notin ToSet(Tail(Selectors)) \cup {""} ->
         [u EXCEPT !.what_sel = INV_SEL, !.what = resolve_dev_link(links, l.value)]
    [] OTHER -> u

\* read_systemd_unit(): the last line of a name counts, a line that is none of
\* an ini file's makes the unit unreadable, and so does a missing What or Where.
read_systemd_unit(dir, f, links) ==
  LET Line(s, l) ==
        CASE l.kind = "section" -> [s EXCEPT !.mount = l.name = "Mount"]
          [] l.kind = "data" /\ s.mount -> [s EXCEPT !.unit = ReadLine(s.unit, l, links)]
          [] l.kind = "invalid" -> [s EXCEPT !.ok = FALSE]
          [] OTHER -> s
      s == FoldLeft(Line, [ok |-> TRUE, mount |-> FALSE, unit |-> NoUnit], f.lines)
  IN [ok   |-> s.ok /\ s.unit.what # <<>> /\ s.unit.where # <<>>,
      unit |-> [s.unit EXCEPT !.base = f.base, !.dir = dir]]

\* glob() over several patterns: what one finds comes behind what the ones
\* before it found; one that finds nothing does not end it.
glob(dirs) ==
  FlattenSeq([i \in DOMAIN SearchPath |->
    LET d == SearchPath[i] IN [j \in DOMAIN dirs[d] |-> [dir |-> d, file |-> dirs[d][j]]]])

\* scan_systemd_units(): symbolic links and what cannot be read are left out.
scan_systemd_units(dirs, links) ==
  LET Read(g) == read_systemd_unit(g.dir, g.file, links)
      found   == glob(dirs)
  IN FlattenSeq([i \in DOMAIN found |-> IF found[i].file.link = "no" /\ Read(found[i]).ok
                                        THEN <<Read(found[i]).unit>> ELSE <<>>])
-----------------------------------------------------------------------------
Devices == [PATH : Text, LABEL : Text, UUID : Text, PARTLABEL : Text, PARTUUID : Text,
            FSTYPE : STRING, mtp : BOOLEAN]

NoDevice == [PATH |-> <<>>]

\* The attribute of a device a unit with the selector sel looks at; path is
\* what the form says.  A unit with INV_SEL looks behind the table.
Attribute(dev, path, sel) == IF sel = "PATH" THEN path ELSE dev[sel]

Matches(u, dev, path) == /\ u.what_sel # INV_SEL
                         /\ u.what_sel # "PATH" => dev # NoDevice
                         /\ u.what = Attribute(dev, path, u.what_sel)

First(db, c(_)) == LET i == SelectInSeq(db, c) IN IF i = 0 THEN NoUnit ELSE db[i]

\* find_mount_unit(db, mountpoint)
UnitAt(db, where) == First(db, LAMBDA u : u.where = where)

\* Used to test the properties: the unit is compared with the path only.
UnitForPath(db, info) == LET u == UnitAt(db, info.target) IN IF u.what = info.path THEN u ELSE NoUnit

\* find_mount_unit(db, info): the first unit for the target, if it is for the device.
UnitFor(db, info) ==
  LET u == UnitAt(db, info.target)
  IN IF u # NoUnit /\ Matches(u, info.dev, info.path) THEN u ELSE NoUnit

\* find_mount_unit(db, dev)
UnitOf(db, dev) == First(db, LAMBDA u : Matches(u, dev, dev.PATH))

\* tie[] is read past its end: what then happens is anybody's guess.
ReadsPastTie(db, info) == UnitAt(db, info.target).what_sel = INV_SEL
ScansPastTie(db, dev)  == \E i \in DOMAIN db :
                            /\ db[i].what_sel = INV_SEL
                            /\ \A j \in 1 .. i - 1 : ~Matches(db[j], dev, dev.PATH)
=============================================================================
