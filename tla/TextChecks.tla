------------------------------ MODULE TextChecks ------------------------------
(***************************************************************************)
(* What the helpers on texts promise, for every input up to a bound.  The  *)
(* only steps lengthen the input of one of the kinds; a property looks at  *)
(* the inputs of its kind.                                                 *)
(***************************************************************************)
EXTENDS DialogText, SettingsText, Utf8

CONSTANTS Alphabet,  \* kind of input |-> the symbols it is made of
          Longest    \* kind of input |-> bound on its length

ASSUME LongestAssumption == DOMAIN Longest = DOMAIN Alphabet /\ \A k \in DOMAIN Longest : Longest[k] \in Nat

VARIABLES kind, input

vars == <<kind, input>>

Init == kind \in DOMAIN Alphabet /\ input = <<>>

Lengthen == /\ Len(input) < Longest[kind]
            /\ \E c \in Alphabet[kind] : input' = Append(input, c)
            /\ UNCHANGED kind

Spec == Init /\ [][Lengthen]_vars
-----------------------------------------------------------------------------
NameOf(item) == IF item = <<>> THEN "" ELSE item[1]
Filled(list) == SelectSeq(list, LAMBDA x : x # <<>>)

\* path_walk(), on which check_mountpoint() and create_mountpoint() are built
\* (mount.cpp): the parts of a path are its prefixes, each longer than the one
\* before.  If the path has no backslash, at which path_walk() parts it though it
\* belongs to a name (path.h:32-35), each is longer by just one name, and the last
\* one is the path's place.
WalksPrefixes ==
  kind = "path" /\ input # <<>> =>
    LET w == path_walk(input) IN
    /\ w # <<>> /\ \A i \in DOMAIN w : IsPrefix(w[i], input)
    /\ \A i \in 2 .. Len(w) : IsStrictPrefix(w[i - 1], w[i])
    /\ Backslash \notin ToSet(input) =>
         /\ names(Last(w)) = names(input)
         /\ \A i \in 2 .. Len(w) : names(w[i - 1]) = Front(names(w[i]))

\* contains_opt(), which decides whether mounting needs the rights of root, and
\* what the dialog ticks: an option is there when it is the name of an item, not
\* when it stands inside of one or behind a "=".
ContainsOption ==
  kind = "options" =>
    \A o \in {"user", "noauto"} :
      contains_opt(input, <<o>>) <=>
        \E x \in ToSet(items(input)) : NameOf(x) = o /\ (Len(x) > 1 => x[2] = "=")

\* sanitize_name() (mount.h:34-38): words are kept in their order, and between
\* two of them that were apart is one mark, nowhere else.
SanitizedShape ==
  kind = "label" =>
    LET r == sanitize_name(input) IN
    /\ SelectSeq(r, Alnum) = SelectSeq(input, Alnum)
    /\ \A i \in DOMAIN r : ~Alnum(r[i]) => /\ r[i] \in Marks /\ i \notin {1, Len(r)}
                                           /\ Alnum(r[i - 1]) /\ Alnum(r[i + 1])
    /\ sanitize_name(r) = r

\* utf8_view: the pieces make up the text, and what is one byte by itself, such
\* as a slash or a comma, is never swallowed by a broken character before it.
PiecesWhole ==
  kind = "bytes" =>
    LET f == utf8_view(input) IN
    /\ FlattenSeq([i \in DOMAIN f |-> f[i].bytes]) = input
    /\ \A i \in DOMAIN f : Len(f[i].bytes) > 1 => \A b \in ToSet(f[i].bytes) : b >= 128

\* utf32_to_utf8() and utf8_view, and toupper(), by which shares and types are
\* compared: code points come back as they were, the ASCII letters in upper case.
CodePointsKept ==
  kind = "ucs" =>
    LET Vals(t) == LET f == utf8_view(t) IN [i \in DOMAIN f |-> f[i].val] IN
    /\ Vals(utf32_to_utf8(input)) = input
    /\ Vals(toupper(utf32_to_utf8(input))) = [i \in DOMAIN input |-> upper(input[i])]
-----------------------------------------------------------------------------
\* systemd takes a unit only under the name that belongs to its mount point: the
\* name the dialog suggests unescapes to it.  Mount points whose first name
\* begins with a dot are left out, for which systemd_escape() writes the dot as
\* it is (its comment says otherwise), and those that end in two slashes.
UnitNamed ==
  kind = "path" /\ input # <<>> /\ input[1] = Slash
    /\ (names(input) # <<>> => names(input)[1][1] # "." /\ ~IsSuffix(<<Slash, Slash>>, input))
    /\ (names(input) = <<>> => input = <<Slash>>)
  => systemd_unescape(Front(UnitName(input))) = normal(input)

\* Paths and names: the walk over a mount point, the directory named after a
\* label, the unit named after a mount point.
NamesMade == WalksPrefixes /\ SanitizedShape /\ UnitNamed

\* What lsblk and findmnt write is read as it was meant, whatever a label holds
\* (devmap.cpp): pairs follow each other, with blanks, quotes and backslashes in
\* their values.
PairsRead ==
  kind = "value" =>
    LET pairs == <<<<<<"LABEL">>, input>>, <<<<"UUID">>, <<"4">>>>, <<<<"FSTYPE">>, Reverse(input)>>>>
    IN ReadPairs(lsblk_line(pairs)) = pairs

\* The names of hosts and services as avahi-browse writes them (netmap.cpp), the
\* options of fuse file systems, the links in /dev/disk and the fields of fstab
\* (as long as they hold no backslash, which fstab_esc() leaves as it is): what
\* is escaped comes back, and nothing that separates is left.
EscapesKept ==
  kind = "value" =>
    /\ unescape_dec(avahi_escape(input)) = input
    /\ unescape_hex(dev_disk_by_label_escape(input)) = input
    /\ Slash \notin ToSet(dev_disk_by_label_escape(input))
    /\ LET f == escape_fopt(input)
           \* mount(8) makes one backslash of two
           Kept(i) == ~(f[i] = "\\" /\ i > 1 /\ f[i - 1] = "\\")
           taken == [i \in DOMAIN f |-> IF Kept(i) THEN <<f[i]>> ELSE <<>>]
       IN /\ unescape_hex(FlattenSeq(taken)) = input
          /\ ToSet(f) \cap {",", "=", Blank, "\""} = {}
    /\ "\\" \notin ToSet(input) =>
         LET f == fstab_esc(input)
         IN Blank \notin ToSet(f) /\ Unescape(f, <<"\\">>, 3, [c \in {Blank} |-> <<"0", "4", "0">>], Digits10) = input

\* Nothing is changed by writing it for another program or reading what another
\* program wrote, in bytes or in characters.
EncodingsKept == PiecesWhole /\ CodePointsKept /\ PairsRead /\ EscapesKept
-----------------------------------------------------------------------------
NoDev == [LABEL |-> <<>>, UUID |-> <<>>, PARTLABEL |-> <<>>, PARTUUID |-> <<>>]
Info(options) == [options |-> options, target |-> <<"/", "mnt">>, path |-> <<"/", "dev", "/", "sdb1">>,
                  fs_type |-> <<"vfat">>, dev |-> NoDev]
\* OptionStr(): the options the dialog manages are in the list exactly if they
\* are ticked, once, and all others as they were, in their order.  One that is
\* given a value, as in user=joe, counts as the managed one (systemd_dialog.cpp:55).
OptionsKept ==
  kind = "options" =>
    \A noauto, user \in BOOLEAN, idle \in {<<>>, <<"9">>} :
      LET d == [mnt_info |-> Info(input),
                checks   |-> {o \in {"noauto"} : noauto} \cup {o \in {"user"} : user},
                timeout  |-> [o \in ToSet(Timeouts) |-> IF o = Timeouts[2] THEN idle ELSE <<>>]]
          Whose(x) == \/ NameOf(x) \notin ToSet(Managed \o Timeouts)
                      \/ Len(x) > 1 /\ x[2] # "="
      IN Filled(items(OptionStr(d))) =
           SelectSeq(Filled(items(input)), Whose)
           \o If(noauto, <<<<"noauto">>>>) \o If(user, <<<<"user">>>>)
           \o If(idle # <<>>, <<<<Timeouts[2], "=">> \o idle>>)

\* The constructor, GatherInfo() and OptionStr(): a dialog that is opened on an
\* entry of fstab and accepted as it is writes the options it found.  Options
\* given twice or with a value they do not have, or with none, are left out.
OpenedUnchanged ==
  LET given == Filled(items(input))
      Plain(x) == CASE NameOf(x) \in ToSet(Managed)  -> Len(x) > 1 => x[2] # "="
                    [] NameOf(x) \in ToSet(Timeouts) -> Len(x) > 2 \/ (Len(x) = 2 /\ x[2] # "=")
                    [] OTHER -> TRUE
      Twice(i, j) == i # j /\ NameOf(given[i]) = NameOf(given[j]) /\ NameOf(given[i]) # "a"
  IN kind = "options" /\ (\A i \in DOMAIN given : Plain(given[i]))
       /\ ~(\E i, j \in DOMAIN given : Twice(i, j))
     => ToSet(Filled(items(OptionStr(Opened(Info(input), TRUE, FALSE))))) = ToSet(given)

\* A unit that the dialog writes is the one that the program finds for the same
\* mount afterwards: read_systemd_unit() gets the device, the mount point, the
\* type and the options out of it that went in, and does not take the automount
\* unit for one.  Labels and mount points with blanks at an end are left out,
\* which Tini_line cuts off, and paths with a "=", which are taken for a tag.
UnitReadBack ==
  kind = "name" /\ input # <<>> /\ trim(input) = input =>
    \A id \in ToSet(Selectors), net \in BOOLEAN :
      LET path == <<"/", "dev", "/">> \o input
          info == [Info(<<"rw", ",", "user">>) EXCEPT
                     !.target = <<"/", "mnt", "/">> \o input,
                     !.path   = path,
                     !.dev    = [a \in DOMAIN NoDev |-> input]]
      IN \A d \in {[Opened(info, FALSE, net) EXCEPT !.id_type = id]} :
         \A text \in {MakeMountUnit(d), MakeAutomountUnit(d)} :
         \A r \in {read_systemd_unit("/etc", [base |-> "", link |-> "no",
                     lines |-> [i \in DOMAIN text |-> UnitLine(text[i])]], <<>>)} :
           IF Section("Mount") \notin ToSet(text) THEN ~r.ok
           ELSE id # "PATH" \/ "=" \notin ToSet(input) =>
                  r = [ok |-> TRUE,
                       unit |-> [NoUnit EXCEPT !.dir = "/etc", !.what_sel = id, !.where = info.target,
                                   !.what = Attribute(info.dev, path, id), !.fstype = info.fs_type,
                                   !.options = OptionStr(d)]]

\* What the systemd dialog reads, changes and writes, as the rest of the program
\* takes it.
DialogReadBack == ContainsOption /\ OptionsKept /\ OpenedUnchanged /\ UnitReadBack
-----------------------------------------------------------------------------
\* Tini_line: what a line was read as is what it is read as again once it has
\* been written, so that comments and names do not change from one save to the
\* next.  A section without a name is left out.
LinesReadBack ==
  LET l == Tini_line(input) IN
  kind = "line" =>
    /\ l.type = "COMMENT" => Tini_line(<<";">> \o l.comment) = l
    /\ l.type = "SECTION" /\ l.section # <<>> => Tini_line(<<"[">> \o l.section \o <<"]">>) = l
    /\ l.type = "DATA" => Tini_line(l.name \o <<"=">> \o l.value) = l

Fresh == [opt |-> [s \in DOMAIN Options |-> [n \in ToSet(Options[s]) |-> IF n \in Switches THEN TRUE ELSE <<"auto">>]],
          aliases |-> <<>>, db |-> <<>>, comments |-> <<>>, ini_comment |-> <<>>]
Used  == [Fresh EXCEPT !.opt.General = [n \in DOMAIN @ |-> IF n \in Switches THEN FALSE ELSE <<"used">>]]

\* The names of the sections of the file, in their order.
SectionsOf(file) == LET s == SelectSeq(file, LAMBDA l : l.type = "SECTION")
                    IN [i \in DOMAIN s |-> s[i].section]
\* No section comes twice, and the entries are numbered from one on.
InOrder(file) == LET s == SectionsOf(file)
                     e == SelectSeq(s, IsEntry)
                 IN /\ IsInjective(s)
                    /\ \A i \in DOMAIN e : e[i] = <<"Options/", Numbers[i]>>

\* load_settings() and save_settings(): what has been saved is loaded as it was,
\* whatever the program held before and whatever stood in the variable that
\* load_settings() does not set, with every comment before the section it stood
\* before.  Comments follow the numbers of the entries, which are given anew, so
\* that those of a file whose entries are not in order may be lost or stand
\* before another entry; everything else is kept in any case.
SettingsReadBack ==
  kind = "file" =>
    \A section \in {"General", "Netscan", "Aliases", "Other"} :
      LET s == load_settings(Fresh, section, input)
          again == load_settings(Used, section, save_settings(s))
          Kept(c) == {<<k, c[k]>> : k \in {k \in DOMAIN c : c[k] # <<>>}}
      IN /\ \A part \in {"opt", "aliases", "db", "ini_comment"} : again[part] = s[part]
         /\ InOrder(input) => Kept(again.comments) = Kept(s.comments)

\* No comment of the file gets lost on the way through a load and a save.
CommentsKept ==
  LET CommentsOf(file) == LET c == SelectSeq(file, LAMBDA l : l.type = "COMMENT")
                      IN {c[i].comment : i \in DOMAIN c}
  IN kind = "file" /\ InOrder(input)
       => CommentsOf(input) \subseteq CommentsOf(save_settings(load_settings(Fresh, "Other", input)))

\* The configuration file over loading and saving: lines, options, comments.
SettingsKept == LinesReadBack /\ SettingsReadBack /\ CommentsKept
=============================================================================
