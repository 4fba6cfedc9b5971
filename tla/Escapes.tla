------------------------------- MODULE Escapes -------------------------------
(***************************************************************************)
(* Texts written for other programs and read from them: the names of units *)
(* and of the links in /dev/disk (common/systemd_escape.h), the options of *)
(* fuse file systems (mount.cpp), the lines of lsblk and findmnt           *)
(* (devmap.cpp) and of avahi-browse (netmap.cpp).                          *)
(*                                                                         *)
(* Here a symbol is one character.                                         *)
(***************************************************************************)
EXTENDS Texts

\* The hexadecimal and the decimal code of a character.
Hex == [c \in {Slash, "-", ".", Blank, ",", "\\", "\"", "=", "~", ";", ":", "[", "]"} |->
          CASE c = Slash -> <<"2", "f">> [] c = "-" -> <<"2", "d">> [] c = "."  -> <<"2", "e">>
            [] c = Blank -> <<"2", "0">> [] c = "," -> <<"2", "c">> [] c = "\\" -> <<"5", "c">>
            [] c = "\""  -> <<"2", "2">> [] c = "=" -> <<"3", "d">> [] c = "~"  -> <<"7", "e">>
            [] c = ";"   -> <<"3", "b">> [] c = ":" -> <<"3", "a">> [] c = "["  -> <<"5", "b">>
            [] c = "]"   -> <<"5", "d">>]
Dec == [c \in {Slash, "-", ".", Blank, ",", "\\", "\""} |->
          CASE c = Slash -> <<"0", "4", "7">> [] c = "-" -> <<"0", "4", "5">>
            [] c = "."   -> <<"0", "4", "6">> [] c = Blank -> <<"0", "3", "2">>
            [] c = ","   -> <<"0", "4", "4">> [] c = "\\"  -> <<"0", "9", "2">>
            [] c = "\""  -> <<"0", "3", "4">>]

append_hex_escs(c) == <<"\\", "x">> \o Hex[c]

\* Every symbol of t, written by put.
Each(t, put(_)) == FlattenSeq([i \in DOMAIN t |-> put(t[i])])
-----------------------------------------------------------------------------
(* Names of units.                                                         *)

\* Used to test the properties: slashes that follow each other are all written.
systemd_escape_slashes(str, is_path) ==
  FlattenSeq([i \in DOMAIN str |->
    IF Alnum(str[i]) \/ str[i] = "_" \/ (str[i] = "." /\ i # 1) THEN <<str[i]>>
    ELSE IF is_path /\ str[i] = Slash
         THEN IF i # 1 /\ i # Len(str) THEN <<"-">> ELSE <<>>
         ELSE append_hex_escs(str[i])])

\* systemd_escape(): the first and the last slash are left out, and those that
\* follow another one.
systemd_escape(str, is_path) ==
  IF is_path /\ str = <<Slash>> THEN <<"-">>
  ELSE FlattenSeq([i \in DOMAIN str |->
    CASE Alnum(str[i]) \/ str[i] = "_" \/ (str[i] = "." /\ i # 1) -> <<str[i]>>
      [] is_path /\ str[i] = Slash ->
           IF i # 1 /\ i # Len(str) /\ str[i - 1] # Slash THEN <<"-">> ELSE <<>>
      [] OTHER -> append_hex_escs(str[i])])

\* dev_disk_by_label_escape()
dev_disk_by_label_escape(str) ==
  Each(str, LAMBDA c : IF Alnum(c) \/ c \in {"@", "#", "_", "-", "=", "+", ":", "."}
                       THEN <<c>> ELSE append_hex_escs(c))

\* escape_fopt(): mount(8) takes one of the two backslashes away.
escape_fopt(str) == Each(str, LAMBDA c : IF Alnum(c) \/ c \in Marks THEN <<c>>
                                         ELSE <<"\\">> \o append_hex_escs(c))

\* fstab_esc()
fstab_esc(str) == Each(str, LAMBDA c : IF c = Blank THEN <<"\\", "0", "4", "0">> ELSE <<c>>)
-----------------------------------------------------------------------------
(* What other programs write.                                              *)

\* from_chars(): the character whose code the digits are; digits that are none
\* give a blank, codes outside the tables some other character.
Digits16 == {"0", "1", "2", "3", "4", "5", "6", "7", "8", "9", "a", "b", "c", "d", "e", "f"}
Digits10 == {"0", "1", "2", "3", "4", "5", "6", "7", "8", "9"}
Code(table, digits, s) ==
  IF s[1] \notin digits THEN Blank
  ELSE IF \E c \in DOMAIN table : table[c] = s THEN CHOOSE c \in DOMAIN table : table[c] = s
  ELSE "?"

\* Used to test the properties: the last digit is read twice.
Unescape_short(t, mark, n, table, digits) ==
  LET From[i \in 1 .. Len(t) + 1] ==
        LET p == find(t, mark, i)
            q == p + Len(mark)
        IN IF p = 0 \/ q + n > Len(t) + 1 THEN SubSeq(t, i, Len(t))
           ELSE SubSeq(t, i, p - 1)
                \o <<Code(table, digits, SubSeq(t, q, q + n - 1))>> \o From[q + n - 1]
  IN From[1]

\* The loop of unescape_hex() and unescape_dec(): up to the next mark, then the
\* character that the n symbols behind it stand for; what is too short for an
\* escape is left as it is.
Unescape(t, mark, n, table, digits) ==
  LET From[i \in 1 .. Len(t) + 1] ==
        LET p == find(t, mark, i)
            q == p + Len(mark)
        IN IF p = 0 \/ q + n > Len(t) + 1 THEN SubSeq(t, i, Len(t))
           ELSE SubSeq(t, i, p - 1) \o <<Code(table, digits, SubSeq(t, q, q + n - 1))>> \o From[q + n]
  IN From[1]

unescape_hex(t) == Unescape(t, <<"\\", "x">>, 2, Hex, Digits16)
unescape_dec(t) == Unescape(t, <<"\\">>, 3, Dec, Digits10)

\* extract_nameval_pair(): name, "=", and a value in quotes or up to a blank,
\* with blanks around them; pos is where the next pair is looked for.
extract_nameval_pair(str, pos) ==
  LET blank(c)    == c = Blank
      inname(c)   == c \notin {Blank, "="}
      unquoted(c) == c # "\""
      ends(c)     == c # Blank
      n == EndOfRun(str, pos, blank)         \* the name
      e == EndOfRun(str, n, inname)
      q == EndOfRun(str, e, blank)           \* "="
      v == EndOfRun(str, q + 1, blank)       \* the value
      quoted == str[v] = "\""
      l == IF quoted THEN EndOfRun(str, v + 1, unquoted) ELSE EndOfRun(str, v, ends)
      No == [ok |-> FALSE, name |-> <<>>, value |-> <<>>, pos |-> Len(str) + 1]
  IN IF n > Len(str) \/ e > Len(str) \/ q > Len(str) THEN No
     ELSE IF str[q] # "=" \/ q = Len(str) \/ v > Len(str) THEN No
     ELSE IF quoted /\ l > Len(str) THEN No
     ELSE [ok |-> TRUE, name |-> SubSeq(str, n, e - 1),
           value |-> SubSeq(str, IF quoted THEN v + 1 ELSE v, l - 1),
           pos |-> IF quoted THEN l + 1 ELSE l]

\* The loop of system_scan_devices() and add_mount_options_and_netdevs() over a line.
ReadPairs(line) ==
  LET From[pos \in 1 .. Len(line) + 1] ==
        LET p == extract_nameval_pair(line, pos)
        IN IF p.ok THEN <<<<p.name, unescape_hex(p.value)>>>> \o From[p.pos] ELSE <<>>
  IN From[1]
-----------------------------------------------------------------------------
(* How the other programs write and read them.                             *)

\* systemd-escape --unescape --path
systemd_unescape(name) ==
  LET From[i \in 1 .. Len(name) + 1] ==
        IF i > Len(name) THEN <<>>
        ELSE IF name[i] = "-" THEN <<Slash>> \o From[i + 1]
        ELSE IF name[i] = "\\" /\ i + 3 <= Len(name)
             THEN <<Code(Hex, Digits16, SubSeq(name, i + 2, i + 3))>> \o From[i + 4]
        ELSE <<name[i]>> \o From[i + 1]
  IN <<Slash>> \o (IF name = <<"-">> THEN <<>> ELSE From[1])

\* lsblk -P and findmnt -P: quotes, backslashes and what is not plain text.
lsblk_escape(t) == Each(t, LAMBDA c : IF c \in {"\"", "\\", "~"} THEN append_hex_escs(c) ELSE <<c>>)
lsblk_line(pairs) ==
  FlattenSeq([i \in DOMAIN pairs |->
    (IF i = 1 THEN <<>> ELSE <<Blank>>) \o pairs[i][1] \o <<"=", "\"">>
      \o lsblk_escape(pairs[i][2]) \o <<"\"">>])

\* avahi-browse -p
avahi_escape(t) == Each(t, LAMBDA c : IF c \in DOMAIN Dec THEN <<"\\">> \o Dec[c] ELSE <<c>>)

\* A path as it is written without superfluous slashes.
normal(path) == IF names(path) = <<>> THEN <<Slash>>
                ELSE Each(names(path), LAMBDA n : <<Slash>> \o n)
=============================================================================
