----------------------------- MODULE SettingsText -----------------------------
(***************************************************************************)
(* What the configuration file says, line by line: load_settings(istream)  *)
(* and save_settings() of base.cpp.  SettingsFile has the file's life; of  *)
(* its contents it keeps less.                                             *)
(*                                                                         *)
(* A file is a sequence of what Tini_line makes of its lines.  The         *)
(* settings are a record [opt, aliases, db, comments, ini_comment]: opt    *)
(* gives the options by section and name, comments the comments before a   *)
(* section by the section's name.                                          *)
(***************************************************************************)
EXTENDS IniFile

\* DEFAULT_MOUNTP, and what the regular expression for NmapNetworks lets pass.
CONSTANTS DEFAULT_MOUNTP, NetworksOk

Numbers == <<"1", "2", "3", "4", "5", "6">>

Options == [General |-> <<"UseSudo", "Mountpoint", "DefaultOptions", "UseSystemctl", "UseSystemdMount",
                          "UseSystemdUmount", "UseMtpfs">>,
            Netscan |-> <<"Hostname", "UseAvahi", "UseWSD", "UseNmap", "NmapNetworks">>]
Switches == {"UseSystemctl", "UseSystemdMount", "UseSystemdUmount", "UseAvahi", "UseWSD", "UseNmap"}
Fields  == {"FS", "Label", "UUID", "Mountpoint", "Options"}
NoEntry == [f \in Fields |-> <<>>]

\* set_named_opt(): a switch keeps its value if the text is no truth value.
set_named_opt(opts, name, val) ==
  IF name \notin DOMAIN opts THEN opts
  ELSE [opts EXCEPT ![name] = IF name \in Switches THEN systemd_bool(val, @) ELSE val]

\* clear() leaves the other options as they are.
clear(s) == [opt |-> [s.opt EXCEPT !.General.UseSudo = <<>>, !.General.Mountpoint = DEFAULT_MOUNTP],
             aliases |-> <<>>, db |-> <<>>, comments |-> <<>>, ini_comment |-> <<>>]

IsEntry(section) == section # <<>> /\ section[1] = "Options/"
Kind(section) == CASE section \in {<<"General">>, <<"Netscan">>, <<"Aliases">>} -> section[1]
                   [] IsEntry(section) -> "Options"
                   [] OTHER -> "Other"

\* A section that the program knows takes the comments before it; if it was
\* there before, they are moved out of ini_comment and then dropped.
ReadSection(s, section) ==
  IF Kind(section) = "Other" THEN s
  ELSE [s EXCEPT !.db = IF IsEntry(section) THEN Append(@, NoEntry) ELSE @,
                 !.comments = IF section \in DOMAIN @ THEN @ ELSE @ @@ section :> s.ini_comment,
                 !.ini_comment = <<>>]

ReadData(s, section, name, val) ==
  CASE section \in DOMAIN Options -> [s EXCEPT !.opt[section] = set_named_opt(@, name, val)]
    [] section = "Aliases" -> [s EXCEPT !.aliases = @ @@ name :> val]
    [] section = "Options" -> [s EXCEPT !.db[Len(s.db)] = set_named_opt(@, name, val)]
    [] OTHER -> s

\* load_settings(istream): section is what the variable of that name holds
\* before the first section has been read; nothing sets it.
load_settings(s, section, file) ==
  LET Read(r, l) ==
        CASE l.type = "COMMENT" -> [r EXCEPT !.s.ini_comment = Append(@, l.comment)]
          [] l.type = "SECTION" -> [s |-> ReadSection(r.s, l.section), section |-> Kind(l.section)]
          [] l.type = "DATA"    -> [r EXCEPT !.s = ReadData(@, r.section, l.name, l.value)]
          [] OTHER -> r
      all == FoldLeft(Read, [s |-> clear(s), section |-> section], file).s
      nets == all.opt.Netscan.NmapNetworks
      old == IF <<"Netscan">> \in DOMAIN all.comments THEN all.comments[<<"Netscan">>] ELSE <<>>
  IN IF nets \in NetworksOk THEN all
     ELSE [all EXCEPT !.opt.Netscan.NmapNetworks = <<"auto">>,
                      !.comments = <<"Netscan">> :> Append(old, <<Blank, "NmapNetworks", "=">> \o nets) @@ @]
-----------------------------------------------------------------------------
Comments(texts) == [i \in DOMAIN texts |-> [type |-> "COMMENT", comment |-> texts[i]]]
Header(s, section) == (IF section \in DOMAIN s.comments THEN Comments(s.comments[section]) ELSE <<>>)
                      \o <<[type |-> "SECTION", section |-> section]>>
Data(name, val) == [type |-> "DATA", name |-> name, value |-> val]
Values(order, value) == [i \in DOMAIN order |-> Data(order[i], value[order[i]])]

\* The lines of one of the two sections whose options are all written.
SaveOptions(s, section) ==
  Header(s, <<section>>)
  \o Values(Options[section],
            [n \in DOMAIN s.opt[section] |-> IF n \notin Switches THEN s.opt[section][n]
                                            ELSE IF s.opt[section][n] THEN <<"yes">> ELSE <<"no">>])

\* The lines of an entry; what it is found by is written if it is not empty.
EntryData(e) == Values(SelectSeq(<<"FS", "Label", "UUID">>, LAMBDA n : e[n] # <<>>)
                       \o <<"Options", "Mountpoint">>, e)

\* Used to test the properties: the comments are written behind the section.
SaveEntryFirst(s, i) ==
  LET all == Header(s, <<"Options/", Numbers[i]>>)
  IN <<Last(all)>> \o Front(all) \o EntryData(s.db[i])

\* An entry gets the number of its place, and the comments of that number.
SaveEntry(s, i) == Header(s, <<"Options/", Numbers[i]>>) \o EntryData(s.db[i])

\* save_settings(); the empty lines between the sections are left out.
save_settings(s) ==
  SaveOptions(s, "General") \o SaveOptions(s, "Netscan")
  \o Header(s, <<"Aliases">>) \o SetToSeq({Data(n, s.aliases[n]) : n \in DOMAIN s.aliases})
  \o FlattenSeq([i \in DOMAIN s.db |-> SaveEntry(s, i)])
  \o Comments(s.ini_comment)
=============================================================================
