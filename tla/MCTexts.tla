------------------------------- MODULE MCTexts -------------------------------
(* TextChecks for TLC: for each kind of input the symbols that the helpers   *)
(* tell apart.                                                               *)
EXTENDS TextChecks

Sec(s) == [type |-> "SECTION", section |-> s]
Com(c) == [type |-> "COMMENT", comment |-> c]
FileLines == { Com(<<"c1">>), Com(<<"c2">>),
               Sec(<<"General">>), Sec(<<"Netscan">>), Sec(<<"Aliases">>), Sec(<<"Options/", "1">>),
               Sec(<<"Options/", "2">>), Sec(<<"Else">>),
               Data("Mountpoint", <<"x">>), Data("UseNmap", <<"off">>), Data("NmapNetworks", <<"bad">>) }

MCAlphabet ==
  [path    |-> {Slash, "a", ".", "-", "_", Backslash},
   label   |-> {"a", "b", "_", ".", Slash, Blank},
   bytes   |-> {47, 65, 128, 191, 194, 224, 240, 255},
   ucs     |-> {44, 97, 127, 128, 2047, 2048, 65535, 65536, 1114111},
   value   |-> {"a", "-", "\"", "\\", "x", Blank, ",", "="},
   options |-> {",", "=", "user", "noauto", "x-systemd.idle-timeout", "a"},
   name    |-> {"a", "=", ";", ":", "[", "]", Slash, Blank},
   line    |-> {"a", ";", ":", "=", "[", "]", Blank},
   file    |-> FileLines]
MCLongest == [path |-> 6, label |-> 6, bytes |-> 5, ucs |-> 3, value |-> 5, options |-> 5,
              name |-> 3, line |-> 5, file |-> 4]
MCDefault == <<"default">>
MCNetworksOk == {<<"auto">>, <<>>}
=============================================================================
