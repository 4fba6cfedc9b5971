------------------------------- MODULE IniFile -------------------------------
(***************************************************************************)
(* Tini_line (common/tiniline.h), which reads the lines of the settings    *)
(* file and of systemd's units, and systemd_bool() (common/                *)
(* systemd_escape.h).  Blank stands for every white space.                 *)
(***************************************************************************)
EXTENDS Texts

Comment(t) == Tail(t)

\* Tini_line::operator(), without comments behind the values, which no caller
\* asks for: the kind of the line and its parts.
Tini_line(line) ==
  LET t     == trim(line)
      close == SelectInSeq(t, LAMBDA c : c = "]")
      eq    == SelectInSeq(t, LAMBDA c : c \in {";", "=", ":"})
  IN CASE t = <<>> -> [type |-> "EMPTY"]
       [] t # <<>> /\ t[1] \in {";", "#"} -> [type |-> "COMMENT", comment |-> Comment(t)]
       [] t # <<>> /\ t[1] = "[" ->
            IF close <= 2 THEN [type |-> "INV"]
            ELSE [type |-> "SECTION", section |-> trim(SubSeq(t, 2, close - 1))]
       [] OTHER ->
            IF eq <= 1 THEN [type |-> "INV"]
            ELSE IF t[eq] = ";" THEN [type |-> "INV"]
            ELSE [type |-> "DATA", name |-> trim(SubSeq(t, 1, eq - 1)),
                  value |-> trim(SubSeq(t, eq + 1, Len(t)))]

\* systemd_bool(value, defval)
systemd_bool(value, defval) ==
  CASE value \in {<<"1">>, <<"yes">>, <<"true">>, <<"on">>}  -> TRUE
    [] value \in {<<"0">>, <<"no">>, <<"false">>, <<"off">>} -> FALSE
    [] OTHER -> defval
=============================================================================
