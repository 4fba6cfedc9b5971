--------------------------- MODULE MCSystemdDialog ---------------------------
(* SystemdDialog for TLC: a device with a path and a label, a label that is   *)
(* escaped, and another device.                                             *)
EXTENDS SystemdDialog

CONSTANTS sda1, label, escaped, other

Own       == {sda1, label}
AllNames  == {sda1, label, escaped, other}
Itself    == {<<n, n>> : n \in AllNames}
Escapes   == [n \in AllNames |-> IF n = label THEN escaped ELSE n]
SomeFstabs == {<<>>, <<other>>, <<sda1, other, label>>, <<other, escaped>>,
               <<label, sda1, other>>}
=============================================================================
