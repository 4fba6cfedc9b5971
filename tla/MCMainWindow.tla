----------------------------- MODULE MCMainWindow -----------------------------
(* MainWindow for TLC: the requests and the starts that the decisions of     *)
(* mount() tell apart, and the configurations that change a command.         *)
EXTENDS MainWindow

\* A listed device, mounted outside the system directories without further ado.
Plain  == [tl |-> "trusted", listed |-> TRUE, mtp |-> FALSE, nosuid |-> TRUE,
           unit |-> "none", user |-> "no"]
\* The same below a system directory.
System == [Plain EXCEPT !.tl = "system"]
\* Exactly what a unit says.
Unit   == [System EXCEPT !.unit = "exact", !.nosuid = FALSE]
\* A phone.
Mtp    == [Plain EXCEPT !.mtp = TRUE]

WithSudo == [sudo |-> TRUE, systemctl |-> TRUE, sdmount |-> FALSE]

FromRoot  == {<<Root, User>>}
FromUser  == {<<User, User>>}
ForAUser  == FromRoot \cup FromUser

One   == {System}
Some  == {System, Mtp}
Pair  == {System, Unit}

\* Which parts of the window a run exercises.
Window   == Features \ {"systemd"}
Plugging == Features \ {"dialog", "preferences", "close"}
Mounting == {"refresh", "mount", "unmount", "devices"}
Sudo     == {WithSudo}
==============================================================================
