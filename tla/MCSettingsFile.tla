--------------------------- MODULE MCSettingsFile ---------------------------
(* SettingsFile for TLC: a file system with an entry in the built-in        *)
(* configuration and one without.                                           *)
EXTENDS SettingsFile

CONSTANTS vfat, ext4, o1, o2

Shipped == <<[key |-> vfat, opts |-> o1]>>
=============================================================================
