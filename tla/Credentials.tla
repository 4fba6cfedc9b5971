----------------------------- MODULE Credentials -----------------------------
(***************************************************************************)
(* The credentials of the process and the guard that drops and restores    *)
(* them (struct privileges_guard, base.h and base.cpp).                    *)
(*                                                                         *)
(* A credential record holds the ids the kernel keeps for the process: the *)
(* real, effective and saved user and group ids and the supplementary      *)
(* groups.  An id is abstracted to whose it is, Root's or User's.  The     *)
(* operators May... and Set... are the kernel's side of setresuid(2),      *)
(* setresgid(2) and setgroups(2) as base.cpp calls them, with -1 for the   *)
(* saved id; everything below is a translation of the guard.               *)
(***************************************************************************)

CONSTANTS Root, User,  \* whose an id is
          NoId         \* (uint32_t)-1: "nothing to restore"

ASSUME IdsAssumption == Root # User /\ NoId \notin {Root, User}

Ids == {Root, User}

Creds == [ruid : Ids, euid : Ids, suid : Ids,
          rgid : Ids, egid : Ids, sgid : Ids, groups : Ids]

Guards == [uid : Ids \cup {NoId}, gid : Ids \cup {NoId}, groups : Ids \cup {NoId}]

Unarmed == [uid |-> NoId, gid |-> NoId, groups |-> NoId]

\* The credentials of a process all of whose ids are i's.
AllOf(i) == [ruid |-> i, euid |-> i, suid |-> i,
             rgid |-> i, egid |-> i, sgid |-> i, groups |-> i]

\* The credentials the program wants when it acts for the user u: the saved
\* ids stay, so that the way back remains open.
ActingFor(u, c) == [c EXCEPT !.ruid = u, !.euid = u, !.rgid = u, !.egid = u, !.groups = u]
-----------------------------------------------------------------------------
(* The kernel.                                                             *)

MaySetUid(c, u)  == c.euid = Root \/ u \in {c.ruid, c.euid, c.suid}
MaySetGid(c, g)  == c.euid = Root \/ g \in {c.rgid, c.egid, c.sgid}
MaySetGroups(c)  == c.euid = Root

SetUid(c, u)     == [c EXCEPT !.ruid = u, !.euid = u]
SetGid(c, g)     == [c EXCEPT !.rgid = g, !.egid = g]
SetGroups(c, g)  == [c EXCEPT !.groups = g]
-----------------------------------------------------------------------------
(* The guard.                                                              *)

\* Used to test the properties: a drop() that carries on after a refused
\* setgroups().
DropAnyway(c, u, g) ==
  {[ok |-> TRUE, cred |-> SetUid(SetGid(d, u), u),
    guard |-> [groups |-> IF d = c THEN g.groups ELSE c.groups,
               gid |-> c.rgid, uid |-> c.ruid]] : d \in {c, SetGroups(c, u)}}

\* drop(): supplementary groups, then the group ids, then the user ids, each
\* remembered in the guard once it has been changed.  Every call can fail (a
\* process with more than 32 groups, an exhausted kernel), and drop() returns
\* at the first that does, leaving what it has already done to the guard.
DropOutcomes(c, u, g) ==
  LET c1 == SetGroups(c, u)
      c2 == SetGid(c1, u)
      c3 == SetUid(c2, u)
      g1 == [g EXCEPT !.groups = c.groups]
      g2 == [g1 EXCEPT !.gid = c.rgid]
      g3 == [g2 EXCEPT !.uid = c.ruid]
      may1 == MaySetGroups(c)
      may2 == may1 /\ MaySetGid(c1, u)
      may3 == may2 /\ MaySetUid(c2, u)
  IN {[ok |-> FALSE, cred |-> c, guard |-> g]}
       \cup {o \in {[ok |-> FALSE, cred |-> c1, guard |-> g1]} : may1}
       \cup {o \in {[ok |-> FALSE, cred |-> c2, guard |-> g2]} : may2}
       \cup {o \in {[ok |-> TRUE,  cred |-> c3, guard |-> g3]} : may3}

\* Used to test the properties: the test of getuid() is inverted.
DropIfUser(c, u, g) ==
  IF c.ruid = Root \/ u = Root
  THEN {[ok |-> TRUE, cred |-> c, guard |-> g]}
  ELSE DropOutcomes(c, u, g)

\* drop_if_feasible(): nothing to do for a process that is not root's, or whose
\* user is root.
DropIfFeasible(c, u, g) ==
  IF c.ruid # Root \/ u = Root
  THEN {[ok |-> TRUE, cred |-> c, guard |-> g]}
  ELSE DropOutcomes(c, u, g)

\* Used to test the properties: a restore() that begins with the groups, and one
\* that does not test whether there is something to restore.
RestoreGroupsFirst(c, g) ==
  LET c1 == IF g.groups # NoId /\ MaySetGroups(c) THEN SetGroups(c, g.groups) ELSE c
      c2 == IF g.gid # NoId /\ MaySetGid(c1, g.gid) THEN SetGid(c1, g.gid) ELSE c1
  IN IF g.uid # NoId /\ MaySetUid(c2, g.uid) THEN SetUid(c2, g.uid) ELSE c2

RestoreAlways(c, g) ==
  LET c1 == IF MaySetUid(c, g.uid) THEN SetUid(c, g.uid) ELSE c
      c2 == IF MaySetGid(c1, g.gid) THEN SetGid(c1, g.gid) ELSE c1
  IN IF MaySetGroups(c2) THEN SetGroups(c2, g.groups) ELSE c2

\* restore(), called by the destructor: the user ids first, because only they
\* bring back the right to change the rest; a refused call is logged and the
\* next one is tried all the same.
Restore(c, g) ==
  LET c1 == IF g.uid # NoId /\ MaySetUid(c, g.uid) THEN SetUid(c, g.uid) ELSE c
      c2 == IF g.gid # NoId /\ MaySetGid(c1, g.gid) THEN SetGid(c1, g.gid) ELSE c1
  IN IF g.groups # NoId /\ MaySetGroups(c2) THEN SetGroups(c2, g.groups) ELSE c2
=============================================================================
