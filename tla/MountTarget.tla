------------------------------ MODULE MountTarget ------------------------------
(***************************************************************************)
(* The directories a file system is mounted on (mount.cpp): how the target *)
(* is named, judged by check_mountpoint() and made by create_mountpoint(). *)
(*                                                                         *)
(* A file system is a function from the paths that exist, sequences of     *)
(* names, to nodes.  A node is a directory ("dir"), one that only root may *)
(* search ("closed"), a file ("file") or a symbolic link ("link"), which   *)
(* names the directory "to" directly; "user" says that the user may make   *)
(* entries in the directory.  What is mounted is not in it.                *)
(***************************************************************************)
EXTENDS Texts, MountPolicy

Nodes == [type : {"dir", "closed"}, user : BOOLEAN] \cup [type : {"file"}]
           \cup [type : {"link"}, to : Seq(Text)]

Dot    == <<".">>
DotDot == <<".", ".">>

\* What exists lies in a directory that exists; nothing is called "." or "..".
IsFileSystem(fs) ==
  /\ DOMAIN fs \subseteq Seq(Text) /\ fs \in [DOMAIN fs -> Nodes]
  /\ <<>> \in DOMAIN fs
  /\ \A p \in DOMAIN fs \ {<<>>} : /\ Front(p) \in DOMAIN fs /\ fs[Front(p)].type \in {"dir", "closed"}
                                 /\ Last(p) \notin {Dot, DotDot}

\* SYSTEM_DIRS (config.h)
SystemDirs == {<<d>> : d \in {"boot", "efi", "etc", "run", "usr", "var", "dev", "proc", "sys",
                              "bin", "sbin", "lib", "lib64", "opt", "root"}}

InSystemDir(path) == path # <<>> /\ path[1] \in SystemDirs

\* ".." of the root is the root.
Parent(p) == IF p = <<>> THEN p ELSE Front(p)

\* The directory itself, seen from a process of uid: where the path leads, or
\* the error of the first name that leads nowhere.
Lookup(fs, uid, path) ==
  LET Step(r, n) ==
        LET p == Append(r.at, n)
        IN CASE r.err # "" -> r
             [] r.err = "" /\ fs[r.at].type = "file" -> [r EXCEPT !.err = "ENOTDIR"]
             [] r.err = "" /\ fs[r.at].type = "closed" /\ uid # Root -> [r EXCEPT !.err = "EACCES"]
             [] r.err = "" /\ fs[r.at].type # "file" /\ (fs[r.at].type = "closed" => uid = Root) ->
                  IF n = Dot THEN r
                  ELSE IF n = DotDot THEN [r EXCEPT !.at = Parent(@)]
                  ELSE IF p \notin DOMAIN fs \/ (fs[p].type = "link" /\ fs[p].to \notin DOMAIN fs)
                  THEN [r EXCEPT !.err = "ENOENT"]
                  ELSE [r EXCEPT !.at = IF fs[p].type = "link" THEN fs[p].to ELSE p]
  IN FoldLeft(Step, [err |-> "", at |-> <<>>], path)

IsDirectory(fs, uid, path) == LET l == Lookup(fs, uid, path)
                              IN l.err = "" /\ fs[l.at].type \in {"dir", "closed"}

\* check_mountpoint(): every prefix, as path_walk() has them, is resolved, up to the first that does not
\* exist; what counts is the last directory there is.
check_mountpoint(fs, uid, target) ==
  LET walk  == path_walk(target)
      At(i) == Lookup(fs, uid, names(walk[i]))
      Bad   == {i \in DOMAIN walk : At(i).err # ""}
      first == CHOOSE i \in Bad : \A j \in Bad : i <= j
      last  == IF Bad = {} THEN Len(walk) ELSE first - 1
  IN IF target = <<>> \/ target[1] # Slash \/ (Bad # {} /\ At(first).err # "ENOENT")
     THEN "reject"
     ELSE IF InSystemDir(At(last).at) THEN "system" ELSE "trusted"

\* What the user and the device put into the names.
Value(info, usr, ph) ==
  LET path  == sanitize_name(info.path)
      short == sanitize_name(filename(info.path))
      name  == IF short = <<>> THEN path ELSE short
      label == IF info.listed THEN info.dev.LABEL ELSE name
      uuid  == IF info.listed THEN info.dev.UUID ELSE name
      Or(t) == IF t = <<>> THEN name ELSE t
  IN CASE ph = "%d" -> name
       [] ph = "%D" -> path
       [] ph = "%u" -> <<usr.user>>
       [] ph = "%g" -> <<usr.group>>
       [] ph = "%t" -> <<info.fs_type>>
       [] ph = "%l" -> Or(sanitize_name(label))
       [] ph = "%L" -> Or(label)
       [] ph = "%U" -> Or(uuid)

replace_placeholders(t, info, usr) == regex_hash_replace(t, [ph \in Placeholders |-> Value(info, usr, ph)])
-----------------------------------------------------------------------------
(* create_mountpoint(), one prefix of the target at a time.                *)

\* mkdir(2): r.err is errno, r.fs the file system afterwards.
mkdir(fs, uid, path) ==
  LET l  == Lookup(fs, uid, Front(path))
      p  == Append(l.at, Last(path))
      ok == /\ l.err = "" /\ p \notin DOMAIN fs /\ Last(path) \notin {Dot, DotDot}
            /\ fs[l.at].type \in {"dir", "closed"} /\ (uid # Root => fs[l.at].user)
      made == [q \in DOMAIN fs \cup {p} |-> IF q = p THEN [type |-> "dir", user |-> uid = User] ELSE fs[q]]
  IN [ok |-> ok, at |-> p, fs |-> IF ok THEN made ELSE fs]

\* install -d -o user: makes what is missing of the path, as root.
install(fs, path) ==
  LET Step(r, i) == LET m == mkdir(r, Root, SubSeq(path, 1, i))
                    IN IF IsDirectory(r, Root, SubSeq(path, 1, i)) THEN r ELSE m.fs
      made == FoldLeft(Step, fs, [i \in 1 .. Len(path) |-> i])
      l    == Lookup(made, Root, path)
  IN IF IsDirectory(made, Root, path) THEN [made EXCEPT ![l.at].user = TRUE] ELSE made
=============================================================================
