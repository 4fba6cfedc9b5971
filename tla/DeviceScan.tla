----------------------------- MODULE DeviceScan -----------------------------
(***************************************************************************)
(* The list of devices (devmap.cpp): system_scan_devices() merges what     *)
(* lsblk and libmtp list, what findmnt says is mounted, and the network    *)
(* file systems that units configure.                                      *)
(*                                                                         *)
(* Texts are numbers, ordered as the texts are; 0 is the empty text.  A    *)
(* path, and the name of a share, is a sequence of them and of marks.      *)
(***************************************************************************)
EXTENDS Integers, SequencesExt

SLASH == -1   COLON == -2   LEFT == -3   RIGHT == -4    \* / : [ ]

\* devmap_init_columns()
Device(path, name) ==
  [path |-> path, name |-> name, netdev |-> FALSE, pkname |-> 0, fstype |-> "", mtp |-> FALSE,
   mountpoint |-> 0, model |-> 0, ip |-> 0, host |-> 0]

find_device(dmap, path) == SelectInSeq(dmap, LAMBDA d : d.path = path)

\* is_netdev(): by the type, by the form of the path or by the option _netdev.
\* Its find(",.") never finds anything, so that "fuse.sshfs" is not the type
\* "sshfs"; such file systems are known by their paths.
is_netdev(path, fstype, netopt) ==
  \/ fstype \in {"cifs", "smb3", "nfs", "nfs4", "ncp", "ncpfs", "sshfs", "rclone"}
  \/ path[1] \notin {SLASH, COLON} /\ COLON \in ToSet(path)
  \/ IsPrefix(<<SLASH, SLASH>>, path)
  \/ netopt

\* split_netdev_path(): the server, without brackets, and the share, which begins
\* with the last colon before the first slash, or with a slash.
split_netdev_path(path) ==
  LET p1    == SelectInSeq(path, LAMBDA c : c # SLASH)
      slash == {k \in DOMAIN path : k > p1 /\ path[k] = SLASH}
      first == IF slash = {} THEN Len(path) + 1 ELSE Min(slash)
      colon == {k \in DOMAIN path : k < first /\ path[k] = COLON}
      p2    == IF p1 = 1 /\ colon # {} THEN Max(colon) ELSE first
      in_brackets == p2 > 1 /\ path[p1] = LEFT /\ path[p2 - 1] = RIGHT
  IN IF p1 = 0 THEN [srvr |-> path, share |-> path]
     ELSE [srvr  |-> IF in_brackets THEN SubSeq(path, p1 + 1, p2 - 2) ELSE SubSeq(path, p1, p2 - 1),
           share |-> SubSeq(path, p2, Len(path))]

word(s) == IF s = <<>> THEN 0 ELSE Head(s)

net_entry(path, fstype, mountpoint) ==
  LET parts == split_netdev_path(path)
  IN [Device(path, parts.share) EXCEPT !.netdev = TRUE, !.pkname = word(parts.srvr),
                                       !.fstype = fstype, !.mountpoint = mountpoint]

\* The entry of a MTP mount, whose source is the path of the device and its name;
\* it is a second one if libmtp has listed the device, too.
mtp_entry(l) ==
  LET colon == SelectInSeq(l.src, LAMBDA c : c = COLON)
  IN [(IF colon # 0 THEN Device(SubSeq(l.src, 1, colon - 1), SubSeq(l.src, colon + 1, Len(l.src)))
                    ELSE Device(l.src, l.src))
       EXCEPT !.mtp = TRUE, !.fstype = l.fstype, !.mountpoint = l.target]

\* add_mount_options_and_netdevs(): a line of findmnt.
add_mount(dmap, l) ==
  LET k == find_device(dmap, l.src)
  IN CASE k # 0                           -> [dmap EXCEPT ![k].mountpoint = l.target]
       [] k = 0 /\ is_netdev(l.src, l.fstype, l.netopt)
                                          -> Append(dmap, net_entry(l.src, l.fstype, l.target))
       [] k = 0 /\ l.fstype = "fuse.mtp"  -> Append(dmap, mtp_entry(l))
       [] OTHER                           -> dmap

\* (Used to test the properties: without a look at what is mounted.)
add_every_preconfigured(dmap, mu) ==
  IF mu.by_path /\ is_netdev(mu.what, mu.fstype, mu.netopt)
    THEN Append(dmap, net_entry(mu.what, mu.fstype, 0))
    ELSE dmap

\* add_preconfigured_netdevs()
add_preconfigured(dmap, mu) ==
  IF mu.by_path /\ find_device(dmap, mu.what) = 0 /\ is_netdev(mu.what, mu.fstype, mu.netopt)
    THEN Append(dmap, net_entry(mu.what, mu.fstype, 0))
    ELSE dmap

\* add_mtp_devices(): a device that cannot be opened is left out.
add_mtp_devices(dmap, mtp) ==
  dmap \o [k \in DOMAIN mtp |-> [Device(mtp[k], <<k>>) EXCEPT !.mtp = TRUE]]

\* system_scan_devices(): when lsblk fails there is no list at all; findmnt may
\* fail, and then nothing is mounted.
system_scan_devices(lsblk, mtp, findmnt, db) ==
  LET blocks == [k \in DOMAIN lsblk.devs |->
                   [Device(lsblk.devs[k].path, <<k>>) EXCEPT !.fstype = lsblk.devs[k].fstype]]
  IN IF ~lsblk.ok THEN <<>>
     ELSE FoldLeft(add_preconfigured, FoldLeft(add_mount, add_mtp_devices(blocks, mtp), findmnt), db)
=============================================================================
