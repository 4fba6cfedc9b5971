---------------------------- MODULE MCDeviceList ----------------------------
(* DeviceList for TLC: the server 1 offers everything, 2 is on IPv6 only. *)
EXTENDS DeviceList

MCIPs   == {1, 2}
MCNames == {11, 12, 13, 14, 15}     \* nas, box, an alias of nas, this machine, user@nas

\* The shares 21, 22 and 23 are "DATA", "data" and "srv".
MCUpperCase == [t \in 1 .. 60 |-> IF t = 22 THEN 21 ELSE t]

Owner == [t \in MCIPs \cup MCNames |-> CASE t \in {1, 11, 13} -> 1 [] t = 15 -> 15 [] OTHER -> 2]

addrs(known) == [t \in MCNames |-> IF known /\ t # 15 THEN Owner[t] ELSE 0]
names(a, b)  == (1 :> a) @@ (2 :> b)

resolver(a, b, known) == [names |-> names(a, b), addrs |-> addrs(known)]

\* Interfaces, the targets of nmap and the local addresses: IPv4 and both asked
\* for; both, and 2 is this machine; none.
wired == <<<<[v6 |-> FALSE]>>, {"v4", "v6"}, {}>>
local == <<<<[v6 |-> FALSE], [v6 |-> TRUE]>>, {}, {2}>>
none  == <<<<>>, {}, {}>>

\* Names and addresses that all are known; addresses whose names nobody knows, or
\* cannot be asked for; names that have no address.
MCWorlds ==
  {[called |-> w[1], resolver |-> w[2], owner |-> Owner, family |-> (1 :> "v4") @@ (2 :> "v6"),
    ifl |-> w[3][1], targets |-> w[3][2], local |-> w[3][3], hostname |-> 14,
    disks |-> <<[share |-> 23, comment |-> 0], [share |-> 22, comment |-> 2]>>, exports |-> <<23, 0>>,
    consistent |-> w[2].names[1] # 0 /\ w[2].addrs[11] # 0] :
   w \in {<<1, resolver(11, 12, TRUE), wired>>, <<13, resolver(11, 12, TRUE), local>>,
          <<11, resolver(-1, -1, TRUE), wired>>, <<1, resolver(0, 0, TRUE), none>>,
          <<1, resolver(13, 0, FALSE), wired>>}}

line(service, ip, host, share, comment) ==
  [service |-> service, ip |-> ip, host |-> host, share |-> share, comment |-> comment]

MCAvahiLines ==
  {<<>>, <<line("smb", 1, 11, -1, 0), line("smb", 2, 12, -1, 0)>>,
   <<line("nfs", 1, 11, 0, 1), line("nfs", 1, 11, -1, 2)>>,
   <<line("nfs", 2, 12, 23, 1), line("smb", 1, 11, -1, 0), line("nfs", 1, 11, 23, 1)>>}

MCWsdAnswers == {<<>>, <<2, 1>>}

host(ip, services) == [ip |-> ip, services |-> services]

MCNmapResults ==
  {<<>>, <<host(1, {"smb", "rpc", "nfs"}), host(2, {"nfs"})>>, <<host(1, {"nfs"})>>, <<host(2, {"smb"}), host(1, {"rpc"})>>}

mount(src, type, target) ==
  [src |-> src, fstype |-> type, netopt |-> FALSE, target |-> target, known |-> type # "tmpfs",
   device |-> IF type = "fuse.mtp" THEN <<SLASH, 32>> ELSE src]

unit(what, type, by_path) ==
  [what |-> what, fstype |-> type, by_path |-> by_path, netopt |-> FALSE, known |-> by_path]

\* A disk, a phone, and mounts and units of all kinds; the phone cannot be opened
\* while it is mounted.
MCMachines ==
  [c \in {1, 11, 13} |->
    LET disk == [ok |-> TRUE, devs |-> <<[path |-> <<SLASH, 31>>, fstype |-> "ext4"]>>]
        none_listed(ok) == [ok |-> ok, devs |-> <<>>]
        smb  == <<SLASH, SLASH, c, SLASH, 21>>
        nfs  == <<c, COLON, SLASH, 23>>
        box  == <<LEFT, 2, RIGHT, COLON, SLASH, 23>>
    IN {[lsblk |-> none_listed(FALSE), mtp |-> <<>>, findmnt |-> <<>>, db |-> <<>>],
        [lsblk |-> disk, mtp |-> <<<<SLASH, 32>>>>, db |-> <<unit(smb, "", TRUE), unit(smb, "cifs", TRUE)>>,
         findmnt |-> <<mount(<<SLASH, 31>>, "ext4", 41), mount(<<33>>, "tmpfs", 42), mount(<<SLASH, 31>>, "ext4", 43)>>],
        [lsblk |-> disk, mtp |-> <<>>, db |-> <<unit(<<11>>, "ext4", FALSE), unit(nfs, "nfs", TRUE)>>,
         findmnt |-> <<mount(smb, "smb3", 41), mount(<<15, COLON, SLASH, 23>>, "fuse.sshfs", 42)>>],
        [lsblk |-> none_listed(TRUE), mtp |-> <<>>, db |-> <<unit(box, "nfs4", TRUE), unit(smb, "cifs", TRUE)>>,
         findmnt |-> <<mount(<<SLASH, 32, COLON, 51>>, "fuse.mtp", 44), mount(box, "nfs4", 45), mount(<<c, COLON, SLASH>>, "nfs4", 46)>>]}]
=============================================================================
