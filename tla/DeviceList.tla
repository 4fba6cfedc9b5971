----------------------------- MODULE DeviceList -----------------------------
(***************************************************************************)
(* The list of the window: the devices of this machine (DeviceScan), the   *)
(* shares of the network (NetScan) and PopulateBlkListWidget(), which      *)
(* shows both and hides a share that is listed already (mainwindow.cpp).   *)
(*                                                                         *)
(* The network scan takes its steps one at a time.  A refresh that comes   *)
(* between two of them touches nothing that they do, so that it is taken   *)
(* before the scan or after it.                                            *)
(***************************************************************************)
EXTENDS NetScan

CONSTANTS
  Worlds,       \* what is not up to the program (see Init)
  AvahiLines,   \* sequences of lines of avahi-browse
  WsdAnswers,   \* sequences of addresses that WS-Discovery lists
  NmapResults,  \* sequences of [ip, services], as nmap finds them
  Machines,     \* [lsblk, mtp, findmnt, db] for a name that a server is called by;
                \* lsblk is what the tool lists (devs) and whether it succeeds (ok)
  MaxRefreshes, MaxScans      \* bounds

VARIABLES
  world,        \* the names of the machines and who answers for them
  main_dev_map, net_dev_map,
  shown,        \* the entries of BlkListWidget
  pc, n_map, shares, k, \* network_scan(): its next step, its lists and the host asked
  machine,      \* what the last refresh found (a history variable)
  reported,     \* the services of hosts reported by the tools: <<ip, service>>
  seen,         \* the shares reported: <<ip, SMB or not, share>> (history variables)
  spent         \* refreshes and scans so far (the bounds)

scan == <<pc, n_map, shares, k, reported, seen>>
vars == <<world, main_dev_map, net_dev_map, shown, scan, machine, spent>>
-----------------------------------------------------------------------------
\* The type as the window shows it.
shown_type(type) == IF type = "fuse.sshfs" THEN "sshfs" ELSE type

type_eq(l, r) == netdev_type_eq(shown_type(l), shown_type(r))

contains(inserted, d) ==
  \E j \in DOMAIN inserted :
    /\ inserted[j].netdev
    /\ inserted[j].pkname = d.pkname /\ toupper(inserted[j].name) = toupper(d.name)
    /\ type_eq(inserted[j].fstype, d.fstype)

\* PopulateBlkListWidget(), but for the tree and the columns.
PopulateBlkListWidget(main, net) ==
  LET maps == update_netdevs_values([main |-> main, net |-> net], world.local, world.hostname, world.resolver)
      Insert(s, d) == IF d.netdev /\ contains(s, d) THEN s ELSE Append(s, d)
  IN /\ main_dev_map' = maps.main /\ net_dev_map' = maps.net
     /\ shown' = FoldLeft(Insert, <<>>, maps.main \o maps.net)

\* The refresh of the list.
OnActionRefresh ==
  /\ pc = "idle"
  /\ spent.refreshes < MaxRefreshes
  /\ spent' = [spent EXCEPT !.refreshes = @ + 1]
  /\ \E m \in Machines[world.called] :
       /\ machine' = m
       /\ PopulateBlkListWidget(system_scan_devices(m.lsblk, m.mtp, m.findmnt, m.db), net_dev_map)
  /\ UNCHANGED <<world, scan>>
-----------------------------------------------------------------------------
(* network_scan(): every tool may be missing, switched off or fail, and    *)
(* then reports nothing.                                                   *)

Step(from, to) == pc = from /\ pc' = to
Found(lst) == {<<s.ip, s.type = SMB, s.share>> : s \in ToSet(lst)}

Start ==
  /\ Step("idle", "avahi")
  /\ spent.scans < MaxScans
  /\ spent' = [spent EXCEPT !.scans = @ + 1]
  /\ n_map' = <<>> /\ shares' = <<>> /\ k' = 1 /\ reported' = {} /\ seen' = {}
  /\ UNCHANGED <<world, main_dev_map, net_dev_map, shown, machine>>

Avahi ==
  /\ Step("avahi", "wsd")
  /\ \E lines \in AvahiLines :
       LET maps == avahi_discover([hosts |-> n_map, shares |-> shares], lines)
       IN /\ n_map' = maps.hosts /\ shares' = maps.shares
          /\ reported' = {<<l.ip, l.service>> : l \in {x \in ToSet(lines) : x.service = "smb"}}
          /\ seen' = Found(maps.shares)
  /\ UNCHANGED <<world, main_dev_map, net_dev_map, shown, k, machine, spent>>

\* wsd_discover(): each address is looked up; one without a name, or that nobody
\* answers for, stays nameless.
Wsd ==
  /\ Step("wsd", "nmap")
  /\ \E ips \in IF world.ifl = <<>> THEN {<<>>} ELSE WsdAnswers :
       LET name(ip) == LET host == get_host_name(ip, world.resolver) IN IF host = -1 THEN 0 ELSE host
           found == [j \in DOMAIN ips |-> Host(ips[j], name(ips[j]), {"smb"})]
       IN n_map' = n_map \o found /\ reported' = reported \cup {<<ip, "smb">> : ip \in ToSet(ips)}
  /\ UNCHANGED <<world, main_dev_map, net_dev_map, shown, shares, k, seen, machine, spent>>

\* scan_nmap() of the targets, whose hosts it may or may not have names for; then
\* collapse_nmap_list().
Nmap ==
  /\ Step("nmap", "shares")
  /\ \E found \in NmapResults, named \in BOOLEAN :
       LET targets == nmap_targets(world.targets, world.ifl)
           lst == SelectSeq(found, LAMBDA x : world.family[x.ip] \in targets)
           name(ip) == IF named /\ world.resolver.names[ip] > 0 THEN world.resolver.names[ip] ELSE 0
       IN /\ n_map' = collapse_nmap_list(n_map \o
                        [j \in DOMAIN lst |-> Host(lst[j].ip, name(lst[j].ip), lst[j].services)])
          /\ reported' = reported \cup UNION {{x.ip} \X x.services : x \in ToSet(lst)}
  /\ UNCHANGED <<world, main_dev_map, net_dev_map, shown, shares, k, seen, machine, spent>>

\* scan_shares() of the next host.
ScanShares ==
  /\ pc = "shares" /\ k \in DOMAIN n_map
  /\ \E disks \in {<<>>, world.disks}, exports \in {<<>>, world.exports} :
       LET found == scan_shares(n_map[k], disks, exports)
       IN shares' = shares \o found /\ seen' = seen \cup Found(found)
  /\ k' = k + 1
  /\ UNCHANGED <<world, main_dev_map, net_dev_map, shown, pc, n_map, reported, machine, spent>>

\* The list is made, and shown.
Finish ==
  /\ pc = "shares" /\ k \notin DOMAIN n_map
  /\ LET lst == collapse_share_list(shares, world.local, world.hostname)
     IN PopulateBlkListWidget(main_dev_map, FoldLeft(LAMBDA s, x : Append(s, net_device(x)), <<>>, lst))
  /\ pc' = "idle"
  /\ n_map' = <<>> /\ shares' = <<>> /\ k' = 1
  /\ UNCHANGED <<world, reported, seen, machine, spent>>
-----------------------------------------------------------------------------
\* A world has: called, the text by which mounts and units name the server 1;
\* resolver, the names of addresses and the addresses of names; owner, whose
\* address a text stands for in truth; ifl, the interfaces; family, of the
\* addresses; targets, the setting of nmap; local and hostname; disks and
\* exports, what a server offers.
Init ==
  /\ world \in Worlds
  /\ main_dev_map = <<>> /\ net_dev_map = <<>> /\ shown = <<>>
  /\ pc = "idle" /\ n_map = <<>> /\ shares = <<>> /\ k = 1
  /\ machine = [lsblk |-> [ok |-> FALSE, devs |-> <<>>], mtp |-> <<>>, findmnt |-> <<>>, db |-> <<>>]
  /\ reported = {} /\ seen = {}
  /\ spent = [refreshes |-> 0, scans |-> 0]

Next == OnActionRefresh \/ Start \/ Avahi \/ Wsd \/ Nmap \/ ScanShares \/ Finish

Spec == Init /\ [][Next]_vars
-----------------------------------------------------------------------------
(* Properties.                                                             *)

TypeOK ==
  /\ pc \in {"idle", "avahi", "wsd", "nmap", "shares"}
  /\ \A x \in ToSet(main_dev_map) \cup ToSet(net_dev_map) \cup ToSet(shown) :
       /\ x.ip \in IPs \cup {0} /\ x.host \in IPs \cup Names \cup {0}
       /\ x.netdev => x.pkname \in IPs \cup Names
       /\ x.mountpoint \in Nat /\ x.model \in Nat

\* collapse_nmap_list() leaves each address once, with every service that any tool
\* has found there: no host is asked for its shares twice, and none is taken for
\* a NFS4 server without rpcbind because two tools saw different ports.
HostsUnited ==
  pc = "shares" =>
    /\ \A i, j \in DOMAIN n_map : n_map[i].ip = n_map[j].ip => i = j
    /\ reported = UNION {{h.ip} \X ({s \in {"smb"} : h.smb} \cup {s \in {"rpc"} : h.rpc} \cup {s \in {"nfs"} : h.nfs})
                          : h \in ToSet(n_map)}

Serves(d, ip) == world.owner[d.pkname] = world.owner[ip]
Kind(d)       == IF d.fstype \in {"cifs", "smb3"} THEN SMB ELSE IF d.fstype \in {"nfs", "nfs4"} THEN NFS ELSE -1

\* Sorting, uniting and hiding lose nothing: a share that any tool has found is in
\* the window, for the server that has it, under its name up to the case of its
\* letters.
FoundShown ==
  pc = "idle" =>
    \A s \in seen : \E d \in ToSet(shown) :
      /\ d.netdev /\ Serves(d, s[1]) /\ Kind(d) = IF s[2] THEN SMB ELSE NFS
      /\ toupper(d.name) = toupper(net_device(Share([ip |-> s[1], host |-> 0], IF s[2] THEN SMB ELSE NFS, s[3], 0)).name)

\* Where every server can be looked up by its name and its address, and the mounts
\* call it by one name, the window lists each share once: found by several tools
\* with a name or without, mounted, configured or both, and after any number of
\* refreshes and scans.
ShownOnce ==
  world.consistent =>
    \A i, j \in DOMAIN shown :
      /\ shown[i].netdev /\ shown[j].netdev
      /\ world.owner[shown[i].pkname] = world.owner[shown[j].pkname]
      /\ Kind(shown[i]) = Kind(shown[j]) /\ Kind(shown[i]) # -1
      /\ toupper(shown[i].name) = toupper(shown[j].name)
      => i = j

\* What a scan has found is shown, once and well formed: no share is lost or
\* doubled by the sorting, uniting and hiding between the tools and the window,
\* and no failed lookup is taken for a name.
SharesShown == TypeOK /\ HostsUnited /\ FoundShown /\ ShownOnce

\* What is mounted, or configured on a server, is in main_dev_map once, as mounted
\* where findmnt saw it last, and everything else as not mounted: OnMount() and
\* OnUnmount() take the device they act on from there.
MountsKnown ==
  LET Sources == {l \in ToSet(machine.findmnt) : l.known}
      Target(path) == LET L == {j \in DOMAIN machine.findmnt : machine.findmnt[j].src = path}
                      IN IF L = {} THEN 0 ELSE machine.findmnt[Max(L)].target
  IN machine.lsblk.ok =>
     /\ \A l \in Sources : \E d \in ToSet(main_dev_map) : d.path = l.device
     /\ \A mu \in ToSet(machine.db) : mu.known => \E d \in ToSet(main_dev_map) : d.path = mu.what
     /\ \A i, j \in DOMAIN main_dev_map : main_dev_map[i].path = main_dev_map[j].path => i = j
     /\ \A d \in ToSet(main_dev_map) : ~d.mtp => d.mountpoint = Target(d.path)
=============================================================================
