------------------------------- MODULE NetScan -------------------------------
(***************************************************************************)
(* The network scan (netmap.cpp): what avahi, WS-Discovery and nmap report *)
(* of the hosts, what smbclient and showmount report of each host, and how *)
(* network_scan() makes one list of it.                                    *)
(*                                                                         *)
(* Of the texts (DeviceScan) the members of IPs are addresses and those of *)
(* Names are host names; the comment n is shorter than n + 1; the path of  *)
(* a share is one text, 0 for "/".                                         *)
(***************************************************************************)
EXTENDS DeviceScan

CONSTANTS IPs, Names,
          UpperCase    \* of each text

ASSUME TextsAssumption == /\ IPs \subseteq Nat \ {0} /\ Names \subseteq Nat \ {0}
                          /\ \A a \in IPs, n \in Names : a < n

SMB  == 0
NFS4 == 1
NFS  == 2

\* nmap_entry and net_share
Host(ip, host, services) ==
  [ip |-> ip, host |-> host, smb |-> "smb" \in services,
   rpc |-> "rpc" \in services, nfs |-> "nfs" \in services]

Share(tgt, type, share, comment) ==
  [ip |-> tgt.ip, host |-> tgt.host, srvr |-> 0, type |-> type, share |-> share, comment |-> comment]
-----------------------------------------------------------------------------
\* The families of addresses that nmap is told to scan: those of the interfaces,
\* or those of the user's list; IPv6 also when there is nothing else.
nmap_targets(targets, ifl) ==
  LET from == IF targets = {} THEN {IF x.v6 THEN "v6" ELSE "v4" : x \in ToSet(ifl)} ELSE targets
  IN IF from = {} THEN {"v6"} ELSE from

\* A line of avahi-browse: a host with SMB shares, or a NFS share, whose path it
\* may leave out (share = -1).
avahi_line(maps, l) ==
  IF l.service = "smb"
    THEN [maps EXCEPT !.hosts = Append(@, Host(l.ip, l.host, {"smb"}))]
    ELSE [maps EXCEPT !.shares = Append(@, IF l.share = -1 THEN Share(l, NFS4, 0, l.comment)
                                           ELSE Share(l, NFS, l.share, l.comment))]

avahi_discover(maps, lines) == FoldLeft(avahi_line, maps, lines)

\* scan_shares(): disks is what smbclient lists of the host and exports what
\* showmount does, <<>> for a program that fails or is missing.
scan_shares(tgt, disks, exports) ==
     (IF tgt.smb THEN [k \in DOMAIN disks |-> Share(tgt, SMB, disks[k].share, disks[k].comment)]
                 ELSE <<>>)
  \o (CASE tgt.nfs /\ ~tgt.rpc -> <<Share(tgt, NFS4, 0, 0)>>
        [] tgt.nfs /\ tgt.rpc  -> [k \in DOMAIN exports |-> Share(tgt, NFS, exports[k], 0)]
        [] OTHER               -> <<>>)
-----------------------------------------------------------------------------
(* std::sort() of up to 16 elements is an insertion sort: an element that  *)
(* is less than the first goes before it, any other one behind the last    *)
(* element that it is not less than.  For an order that is not a weak one, *)
(* which the two below are not, the outcome depends on this.               *)

Sorted(lst, Less(_, _)) ==
  LET Insert(s, x) ==
        LET NotLess == {j \in DOMAIN s : ~Less(x, s[j])}
            at == IF s = <<>> \/ Less(x, s[1]) THEN 0 ELSE CHOOSE j \in NotLess : \A k \in NotLess : k <= j
        IN InsertAt(s, at + 1, x)
  IN FoldLeft(Insert, <<>>, lst)

\* (Used to test the properties: sorted by name.)
HostLessByName(l, r) == IF l.host = r.host THEN l.ip < r.ip ELSE l.host < r.host

HostLess(l, r) == IF l.ip = r.ip THEN l.host # 0 /\ l.host < r.host ELSE l.ip < r.ip

\* The entries of an address are made one, with all the services found.
collapse_nmap_list(lst) ==
  LET Unite(s, x) ==
        IF s # <<>> /\ Last(s).ip = x.ip
          THEN [s EXCEPT ![Len(s)].smb = @ \/ x.smb, ![Len(s)].rpc = @ \/ x.rpc, ![Len(s)].nfs = @ \/ x.nfs]
          ELSE Append(s, x)
  IN FoldLeft(Unite, <<>>, Sorted(lst, HostLess))

\* replace_local_hostname(): local are the addresses of this machine.
replace_local_hostname(ip, host, local, hostname) == IF ip \in local THEN hostname ELSE host

\* eq(): in one direction only.
eq(l, r) == l = r \/ (l = NFS4 /\ r = NFS)

ShareLess(l, r) ==
  CASE l.srvr = r.srvr /\ eq(l.type, r.type)             -> l.share < r.share
    [] l.srvr = r.srvr                                   -> l.type < r.type
    [] l.srvr # r.srvr /\ ((l.host = 0) <=> (r.host = 0)) -> l.srvr < r.srvr
    [] OTHER                                             -> l.host # 0

SameShare(l, r) == l.srvr = r.srvr /\ eq(l.type, r.type) /\ l.share = r.share

\* The shares get their host's name, from whichever tool knew it, and the entries
\* of a share are made one, with the longest comment.
collapse_share_list(lst, local, hostname) ==
  LET local_named == [k \in DOMAIN lst |->
        [lst[k] EXCEPT !.host = replace_local_hostname(lst[k].ip, @, local, hostname)]]
      NameOf(ip) == LET K == {k \in DOMAIN local_named : local_named[k].ip = ip /\ local_named[k].host # 0}
                    IN IF K = {} THEN 0 ELSE local_named[CHOOSE k \in K : \A j \in K : k <= j].host
      named == [k \in DOMAIN lst |->
        LET x == local_named[k]
            host == IF x.host = 0 THEN NameOf(x.ip) ELSE x.host
        IN [x EXCEPT !.host = host, !.srvr = IF host # 0 THEN host ELSE x.ip]]
      Unite(s, x) ==
        IF s # <<>> /\ SameShare(Last(s), x)
          THEN [s EXCEPT ![Len(s)].comment = IF @ < x.comment THEN x.comment ELSE @]
          ELSE Append(s, x)
  IN FoldLeft(Unite, <<>>, Sorted(named, ShareLess))

\* The type of a share as mount(8) knows it, and the entry of the window's list.
fstype(type) == CASE type = SMB -> "cifs" [] type = NFS4 -> "nfs4" [] type = NFS -> "nfs"

net_device(x) ==
  LET name == IF x.type = SMB THEN <<SLASH, x.share>>
              ELSE <<COLON, SLASH>> \o (IF x.share = 0 THEN <<>> ELSE <<x.share>>)
      path == (IF x.type = SMB THEN <<SLASH, SLASH>> ELSE <<>>) \o <<x.srvr>> \o name
  IN [Device(path, name) EXCEPT !.netdev = TRUE, !.pkname = x.srvr, !.fstype = fstype(x.type),
                                !.model = x.comment, !.ip = x.ip, !.host = x.host]
-----------------------------------------------------------------------------
toupper(name) == [k \in DOMAIN name |-> IF name[k] > 0 THEN UpperCase[name[k]] ELSE name[k]]

\* netdev_type_eq(): its find(",.") never finds anything, so that the types are
\* compared as they are.
netdev_type_eq(l, r) == l = r \/ {l, r} \subseteq {"nfs", "nfs4"} \/ {l, r} \subseteq {"cifs", "smb3"}

\* What a resolver says: names[a] is the name of an address, 0 if it has none, -1
\* if nobody answers; addrs[h] is the address of a name, 0 for any failure.
get_host_name(ip, resolver)   == resolver.names[ip]
get_host_addr(host, resolver) == IF host \in IPs THEN host ELSE resolver.addrs[host]

\* get_host_info(): the address and the name of a server that is given by either;
\* an address whose name cannot be asked for is its own name.
get_host_info(addr, resolver) ==
  IF addr \in IPs /\ get_host_name(addr, resolver) # -1
    THEN [ip |-> addr, host |-> get_host_name(addr, resolver)]
    ELSE [ip |-> get_host_addr(addr, resolver), host |-> addr]

\* update_netdevs_values(): the shares found are shown under the name of the
\* server that the mounted and the configured ones have, which get its comments.
\* One of the latter at a time:
update_netdev(maps, k, local, hostname, resolver) ==
  LET x    == maps.main[k]
      info == get_host_info(x.pkname, resolver)
      ip   == info.ip
      Same(host, y) == (ip # 0 /\ ip = y.ip) \/ (host # 0 /\ host = y.host)
      Step(acc, j) ==
        LET y == acc.net[j]
            host == IF acc.host = 0 THEN y.host ELSE acc.host
            same == netdev_type_eq(x.fstype, y.fstype) /\ toupper(x.name) = toupper(y.name)
        IN IF ~Same(acc.host, y) THEN acc
           ELSE [net |-> IF acc.host # 0 /\ acc.host # y.host THEN [acc.net EXCEPT ![j].pkname = host] ELSE acc.net,
                 host |-> host,
                 model |-> IF same /\ acc.model < y.model THEN y.model ELSE acc.model]
      end == FoldLeft(Step, [net |-> maps.net, model |-> x.model,
                             host |-> replace_local_hostname(ip, info.host, local, hostname)],
                      [j \in DOMAIN maps.net |-> j])
  IN IF ~x.netdev THEN maps
     ELSE [main |-> [maps.main EXCEPT ![k] = [x EXCEPT !.model = end.model, !.ip = ip, !.host = end.host,
                                                       !.pkname = IF end.host = 0 THEN ip ELSE end.host]],
           net  |-> end.net]

update_netdevs_values(maps, local, hostname, resolver) ==
  FoldLeft(LAMBDA m, k : update_netdev(m, k, local, hostname, resolver),
           maps, [k \in DOMAIN maps.main |-> k])
=============================================================================
