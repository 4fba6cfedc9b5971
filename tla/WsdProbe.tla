------------------------------ MODULE WsdProbe ------------------------------
(***************************************************************************)
(* wsd_probe() and the network it probes (wsd_probe.cpp).                  *)
(*                                                                         *)
(* A socket is set up for each interface that list_active_interfaces()     *)
(* returns.  A probe is sent on every socket, total_probes times, with a   *)
(* new id after each probe_repeats of them; after each, the sockets are    *)
(* polled until probe_wait_ms have passed, and the event loop runs every   *)
(* refresh_interval.                                                       *)
(*                                                                         *)
(* The network may lose a probe or an answer, delay it beyond the probe it *)
(* answers and deliver it again; other messages come in between.          *)
(* The clock counts in parts of the refresh interval.                      *)
(***************************************************************************)
EXTENDS Naturals, FiniteSets, SequencesExt

CONSTANTS
  Hosts,            \* the addresses that may answer
  AddrLists,        \* the lists getifaddrs() may return
  NoMatch,          \* a message that is no answer
  Links,            \* the interfaces (indices) a host is on
  total_probes, probe_repeats, probe_wait, refresh_interval,
  MaxQueue,         \* datagrams a socket holds; more are dropped
  MaxDatagrams,     \* datagrams that arrive in a behaviour (a bound)
  MaxSignals        \* signals in a behaviour (a bound)

ASSUME TimesAssumption ==
  /\ {total_probes, probe_repeats, refresh_interval} \subseteq Nat \ {0}
  /\ probe_wait \in Nat /\ probe_wait >= 2 * refresh_interval

\* What belongs to an interface (its index, its flags) goes with its name.
ASSUME AddressesAssumption ==
  \A lst \in AddrLists :
    /\ lst \in Seq(ToSet(lst))
    /\ \A x, y \in ToSet(lst) : x.name = y.name => x.idx = y.idx /\ x.active = y.active

ASSUME MessagesAssumption == NoMatch \notin Hosts
ASSUME BoundsAssumption   == {MaxQueue, MaxDatagrams, MaxSignals} \subseteq Nat

VARIABLES
  if_list,  \* the interfaces to probe, <<[name, idx, v6]>>
  pc, n, i, \* what wsd_probe() does next; its probe; its socket
  probe,    \* the number of the probe's id
  port,     \* of each socket: "wsd" (3702), or "any" when that is taken
  rn,       \* the interval of the last refresh
  revents,  \* what poll(2) said of each socket: "none", "in", "err"
  out,      \* the addresses listed
  asked,    \* of each socket: the ids of the probes sent (a history variable)
  clock,    \* the timer
  waited,   \* how long poll(2) has waited
  since,    \* the time since the event loop ran (a history variable)
  queue,    \* of each socket: the datagrams to be read: whose answer, or NoMatch
  broken,   \* the sockets with an error, 0 for the other system calls
  signal,   \* a signal is pending
  arrived,  \* the addresses whose answer was queued (a history variable)
  spent     \* datagrams and signals so far (the bounds)

program == <<if_list, pc, n, i, probe, port, rn, revents, out, asked>>
time    == <<clock, waited, since>>
network == <<queue, broken, signal, arrived, spent>>
vars    == <<program, time, network>>

Sockets  == DOMAIN if_list
Returned == pc \in {"true", "false"}
Bound    == {s \in Sockets : s < i \/ pc # "setup"}   \* the sockets set up
-----------------------------------------------------------------------------
(* list_active_interfaces()                                                *)

\* (Used to test the properties: IPv6 is left out.)
SkipIPv6(lst, res, x) == ~x.active \/ x.v6 \/ \E k \in DOMAIN res : res[k].idx = x.idx

\* An address of a link that is up, running and able to multicast is taken
\* unless its link has one already, or has an IPv4 address and this is IPv6.
\* (An address with a label, "eth0:1", has no index of its own: 0.)
Skip(lst, res, x) ==
  \/ ~x.active
  \/ x.v6 /\ \E k \in DOMAIN lst : lst[k].name = x.name /\ ~lst[k].v6
  \/ \E k \in DOMAIN res : res[k].idx = x.idx

list_active_interfaces(lst) ==
  FoldLeft(LAMBDA res, x : IF Skip(lst, res, x) THEN res ELSE Append(res, x), <<>>, lst)
-----------------------------------------------------------------------------
(* wsd_probe()                                                             *)

\* wsd_socket::setup() binds the port of the protocol or any other one; ...
SetUp ==
  /\ pc = "setup" /\ i \in Sockets
  /\ \E p \in {"wsd", "any"} : port' = [port EXCEPT ![i] = p]
  /\ i' = i + 1
  /\ UNCHANGED <<if_list, pc, n, probe, rn, revents, out, asked, time, network>>

\* ... every call of it may fail, and ends the probe.
SetUpFails ==
  /\ pc = "setup" /\ i \in Sockets /\ {0, i} \cap broken # {}
  /\ pc' = "false"
  /\ UNCHANGED <<if_list, n, i, probe, port, rn, revents, out, asked, time, network>>

\* The head of the loop over the probes.
NextProbe ==
  /\ \/ pc = "setup" /\ i \notin Sockets
     \/ pc = "probe"
  /\ IF n = total_probes THEN pc' = "true" /\ UNCHANGED <<probe, i>>
                         ELSE /\ pc' = "send" /\ i' = 1
                              /\ probe' = IF n % probe_repeats = 0 THEN probe + 1 ELSE probe
  /\ UNCHANGED <<if_list, n, port, rn, revents, out, asked, time, network>>

\* wsd_socket::send(), which goes on after a signal.
Send ==
  /\ pc = "send" /\ i \in Sockets /\ ~signal
  /\ IF i \in broken
       THEN pc' = "false" /\ UNCHANGED <<i, asked>>
       ELSE /\ asked' = [asked EXCEPT ![i] = Append(@, probe)]
            /\ i' = i + 1 /\ UNCHANGED pc
  /\ UNCHANGED <<if_list, n, probe, port, rn, revents, out, time, network>>

SendInterrupted ==
  /\ pc = "send" /\ i \in Sockets /\ signal
  /\ signal' = FALSE
  /\ UNCHANGED <<program, time, queue, broken, arrived, spent>>

\* hires_timer tmr;
StartTimer ==
  /\ pc = "send" /\ i \notin Sockets
  /\ pc' = "timer" /\ clock' = 0
  /\ UNCHANGED <<if_list, n, i, probe, port, rn, revents, out, asked, waited, since, network>>

\* (Used to test the properties: the number of the interval starts at 1.)
DueLater == rn + 1 < clock \div refresh_interval

Due == rn # clock \div refresh_interval

\* The head of the loop over the waiting time: the timer is read, and the event
\* loop runs when a new interval has begun.  It may take any time.
ReadTimer ==
  /\ pc = "timer"
  /\ IF clock >= probe_wait
       THEN pc' = "probe" /\ n' = n + 1 /\ UNCHANGED <<rn, time>>
       ELSE /\ pc' = "poll" /\ waited' = 0
            /\ IF Due THEN /\ rn' = clock \div refresh_interval
                           /\ since' = 0 /\ clock' \in {clock, probe_wait}
                      ELSE UNCHANGED <<rn, clock, since>>
            /\ UNCHANGED n
  /\ UNCHANGED <<if_list, i, probe, port, revents, out, asked, network>>

State(s) == IF s \in broken THEN "err" ELSE IF queue[s] # <<>> THEN "in" ELSE "none"
Ready    == \E s \in Sockets : State(s) # "none"

\* poll(2) returns with what there is, or after its timeout with nothing, ...
Poll ==
  /\ pc = "poll"
  /\ Ready \/ waited = refresh_interval
  /\ IF 0 \in broken THEN pc' = "false" /\ UNCHANGED <<revents, i>>
     ELSE /\ revents' = [s \in Sockets |-> State(s)]
          /\ pc' = IF Ready THEN "receive" ELSE "timer"
          /\ i' = 1
  /\ UNCHANGED <<if_list, n, probe, port, rn, out, asked, time, network>>

\* ... or is interrupted and polls again, reading the timer before.  (Used to
\* test the properties: the interruption taken for an error.)
PollGivesUp ==
  /\ pc = "poll" /\ signal
  /\ signal' = FALSE
  /\ pc' = "false"
  /\ UNCHANGED <<if_list, n, i, probe, port, rn, revents, out, asked, time,
                 queue, broken, arrived, spent>>

PollInterrupted ==
  /\ pc = "poll" /\ signal
  /\ signal' = FALSE
  /\ pc' = "timer"
  /\ UNCHANGED <<if_list, n, i, probe, port, rn, revents, out, asked, time,
                 queue, broken, arrived, spent>>

\* contains(src_ip, out)
contains(ip) == \E k \in DOMAIN out : out[k] = ip

\* (Used to test the properties: an interrupted call has taken the datagram.)
ReceiveDrops ==
  /\ pc = "receive" /\ i \in Sockets /\ revents[i] = "in" /\ i \notin broken
  /\ LET d == Head(queue[i])
     IN /\ queue' = [queue EXCEPT ![i] = Tail(@)]
        /\ out' = IF d # NoMatch /\ ~signal /\ ~contains(d) THEN Append(out, d) ELSE out
        /\ signal' = FALSE
  /\ i' = i + 1
  /\ UNCHANGED <<if_list, pc, n, probe, port, rn, revents, asked, time,
                 broken, arrived, spent>>

\* One datagram of socket i, if poll(2) saw one: a message that is no answer, or
\* whose sender is listed, is dropped; so is one that recvfrom(2) finds to be
\* damaged or empty, or that a signal keeps it from reading.
Receive ==
  /\ pc = "receive" /\ i \in Sockets /\ revents[i] = "in" /\ i \notin broken
  /\ IF signal THEN signal' = FALSE /\ UNCHANGED <<out, queue>>
     ELSE LET d == Head(queue[i])
          IN /\ queue' = [queue EXCEPT ![i] = Tail(@)]
             /\ out' = IF d # NoMatch /\ ~contains(d) THEN Append(out, d) ELSE out
             /\ UNCHANGED signal
  /\ i' = i + 1
  /\ UNCHANGED <<if_list, pc, n, probe, port, rn, revents, asked, time,
                 broken, arrived, spent>>

ReceiveFails ==
  /\ pc = "receive" /\ i \in Sockets
  /\ revents[i] = "err" \/ (revents[i] = "in" /\ i \in broken)
  /\ pc' = "false"
  /\ UNCHANGED <<if_list, n, i, probe, port, rn, revents, out, asked, time, network>>

\* (Used to test the properties: the first socket that is not ready ends the loop.)
BreakOff ==
  /\ pc = "receive"
  /\ i \in Sockets => revents[i] = "none"
  /\ i' = i /\ pc' = "timer"
  /\ UNCHANGED <<if_list, n, probe, port, rn, revents, out, asked, time, network>>

PassOver ==
  /\ pc = "receive"
  /\ i \in Sockets => revents[i] = "none"
  /\ IF i \in Sockets THEN i' = i + 1 /\ UNCHANGED pc ELSE pc' = "timer" /\ UNCHANGED i
  /\ UNCHANGED <<if_list, n, probe, port, rn, revents, out, asked, time, network>>
-----------------------------------------------------------------------------
(* The network, the kernel and the clock.                                  *)

\* h may have got a probe from socket s.  That it has not, and that its answer is
\* lost, looks the same: no answer arrives.
Heard(h, s) == asked[s] # <<>> /\ if_list[s].idx \in Links[h]

\* The sockets that share the port of the protocol get each other's messages.
Shares(s, t) == s = t \/ (port[s] = "wsd" /\ port[t] = "wsd" /\ if_list[s].v6 = if_list[t].v6)

Enqueue(s, d) ==
  /\ ~Returned /\ spent.datagrams < MaxDatagrams
  /\ Len(queue[s]) < MaxQueue
  /\ queue' = [queue EXCEPT ![s] = Append(@, d)]
  /\ spent' = [spent EXCEPT !.datagrams = @ + 1]

\* An answer arrives, for the first time or again.
Answer(h, s) ==
  /\ \E t \in Bound : Heard(h, t) /\ Shares(t, s)
  /\ Enqueue(s, h)
  /\ arrived' = arrived \cup {h}
  /\ UNCHANGED <<program, time, broken, signal>>

\* A message to the group that is no answer, such as the program's own one, or an
\* answer that arrives damaged.
Chatter(s) ==
  /\ port[s] = "wsd" \/ \E h \in Hosts, t \in Bound : Heard(h, t) /\ Shares(t, s)
  /\ Enqueue(s, NoMatch)
  /\ UNCHANGED <<program, time, broken, signal, arrived>>

Break(s) ==
  /\ ~Returned /\ broken = {}
  /\ broken' = {s}
  /\ UNCHANGED <<program, time, queue, signal, arrived, spent>>

Signal ==
  /\ ~Returned /\ ~signal /\ spent.signals < MaxSignals
  /\ signal' = TRUE
  /\ spent' = [spent EXCEPT !.signals = @ + 1]
  /\ UNCHANGED <<program, time, queue, broken, arrived>>

\* Time passes while poll(2) waits.
Tick ==
  /\ pc = "poll" /\ ~Ready /\ waited < refresh_interval
  /\ waited' = waited + 1 /\ clock' = clock + 1 /\ since' = since + 1
  /\ UNCHANGED <<program, network>>
-----------------------------------------------------------------------------
Init ==
  /\ if_list \in {list_active_interfaces(lst) : lst \in AddrLists}
  /\ pc = "setup" /\ n = 0 /\ i = 1 /\ probe = 0
  /\ port = [s \in Sockets |-> "none"]
  /\ rn = 0
  /\ revents = [s \in Sockets |-> "none"]
  /\ out = <<>> /\ asked = [s \in Sockets |-> <<>>]
  /\ clock = 0 /\ waited = 0 /\ since = 0
  /\ queue = [s \in Sockets |-> <<>>]
  /\ broken = {} /\ signal = FALSE /\ arrived = {}
  /\ spent = [datagrams |-> 0, signals |-> 0]

Program == \/ SetUp \/ SetUpFails \/ NextProbe \/ Send \/ SendInterrupted \/ StartTimer
           \/ ReadTimer \/ Poll \/ PollInterrupted \/ Receive \/ ReceiveFails \/ PassOver

Network == \/ Signal
           \/ \E s \in Sockets \cup {0} : Break(s)
           \/ \E s \in Bound, h \in Hosts : Answer(h, s) \/ Chatter(s)

Done == Returned /\ UNCHANGED vars

Next == Program \/ Network \/ Tick \/ Done

Spec == Init /\ [][Next]_vars

\* The program runs and time passes; nothing is asked of the network.
FairSpec == Spec /\ WF_vars(Program) /\ WF_vars(Tick)
-----------------------------------------------------------------------------
(* Properties.                                                             *)

\* While wsd_probe() waits the window lives: the event loop runs at least once in
\* three intervals, also across two probes and after a refresh that has used up
\* the waiting time.
UiAlive == since < 3 * refresh_interval

\* The types, the limits of all counters, and how long the window has to wait.
TypeOK ==
  /\ pc \in {"setup", "probe", "send", "timer", "poll", "receive", "true", "false"}
  /\ n \in 0 .. total_probes /\ i \in 1 .. Len(if_list) + 1 /\ probe \in 0 .. total_probes
  /\ port \in [Sockets -> {"none", "wsd", "any"}]
  /\ clock \in 0 .. probe_wait + refresh_interval
  /\ rn \in 0 .. probe_wait \div refresh_interval
  /\ waited \in 0 .. refresh_interval
  /\ revents \in [Sockets -> {"none", "in", "err"}]
  /\ out \in Seq(Hosts) /\ arrived \subseteq Hosts
  /\ \A s \in Sockets : Len(queue[s]) <= MaxQueue
  /\ broken \subseteq Sockets \cup {0} /\ signal \in BOOLEAN
  /\ UiAlive

\* An answer that has reached a socket is listed or is still to be read: none is
\* lost by the program, however many come at once, in whatever order, and
\* whatever interrupts the reading.
NothingForgotten ==
  \A h \in arrived : contains(h) \/ \E s \in Sockets : Contains(queue[s], h)

\* When the probe is over, every link that is up has been asked total_probes
\* times through one socket, whatever its addresses, with a new id after every
\* probe_repeats.
EveryLinkAsked ==
  pc = "true" =>
    \E lst \in AddrLists :
      /\ if_list = list_active_interfaces(lst)
      /\ \A x \in ToSet(lst) : x.active /\ x.idx # 0 =>
           \E s \in Sockets :
             /\ if_list[s].idx = x.idx
             /\ \A t \in Sockets \ {s} : if_list[t].idx # x.idx
             /\ asked[s] = [k \in 1 .. total_probes |-> (k - 1) \div probe_repeats + 1]

\* wsd_probe() ends, whatever the network does.
Terminates == <>Returned

\* wsd_probe() is a Discovery.
D == INSTANCE Discovery WITH
       found    <- out,
       answered <- {h \in Hosts : \E s \in Sockets : Heard(h, s)},
       faulty   <- broken # {},
       result   <- IF Returned THEN pc ELSE "none"

Discovers == D!Spec
=============================================================================
