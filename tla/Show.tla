------------------------------- MODULE Show -------------------------------
(***************************************************************************)
(* What `wg show' prints (show.c): pretty_print with sort_peers, which     *)
(* sorts a linked list through an array of pointers, and the lines for     *)
(* scripts, ugly_print and dump_print.  A line is the sequence of its      *)
(* fields; a time is <<seconds, nanoseconds>>, <<0, 0>> for never.         *)
(***************************************************************************)
EXTENDS Integers, Sequences, FiniteSets, SequencesExt

CONSTANTS
    NULL, NONE, OFF, \* a null pointer, and the words (none) and off
    Peers,      \* the peer structures
    Devices,    \* devices: [name, key, pub, port, fwmark] and peers' fields
    Now         \* the time of day, in seconds

VARIABLES
    dev,        \* the device
    first, next,\* first_peer and the next_peer of every peer
    peers,      \* the array
    pc, i,
    at,         \* the peer pretty_print is at
    out         \* peers printed, in order, with what ago() said

vars == <<dev, first, next, peers, pc, i, at, out>>

(* The peers for_each_wgpeer visits: from p along the links.               *)
Walk(p, links) ==
    LET visit[n \in 0 .. Cardinality(Peers), q \in Peers \cup {NULL}] ==
            IF q = NULL \/ n = 0 THEN <<>> ELSE <<q>> \o visit[n - 1, links[q]]
    IN  visit[Cardinality(Peers), p]

(* The kernel's order of the peers is any order.                           *)
Init ==
    /\ dev \in Devices
    /\ \E order \in SetToSeqs(dev.peers) :
          /\ first = IF order = <<>> THEN NULL ELSE order[1]
          /\ next = [p \in Peers |->
                LET k == {j \in 1 .. Len(order) - 1 : order[j] = p}
                IN  IF k = {} THEN NULL ELSE order[(CHOOSE j \in k : TRUE) + 1]]
    /\ peers = <<>> /\ pc = "count" /\ i = 0 /\ at = NULL /\ out = <<>>

Time(p) == dev.peer[p].handshake
Never(p) == Time(p) = <<0, 0>>

(* Latest handshake first, and peers without one last.                     *)
PeerCmp(a, b) ==
    LET sec == Time(a)[1] - Time(b)[1]
        diff == IF sec = 0 THEN Time(a)[2] - Time(b)[2] ELSE sec
    IN  IF Never(a) /\ ~Never(b) THEN 1 ELSE IF Never(b) /\ ~Never(a) THEN -1
        ELSE IF diff < 0 THEN 1 ELSE IF diff > 0 THEN -1 ELSE 0

(* sort_peers gives up without memory; without peers it is not called.     *)
Unsorted ==
    /\ pc = "count"
    /\ pc' = "print" /\ at' = first
    /\ UNCHANGED <<dev, first, next, peers, i, out>>

(* qsort: some order that the comparison allows (it is not stable).        *)
Sort ==
    /\ pc = "count" /\ first # NULL
    /\ \E order \in SetToSeqs(Range(Walk(first, next))) :
          /\ \A j \in 1 .. Len(order) - 1 : PeerCmp(order[j], order[j + 1]) <= 0
          /\ peers' = order /\ first' = order[1]
    /\ pc' = "relink" /\ i' = 1
    /\ UNCHANGED <<dev, next, at, out>>

Relink ==
    /\ pc = "relink" /\ i < Len(peers)
    /\ next' = [next EXCEPT ![peers[i]] = peers[i + 1]]
    /\ i' = i + 1
    /\ UNCHANGED <<dev, first, peers, pc, at, out>>

MutTerminate ==
    /\ pc = "relink" /\ i = Len(peers)
    /\ pc' = "print" /\ at' = first
    /\ UNCHANGED <<dev, first, next, peers, i, out>>

Terminate ==
    /\ pc = "relink" /\ i = Len(peers)
    /\ next' = [next EXCEPT ![peers[i]] = NULL]
    /\ pc' = "print" /\ at' = first
    /\ UNCHANGED <<dev, first, peers, i, out>>

(***************************************************************************)
(* pretty_time: years, days, hours, minutes and seconds that are not zero  *)
(***************************************************************************)
Units == <<31536000, 86400, 3600, 60, 1>>

PrettyTime(left) ==
    [u \in {v \in 1 .. 5 : (IF v = 1 THEN left ELSE left % Units[v - 1]) \div Units[v] # 0} |->
        (IF u = 1 THEN left ELSE left % Units[u - 1]) \div Units[u]]

Ago(t) == CASE t = Now -> [say |-> "now", parts |-> <<>>]
            [] t > Now -> [say |-> "backward", parts |-> <<>>]
            [] OTHER -> [say |-> "ago", parts |-> PrettyTime(Now - t)]

(* pretty_print, one peer                                                  *)
PrintPeer ==
    /\ pc = "print" /\ at # NULL /\ Len(out) <= Cardinality(Peers)
    /\ out' = Append(out, [peer |-> at, ago |-> IF Time(at)[1] = 0 THEN NULL ELSE Ago(Time(at)[1])])
    /\ at' = next[at]
    /\ UNCHANGED <<dev, first, next, peers, pc, i>>

PrintEnds ==
    /\ pc = "print" /\ at = NULL
    /\ pc' = "done"
    /\ UNCHANGED <<dev, first, next, peers, i, at, out>>

Next == Unsorted \/ Sort \/ Relink \/ Terminate \/ PrintPeer \/ PrintEnds

Spec == Init /\ [][Next]_vars

(***************************************************************************)
(* The lines for scripts, of the peers in the order of the list            *)
(***************************************************************************)
Listed == Walk(first, next)

MaybeKey(k) == IF k = NULL THEN NONE ELSE k
OrOff(n) == IF n = 0 THEN OFF ELSE n
OrNone(s) == IF s = NULL THEN NONE ELSE s
List(s) == IF s = <<>> THEN NONE ELSE s

DeviceLine(d) == <<MaybeKey(d.key), MaybeKey(d.pub), d.port, OrOff(d.fwmark)>>

PeerLine(p) == LET q == dev.peer[p]
               IN  <<p, MaybeKey(q.psk), OrNone(q.endpoint), List(q.ips), q.handshake[1], q.rx, q.tx,
                     OrOff(q.keepalive)>>

Prefix(with) == IF with THEN <<dev.name>> ELSE <<>>

DumpPrint(with) ==
    <<Prefix(with) \o DeviceLine(dev)>>
    \o [j \in DOMAIN Listed |-> Prefix(with) \o PeerLine(Listed[j])]

EachPeer(with, F(_)) == [j \in DOMAIN Listed |-> Prefix(with) \o F(Listed[j])]

UglyPrint(param, with) ==
    CASE param = "public-key" -> <<Prefix(with) \o <<MaybeKey(dev.pub)>>>>
      [] param = "private-key" -> <<Prefix(with) \o <<MaybeKey(dev.key)>>>>
      [] param = "listen-port" -> <<Prefix(with) \o <<dev.port>>>>
      [] param = "fwmark" -> <<Prefix(with) \o <<OrOff(dev.fwmark)>>>>
      [] param = "endpoints" -> EachPeer(with, LAMBDA p : <<p, OrNone(dev.peer[p].endpoint)>>)
      [] param = "allowed-ips" -> EachPeer(with, LAMBDA p : <<p, List(dev.peer[p].ips)>>)
      [] param = "latest-handshakes" -> EachPeer(with, LAMBDA p : <<p, Time(p)[1]>>)
      [] param = "transfer" -> EachPeer(with, LAMBDA p : <<p, dev.peer[p].rx, dev.peer[p].tx>>)
      [] param = "persistent-keepalive" -> EachPeer(with, LAMBDA p : <<p, OrOff(dev.peer[p].keepalive)>>)
      [] param = "preshared-keys" -> EachPeer(with, LAMBDA p : <<p, MaybeKey(dev.peer[p].psk)>>)
      [] param = "peers" -> EachPeer(with, LAMBDA p : <<p>>)
      [] param = "dump" -> DumpPrint(with)

(***************************************************************************)
(* Properties                                                              *)
(***************************************************************************)
(* pretty_print prints every peer exactly once, sorted or not: relinking   *)
(* the list through the array loses no peer and leaves no cycle.           *)
PrintsEveryPeerOnce ==
    /\ Len(out) <= Cardinality(dev.peers)
    /\ pc = "done" => {out[j].peer : j \in DOMAIN out} = dev.peers

(* After sorting a peer never precedes one with a later handshake, and     *)
(* the peers that never had one come last (peer_cmp), so that the order of *)
(* any two peers, not only of neighbours, is that of the comparison.       *)
LatestFirst ==
    peers # <<>> /\ pc = "done" =>
        \A j, k \in DOMAIN out : j < k =>
            LET a == Time(out[j].peer)  b == Time(out[k].peer)
            IN  b = <<0, 0>> \/ (a # <<0, 0>> /\ (a[1] > b[1] \/ (a[1] = b[1] /\ a[2] >= b[2])))

(* The parts of a time printed add up to it, none is zero, and none is so  *)
(* large that the next unit should have taken it (pretty_time).            *)
TimesAddUp ==
    \A j \in DOMAIN out : out[j].ago # NULL /\ out[j].ago.say = "ago" =>
        LET parts == out[j].ago.parts
            part(u) == IF u \in DOMAIN parts THEN parts[u] ELSE 0
        IN  /\ FoldLeft(LAMBDA acc, u : acc + part(u) * Units[u], 0, <<1, 2, 3, 4, 5>>) = Now - Time(out[j].peer)[1]
            /\ \A u \in DOMAIN parts : parts[u] # 0
            /\ part(2) < 365 /\ part(3) < 24 /\ part(4) < 60 /\ part(5) < 60

(* The columns of dump_print, after the interface, that a parameter prints. *)
PeerColumns == {<<"endpoints", <<1, 3>>>>, <<"allowed-ips", <<1, 4>>>>, <<"latest-handshakes", <<1, 5>>>>,
                <<"transfer", <<1, 6, 7>>>>, <<"persistent-keepalive", <<1, 8>>>>, <<"preshared-keys", <<1, 2>>>>,
                <<"peers", <<1>>>>}
DeviceColumns == {<<"private-key", <<1>>>>, <<"public-key", <<2>>>>, <<"listen-port", <<3>>>>, <<"fwmark", <<4>>>>}

(* For every parameter ugly_print prints, with or without the interface,   *)
(* the columns dump_print prints under `dump', for the same peers in the   *)
(* order the kernel gave them.                                             *)
UglyAgreesWithDump ==
    pc = "count" =>
        \A with \in BOOLEAN :
            LET dump == UglyPrint("dump", with)
                Cut(line, cols) == Prefix(with) \o [m \in DOMAIN cols |-> line[Len(Prefix(with)) + cols[m]]]
            IN  /\ \A c \in DeviceColumns : UglyPrint(c[1], with) = <<Cut(dump[1], c[2])>>
                /\ \A c \in PeerColumns :
                      UglyPrint(c[1], with) = [j \in 1 .. Len(dump) - 1 |-> Cut(dump[j + 1], c[2])]
============================================================================
