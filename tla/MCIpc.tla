------------------------------- MODULE MCIpc -------------------------------
(***************************************************************************)
(* How a device is read and set: by netlink on Linux, by the library that  *)
(* wraps it, by the text protocol of a userspace daemon, and by the        *)
(* control calls of OpenBSD, FreeBSD and Windows.  One call is made;       *)
(* `part' says through which interface, and the variables of the others    *)
(* are NULL.  Setting by netlink and the adapters of Windows are extended, *)
(* the others instances.                                                   *)
(***************************************************************************)
EXTENDS WindowsInterfaces, NetlinkSet

CONSTANTS Bad, b1

(* netlink set: a buffer of a few hundred bytes, and every list of up to three
   peers of five shapes, two of which need more than one message.          *)
Ip(a, family, flags) == [ip |-> a, family |-> family, flags |-> flags]
SetPeer(pub, flags, endpoint, ips) ==
  [pub |-> pub, flags |-> flags, psk |-> 1, endpoint |-> endpoint, keepalive |-> 1, ips |-> ips]
SetShapes == {
  SetPeer("A", {"REPLACE_ALLOWEDIPS", "HAS_PRESHARED_KEY", "HAS_PERSISTENT_KEEPALIVE_INTERVAL"}, 4,
          <<Ip(1, 4, {}), Ip(2, 4, {}), Ip(3, 6, {}), Ip(4, 6, {})>>),
  SetPeer("B", {"REPLACE_ALLOWEDIPS"}, 6, <<Ip(3, 6, {}), Ip(1, 4, {}), Ip(2, 4, {}), Ip(4, 6, {})>>),
  SetPeer("B", {}, 0, <<Ip(1, 4, {}), Ip(4, 6, {"REMOVE_ME"}), Ip(2, 4, {"REMOVE_ME"})>>),
  SetPeer("A", {"REMOVE_ME"}, 0, <<Ip(1, 4, {})>>),
  SetPeer("A", {"HAS_PRESHARED_KEY"}, 0, <<>>)}
SetDevices ==
  {[flags |-> f, key |-> 1, port |-> 1, fwmark |-> 1, peers |-> ps] :
     f \in {{}, {"REPLACE_PEERS", "HAS_PRIVATE_KEY", "HAS_LISTEN_PORT", "HAS_FWMARK"}},
     ps \in UNION {[1 .. m -> SetShapes] : m \in 0 .. 3}}
SetKernels == {
  [key |-> 0, port |-> 0, fwmark |-> 0, peers |-> [q \in {} |-> 0], owner |-> [a \in 1 .. 4 |-> NoPeer]],
  [key |-> 0, port |-> 0, fwmark |-> 0,
   peers |-> [q \in {"A", "B"} |-> [psk |-> 0, endpoint |-> 0, keepalive |-> 0]],
   owner |-> <<"A", "B", "A", NoPeer>>]}

(* netlink get: a device whose largest peer needs three dump messages. *)
DumpPeer(pub, psk, ips) == [pub |-> pub, psk |-> psk, ips |-> ips]
DumpContents == {
  <<>>,
  <<DumpPeer("A", 1, <<1, 2, 3, 4>>)>>,
  <<DumpPeer("A", 0, <<2>>), DumpPeer("B", 1, <<1, 3>>)>>,
  <<DumpPeer("B", 1, <<>>), DumpPeer("A", 0, <<>>), DumpPeer("C", 0, <<4, 5>>)>>,
  <<DumpPeer("C", 1, <<5, 4, 3, 2, 1>>), DumpPeer("B", 0, <<>>)>>}

(* Attributes: nests two deep, a U16 of right and wrong lengths, and a string,
   which is put with its terminator; a received buffer has every length that could
   mislead a walk, and strings with and without a terminator.  The words of the
   headers do not matter.                                                  *)
AttrValues == {[type |-> 1, len |-> 2, val |-> 7], [type |-> 1, len |-> 4, val |-> 8],
               [type |-> 2, len |-> 4, val |-> 9]}
AttrWord(l, t) == [len |-> l, type |-> t]
AttrBuffers ==
  {[w \in 0 .. 8 |-> IF w < 5 THEN AttrWord(0, 0) ELSE f[w]] :
     f \in [5 .. 8 -> {AttrWord(0, 1), AttrWord(4, 0), AttrWord(6, 1), AttrWord(9, 2), AttrWord(16, 0)}]}

(* The library: two interfaces; a dump of one peer and a configuration of two
   take several messages, also for a peer whose allowed IPs are replaced or who is
   removed.  With memory short, a peer of three parts.                     *)
LibraryPeer(pub, ips) == [pub |-> pub, ips |-> ips]
LibraryContents == {<<>>, <<LibraryPeer(1, <<1, 2, 3>>), LibraryPeer(2, <<>>)>>, <<LibraryPeer(2, <<4>>)>>}
ShortContents == {<<>>, <<LibraryPeer(1, <<1, 2, 3, 4, 5>>)>>, <<LibraryPeer(2, <<4>>)>>}
LibrarySets(pub, ips, replace, remove) == [pub |-> pub, ips |-> ips, replace |-> replace, remove |-> remove]
LibraryConfigs ==
  {[replace |-> r, peers |-> ps] :
     r \in BOOLEAN,
     ps \in {<<>>, <<LibrarySets(1, <<5>>, FALSE, FALSE), LibrarySets(3, <<6, 7, 8>>, TRUE, FALSE)>>,
             <<LibrarySets(1, <<6, 7, 8>>, TRUE, FALSE), LibrarySets(2, <<4, 5>>, FALSE, TRUE)>>,
             <<LibrarySets(3, <<>>, FALSE, FALSE), LibrarySets(4, <<>>, FALSE, FALSE),
               LibrarySets(5, <<>>, FALSE, FALSE)>>}}

(* The daemon: devices of up to two peers set and read back, and answers that go
   wrong in each way the loop of userspace_get_device distinguishes.       *)
UapiPeer(pub, flags, endpoint, ips) ==
  [pub |-> pub, flags |-> flags, psk |-> 2, endpoint |-> endpoint, keepalive |-> 25,
   ips |-> [m \in DOMAIN ips |-> Ip(ips[m][1], 4, ips[m][2])]]
UapiShapes == {
  UapiPeer(1, {"REPLACE_ALLOWEDIPS", "HAS_PRESHARED_KEY", "HAS_PERSISTENT_KEEPALIVE_INTERVAL"}, 4,
           <<<<1, {}>>, <<2, {}>>>>),
  UapiPeer(2, {}, 0, <<<<1, {}>>, <<2, {"REMOVE_ME"}>>>>),
  UapiPeer(1, {"REPLACE_ALLOWEDIPS"}, 6, <<>>),
  UapiPeer(1, {"REMOVE_ME"}, 0, <<>>)}
UapiDevices ==
  {[flags |-> f, key |-> 1, port |-> 7, fwmark |-> 3, peers |-> ps] :
     f \in {{"HAS_PRIVATE_KEY"}, {"REPLACE_PEERS", "HAS_LISTEN_PORT", "HAS_FWMARK"}},
     ps \in UNION {[1 .. m -> UapiShapes] : m \in 0 .. 2}}
UapiAttrs(psk, ep, ka) == [psk |-> psk, endpoint |-> ep, keepalive |-> ka]
UapiDaemons == {
  [key |-> 0, port |-> 0, fwmark |-> 0, peers |-> [q \in {} |-> 0], owner |-> <<NoPeer, NoPeer>>],
  [key |-> 5, port |-> 9, fwmark |-> 0,
   peers |-> [q \in {1, 2} |-> IF q = 1 THEN UapiAttrs(0, 6, 0) ELSE UapiAttrs(8, 0, 25)],
   owner |-> <<2, 1>>],
  [key |-> 0, port |-> 0, fwmark |-> 3, peers |-> [q \in {1} |-> UapiAttrs(0, 4, 0)],
   owner |-> <<1, NoPeer>>]}
Line(k, v) == [k |-> k, v |-> v]
Blank == Line("", 0)
Fine == <<Line("errno", 0), Blank>>
IpLine(mask) == Line("allowed_ip", [ip |-> 1, mask |-> mask, remove |-> FALSE])
UapiReplies == {
  <<Line("errno", 5), Blank>>, <<Line("errno", Bad), Blank>>, <<Blank>>,
  <<Line("public_key", 1), Blank>>,
  <<Line("private_key", Bad)>> \o Fine, <<Line("public_key", Bad)>> \o Fine,
  <<Line("public_key", 1), IpLine(Bad)>> \o Fine,
  <<Line("public_key", 1), IpLine(0), Line("errno", 5), Blank>>}

(* The control calls: devices with up to two peers and two allowed IPs.  The
   driver of Windows has no mark and is not asked for one.                 *)
Aip(a, f) == [ip |-> a, flags |-> f]
IoAttrs(s) == [a \in s |-> IF a = "ENDPOINT" THEN "v4" ELSE "x"]
IoPeer(k, s, m, aips) ==
  [attrs |-> [a \in s \cup {"PUBLIC_KEY"} |-> IF a = "PUBLIC_KEY" THEN k ELSE IoAttrs(s)[a]],
   marks |-> m, aips |-> aips]
Aips == {<<>>, <<Aip("a", {})>>, <<Aip("a", {}), Aip("b", {})>>}
IoKernels ==
  {[attrs |-> IoAttrs({"PRIVATE_KEY", "PUBLIC_KEY"}), marks |-> {}, peers |-> ps] :
    ps \in {<<>>} \cup {<<IoPeer("p", {"ENDPOINT"}, {}, s)>> : s \in Aips}
           \cup {<<IoPeer("p", {}, {}, s), IoPeer("q", {"PRESHARED_KEY"}, {}, t)>> : s \in Aips, t \in Aips}}
IoRequests ==
  {[attrs |-> IoAttrs(at), marks |-> m, peers |-> ps] :
    at \in {{}, {"PRIVATE_KEY", "LISTEN_PORT", "FWMARK"}}, m \in {{}, {"REPLACE_PEERS"}},
    ps \in {<<>>} \cup {<<IoPeer("p", {"KEEPALIVE"}, {"REPLACE_ALLOWEDIPS"}, s)>> : s \in Aips}
           \cup {<<IoPeer("p", {}, {"REMOVE_ME"}, s), IoPeer("q", {"ENDPOINT"}, {}, t)>> :
                   s \in Aips, t \in Aips \cup {<<Aip("a", {}), Aip("b", {"REMOVE_ME"})>>}}}
UnmarkedRequests ==
  {r \in IoRequests : "FWMARK" \notin DOMAIN r.attrs}
  \cup {[r EXCEPT !.attrs = IoAttrs({"PRIVATE_KEY", "LISTEN_PORT"})] : r \in IoRequests}

(* Adapters of Windows have two names, one of which is made again as another
   instance.                                                               *)
AdapterNames == [x \in Instances |-> IF x = b1 THEN "b" ELSE "a"]

VARIABLES
  part,
  nd_pc, nd_device, nd_sock, nd_batch, nd_asked, nd_errno, nd_ret, nd_kpeers, nd_dump, nd_writes,
  nd_seen,
  at_phase, at_buf, at_nlmsg_len, at_open, at_log, at_built, at_frames, at_visited, at_lastRead,
  em_op, em_name, em_config, em_pc, em_ret, em_errno, em_sock, em_batch, em_asked, em_peer,
  em_allowedip, em_device, em_list, em_ifaces, em_dump, em_writes, em_seen,
  ua_op, ua_pc, ua_dev, ua_out, ua_in, ua_eof, ua_peer, ua_ret, ua_held, ua_daemon, ua_current,
  ua_before,
  ob_op, ob_asked, ob_kern, ob_held, ob_taken, ob_answer, ob_pc, ob_size, ob_room, ob_buf, ob_off,
  ob_n, ob_dev, ob_far, ob_heap, ob_changes,
  fb_op, fb_asked, fb_kern, fb_held, fb_taken, fb_answer, fb_pc, fb_size, fb_data, fb_i, fb_j,
  fb_dev, fb_peer, fb_live, fb_slots, fb_packed, fb_twice, fb_owned, fb_wgd, fb_changes,
  wi_op, wi_asked, wi_kern, wi_held, wi_taken, wi_answer, wi_pc, wi_len, wi_room, wi_buf, wi_off,
  wi_n, wi_dev, wi_far, wi_heap, wi_changes

(* Reading by netlink and by the library is run a second time with allocations
   that fail.                                                              *)
Dump == INSTANCE NetlinkDump WITH
  NULL <- NULL, Contents <- DumpContents, Room <- 3, MaxWrites <- 2, OutOfMemory <- FALSE,
  pc <- nd_pc, device <- nd_device, sock <- nd_sock, batch <- nd_batch, asked <- nd_asked,
  errno <- nd_errno, ret <- nd_ret, kpeers <- nd_kpeers, dump <- nd_dump, writes <- nd_writes,
  seen <- nd_seen

ShortDump == INSTANCE NetlinkDump WITH
  NULL <- NULL, Contents <- DumpContents, Room <- 3, MaxWrites <- 1, OutOfMemory <- TRUE,
  pc <- nd_pc, device <- nd_device, sock <- nd_sock, batch <- nd_batch, asked <- nd_asked,
  errno <- nd_errno, ret <- nd_ret, kpeers <- nd_kpeers, dump <- nd_dump, writes <- nd_writes,
  seen <- nd_seen

Attributes == INSTANCE MnlAttr WITH
  BufLen <- 36, Nest <- 0, Str <- 2, NoNul <- {AttrWord(16, 0), AttrWord(6, 1)}, MaxOpen <- 2, TypeLen <- [t \in 0 .. 2 |-> IF t = 1 THEN 2 ELSE 0],
  Attrs <- AttrValues, Buffers <- AttrBuffers, phase <- at_phase, buf <- at_buf,
  nlmsg_len <- at_nlmsg_len, open <- at_open, log <- at_log, built <- at_built,
  frames <- at_frames, visited <- at_visited, lastRead <- at_lastRead

Lib == INSTANCE EmbeddableWg WITH
  NULL <- NULL, Names <- {1, 2}, Contents <- LibraryContents, Configs <- LibraryConfigs,
  Ops <- {"add", "del", "list", "set", "get"}, OutOfMemory <- FALSE, Room <- 2, MaxWrites <- 1,
  op <- em_op, name <- em_name, config <- em_config, pc <- em_pc, ret <- em_ret, errno <- em_errno,
  sock <- em_sock, batch <- em_batch, asked <- em_asked, peer <- em_peer,
  allowedip <- em_allowedip, device <- em_device, list <- em_list, ifaces <- em_ifaces,
  dump <- em_dump, writes <- em_writes, seen <- em_seen

ShortLib == INSTANCE EmbeddableWg WITH
  NULL <- NULL, Names <- {1, 2}, Contents <- ShortContents, Configs <- LibraryConfigs,
  Ops <- {"get", "list"}, OutOfMemory <- TRUE, Room <- 2, MaxWrites <- 1, op <- em_op,
  name <- em_name, config <- em_config, pc <- em_pc, ret <- em_ret, errno <- em_errno,
  sock <- em_sock, batch <- em_batch, asked <- em_asked, peer <- em_peer,
  allowedip <- em_allowedip, device <- em_device, list <- em_list, ifaces <- em_ifaces,
  dump <- em_dump, writes <- em_writes, seen <- em_seen

Uapi == INSTANCE Uapi WITH
  NoPeer <- NoPeer, Bad <- Bad, Devices <- UapiDevices, Daemons <- UapiDaemons,
  Replies <- UapiReplies, Unresolvable <- {4}, op <- ua_op, pc <- ua_pc, dev <- ua_dev,
  out <- ua_out, in <- ua_in, eof <- ua_eof, peer <- ua_peer, ret <- ua_ret, held <- ua_held,
  daemon <- ua_daemon, current <- ua_current, before <- ua_before

OpenBsd == INSTANCE OpenBsdIpc WITH
  NULL <- NULL, Kernels <- IoKernels, Requests <- IoRequests, IfaceLen <- 3, PeerLen <- 4,
  AipLen <- 2, MaxChanges <- 2, op <- ob_op, asked <- ob_asked, kern <- ob_kern, held <- ob_held,
  taken <- ob_taken, answer <- ob_answer, pc <- ob_pc, size <- ob_size, room <- ob_room,
  buf <- ob_buf, off <- ob_off, n <- ob_n, dev <- ob_dev, far <- ob_far, heap <- ob_heap,
  changes <- ob_changes

FreeBsd == INSTANCE FreeBsdIpc WITH
  NULL <- NULL, Kernels <- IoKernels, Requests <- IoRequests, MaxChanges <- 1, op <- fb_op,
  asked <- fb_asked, kern <- fb_kern, held <- fb_held, taken <- fb_taken, answer <- fb_answer,
  place <- fb_pc, size <- fb_size, data <- fb_data, peer_i <- fb_i, aip_j <- fb_j, dev <- fb_dev,
  peer <- fb_peer, live <- fb_live, slots <- fb_slots, packed <- fb_packed, twice <- fb_twice,
  owned <- fb_owned, wgd <- fb_wgd, changes <- fb_changes

Windows == INSTANCE WindowsIpc WITH
  NULL <- NULL, Kernels <- IoKernels, Requests <- UnmarkedRequests, DwordMax <- 18, IfaceLen <- 3,
  PeerLen <- 4, AipLen <- 2, MaxChanges <- 2, op <- wi_op, asked <- wi_asked, kern <- wi_kern,
  held <- wi_held, taken <- wi_taken, answer <- wi_answer, pc <- wi_pc, len <- wi_len,
  room <- wi_room, buf <- wi_buf, off <- wi_off, n <- wi_n, dev <- wi_dev, far <- wi_far,
  heap <- wi_heap, changes <- wi_changes

(* What the proofs assume of the components. *)
ASSUME IpcAssumption == DevicesListed /\ FreeBsd!Described(IoRequests) /\ InstancesApart

SetOff ==
  /\ dev = NULL /\ label = NULL /\ peer = NULL /\ allowedip = NULL /\ used = NULL /\ msg = NULL
  /\ ack = NULL /\ ret = NULL /\ kernel = NULL /\ before = NULL /\ headed = NULL /\ delivered = NULL

nd_vars == <<
  nd_pc, nd_device, nd_sock, nd_batch, nd_asked, nd_errno, nd_ret, nd_kpeers, nd_dump, nd_writes,
  nd_seen>>

DumpOff ==
  /\ nd_pc = NULL /\ nd_device = NULL /\ nd_sock = NULL /\ nd_batch = NULL /\ nd_asked = NULL
  /\ nd_errno = NULL /\ nd_ret = NULL /\ nd_kpeers = NULL /\ nd_dump = NULL /\ nd_writes = NULL
  /\ nd_seen = NULL

at_vars == <<
  at_phase, at_buf, at_nlmsg_len, at_open, at_log, at_built, at_frames, at_visited, at_lastRead>>

AttrOff ==
  /\ at_phase = NULL /\ at_buf = NULL /\ at_nlmsg_len = NULL /\ at_open = NULL /\ at_log = NULL
  /\ at_built = NULL /\ at_frames = NULL /\ at_visited = NULL /\ at_lastRead = NULL

em_vars == <<
  em_op, em_name, em_config, em_pc, em_ret, em_errno, em_sock, em_batch, em_asked, em_peer,
  em_allowedip, em_device, em_list, em_ifaces, em_dump, em_writes, em_seen>>

LibOff ==
  /\ em_op = NULL /\ em_name = NULL /\ em_config = NULL /\ em_pc = NULL /\ em_ret = NULL
  /\ em_errno = NULL /\ em_sock = NULL /\ em_batch = NULL /\ em_asked = NULL /\ em_peer = NULL
  /\ em_allowedip = NULL /\ em_device = NULL /\ em_list = NULL /\ em_ifaces = NULL
  /\ em_dump = NULL /\ em_writes = NULL /\ em_seen = NULL

ua_vars == <<
  ua_op, ua_pc, ua_dev, ua_out, ua_in, ua_eof, ua_peer, ua_ret, ua_held, ua_daemon, ua_current,
  ua_before>>

UapiOff ==
  /\ ua_op = NULL /\ ua_pc = NULL /\ ua_dev = NULL /\ ua_out = NULL /\ ua_in = NULL
  /\ ua_eof = NULL /\ ua_peer = NULL /\ ua_ret = NULL /\ ua_held = NULL /\ ua_daemon = NULL
  /\ ua_current = NULL /\ ua_before = NULL

ob_vars == <<
  ob_op, ob_asked, ob_kern, ob_held, ob_taken, ob_answer, ob_pc, ob_size, ob_room, ob_buf, ob_off,
  ob_n, ob_dev, ob_far, ob_heap, ob_changes>>

OpenBsdOff ==
  /\ ob_op = NULL /\ ob_asked = NULL /\ ob_kern = NULL /\ ob_held = NULL /\ ob_taken = NULL
  /\ ob_answer = NULL /\ ob_pc = NULL /\ ob_size = NULL /\ ob_room = NULL /\ ob_buf = NULL
  /\ ob_off = NULL /\ ob_n = NULL /\ ob_dev = NULL /\ ob_far = NULL
  /\ ob_heap = NULL /\ ob_changes = NULL

fb_vars == <<
  fb_op, fb_asked, fb_kern, fb_held, fb_taken, fb_answer, fb_pc, fb_size, fb_data, fb_i, fb_j,
  fb_dev, fb_peer, fb_live, fb_slots, fb_packed, fb_twice, fb_owned, fb_wgd, fb_changes>>

FreeBsdOff ==
  /\ fb_op = NULL /\ fb_asked = NULL /\ fb_kern = NULL /\ fb_held = NULL /\ fb_taken = NULL
  /\ fb_answer = NULL /\ fb_pc = NULL /\ fb_size = NULL /\ fb_data = NULL /\ fb_i = NULL
  /\ fb_j = NULL /\ fb_dev = NULL /\ fb_peer = NULL /\ fb_live = NULL /\ fb_slots = NULL
  /\ fb_packed = NULL /\ fb_twice = NULL /\ fb_owned = NULL /\ fb_wgd = NULL
  /\ fb_changes = NULL

wi_vars == <<
  wi_op, wi_asked, wi_kern, wi_held, wi_taken, wi_answer, wi_pc, wi_len, wi_room, wi_buf, wi_off,
  wi_n, wi_dev, wi_far, wi_heap, wi_changes>>

WindowsOff ==
  /\ wi_op = NULL /\ wi_asked = NULL /\ wi_kern = NULL /\ wi_held = NULL /\ wi_taken = NULL
  /\ wi_answer = NULL /\ wi_pc = NULL /\ wi_len = NULL /\ wi_room = NULL /\ wi_buf = NULL
  /\ wi_off = NULL /\ wi_n = NULL /\ wi_dev = NULL /\ wi_far = NULL
  /\ wi_heap = NULL /\ wi_changes = NULL

AdaptersOff ==
  /\ present = NULL /\ stayed = NULL /\ pc = NULL /\ todo = NULL /\ list = NULL /\ cache = NULL
  /\ cached = NULL /\ iface = NULL /\ handle = NULL /\ missed = FALSE /\ changes = NULL

-----------------------------------------------------------------------------
Parts == {"netlink set", "netlink get", "netlink get, short of memory", "attributes", "library", "library, short of memory", "userspace", "openbsd", "freebsd", "windows", "windows adapters"}

IpcInit ==
  /\ part \in Parts
  /\ IF part = "netlink set" THEN NInit ELSE SetOff
  /\ IF part = "netlink get" THEN Dump!Init ELSE IF part = "netlink get, short of memory" THEN ShortDump!Init ELSE DumpOff
  /\ IF part = "attributes" THEN Attributes!Init ELSE AttrOff
  /\ IF part = "library" THEN Lib!Init ELSE IF part = "library, short of memory" THEN ShortLib!Init ELSE LibOff
  /\ IF part = "userspace" THEN Uapi!Init ELSE UapiOff
  /\ IF part = "openbsd" THEN OpenBsd!Init ELSE OpenBsdOff
  /\ IF part = "freebsd" THEN FreeBsd!FInit ELSE FreeBsdOff
  /\ IF part = "windows" THEN Windows!Init ELSE WindowsOff
  /\ IF part = "windows adapters" THEN Init ELSE AdaptersOff

Others(p) ==
  /\ UNCHANGED part
  /\ IF p # "netlink set" THEN UNCHANGED nvars ELSE TRUE
  /\ IF p \notin {"netlink get", "netlink get, short of memory"} THEN UNCHANGED nd_vars ELSE TRUE
  /\ IF p # "attributes" THEN UNCHANGED at_vars ELSE TRUE
  /\ IF p \notin {"library", "library, short of memory"} THEN UNCHANGED em_vars ELSE TRUE
  /\ IF p # "userspace" THEN UNCHANGED ua_vars ELSE TRUE
  /\ IF p # "openbsd" THEN UNCHANGED ob_vars ELSE TRUE
  /\ IF p # "freebsd" THEN UNCHANGED fb_vars ELSE TRUE
  /\ IF p # "windows" THEN UNCHANGED wi_vars ELSE TRUE
  /\ IF p # "windows adapters" THEN UNCHANGED vars ELSE TRUE

IpcNext ==
  \/ part = "netlink set" /\ NNext /\ Others("netlink set")
  \/ part = "netlink get" /\ Dump!Next /\ Others("netlink get")
  \/ part = "netlink get, short of memory" /\ ShortDump!Next /\ Others("netlink get, short of memory")
  \/ part = "attributes" /\ Attributes!Next /\ Others("attributes")
  \/ part = "library" /\ Lib!Next /\ Others("library")
  \/ part = "library, short of memory" /\ ShortLib!Next /\ Others("library, short of memory")
  \/ part = "userspace" /\ Uapi!Next /\ Others("userspace")
  \/ part = "openbsd" /\ OpenBsd!Next /\ Others("openbsd")
  \/ part = "freebsd" /\ FreeBsd!FNext /\ Others("freebsd")
  \/ part = "windows" /\ Windows!Next /\ Others("windows")
  \/ part = "windows adapters" /\ Next /\ Others("windows adapters")

ipcVars == <<part, nvars, nd_vars, at_vars, em_vars, ua_vars, ob_vars, fb_vars, wi_vars, vars>>

(* Fairness: the calling process runs on, and the kernel answers a request it was
   sent.  A caller may stop building a message, but a parse runs on; what other
   processes do is not fair, and bounded.                                  *)
Runs ==
  \/ part = "netlink set" /\ NNext /\ Others("netlink set")
  \/ part = "netlink get" /\ Dump!Call /\ Others("netlink get")
  \/ part = "netlink get, short of memory" /\ ShortDump!Call /\ Others("netlink get, short of memory")
  \/ part = "attributes" /\ Attributes!Parse /\ Others("attributes")
  \/ part = "library" /\ Lib!Client /\ Others("library")
  \/ part = "userspace" /\ Uapi!Wg /\ Others("userspace")
  \/ part = "openbsd" /\ (OpenBsd!Get \/ OpenBsd!Set) /\ Others("openbsd")
  \/ part = "windows" /\ (Windows!Get \/ Windows!Set) /\ Others("windows")

IpcSpec == IpcInit /\ [][IpcNext]_ipcVars /\ WF_ipcVars(Runs)

-----------------------------------------------------------------------------
(* What is read is what the interface had at one moment of the call: a device
   that is rewritten while its fragments arrive is never returned as a mixture,
   fragments of one peer become one peer again, the pointers through which they
   are joined are there, and an answer that stops early is not taken for the
   whole (kernel_get_device, wg_get_device, userspace_get_device).  A list,
   complete or cut short by a change, names only interfaces that existed during
   the call, each of them once; one that nothing changed meanwhile is complete,
   and changes never make it fail (wg_list_device_names).                  *)
ReadsTheTruth ==
  /\ part = "netlink get" => Dump!ResultIsASnapshot /\ Dump!NoNullDereference
  /\ part = "library" => Lib!GetIsASnapshot /\ Lib!ListIsHonest /\ Lib!ListSurvivesChanges
  /\ part = "library, short of memory" => ShortLib!ListIsHonest
  /\ part = "userspace" => Uapi!GetIsWhole

(* A call of the library, or to a userspace daemon, that succeeds has made of the
   device what applying the whole configuration in one step would have made,
   however it was cut into messages or lines (wg_set_device,
   userspace_set_device).  And wg_add_device succeeds only for an interface that
   it made itself, wg_del_device only for one that was there.              *)
SetIsWhole ==
  /\ part = "library" => Lib!SetIsWhole /\ Lib!AddIsExclusive
  /\ part = "userspace" => Uapi!SetIsWhole

(* Nothing is read or written beyond its buffer: no message outgrows the one it
   is built in, no walk over attributes leaves the message, whatever it holds, if
   the strings in it are terminated, and no structure of OpenBSD's and Windows'
   packed devices is beyond the size that was asked for before the device was
   read.  And what was put into a message is what the callbacks read from it,
   whatever the buffer held before and whatever was cancelled
   (mnl_attr_put_check, mnl_attr_ok, mnl_attr_get_str; the loops around SIOCGWG and
   WG_IOCTL_GET; the checks against DWORD_MAX).                            *)
BuffersHold ==
  /\ part = "netlink set" => MessageFits
  /\ part = "attributes" => Attributes!InsideBuffer /\ Attributes!ReadsWhatWasPut
  /\ part = "openbsd" => OpenBsd!StaysInBuffer
  /\ part = "windows" => Windows!StaysInBuffer

(* What a call gives back.  By netlink, by the library and with a daemon, the
   socket or stream is closed on every way out, a failed call leaves no device or
   list behind, and a call that starts over does so with nothing left open, also
   when allocations fail (the labels out, err and cleanup).  With the control
   calls, every nvlist is destroyed once, and buffers are freed and handles closed
   but for four ways out, each named in the GivesBack of its module: a device that
   is lost half built (all three), a buffer lost by realloc (OpenBSD), a handle
   that stays open (Windows) and packed data that is never freed (FreeBSD).  *)
NothingLeaks ==
  /\ part = "netlink get" => Dump!NothingLeaks
  /\ part = "netlink get, short of memory" => ShortDump!NothingLeaks
  /\ part = "library" => Lib!NothingLeaks
  /\ part = "library, short of memory" => ShortLib!NothingLeaks
  /\ part = "userspace" => Uapi!HoldsNothing
  /\ part = "openbsd" => OpenBsd!GivesBack
  /\ part = "freebsd" => FreeBsd!ListsDestroyedOnce /\ FreeBsd!GivesBack
  /\ part = "windows" => Windows!GivesBack

(* The control calls of the three systems implement the one promise of DeviceIo,
   while others change the device between the calls and any step may fail: what
   is returned is the device of one moment, what is set is taken whole or not at
   all, and an unsupported request is refused before the kernel sees any of it
   (kernel_get_device, kernel_set_device of ipc-openbsd.h, ipc-freebsd.h and
   ipc-windows.h).                                                         *)
KeepsPromise ==
  [][/\ part = "openbsd" => OpenBsd!KeepsPromise
     /\ part = "freebsd" => FreeBsd!KeepsPromise
     /\ part = "windows" => Windows!KeepsPromise]_ipcVars

(* A call, or a parse, that has begun and has not come back.               *)
Pending ==
  \/ part = "netlink set" /\ label # "done"
  \/ part \in {"netlink get", "netlink get, short of memory"} /\ nd_pc # "done"
  \/ part = "attributes" /\ at_phase = "parse"
  \/ part = "library" /\ em_op # "get" /\ em_pc # "done"
  \/ part = "userspace" /\ ua_pc \notin {"done", "killed"}
  \/ part = "openbsd" /\ ob_answer = NULL
  \/ part = "windows" /\ wi_answer = NULL

(* Once other processes stop changing the device, every call comes back: retrying
   an interrupted dump or a buffer that has become too small ends, cutting a
   configuration into messages makes progress, the walk over any message ends,
   and a daemon that answers or closes releases wg (kernel_get_device,
   kernel_set_device, mnl_attr_parse, userspace_get_device).  wg_get_device of
   the library is left out: once interrupted it does not come back.        *)
CallsReturn == Pending ~> ~Pending
=============================================================================
