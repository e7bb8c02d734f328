-------------------------------- MODULE Uapi --------------------------------
(***************************************************************************)
(* wg's configuration of a userspace WireGuard over its socket, ipc-uapi.h *)
(* and the socket of ipc-uapi-unix.h: userspace_set_device writes a device *)
(* as lines and reads back an errno, userspace_get_device reads lines into *)
(* a device.                                                               *)
(*                                                                         *)
(* The daemon (wireguard-go, external) applies each line as it comes, and  *)
(* may stop with an error or close the connection anywhere.  Lines are     *)
(* records [k, v]; a line without its end is "cut".                        *)
(***************************************************************************)
EXTENDS KernelDevice, FiniteSets, SequencesExt

CONSTANTS
  Devices,      (* what wg is told to set                                  *)
  Daemons,      (* the daemon's device when the call begins                *)
  Replies,      (* what a daemon may answer to get besides its device      *)
  Unresolvable, (* endpoints whose text getaddrinfo refuses                *)
  Bad           (* a value that does not parse                             *)

EPROTO == 71
ENOMEM == 12
ENETUNREACH == 101
EIO == 5

VARIABLES
  op,       (* "get" or "set"                                              *)
  pc,       (* "open", "write", "read", "done", "killed"                   *)
  dev,      (* the wgdevice: what to set, or what was read so far          *)
  out,      (* the lines still to be written                               *)
  in,       (* the lines the daemon has sent and wg has not read           *)
  eof,      (* the daemon has closed the connection                        *)
  peer,     (* userspace_get_device: a peer has been read                  *)
  ret,      (* its result so far; set_errno of userspace_set_device        *)
  held,     (* what wg holds: "file", "device"                             *)
  daemon,   (* the daemon's device                                         *)
  current,  (* the peer the daemon's lines are about                       *)
  before    (* the daemon's device when the call began                     *)

vars == <<op, pc, dev, out, in, eof, peer, ret, held, daemon, current, before>>

NoDevice == [flags |-> {}, key |-> 0, port |-> 0, fwmark |-> 0, peers |-> <<>>]

Line(k, v) == [k |-> k, v |-> v]
If(cond, line) == IF cond THEN <<line>> ELSE <<>>
Blank == Line("", 0)

(***************************************************************************)
(* The lines of a request to set.                                          *)
(***************************************************************************)
AllowedIpLine(a) == Line("allowed_ip", [ip |-> a.ip, mask |-> 0, remove |-> "REMOVE_ME" \in a.flags])

(* Mutant: the allowed IPs are replaced after they are given.              *)
PeerLinesReplaceLast(p) ==
  <<Line("public_key", p.pub)>> \o
  IF "REMOVE_ME" \in p.flags THEN <<Line("remove", 1)>>
  ELSE If("HAS_PRESHARED_KEY" \in p.flags, Line("preshared_key", p.psk))
       \o If(p.endpoint # 0, Line("endpoint", p.endpoint))
       \o If("HAS_PERSISTENT_KEEPALIVE_INTERVAL" \in p.flags,
             Line("persistent_keepalive_interval", p.keepalive))
       \o [n \in DOMAIN p.ips |-> AllowedIpLine(p.ips[n])]
       \o If("REPLACE_ALLOWEDIPS" \in p.flags, Line("replace_allowed_ips", 1))

PeerLines(p) ==
  <<Line("public_key", p.pub)>> \o
  IF "REMOVE_ME" \in p.flags THEN <<Line("remove", 1)>>
  ELSE If("HAS_PRESHARED_KEY" \in p.flags, Line("preshared_key", p.psk))
       \o If(p.endpoint # 0, Line("endpoint", p.endpoint))
       \o If("HAS_PERSISTENT_KEEPALIVE_INTERVAL" \in p.flags,
             Line("persistent_keepalive_interval", p.keepalive))
       \o If("REPLACE_ALLOWEDIPS" \in p.flags, Line("replace_allowed_ips", 1))
       \o [n \in DOMAIN p.ips |-> AllowedIpLine(p.ips[n])]

SetLines(d) ==
  <<Line("set", 1)>>
  \o If("HAS_PRIVATE_KEY" \in d.flags, Line("private_key", d.key))
  \o If("HAS_LISTEN_PORT" \in d.flags, Line("listen_port", d.port))
  \o If("HAS_FWMARK" \in d.flags, Line("fwmark", d.fwmark))
  \o If("REPLACE_PEERS" \in d.flags, Line("replace_peers", 1))
  \o FlattenSeq([n \in DOMAIN d.peers |-> PeerLines(d.peers[n])])
  \o <<Blank>>

(***************************************************************************)
(* The daemon (external).                                                  *)
(***************************************************************************)
Bare(pub) ==
  [pub |-> pub, flags |-> {}, psk |-> 0, endpoint |-> 0, keepalive |-> 0, ips |-> <<>>]

(* What a line of a set request makes of the daemon's device; it is about the
   peer of the last public_key line.                                         *)
DaemonTakes(k, cur, l) ==
  CASE l.k = "private_key"   -> [k EXCEPT !.key = l.v]
    [] l.k = "listen_port"   -> [k EXCEPT !.port = l.v]
    [] l.k = "fwmark"        -> [k EXCEPT !.fwmark = l.v]
    [] l.k = "replace_peers" -> TakeDevice(k, [NoDevice EXCEPT !.flags = {"REPLACE_PEERS"}])
    [] l.k = "public_key"    -> TakePeer(k, Bare(l.v), TRUE, {})
    [] l.k = "remove"        -> RemovePeer(k, cur)
    [] l.k = "preshared_key" -> [k EXCEPT !.peers[cur].psk = l.v]
    [] l.k = "endpoint"      -> [k EXCEPT !.peers[cur].endpoint = l.v]
    [] l.k = "persistent_keepalive_interval" -> [k EXCEPT !.peers[cur].keepalive = l.v]
    [] l.k = "replace_allowed_ips" ->
         TakePeer(k, [Bare(cur) EXCEPT !.flags = {"REPLACE_ALLOWEDIPS"}], TRUE, {})
    [] l.k = "allowed_ip"    ->
         TakeAllowedIp(k, cur, [ip |-> l.v.ip, flags |-> IF l.v.remove THEN {"REMOVE_ME"} ELSE {}])
    [] OTHER -> k

IpsOf(k, pub) == SetToSortSeq({a \in DOMAIN k.owner : k.owner[a] = pub}, <)

GetLines(k) ==
  If(k.key # 0, Line("private_key", k.key))
  \o If(k.port # 0, Line("listen_port", k.port))
  \o If(k.fwmark # 0, Line("fwmark", k.fwmark))
  \o FlattenSeq([n \in 1 .. Cardinality(DOMAIN k.peers) |->
       LET pub == SetToSortSeq(DOMAIN k.peers, <)[n]
           q == k.peers[pub]
       IN  <<Line("public_key", pub), Line("preshared_key", q.psk)>>
           \o If(q.endpoint # 0, Line("endpoint", q.endpoint))
           \o <<Line("persistent_keepalive_interval", q.keepalive)>>
           \o [m \in DOMAIN IpsOf(k, pub) |->
                 Line("allowed_ip", [ip |-> IpsOf(k, pub)[m], mask |-> 0, remove |-> FALSE])]])

-----------------------------------------------------------------------------
Init ==
  /\ op \in {"get", "set"}
  /\ dev \in (IF op = "get" THEN {NoDevice} ELSE Devices)
  /\ daemon \in Daemons /\ before = daemon /\ current = 0
  /\ pc = "open" /\ out = <<>> /\ in = <<>> /\ eof = FALSE
  /\ peer = FALSE /\ held = {} /\ ret = 0 - EPROTO

(* userspace_interface_file: the path, its kind, the socket, the connection and
   the stream, each of which may fail.  get holds its device by then.          *)
Open ==
  /\ pc = "open"
  /\ \/ /\ pc' = "write" /\ UNCHANGED ret
        /\ held' = IF op = "get" THEN {"file", "device"} ELSE {"file"}
        /\ out' = IF op = "get" THEN <<Line("get", 1), Blank>> ELSE SetLines(dev)
     \/ \E e \in {ENOMEM, EIO} : pc' = "done" /\ ret' = -e /\ held' = {} /\ UNCHANGED out
  /\ UNCHANGED <<op, dev, in, eof, peer, daemon, current, before>>

(* A line goes to the daemon, which acts on it; after the blank one it answers.
   It may find fault with a line, and answers at once.                         *)
Write ==
  /\ pc = "write"
  /\ LET l == Head(out) IN
     /\ out' = Tail(out)
     /\ \/ /\ l.k # ""
           /\ daemon' = DaemonTakes(daemon, current, l)
           /\ current' = IF l.k = "public_key" THEN l.v ELSE current
           /\ UNCHANGED <<in, pc>>
        \/ /\ l.k = "" /\ pc' = "read"
           /\ in' = IF op = "get" THEN GetLines(daemon) \o <<Line("errno", 0), Blank>>
                    ELSE <<Line("errno", 0), Blank>>
           /\ UNCHANGED <<daemon, current>>
        \/ /\ pc' = "read"
           /\ IF op = "get" THEN in' \in Replies
              ELSE in' \in {<<Line("errno", -EIO), Blank>>, <<Line("errno", Bad), Blank>>, <<Blank>>}
           /\ UNCHANGED <<daemon, current>>
  /\ UNCHANGED <<op, dev, eof, peer, ret, held, before>>

(* The daemon goes away: what it has not sent is lost, a line may be cut off; if
   wg still writes, SIGPIPE ends it.                                           *)
DaemonCloses ==
  /\ pc \in {"write", "read"} /\ ~eof
  /\ eof' = TRUE
  /\ pc' = "read" \/ (pc = "write" /\ pc' = "killed")
  /\ \E n \in 0 .. Len(in) : \/ in' = SubSeq(in, 1, n)
                             \/ in' = SubSeq(in, 1, n) \o <<Line("cut", 0)>>
  /\ UNCHANGED <<op, dev, out, peer, ret, held, daemon, current, before>>

(* The end of both functions: the file is closed; get frees its device unless
   the result is zero.                                                         *)
Finish(r) ==
  /\ pc' = "done" /\ ret' = r
  /\ held' = IF op = "get" /\ r = 0 THEN {"device"} ELSE {}

(* userspace_set_device reads the answer: an errno, which counts once the blank
   line ends the answer; anything else than key=value ends it as an error.     *)
ReadSet ==
  /\ pc = "read" /\ op = "set"
  /\ \/ /\ in # <<>>
        /\ in' = Tail(in)
        /\ LET l == Head(in) IN
           IF l.k = "" THEN Finish(ret)
           ELSE IF l.k = "cut" \/ (l.k = "errno" /\ l.v = Bad) THEN Finish(-EPROTO)
           ELSE /\ ret' = IF l.k = "errno" THEN l.v ELSE ret
                /\ UNCHANGED <<pc, held>>
     \/ in = <<>> /\ eof /\ Finish(-EPROTO) /\ UNCHANGED in
  /\ UNCHANGED <<op, dev, out, eof, peer, daemon, current, before>>

(***************************************************************************)
(* userspace_get_device: what a line makes of the device.  A line that does *)
(* not parse breaks the loop; a key that is not known is ignored, and so   *)
(* are the statistics here (handshake times and bytes).                    *)
(***************************************************************************)
Known(l) ==
  \/ ~peer /\ l.k \in {"private_key", "listen_port", "fwmark"}
  \/ peer /\ l.k \in {"preshared_key", "endpoint", "persistent_keepalive_interval", "allowed_ip"}
  \/ l.k \in {"public_key", "errno"}

(* An allowed IP is linked before its mask is checked. *)
Breaks(l) ==
  \/ l.k = "cut"
  \/ Known(l) /\ IF l.k = "allowed_ip" THEN l.v.mask = Bad ELSE l.v = Bad

LastPeer == dev.peers[Len(dev.peers)]

OnPeer(p) == [dev EXCEPT !.peers[Len(dev.peers)] = p]

(* A preshared key of zeros is none. *)
ReadInto(l) ==
  CASE ~Known(l) \/ l.k = "errno" -> dev
    [] l.k = "private_key" ->
         [dev EXCEPT !.key = l.v, !.flags = @ \cup {"HAS_PRIVATE_KEY", "HAS_PUBLIC_KEY"}]
    [] l.k = "listen_port" -> [dev EXCEPT !.port = l.v, !.flags = @ \cup {"HAS_LISTEN_PORT"}]
    [] l.k = "fwmark" -> [dev EXCEPT !.fwmark = l.v, !.flags = @ \cup {"HAS_FWMARK"}]
    [] l.k = "public_key" ->
         [dev EXCEPT !.peers = Append(@, [Bare(l.v) EXCEPT !.flags = {"HAS_PUBLIC_KEY"}])]
    [] l.k = "preshared_key" ->
         OnPeer([LastPeer EXCEPT !.psk = l.v,
                                 !.flags = IF l.v = 0 THEN @ ELSE @ \cup {"HAS_PRESHARED_KEY"}])
    [] l.k = "endpoint" -> OnPeer([LastPeer EXCEPT !.endpoint = l.v])
    [] l.k = "persistent_keepalive_interval" ->
         OnPeer([LastPeer EXCEPT !.keepalive = l.v,
                                 !.flags = @ \cup {"HAS_PERSISTENT_KEEPALIVE_INTERVAL"}])
    [] l.k = "allowed_ip" -> OnPeer([LastPeer EXCEPT !.ips = Append(@, l.v.ip)])

(* One line.  The blank one ends the loop with the errno that was read, or with
   EPROTO if none was; an endpoint that does not resolve ends it with the
   positive ENETUNREACH.                                                      *)
ReadGet ==
  /\ pc = "read" /\ op = "get" /\ in # <<>>
  /\ in' = Tail(in)
  /\ LET l == Head(in) IN
     \/ /\ l.k = "" /\ Finish(ret) /\ UNCHANGED <<dev, peer>>
     \/ /\ l.k # "" /\ Breaks(l) /\ Finish(-EPROTO) /\ UNCHANGED <<dev, peer>>
     \/ /\ Known(l) /\ l.k = "endpoint" /\ l.v \in Unresolvable
        /\ Finish(ENETUNREACH) /\ UNCHANGED <<dev, peer>>
     \/ /\ l.k # "" /\ ~Breaks(l) /\ ~(Known(l) /\ l.k = "endpoint" /\ l.v \in Unresolvable)
        /\ dev' = ReadInto(l)
        /\ peer' = (peer \/ l.k = "public_key")
        /\ ret' = IF l.k = "errno" THEN -l.v ELSE ret
        /\ UNCHANGED <<pc, held>>
     \/ /\ Known(l) /\ l.k \in {"public_key", "allowed_ip"}            (* calloc *)
        /\ Finish(-ENOMEM) /\ UNCHANGED <<dev, peer>>
  /\ UNCHANGED <<op, out, eof, daemon, current, before>>

(* The stream ends before the blank line. *)
ReadEnd ==
  /\ pc = "read" /\ op = "get" /\ in = <<>> /\ eof
  /\ Finish(-EPROTO)
  /\ UNCHANGED <<op, dev, out, in, eof, peer, daemon, current, before>>

Wg == Open \/ Write \/ ReadSet \/ ReadGet \/ ReadEnd

Next == Wg \/ DaemonCloses

(* The daemon answers or goes away, and wg goes on. *)
Spec == Init /\ [][Next]_vars /\ WF_vars(Wg)

-----------------------------------------------------------------------------
(* The device that describes the daemon's. *)
Described(k) ==
  LET pubs == SetToSortSeq(DOMAIN k.peers, <)
  IN [flags |-> {f \in {"HAS_PRIVATE_KEY", "HAS_PUBLIC_KEY"} : k.key # 0}
                \cup {f \in {"HAS_LISTEN_PORT"} : k.port # 0} \cup {f \in {"HAS_FWMARK"} : k.fwmark # 0},
      key |-> k.key, port |-> k.port, fwmark |-> k.fwmark,
      peers |-> [n \in DOMAIN pubs |->
        LET q == k.peers[pubs[n]]
        IN  [pub |-> pubs[n], psk |-> q.psk, endpoint |-> q.endpoint, keepalive |-> q.keepalive,
             ips |-> IpsOf(k, pubs[n]),
             flags |-> {"HAS_PUBLIC_KEY", "HAS_PERSISTENT_KEEPALIVE_INTERVAL"}
                       \cup {f \in {"HAS_PRESHARED_KEY"} : q.psk # 0}]]]

(* A device that userspace_get_device returns with success is all of the daemon's
   device: wherever the daemon stops or dies, what was read so far is not taken
   for the whole.                                                             *)
GetIsWhole == pc = "done" /\ op = "get" /\ ret = 0 => dev = Described(daemon)

(* A set that succeeds has done to the daemon, line by line, what the device asks
   for as a whole, which is what the kernel does with the same device
   (userspace_set_device, NetlinkSet).                                        *)
SetIsWhole == pc = "done" /\ op = "set" /\ ret = 0 => daemon = TakeAll(before, dev)

(* The stream is closed, and get's device is the caller's exactly if the result is
   zero (the labels out and err).                                             *)
HoldsNothing ==
  pc = "done" => held = IF op = "get" /\ ret = 0 THEN {"device"} ELSE {}
=============================================================================
