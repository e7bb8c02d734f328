------------------------------ MODULE ShowConf ------------------------------
(***************************************************************************)
(* `wg showconf' prints a device as a configuration file (showconf.c); the *)
(* file is read again by `wg setconf' (WgConfig).  showconf_main is two    *)
(* actions, one for the interface and one for each peer; then the lines    *)
(* are read, in a process that does not run out of memory.                 *)
(***************************************************************************)
EXTENDS WgConfig

CONSTANT Devices   (* the devices ipc_get_device may return *)

VARIABLES
  src,      (* the device that is printed                                  *)
  text,     (* the lines that were printed                                 *)
  printed,  (* how many of its peers were; -1 before the interface         *)
  named     (* the peers whose endpoint getnameinfo could write            *)

svars == <<src, text, printed, named>>

SInit ==
  /\ Init /\ mode = "set"
  /\ src \in Devices /\ text = <<>> /\ printed = -1 /\ named = {}

Num(n) == [text |-> "num", n |-> n]

(* A line that is printed only if a condition holds. *)
If(cond, line) == IF cond THEN <<line>> ELSE <<>>

InterfaceText_mark(d) ==
  <<[kind |-> "[Interface]"]>>
  \o If(d.port # 0, [kind |-> "ListenPort", num |-> Num(d.port)])
  \o If(d.port # 0 /\ d.fwmark # 0, [kind |-> "FwMark", num |-> Num(d.fwmark)])
  \o If(d.key # Zero, [kind |-> "PrivateKey", key |-> d.key])
  \o <<[kind |-> "blank"]>>

InterfaceText(d) ==
  <<[kind |-> "[Interface]"]>>
  \o If(d.port # 0, [kind |-> "ListenPort", num |-> Num(d.port)])
  \o If(d.fwmark # 0, [kind |-> "FwMark", num |-> Num(d.fwmark)])
  \o If(d.key # Zero, [kind |-> "PrivateKey", key |-> d.key])
  \o <<[kind |-> "blank"]>>

AllowedIpText(a) == [prefix |-> "", family |-> a.family, words |-> a.words, mask |-> Num(a.cidr)]

(* The public key before the section it belongs to. *)
PeerText_swapped(p, resolves) ==
  <<[kind |-> "PublicKey", key |-> p.key], [kind |-> "[Peer]"]>>
  \o If(p.psk # Zero, [kind |-> "PresharedKey", key |-> p.psk])
  \o If(p.ips # <<>>, [kind |-> "AllowedIPs", items |-> [i \in DOMAIN p.ips |-> AllowedIpText(p.ips[i])]])
  \o If(p.endpoint # Zero /\ resolves, [kind |-> "Endpoint", ep |-> p.endpoint])
  \o If(p.keepalive # 0, [kind |-> "PersistentKeepalive", num |-> Num(p.keepalive)])

(* A peer.  The host of an endpoint is in brackets where it has colons; where it
   has none, parse_endpoint takes what is before the last colon: it reads back
   the address that getnameinfo wrote.                                        *)
PeerText(p, resolves) ==
  <<[kind |-> "[Peer]"], [kind |-> "PublicKey", key |-> p.key]>>
  \o If(p.psk # Zero, [kind |-> "PresharedKey", key |-> p.psk])
  \o If(p.ips # <<>>, [kind |-> "AllowedIPs", items |-> [i \in DOMAIN p.ips |-> AllowedIpText(p.ips[i])]])
  \o If(p.endpoint # Zero /\ resolves, [kind |-> "Endpoint", ep |-> p.endpoint])
  \o If(p.keepalive # 0, [kind |-> "PersistentKeepalive", num |-> Num(p.keepalive)])

PrintInterface ==
  /\ printed = -1
  /\ text' = InterfaceText(src) /\ printed' = 0
  /\ UNCHANGED <<vars, src, named>>

PrintPeer ==
  /\ printed \in 0 .. Len(src.peers) - 1
  /\ LET p == src.peers[printed + 1]
     IN  \E resolves \in BOOLEAN :
           /\ text' = text \o PeerText(p, resolves)
                           \o If(printed + 1 < Len(src.peers), [kind |-> "blank"])
           /\ named' = IF resolves THEN named \cup {printed + 1} ELSE named
  /\ printed' = printed + 1
  /\ UNCHANGED <<vars, src>>

(* setconf_main: the lines in their order, then config_read_finish. *)
Reads ==
  /\ printed = Len(src.peers)
  /\ \/ config_read_init /\ phase' = "reading"
     \/ Len(read) < Len(text) /\ config_read_line(text[Len(read) + 1]) /\ phase' = "reading"
     \/ Len(read) = Len(text) /\ config_read_finish
  /\ UNCHANGED svars

SNext == PrintInterface \/ PrintPeer \/ Reads

SSpec == SInit /\ [][SNext]_<<vars, svars>> /\ WF_<<vars, svars>>(SNext)

-----------------------------------------------------------------------------
(* What setconf sets: keys, port, mark, and the peers with what they have. An
   endpoint that getnameinfo could not write is the one thing not printed.   *)
Settings(d, keep) ==
  [key |-> d.key, port |-> d.port, fwmark |-> d.fwmark,
   peers |-> [i \in DOMAIN d.peers |->
     [key |-> d.peers[i].key, psk |-> d.peers[i].psk, keepalive |-> d.peers[i].keepalive,
      endpoint |-> IF i \in keep THEN d.peers[i].endpoint ELSE Zero,
      ips |-> [j \in DOMAIN d.peers[i].ips |->
                 [family |-> d.peers[i].ips[j].family, words |-> d.peers[i].ips[j].words,
                  cidr |-> d.peers[i].ips[j].cidr]]]]]

(* The file showconf prints, read by setconf, is the device that was printed,
   although a zero port, mark, key or keepalive is not printed at all, and the
   parser has only the sections to tell peers apart; and it replaces whatever
   the device has (showconf_main; config_read_init, process_line).           *)
RoundTrip ==
  phase = "done" =>
    /\ Settings(dev, DOMAIN dev.peers) = Settings(src, named)
    /\ {"REPLACE_PEERS", "HAS_PRIVATE_KEY", "HAS_FWMARK", "HAS_LISTEN_PORT"} \subseteq dev.flags
    /\ \A i \in DOMAIN dev.peers : "REPLACE_ALLOWEDIPS" \in dev.peers[i].flags
=============================================================================
