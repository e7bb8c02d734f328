-------------------------------- MODULE MCWg --------------------------------
(***************************************************************************)
(* The commands of wg, one process running one of them: show and show all, *)
(* the parser of files and command lines, showconf and the file it prints, *)
(* setconf, addconf, syncconf and set, genkey, genpsk and pubkey, and the  *)
(* resolution of an endpoint; and the list of names that show all builds.  *)
(* The components that the proofs are about are extended, the others are   *)
(* instances.  `part' is what runs; the variables of the other commands    *)
(* are NULL, and the list of names is empty.                               *)
(***************************************************************************)
EXTENDS EndpointResolution, KeyCommands, DeviceList, SetConf

CONSTANTS NULL, NONE, OFF, p1, p2, p3

(* show: devices with up to three peers, with and without handshakes, among
   them one in the future and one more than a year ago.                    *)
ShownPeers == {p1, p2, p3}
Noon == 40000000
Times == {<<0, 0>>, <<0, 5>>, <<Noon, 1>>, <<Noon + 1, 0>>, <<Noon - 31536000 - 86400 - 61, 3>>,
          <<Noon - 3600, 0>>, <<Noon - 3600, 2>>}
Shown(t, full) ==
  [handshake |-> t, psk |-> IF full THEN "psk" ELSE NULL, endpoint |-> IF full THEN "ep" ELSE NULL,
   ips |-> IF full THEN <<"ip1", "ip2">> ELSE <<>>, rx |-> IF full THEN 7 ELSE 0, tx |-> 0,
   keepalive |-> IF full THEN 25 ELSE 0]
ShownDevices ==
  {[name |-> "wg0", key |-> IF s = {} THEN NULL ELSE "k", pub |-> IF s = {} THEN NULL ELSE "K",
    port |-> 51820, fwmark |-> Cardinality(s) % 2, peers |-> s,
    peer |-> [p \in ShownPeers |-> Shown(IF p = p1 THEN t1 ELSE IF p = p2 THEN t2 ELSE t3, p # p2)]]
   : s \in SUBSET ShownPeers, t1 \in Times, t2 \in Times, t3 \in {<<0, 0>>, <<Noon - 3600, 0>>}}

(* The parser: short files and command lines.  Addresses have words of two bits,
   one for IPv4 and two for IPv6; marks go up to 15.                       *)
Num(m) == [text |-> "num", n |-> m]
Text(t) == [text |-> t, n |-> 0]
Item(prefix, family, words, mask) ==
  [prefix |-> prefix, family |-> family, words |-> words, mask |-> mask]
KeyIn(key) == [file |-> "key", key |-> key]
NoKey(f) == [file |-> f, key |-> "zero"]

Plain == Item("", 4, <<2>>, Num(1))
Added == Item("+", 4, <<2>>, NULL)
Removed == Item("-", 6, <<2, 0>>, Num(2))
Wide == Item("", 4, <<1>>, Num(3))
Unparsed == Item("", 0, <<0>>, NULL)

FileLines ==
  {[kind |-> k] : k \in {"blank", "[Interface]", "[Peer]", "Unknown"}} \cup
  {[kind |-> "PrivateKey", key |-> k] : k \in {"k1", "bad"}} \cup
  {[kind |-> "ListenPort", num |-> Num(7)]} \cup
  {[kind |-> "FwMark", num |-> v] : v \in {Num(16), Text("off")}} \cup
  {[kind |-> "PublicKey", key |-> k] : k \in {"k1", "k2"}} \cup
  {[kind |-> "PresharedKey", key |-> "k3"], [kind |-> "Endpoint", ep |-> "e1"],
   [kind |-> "Endpoint", ep |-> "bad"], [kind |-> "PersistentKeepalive", num |-> Num(25)]} \cup
  {[kind |-> "AllowedIPs", items |-> s] :
     s \in {<<Plain>>, <<Plain, Removed>>, <<Plain, Unparsed>>, <<Added, Wide>>}}

CommandArgs ==
  {[kind |-> k] : k \in {"remove", "unknown"}} \cup
  {[kind |-> "listen-port", num |-> v] : v \in {Num(7), Text("empty")}} \cup
  {[kind |-> "fwmark", num |-> v] : v \in {Num(5), Num(16), Text("junk")}} \cup
  {[kind |-> "private-key", file |-> f] : f \in {KeyIn("k1"), KeyIn("bad"), NoKey("empty"), NoKey("missing")}} \cup
  {[kind |-> "peer", key |-> k] : k \in {"k1", "k2", "bad"}} \cup
  {[kind |-> "preshared-key", file |-> f] : f \in {KeyIn("k3"), NoKey("empty"), NoKey("trailing")}} \cup
  {[kind |-> "endpoint", ep |-> "e1"]} \cup
  {[kind |-> "persistent-keepalive", num |-> v] : v \in {Num(25), Text("word")}} \cup
  {[kind |-> "allowed-ips", items |-> s] : s \in {<<>>, <<Added>>, <<Wide>>, <<Plain, Removed>>}}

(* Every address and every mask, for validate_netmask.                     *)
Addresses ==
  {Item("", f, w, m) : f \in {4}, w \in [1 .. 1 -> 0 .. 3], m \in {NULL} \cup {Num(b) : b \in 0 .. 3}} \cup
  {Item("", f, w, m) : f \in {6}, w \in [1 .. 2 -> 0 .. 3], m \in {NULL} \cup {Num(b) : b \in 0 .. 5}}
MaskLines == {[kind |-> "[Peer]"]} \cup {[kind |-> "AllowedIPs", items |-> <<x>>] : x \in Addresses}

(* showconf: devices with up to two peers, every combination of absent
   attributes.                                                             *)
ConfIps == {<<>>, <<[family |-> 4, words |-> <<2>>, cidr |-> 1]>>,
            <<[family |-> 6, words |-> <<2, 1>>, cidr |-> 4], [family |-> 4, words |-> <<0>>, cidr |-> 0]>>}
ConfPeers(k) ==
  {[key |-> k, psk |-> s, endpoint |-> e, keepalive |-> a, ips |-> ips] :
     s \in {"zero", "k3"}, e \in {"zero", "v4", "v6"}, a \in {0, 65535}, ips \in ConfIps}
ConfDevices ==
  {[key |-> "zero", port |-> p, fwmark |-> f, peers |-> s] :
     p \in {0, 65535}, f \in {0, 15}, s \in {<<>>} \cup {<<x>> : x \in ConfPeers("k1")}} \cup
  {[key |-> "k0", port |-> 0, fwmark |-> 15, peers |-> <<x, y>>] :
     x \in {q \in ConfPeers("k1") : q.psk = "zero"}, y \in {q \in ConfPeers("k2") : q.keepalive = 0}}

(* setconf and its kin: files of up to three peers with three keys, twice the
   same one included, for interfaces with any peers, and one write by another
   process.                                                                *)
SetPeer(pub, flags, ips) ==
  [pub |-> pub, flags |-> flags, psk |-> 1, endpoint |-> 0, keepalive |-> 25,
   ips |-> [m \in DOMAIN ips |-> [ip |-> ips[m], family |-> 4, flags |-> {}]]]
SetDevice(flags, peers) == [flags |-> flags, key |-> 1, port |-> 1, fwmark |-> 1, peers |-> peers]
SetShapes ==
  {SetPeer(q, {"REPLACE_ALLOWEDIPS"}, <<1>>) : q \in {1, 3}} \cup
  {SetPeer(1, {"REPLACE_ALLOWEDIPS"}, <<>>),
   SetPeer(2, {"REPLACE_ALLOWEDIPS", "HAS_PRESHARED_KEY", "HAS_PERSISTENT_KEEPALIVE_INTERVAL"}, <<2, 1>>)}
SetFiles ==
  {SetDevice({"REPLACE_PEERS", "HAS_PRIVATE_KEY", "HAS_LISTEN_PORT", "HAS_FWMARK"}, ps) :
     ps \in UNION {[1 .. m -> SetShapes] : m \in 0 .. 3}}
SetAdditions ==
  {SetDevice({}, ps) : ps \in UNION {[1 .. m -> SetShapes \cup {SetPeer(1, {"REMOVE_ME"}, <<>>)}] : m \in 0 .. 2}}
SetKernel(keys, owner) ==
  [key |-> 0, port |-> 0, fwmark |-> 0,
   peers |-> [q \in keys |-> [psk |-> 0, endpoint |-> 0, keepalive |-> IF q = 1 THEN 25 ELSE 0]],
   owner |-> owner]
SetKernels ==
  {SetKernel({}, <<NoPeer, NoPeer>>), SetKernel({1}, <<1, NoPeer>>), SetKernel({1, 2}, <<2, 1>>),
   SetKernel({1, 2, 3}, <<3, 3>>), SetKernel({2, 3}, <<NoPeer, 2>>), SetKernel({4}, <<4, 4>>),
   SetKernel({1, 4}, <<1, 4>>)}
SetWrites == {SetDevice({}, <<SetPeer(4, {"REPLACE_ALLOWEDIPS"}, <<2>>)>>),
              SetDevice({}, <<SetPeer(1, {}, <<2>>)>>)}

(* The resolver: a few retries, the default of fifteen, a number beyond int,
   and resolution without end.                                             *)
RetrySettings ==
  {[env |-> "number", n |-> m] : m \in 0 .. 4 \cup {128}} \cup
  {[env |-> e, n |-> 0] : e \in {"unset", "infinity", "bad"}}

(* What pubkey may read: up to five characters, where a key has three.     *)
ShortInputs == UNION {[1 .. m -> {"key", "blank", "other"}] : m \in 0 .. 5}

VARIABLES
  part,
  sh_dev, sh_first, sh_next, sh_peers, sh_pc, sh_i, sh_at, sh_out,
  co_mode, co_phase, co_section, co_dev, co_tail, co_blocks, co_read,
  sf_mode, sf_phase, sf_section, sf_dev, sf_tail, sf_blocks, sf_read, sf_src, sf_text, sf_printed,
  sf_named

(* The parser is run twice: over all kinds of lines and arguments, and over all
   addresses with all masks.                                               *)
Listing == INSTANCE Show WITH
  NULL <- NULL, NONE <- NONE, OFF <- OFF, Peers <- ShownPeers, Devices <- ShownDevices,
  Now <- Noon, dev <- sh_dev, first <- sh_first, next <- sh_next, peers <- sh_peers, pc <- sh_pc,
  i <- sh_i, at <- sh_at, out <- sh_out

Config == INSTANCE WgConfig WITH
  Lines <- FileLines, Args <- CommandArgs, MaxInputs <- 5, WordBits <- 2, Words6 <- 2,
  KeepaliveMax <- 65535, PortMax <- 65535, MarkMax <- 15, ULongMax <- 255, NULL <- NULL,
  mode <- co_mode, phase <- co_phase, section <- co_section, dev <- co_dev, tail <- co_tail,
  blocks <- co_blocks, read <- co_read

Mask == INSTANCE WgConfig WITH
  Lines <- MaskLines, Args <- {}, MaxInputs <- 2, WordBits <- 2, Words6 <- 2,
  KeepaliveMax <- 65535, PortMax <- 65535, MarkMax <- 15, ULongMax <- 255, NULL <- NULL,
  mode <- co_mode, phase <- co_phase, section <- co_section, dev <- co_dev, tail <- co_tail,
  blocks <- co_blocks, read <- co_read

Conf == INSTANCE ShowConf WITH
  Lines <- {}, Args <- {}, MaxInputs <- 16, WordBits <- 2, Words6 <- 2, KeepaliveMax <- 65535,
  PortMax <- 65535, MarkMax <- 15, ULongMax <- 65535, NULL <- NULL, Devices <- ConfDevices,
  mode <- sf_mode, phase <- sf_phase, section <- sf_section, dev <- sf_dev, tail <- sf_tail,
  blocks <- sf_blocks, read <- sf_read, src <- sf_src, text <- sf_text, printed <- sf_printed,
  named <- sf_named

(* What the proofs assume of the components. *)
ASSUME WgAssumption == SettingsCounted /\ InputsRead /\ NamesApart /\ TextsParsed /\ KernelsFormed

sh_vars == <<
  sh_dev, sh_first, sh_next, sh_peers, sh_pc, sh_i, sh_at, sh_out>>

ShowOff ==
  /\ sh_dev = NULL /\ sh_first = NULL /\ sh_next = NULL /\ sh_peers = NULL /\ sh_pc = NULL
  /\ sh_i = NULL /\ sh_at = NULL /\ sh_out = NULL

co_vars == <<
  co_mode, co_phase, co_section, co_dev, co_tail, co_blocks, co_read>>

ConfigOff ==
  /\ co_mode = NULL /\ co_phase = NULL /\ co_section = NULL /\ co_dev = NULL /\ co_tail = NULL
  /\ co_blocks = NULL /\ co_read = NULL

sf_vars == <<
  sf_mode, sf_phase, sf_section, sf_dev, sf_tail, sf_blocks, sf_read, sf_src, sf_text, sf_printed,
  sf_named>>

ShowConfOff ==
  /\ sf_mode = NULL /\ sf_phase = NULL /\ sf_section = NULL /\ sf_dev = NULL /\ sf_tail = NULL
  /\ sf_blocks = NULL /\ sf_read = NULL /\ sf_src = NULL /\ sf_text = NULL /\ sf_printed = NULL
  /\ sf_named = NULL

SetOff ==
  /\ command = NULL /\ where = NULL /\ dev = NULL /\ runtime = NULL /\ pubkeys = NULL
  /\ turn = NULL /\ owned = NULL /\ exit = NULL /\ kernel = NULL /\ sessions = NULL
  /\ late = NULL /\ writes = NULL

KeysOff ==
  /\ cmd = NULL /\ step = NULL /\ out = NULL /\ i = NULL /\ fd = NULL /\ errno = NULL
  /\ stdin = NULL /\ input = NULL /\ text = NULL /\ outcome = NULL

ListOff ==
  /\ links = NULL /\ sock = NULL /\ events = NULL /\ pc = NULL /\ todo = NULL /\ probe = NULL
  /\ back = NULL /\ list = NULL /\ shown = NULL /\ failed = NULL /\ status = NULL
  /\ partial = NULL /\ unsure = NULL /\ always = NULL /\ ever = NULL

EndpointOff ==
  /\ stage = NULL /\ setting = NULL /\ retries = NULL /\ timeout = NULL /\ attempts = NULL
  /\ why = NULL /\ heap = NULL

-----------------------------------------------------------------------------
Parts == {"show", "configuration", "netmasks", "showconf", "setconf", "genkey", "show all", "endpoint"} \cup {"names"}

WgInit ==
  /\ part \in Parts
  /\ Init
  /\ IF part = "show" THEN Listing!Init ELSE ShowOff
  /\ IF part = "configuration" THEN Config!Init ELSE IF part = "netmasks" THEN Mask!Init ELSE ConfigOff
  /\ IF part = "showconf" THEN Conf!SInit ELSE ShowConfOff
  /\ IF part = "setconf" THEN CInit ELSE SetOff
  /\ IF part = "genkey" THEN KInit ELSE KeysOff
  /\ IF part = "show all" THEN LInit ELSE ListOff
  /\ IF part = "endpoint" THEN EInit ELSE EndpointOff

Others(p) ==
  /\ UNCHANGED part
  /\ IF p # "names" THEN UNCHANGED vars ELSE TRUE
  /\ IF p # "show" THEN UNCHANGED sh_vars ELSE TRUE
  /\ IF p \notin {"configuration", "netmasks"} THEN UNCHANGED co_vars ELSE TRUE
  /\ IF p # "showconf" THEN UNCHANGED sf_vars ELSE TRUE
  /\ IF p # "setconf" THEN UNCHANGED cvars ELSE TRUE
  /\ IF p # "genkey" THEN UNCHANGED kvars ELSE TRUE
  /\ IF p # "show all" THEN UNCHANGED lvars ELSE TRUE
  /\ IF p # "endpoint" THEN UNCHANGED evars ELSE TRUE

WgNext ==
  \/ part = "names" /\ Next /\ Others("names")
  \/ part = "show" /\ Listing!Next /\ Others("show")
  \/ part = "configuration" /\ Config!Next /\ Others("configuration")
  \/ part = "netmasks" /\ Mask!Next /\ Others("netmasks")
  \/ part = "showconf" /\ Conf!SNext /\ Others("showconf")
  \/ part = "setconf" /\ CNext /\ Others("setconf")
  \/ part = "genkey" /\ KNext /\ Others("genkey")
  \/ part = "show all" /\ LNext /\ Others("show all")
  \/ part = "endpoint" /\ ENext /\ Others("endpoint")

wgVars == <<vars, <<part, sh_vars, co_vars, sf_vars, cvars, kvars, lvars, evars>>>>

(* The commands that must end: a process runs on as long as it can, and a call
   of the resolver returns.  Of show all only the command's own steps are
   fair; interfaces come and go or do not.                                 *)
Runs ==
  \/ part = "showconf" /\ Conf!SNext /\ Others("showconf")
  \/ part = "genkey" /\ KNext /\ Others("genkey")
  \/ part = "show all" /\ Show /\ Others("show all")
  \/ part = "endpoint" /\ ENext /\ Others("endpoint")

WgSpec == WgInit /\ [][WgNext]_wgVars /\ WF_wgVars(Runs)

-----------------------------------------------------------------------------
(* What show prints is the device: every peer exactly once, although the list is
   relinked through the array of sort_peers; none before one with a later
   handshake, those that never had one last (peer_cmp); ages whose parts add up,
   none zero and none large enough for the next unit (pretty_time); and for each
   parameter of ugly_print the columns that dump_print prints.             *)
ShowsTheDevice ==
  part = "show" =>
    /\ Listing!PrintsEveryPeerOnce /\ Listing!LatestFirst
    /\ Listing!TimesAddUp /\ Listing!UglyAgreesWithDump

(* The incremental parser, with its one pointer into the list of peers and one
   into a list of allowed IPs, builds the device that the text as a whole means:
   no value of one peer ends up with another, allowed IPs keep their order over
   several lines, a flag says exactly which values were given, and every peer
   has a key that was given for that very peer (process_line, parse_allowedips,
   config_read_cmd, config_read_finish).  Left open is whether the old allowed IPs
   of a peer go if `allowed-ips' with + or - is followed by one without: wg.8
   keeps them, config.c:363 replaces them (SaysBoth).  validate_netmask says no
   exactly when a bit after the prefix is set.                             *)
BuildsWhatTheTextMeans ==
  /\ part = "configuration" => Config!BuildsWhatTheTextMeans /\ Config!PeersHaveKeys
  /\ part = "netmasks" => Mask!WarnsOfHostBits

(* Every way out of the parser, of setconf, addconf, set and syncconf, and of
   parse_endpoint gives back what was allocated, once: what the parser allocated
   is always reachable from its device, also when the copy of a value, an item or
   a structure cannot be had or an item is no allowed IP, and nothing is left
   after a failure (free_wgdevice, the label err of parse_allowedips, the labels
   for cleanup, freeaddrinfo).                                             *)
NothingLeaks ==
  /\ part = "configuration" => Config!NothingLeaks
  /\ part = "setconf" => CleansUp
  /\ part = "endpoint" => FreesAll

(* The file showconf prints, read by setconf, is the device that was printed,
   although a zero port, mark, key or keepalive is not printed at all, and the
   parser has only the sections to tell peers apart; and it replaces whatever
   the device has (showconf_main; config_read_init, process_line).         *)
RoundTrip == part = "showconf" => Conf!RoundTrip

(* A command, or the resolution of an endpoint, that has not ended.        *)
Pending ==
  \/ part = "showconf" /\ sf_phase # "done"
  \/ part = "genkey" /\ step # "done"
  \/ part = "show all" /\ pc \notin {"done", "failed"}
  \/ part = "endpoint" /\ setting.env # "infinity" /\ stage \notin {"ok", "failed", "exit"}

(* The commands come to an end: showconf's file is read to its end by setconf, no
   line of it refused; genkey, genpsk and pubkey return; show all ends whatever
   comes and goes meanwhile; and parse_endpoint returns unless it is told to go
   on for ever, even if the resolver never says anything but "try again".  *)
CommandsEnd == Pending ~> ~Pending
=============================================================================
