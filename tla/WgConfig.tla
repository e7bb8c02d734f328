------------------------------ MODULE WgConfig ------------------------------
(***************************************************************************)
(* How wg builds a wgdevice from a configuration file (setconf, addconf,   *)
(* syncconf) or from the arguments of `wg set', config.c.                  *)
(*                                                                         *)
(* One step reads one line, or one keyword of the command line with its    *)
(* value.  A line is what is left of it without comment and blanks.  Texts *)
(* are abstracted to what the parsers tell apart:                          *)
(*   a number    [text |-> "num" | "off" | "junk" | "word" | "empty", n]   *)
(*               ("junk" has characters after its digits);                 *)
(*   a key       a member of Keys, or "bad";                               *)
(*   a key file  [file |-> "key" | "empty" | "short" | "trailing" |        *)
(*               "missing", key];                                          *)
(*   an endpoint a member of Endpoints, or "bad" (its text or its name     *)
(*               does not resolve: EndpointResolution);                    *)
(*   allowed IPs a sequence of [prefix, family, words, mask].              *)
(*                                                                         *)
(* The lists are linked lists in the code.  `tail' is ctx->last_allowedip: *)
(* the peer whose last allowed IP it points to, 0 for NULL.  `blocks'      *)
(* counts what was allocated and not yet freed: the device, peers, allowed *)
(* IPs, and the copies of texts that a failure leaves behind.              *)
(***************************************************************************)
EXTENDS Integers, Sequences, FiniteSets, SequencesExt

CONSTANTS
  Lines,        (* the lines a file may have                               *)
  Args,         (* the keywords, with their values, of a command line      *)
  MaxInputs,    (* bound on the lines or keywords of one run               *)
  WordBits,     (* bits in a word of an address, 32                        *)
  Words6,       (* words of an IPv6 address, 4                             *)
  KeepaliveMax, (* 65535                                                   *)
  PortMax,      (* 65535                                                   *)
  MarkMax,      (* UINT32_MAX                                              *)
  ULongMax,     (* ULONG_MAX of the build                                  *)
  NULL

VARIABLES
  mode,     (* "set", "append" (files) or "cmd"                            *)
  phase,    (* "start", "reading", "failed", "done"                        *)
  section,  (* is_device_section, is_peer_section                          *)
  dev,      (* the wgdevice                                                *)
  tail,     (* last_allowedip                                              *)
  blocks,   (* allocated and not freed                                     *)
  read      (* what was read so far without a failure                      *)

vars == <<mode, phase, section, dev, tail, blocks, read>>

Zero == "zero"

NewPeer == [flags |-> {}, key |-> Zero, psk |-> Zero, endpoint |-> Zero,
            keepalive |-> 0, ips |-> <<>>]

NewDevice == [flags |-> {}, key |-> Zero, port |-> 0, fwmark |-> 0, peers |-> <<>>]

(***************************************************************************)
(* The value parsers.  Each returns the structure it was given with the    *)
(* value in it, or NULL.                                                   *)
(***************************************************************************)

(* strtoul saturates. *)
strtoul(v) == IF v.n > ULongMax THEN ULongMax ELSE v.n

(* getaddrinfo as parse_port uses it. *)
ServicePort(v) == v.text = "num" /\ v.n <= PortMax

parse_port(d, v) ==
  IF ServicePort(v) THEN [d EXCEPT !.port = v.n, !.flags = @ \cup {"HAS_LISTEN_PORT"}]
  ELSE NULL

parse_fwmark(d, v) ==
  IF v.text = "off" THEN [d EXCEPT !.fwmark = 0, !.flags = @ \cup {"HAS_FWMARK"}]
  ELSE IF v.text = "num" /\ strtoul(v) <= MarkMax
  THEN [d EXCEPT !.fwmark = strtoul(v), !.flags = @ \cup {"HAS_FWMARK"}]
  ELSE NULL

parse_persistent_keepalive(p, v) ==
  LET flags == p.flags \cup {"HAS_PERSISTENT_KEEPALIVE_INTERVAL"}
  IN  IF v.text = "off" THEN [p EXCEPT !.keepalive = 0, !.flags = flags]
      ELSE IF v.text = "num" /\ strtoul(v) <= KeepaliveMax
      THEN [p EXCEPT !.keepalive = strtoul(v), !.flags = flags]
      ELSE NULL

parse_key(key) == IF key = "bad" THEN NULL ELSE key

(* An empty file, /dev/null for one, stands for the zero key. *)
parse_keyfile(f) ==
  IF f.file = "empty" THEN Zero
  ELSE IF f.file = "key" THEN parse_key(f.key)
  ELSE NULL

Words(family) == IF family = 4 THEN 1 ELSE Words6

(* Whether the bits of the address after the first cidr ones are zero: from the
   last word down, as far as the prefix does not cover the word.             *)
validate_netmask(ip) ==
  LET last == Words(ip.family) - 1
      Covered(i) == ip.cidr >= WordBits * (i + 1)
      shift(i) == IF ip.cidr > WordBits * i THEN ip.cidr - WordBits * i ELSE 0
      Zeros(i) == ip.words[i + 1] % 2^(WordBits - shift(i)) = 0
  IN  \A i \in 0 .. last : (\A j \in i .. last : ~Covered(j)) => Zeros(i)

(* The cidr of an item: its mask, or all bits where it has none. *)
Cidr(item) ==
  IF item.mask = NULL THEN WordBits * Words(item.family) ELSE strtoul(item.mask)

parse_ip(item) == item.family \in {4, 6}

MaskOk(item) ==
  /\ item.mask # NULL => item.mask.text = "num"
  /\ Cidr(item) <= WordBits * Words(item.family)

ItemOk(item) == parse_ip(item) /\ MaskOk(item)

Entry(item) ==
  [family |-> item.family, words |-> item.words, cidr |-> Cidr(item),
   flags |-> IF item.prefix = "-" THEN {"REMOVE_ME"} ELSE {}]

(* parse_ip_prefix, for all items of a value. *)
Incremental(items) == \E i \in DOMAIN items : items[i].prefix \in {"+", "-"}

(* The device when the first k items are done: they decide anew whether the
   allowed IPs of the last peer are replaced, and are linked behind the tail, or
   become the peer's list when there is none.                                *)
Owner(d, t) == IF t = 0 THEN Len(d.peers) ELSE t

Linked(d, t, items, k) ==
  LET done == SubSeq(items, 1, k)
      flagged == [d EXCEPT !.peers[Len(d.peers)].flags =
                    IF Incremental(done) THEN @ \ {"REPLACE_ALLOWEDIPS"}
                                         ELSE @ \cup {"REPLACE_ALLOWEDIPS"}]
  IN  [flagged EXCEPT !.peers[Owner(d, t)].ips =
        (IF t = 0 THEN <<>> ELSE @) \o [i \in 1 .. k |-> Entry(done[i])]]

(* An item that fails does so for want of memory for a copy of it, or for the
   entry, because its address does not parse, or because its mask does not.  *)
WaysToFail(item) ==
  {"strdup", "calloc"} \cup {w \in {"parse_ip"} : ~parse_ip(item)}
                      \cup {w \in {"err"} : parse_ip(item) /\ ~MaskOk(item)}

(* What is allocated then, besides the entries that are linked ...           *)
Allocated(way) ==
  CASE way = "strdup" -> {"mutable"}
    [] way = "calloc" -> {"mutable", "saved_entry"}
    [] OTHER -> {"mutable", "saved_entry", "new_allowedip"}

(* The copy of the item is needed for the message, and forgotten.            *)
FreesForgets(way) ==
  CASE way = "strdup" -> {"mutable"}
    [] way = "calloc" -> {"saved_entry", "mutable"}
    [] way = "parse_ip" -> {"new_allowedip", "saved_entry", "mutable"}
    [] way = "err" -> {"new_allowedip", "mutable"}

(* ... and what is freed on that way out.                                    *)
Frees(way) ==
  CASE way = "strdup" -> {"mutable"}
    [] way = "calloc" -> {"saved_entry", "mutable"}
    [] way = "parse_ip" -> {"new_allowedip", "saved_entry", "mutable"}
    [] way = "err" -> {"new_allowedip", "mutable", "saved_entry"}

-----------------------------------------------------------------------------
(***************************************************************************)
(* What a line, or a keyword, makes of the device.                         *)
(***************************************************************************)

LastPeer(d) == d.peers[Len(d.peers)]

OnLast(d, p) == IF p = NULL THEN NULL ELSE [d EXCEPT !.peers[Len(d.peers)] = p]

(* A key is stored and its flag set only if it parses. *)
WithKey(d, key) ==
  IF key = NULL THEN NULL ELSE [d EXCEPT !.key = key, !.flags = @ \cup {"HAS_PRIVATE_KEY"}]

WithPublicKey(p, key) ==
  IF key = NULL THEN NULL ELSE [p EXCEPT !.key = key, !.flags = @ \cup {"HAS_PUBLIC_KEY"}]

WithPresharedKey(p, key) ==
  IF key = NULL THEN NULL ELSE [p EXCEPT !.psk = key, !.flags = @ \cup {"HAS_PRESHARED_KEY"}]

(* parse_endpoint sets no flag: an endpoint is there when its family is set. *)
WithEndpoint(p, ep) == IF ep = "bad" THEN NULL ELSE [p EXCEPT !.endpoint = ep]

(* A line of the [Interface] section; NULL when it is not recognised. *)
DeviceLine(d, l) ==
  CASE l.kind = "ListenPort" -> parse_port(d, l.num)
    [] l.kind = "FwMark"     -> parse_fwmark(d, l.num)
    [] l.kind = "PrivateKey" -> WithKey(d, parse_key(l.key))
    [] OTHER -> NULL

(* A line of a [Peer] section other than AllowedIPs. *)
PeerLine(d, l) ==
  CASE l.kind = "Endpoint"     -> OnLast(d, WithEndpoint(LastPeer(d), l.ep))
    [] l.kind = "PublicKey"    -> OnLast(d, WithPublicKey(LastPeer(d), parse_key(l.key)))
    [] l.kind = "PersistentKeepalive" -> OnLast(d, parse_persistent_keepalive(LastPeer(d), l.num))
    [] l.kind = "PresharedKey" -> OnLast(d, WithPresharedKey(LastPeer(d), parse_key(l.key)))
    [] OTHER -> NULL

(* A keyword for the interface, before the first peer. *)
DeviceArg(d, a) ==
  CASE a.kind = "listen-port" -> parse_port(d, a.num)
    [] a.kind = "fwmark"      -> parse_fwmark(d, a.num)
    [] a.kind = "private-key" -> WithKey(d, parse_keyfile(a.file))
    [] OTHER -> NULL

(* A keyword for the last peer other than allowed-ips. *)
PeerArg(d, a) ==
  CASE a.kind = "remove"        -> OnLast(d, [LastPeer(d) EXCEPT !.flags = @ \cup {"REMOVE_ME"}])
    [] a.kind = "endpoint"      -> OnLast(d, WithEndpoint(LastPeer(d), a.ep))
    [] a.kind = "persistent-keepalive" -> OnLast(d, parse_persistent_keepalive(LastPeer(d), a.num))
    [] a.kind = "preshared-key" -> OnLast(d, WithPresharedKey(LastPeer(d), parse_keyfile(a.file)))
    [] OTHER -> NULL

(* The blocks free_wgdevice reaches. *)
Reachable(d) ==
  1 + Len(d.peers) + FoldLeft(LAMBDA n, p : n + Len(p.ips), 0, d.peers)

-----------------------------------------------------------------------------
(***************************************************************************)
(* The steps.                                                              *)
(***************************************************************************)

Init ==
  /\ mode \in {"set", "append", "cmd"}
  /\ phase = "start" /\ section = "none"
  /\ dev = NewDevice /\ tail = 0 /\ blocks = 0 /\ read = <<>>

(* config_read_init; the beginning of config_read_cmd. *)
config_read_init ==
  /\ phase = "start"
  /\ \/ /\ phase' = "reading" /\ blocks' = 1
        /\ dev' = IF mode = "set"
                  THEN [dev EXCEPT !.flags = {"REPLACE_PEERS", "HAS_PRIVATE_KEY",
                                              "HAS_FWMARK", "HAS_LISTEN_PORT"}]
                  ELSE dev
     \/ phase' = "failed" /\ UNCHANGED <<dev, blocks>>     (* calloc *)
  /\ UNCHANGED <<mode, section, tail, read>>

(* free_wgdevice on the device d, as far as it was built of the old one and `new'
   fresh blocks.                                                             *)
free_wgdevice(d, new) ==
  /\ blocks' = (blocks + new) - Reachable(d)
  /\ dev' = d /\ phase' = "failed"
  /\ UNCHANGED <<section, tail>>

(* The device d, made of the old one and `new' fresh blocks; or, if it is NULL,
   the failure of this line.                                                 *)
Continue(d, t, new) ==
  IF d = NULL THEN free_wgdevice(dev, 0)
  ELSE /\ dev' = d /\ tail' = t /\ blocks' = blocks + new
       /\ UNCHANGED phase

(* parse_allowedips for the last peer, and what its callers do if it fails: at
   the first item that is wrong, or at any that there is no memory for, when the
   ones before are linked; or for want of a copy of the value.               *)
parse_allowedips(items) ==
  \/ /\ \A i \in DOMAIN items : ItemOk(items[i])
     /\ Continue(Linked(dev, tail, items, Len(items)),
                 IF items = <<>> THEN tail ELSE Owner(dev, tail), Len(items))
     /\ UNCHANGED section
  \/ \E i \in DOMAIN items :
       /\ \A j \in 1 .. i - 1 : ItemOk(items[j])
       /\ \E way \in WaysToFail(items[i]) :
            free_wgdevice(Linked(dev, tail, items, i - 1),
                          (i - 1) + Cardinality(Allocated(way) \ Frees(way)))
  \/ free_wgdevice(dev, 0)                                 (* strdup *)

Blank(l) == l.kind = "blank" /\ UNCHANGED <<phase, section, dev, tail, blocks>>

InterfaceHeader(l) ==
  /\ l.kind = "[Interface]"
  /\ section' = "interface" /\ UNCHANGED <<phase, dev, tail, blocks>>

(* The new peer keeps the pointer to the allowed IPs of the one before. *)
PeerHeaderKeepsTail(l) ==
  /\ l.kind = "[Peer]"
  /\ \/ /\ Continue([dev EXCEPT !.peers = Append(@, [NewPeer EXCEPT !.flags = {"REPLACE_ALLOWEDIPS"}])],
                    tail, 1)
        /\ section' = "peer"
     \/ free_wgdevice(dev, 0)

(* A new peer, at the end of the list, whose allowed IPs will be replaced. *)
PeerHeader(l) ==
  /\ l.kind = "[Peer]"
  /\ \/ /\ Continue([dev EXCEPT !.peers = Append(@, [NewPeer EXCEPT !.flags = {"REPLACE_ALLOWEDIPS"}])],
                    0, 1)
        /\ section' = "peer"
     \/ free_wgdevice(dev, 0)                              (* calloc *)

Field(l) ==
  /\ l.kind \notin {"blank", "[Interface]", "[Peer]"}
  /\ IF section = "peer" /\ l.kind = "AllowedIPs"
     THEN parse_allowedips(l.items)
     ELSE /\ Continue(CASE section = "interface" -> DeviceLine(dev, l)
                        [] section = "peer" -> PeerLine(dev, l)
                        [] OTHER -> NULL, tail, 0)
          /\ UNCHANGED section

(* What was read, with x unless it failed. *)
Record(x) == read' = IF phase' = "failed" THEN read ELSE Append(read, x)

(* config_read_line with process_line.  Any failure frees the device, also that
   to get memory for the line.                                               *)
config_read_line(l) ==
  /\ phase = "reading" /\ mode # "cmd" /\ Len(read) < MaxInputs
  /\ \/ Blank(l) \/ InterfaceHeader(l) \/ PeerHeader(l) \/ Field(l)
     \/ free_wgdevice(dev, 0)                              (* calloc *)
  /\ Record(l) /\ mode' = mode

(* config_read_finish: a peer without a public key is refused. *)
config_read_finish ==
  /\ phase = "reading" /\ mode # "cmd"
  /\ IF \A i \in DOMAIN dev.peers : "HAS_PUBLIC_KEY" \in dev.peers[i].flags
     THEN phase' = "done" /\ UNCHANGED <<dev, section, tail, blocks>>
     ELSE free_wgdevice(dev, 0)
  /\ UNCHANGED <<mode, read>>

(* "peer" of config_read_cmd: the peer is linked before its key is parsed. *)
PeerKeyword(a) ==
  LET d == [dev EXCEPT !.peers = Append(@, NewPeer)]
  IN  \/ /\ a.kind = "peer" /\ a.key # "bad"
         /\ Continue(OnLast(d, WithPublicKey(LastPeer(d), parse_key(a.key))), 0, 1)
         /\ UNCHANGED section
      \/ /\ a.kind = "peer" /\ a.key = "bad"
         /\ free_wgdevice(d, 1)
      \/ a.kind = "peer" /\ free_wgdevice(dev, 0)          (* calloc *)

Keyword(a) ==
  /\ a.kind # "peer"
  /\ IF dev.peers # <<>> /\ a.kind = "allowed-ips"
     THEN parse_allowedips(a.items)
     ELSE Continue(IF dev.peers = <<>> THEN DeviceArg(dev, a) ELSE PeerArg(dev, a), tail, 0)
          /\ UNCHANGED section

(* One turn of the loop of config_read_cmd. *)
config_read_cmd(a) ==
  /\ phase = "reading" /\ mode = "cmd" /\ Len(read) < MaxInputs
  /\ PeerKeyword(a) \/ Keyword(a)
  /\ Record(a) /\ mode' = mode

EndOfArgs ==
  /\ phase = "reading" /\ mode = "cmd"
  /\ phase' = "done"
  /\ UNCHANGED <<mode, section, dev, tail, blocks, read>>

Next ==
  \/ config_read_init
  \/ \E l \in Lines : config_read_line(l)
  \/ config_read_finish
  \/ \E a \in Args : config_read_cmd(a)
  \/ EndOfArgs

Spec == Init /\ [][Next]_vars

-----------------------------------------------------------------------------
(***************************************************************************)
(* What a file or a command line means, said of its text as a whole.       *)
(***************************************************************************)

IsPeerHead(x) == x.kind \in {"[Peer]", "peer"}
IsHead(x) == IsPeerHead(x) \/ x.kind = "[Interface]"

(* Where the peers begin, and the inputs that belong to the head at i: those up
   to the next head.                                                          *)
PeerHeads == SelectSeq([i \in DOMAIN read |-> i], LAMBDA i : IsPeerHead(read[i]))

Body(i) ==
  {j \in i + 1 .. Len(read) : \A k \in i + 1 .. j : ~IsHead(read[k])}

(* What belongs to the interface: what belongs to no peer. *)
DeviceBody == {j \in DOMAIN read : \A i \in Range(PeerHeads) : j \notin Body(i)}

(* The last input of a kind in a set of positions, with f applied; otherwise z. *)
LastOf(body, kinds, f(_), z) ==
  LET at == {j \in body : read[j].kind \in kinds}
  IN  IF at = {} THEN z ELSE f(read[CHOOSE j \in at : \A k \in at : k <= j])

Has(body, kinds) == \E j \in body : read[j].kind \in kinds

Number(x) == IF x.num.text = "off" THEN 0 ELSE x.num.n
KeyText(x) == x.key
KeyFile(x) == IF x.file.file = "empty" THEN Zero ELSE x.file.key
EndpointText(x) == x.ep

AllowedKinds == {"AllowedIPs", "allowed-ips"}

AllowedOf(body, i) ==
  FlattenSeq([j \in 1 .. Len(read) - i |->
    IF i + j \in body /\ read[i + j].kind \in AllowedKinds
    THEN [k \in DOMAIN read[i + j].items |-> Entry(read[i + j].items[k])] ELSE <<>>])

(* The peer whose head is at i.  Its allowed IPs replace those the peer has, by
   default in a file and if any are given on a command line, unless one of them
   has a prefix (wg.8:74-78).                                                *)
PeerMeant(i) ==
  LET body == Body(i)
      allowed == {j \in body : read[j].kind \in AllowedKinds}
      keyed == IF mode = "cmd" THEN {i} ELSE body
  IN [key |-> LastOf(keyed, {"PublicKey", "peer"}, KeyText, Zero),
      psk |-> IF mode = "cmd" THEN LastOf(body, {"preshared-key"}, KeyFile, Zero)
              ELSE LastOf(body, {"PresharedKey"}, KeyText, Zero),
      endpoint |-> LastOf(body, {"Endpoint", "endpoint"}, EndpointText, Zero),
      keepalive |-> LastOf(body, {"PersistentKeepalive", "persistent-keepalive"}, Number, 0),
      ips |-> AllowedOf(body, i),
      flags |->
        {f \in {"HAS_PUBLIC_KEY"} : Has(keyed, {"PublicKey", "peer"})} \cup
        {f \in {"HAS_PRESHARED_KEY"} : Has(body, {"PresharedKey", "preshared-key"})} \cup
        {f \in {"HAS_PERSISTENT_KEEPALIVE_INTERVAL"} :
           Has(body, {"PersistentKeepalive", "persistent-keepalive"})} \cup
        {f \in {"REMOVE_ME"} : Has(body, {"remove"})} \cup
        {f \in {"REPLACE_ALLOWEDIPS"} :
           /\ mode # "cmd" \/ allowed # {}
           /\ \A j \in allowed : ~Incremental(read[j].items)}]

(* The one exception: several values for one peer, a later one of which has no
   prefix where an earlier one has.  parse_allowedips takes back what the earlier
   one said, and all of them replace the peer's allowed IPs (config.c:363).  *)
SaysBoth(i) ==
  \E j \in Body(i), k \in Body(i) :
    /\ j < k /\ read[j].kind \in AllowedKinds /\ read[k].kind \in AllowedKinds
    /\ Incremental(read[j].items) /\ ~Incremental(read[k].items)

DeviceMeant ==
  [key |-> IF mode = "cmd" THEN LastOf(DeviceBody, {"private-key"}, KeyFile, Zero)
           ELSE LastOf(DeviceBody, {"PrivateKey"}, KeyText, Zero),
   port |-> LastOf(DeviceBody, {"ListenPort", "listen-port"}, Number, 0),
   fwmark |-> LastOf(DeviceBody, {"FwMark", "fwmark"}, Number, 0),
   peers |-> [i \in DOMAIN PeerHeads |-> PeerMeant(PeerHeads[i])],
   flags |->
     {f \in {"REPLACE_PEERS"} : mode = "set"} \cup
     {f \in {"HAS_PRIVATE_KEY"} : mode = "set" \/ Has(DeviceBody, {"PrivateKey", "private-key"})} \cup
     {f \in {"HAS_FWMARK"} : mode = "set" \/ Has(DeviceBody, {"FwMark", "fwmark"})} \cup
     {f \in {"HAS_LISTEN_PORT"} : mode = "set" \/ Has(DeviceBody, {"ListenPort", "listen-port"})}]

-----------------------------------------------------------------------------
(***************************************************************************)
(* Properties.                                                             *)
(***************************************************************************)

(* The incremental parser, with its one pointer into the list of peers and one
   into a list of allowed IPs, builds the device that the text as a whole means:
   no value of one peer ends up with another, allowed IPs keep their order over
   several lines, and a flag says exactly which values were given.  Of a peer that
   SaysBoth only the flag to replace its allowed IPs is left open (config.c,
   process_line, parse_allowedips, config_read_cmd).                          *)
BuildsWhatTheTextMeans ==
  phase \in {"reading", "done"} =>
    LET Open(d) == [d EXCEPT !.peers = [i \in DOMAIN @ |->
                      IF SaysBoth(PeerHeads[i]) THEN [@[i] EXCEPT !.flags = @ \ {"REPLACE_ALLOWEDIPS"}] ELSE @[i]]]
    IN  Len(dev.peers) = Len(PeerHeads) /\ Open(dev) = Open(DeviceMeant)

(* Whatever line, value or allocation fails, also in the middle of a list of
   allowed IPs, every block is given back once: all that was allocated for good is
   always reachable from the device, the copies parse_allowedips works on are
   freed on each of its ways out, and nothing is left after a failure
   (parse_allowedips, config_read_line, config_read_finish, the error label of
   config_read_cmd).                                                          *)
NothingLeaks ==
  blocks = IF phase \in {"reading", "done"} THEN Reachable(dev) ELSE 0

(* A device that is handed to ipc_set_device names every peer by a key that was
   given for that very peer (config_read_finish; "peer" of config_read_cmd).  *)
PeersHaveKeys ==
  phase = "done" => \A i \in DOMAIN dev.peers : "HAS_PUBLIC_KEY" \in dev.peers[i].flags

(* validate_netmask, which goes word by word from the end of the address, says
   no exactly when a bit after the prefix is set, and never of an entry without
   a mask, whose missing text the warning would print.                        *)
WarnsOfHostBits ==
  \A i \in DOMAIN read : read[i].kind \in AllowedKinds =>
    \A k \in DOMAIN read[i].items :
      LET item == read[i].items[k]
          Bit(n) == (item.words[(n \div WordBits) + 1] \div 2^(WordBits - 1 - (n % WordBits))) % 2
      IN  ItemOk(item) =>
            /\ validate_netmask(Entry(item)) <=>
                 \A n \in Cidr(item) .. WordBits * Words(item.family) - 1 : Bit(n) = 0
            /\ item.mask = NULL => validate_netmask(Entry(item))
=============================================================================
