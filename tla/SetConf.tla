------------------------------- MODULE SetConf -------------------------------
(***************************************************************************)
(* The wg commands that change an interface: setconf, addconf and syncconf *)
(* of setconf.c, set of set.c.  The device they send is what the parser    *)
(* made of the file or the arguments (WgConfig); syncconf reads the        *)
(* interface back first and rewrites that device, so that only the peers   *)
(* the file does not name are removed.                                     *)
(*                                                                         *)
(* Between the reading and the sending another process may change the      *)
(* interface.  Public keys are numbers, in memcmp's order.                 *)
(***************************************************************************)
EXTENDS KernelDevice, FiniteSets

CONSTANTS
  Files,      (* what the parser may return for setconf and syncconf       *)
  Additions,  (* what it may return for addconf and set                    *)
  Kernels,    (* the interfaces the command may find                       *)
  Writes,     (* what another process may send meanwhile                   *)
  MaxWrites   (* how often it does                                         *)

VARIABLES
  command,   (* the command                                                *)
  where,     (* "parse", "get", "collect", "loop", "set", "cleanup", "done" *)
  dev,       (* the device, `file' in sync_conf                            *)
  runtime,   (* the interface as syncconf read it                          *)
  pubkeys,   (* the sorted array of keys and their origins                 *)
  turn,      (* the position of the loop in it                             *)
  owned,     (* what is allocated                                          *)
  exit,      (* the exit code, 1 until the end                             *)
  kernel,    (* the interface                                              *)
  sessions,  (* the keys of the peers that were there at the start, or that
                another process added, and never removed since             *)
  late,      (* the keys another process touched after syncconf read       *)
  writes     (* how often another process wrote                            *)

cvars == <<command, where, dev, runtime, pubkeys, turn, owned, exit, kernel, sessions, late, writes>>

Keys(k) == DOMAIN k.peers
DevKeys(d) == {p.pub : p \in Range(d.peers)}

(* What the parser makes of a text. *)
Flags ==
  {"REPLACE_PEERS", "HAS_PRIVATE_KEY", "HAS_LISTEN_PORT", "HAS_FWMARK", "REMOVE_ME",
   "REPLACE_ALLOWEDIPS", "HAS_PRESHARED_KEY", "HAS_PERSISTENT_KEEPALIVE_INTERVAL"}
PeerTexts ==
  [pub : Nat, flags : SUBSET Flags, psk : Nat, endpoint : Nat, keepalive : Nat,
   ips : Seq([ip : Nat, family : {4, 6}, flags : SUBSET Flags])]
DeviceTexts ==
  [flags : SUBSET Flags, key : Nat, port : Nat, fwmark : Nat, peers : Seq(PeerTexts)]

(* A file replaces everything, the allowed IPs of its peers included, and removes
   no peer by name (config_read_init, process_line); addconf and set replace no
   peers; the other process only adds.                                     *)
TextsParsed ==
  /\ Files \cup Additions \cup Writes \subseteq DeviceTexts
  /\ \A f \in Files :
       /\ {"REPLACE_PEERS", "HAS_PRIVATE_KEY", "HAS_LISTEN_PORT", "HAS_FWMARK"} \subseteq f.flags
       /\ \A n \in DOMAIN f.peers :
            "REPLACE_ALLOWEDIPS" \in f.peers[n].flags /\ "REMOVE_ME" \notin f.peers[n].flags
  /\ \A f \in Additions \cup Writes : "REPLACE_PEERS" \notin f.flags
  /\ \A f \in Writes : \A n \in DOMAIN f.peers : "REMOVE_ME" \notin f.peers[n].flags

(* Who has an allowed IP of an interface is one of its peers. *)
KernelsFormed ==
  \A k \in Kernels :
    /\ k = With(k, k.peers, k.owner)
    /\ Keys(k) \subseteq Nat
    /\ k.owner \in [DOMAIN k.owner -> Keys(k) \cup {NoPeer}]

CInit ==
  /\ kernel \in Kernels /\ sessions = Keys(kernel)
  /\ \/ command \in {"setconf", "syncconf"} /\ dev \in Files
     \/ command \in {"addconf", "set"} /\ dev \in Additions
  /\ where = "parse" /\ runtime = [peers |-> <<>>] /\ pubkeys = <<>> /\ turn = 1
  /\ owned = {} /\ exit = 1 /\ late = {} /\ writes = 0

(* The file or an argument is wrong: nothing is left of the device. *)
ParseFails ==
  /\ where = "parse" /\ where' = "done"
  /\ UNCHANGED <<command, dev, runtime, pubkeys, turn, owned, exit, kernel, sessions, late, writes>>

Parse ==
  /\ where = "parse"
  /\ owned' = {"device"}
  /\ where' = IF command = "syncconf" THEN "get" ELSE "set"
  /\ UNCHANGED <<command, dev, runtime, pubkeys, turn, exit, kernel, sessions, late, writes>>

(* The peers of an interface as they are read: each once, in any order. *)
Lists(s) == Bijection(1 .. Cardinality(s), s) \cap Seq(s)

(* sync_conf: with no peers in the file, or none on the interface, the flag
   that replaces all peers stays.                                           *)
SyncGet ==
  /\ where = "get"
  /\ IF dev.peers = <<>>
     THEN where' = "set" /\ UNCHANGED <<dev, runtime, owned, late>>
     ELSE \/ where' = "cleanup" /\ UNCHANGED <<dev, runtime, owned, late>>   (* ipc_get_device *)
          \/ /\ \E peers \in Lists(Keys(kernel)) : runtime' = [peers |-> peers]
             /\ late' = {}
             /\ IF Keys(kernel) = {}
                THEN where' = "set" /\ UNCHANGED <<dev, owned>>
                ELSE /\ where' = "collect" /\ owned' = owned \cup {"runtime"}
                     /\ dev' = [dev EXCEPT !.flags = @ \ {"REPLACE_PEERS"}]
  /\ UNCHANGED <<command, pubkeys, turn, exit, kernel, sessions, writes>>

(* Of equal keys the file's comes first. *)
pubkey_cmp_reversed(a, b) == a.pub < b.pub \/ (a.pub = b.pub /\ a.from_file /\ ~b.from_file)

(* By key; of equal keys the interface's comes first. *)
pubkey_cmp(a, b) == a.pub < b.pub \/ (a.pub = b.pub /\ ~a.from_file /\ b.from_file)

(* The array as the two loops fill it. *)
Entries ==
  [n \in DOMAIN dev.peers |-> [pub |-> dev.peers[n].pub, from_file |-> TRUE]]
  \o [n \in DOMAIN runtime.peers |-> [pub |-> runtime.peers[n], from_file |-> FALSE]]

(* How many entries go before the one at a position. *)
Rank(s, a) == Cardinality({b \in DOMAIN s : pubkey_cmp(s[b], s[a]) \/ (b < a /\ ~pubkey_cmp(s[a], s[b]))})

(* qsort rearranges the array so that no entry is less than an earlier one.
   Entries of which neither is less are equal, so that there is one result.  *)
Orders(s) == {[n \in DOMAIN s |-> CHOOSE a \in DOMAIN s : Rank(s, a) = n - 1]} \cap Bijection(DOMAIN s, DOMAIN s)

Sorted(s) ==
  \A a, b \in DOMAIN s : a < b => ~pubkey_cmp(s[b], s[a])

Collect ==
  /\ where = "collect"
  /\ \/ /\ \E order \in Orders(Entries) :
             /\ pubkeys' = [n \in DOMAIN Entries |-> Entries[order[n]]]
             /\ Sorted(pubkeys')
        /\ turn' = 1 /\ where' = "loop" /\ owned' = owned \cup {"pubkeys"}
     \/ where' = "cleanup" /\ owned' = owned \ {"runtime"} /\ UNCHANGED <<pubkeys, turn>>  (* calloc *)
  /\ UNCHANGED <<command, dev, runtime, exit, kernel, sessions, late, writes>>

(* A key of the interface is a stranger if the next entry is not the file's
   entry of the same key.                                                   *)
Stranger(n) ==
  /\ ~pubkeys[n].from_file
  /\ n < Len(pubkeys) => ~pubkeys[n + 1].from_file \/ pubkeys[n].pub # pubkeys[n + 1].pub

(* A stranger is sent without the flag that removes it: only its key. *)
RemovalByName(pub) ==
  [pub |-> pub, flags |-> {}, psk |-> 0, endpoint |-> 0, keepalive |-> 0, ips |-> <<>>]

Removal(pub) ==
  [pub |-> pub, flags |-> {"REMOVE_ME"}, psk |-> 0, endpoint |-> 0, keepalive |-> 0, ips |-> <<>>]

(* One turn of the loop: a stranger's removal is put before all peers. *)
SyncLoop ==
  /\ where = "loop"
  /\ IF turn > Len(pubkeys)
     THEN where' = "set" /\ owned' = owned \ {"runtime", "pubkeys"} /\ UNCHANGED <<dev, turn>>
     ELSE \/ /\ dev' = IF Stranger(turn) THEN [dev EXCEPT !.peers = <<Removal(pubkeys[turn].pub)>> \o @] ELSE dev
             /\ turn' = turn + 1 /\ UNCHANGED <<where, owned>>
          \/ /\ Stranger(turn)                                             (* calloc *)
             /\ where' = "cleanup" /\ owned' = owned \ {"runtime", "pubkeys"} /\ UNCHANGED <<dev, turn>>
  /\ UNCHANGED <<command, runtime, pubkeys, exit, kernel, sessions, late, writes>>

(* The peers that the kernel removes on its way through the first n. *)
Drops(d, k, n) ==
  (IF "REPLACE_PEERS" \in d.flags THEN Keys(k) ELSE {})
  \cup {d.peers[m].pub : m \in {m \in 1 .. n : "REMOVE_ME" \in d.peers[m].flags}}

(* ipc_set_device: all of it, or an error after some of the peers. *)
Set ==
  /\ where = "set"
  /\ \E n \in 0 .. Len(dev.peers), ok \in BOOLEAN :
       /\ ok => n = Len(dev.peers)
       /\ kernel' = TakeSome(kernel, dev, n)
       /\ sessions' = sessions \ Drops(dev, kernel, n)
       /\ exit' = IF ok THEN 0 ELSE 1
  /\ where' = "cleanup"
  /\ UNCHANGED <<command, dev, runtime, pubkeys, turn, owned, late, writes>>

Cleanup ==
  /\ where = "cleanup"
  /\ owned' = owned \ {"device"} /\ where' = "done"
  /\ UNCHANGED <<command, dev, runtime, pubkeys, turn, exit, kernel, sessions, late, writes>>

(* Another process configures the interface. *)
OtherWrites ==
  /\ writes < MaxWrites /\ where \notin {"cleanup", "done"}
  /\ \E w \in Writes :
       /\ kernel' = TakeAll(kernel, w)
       /\ sessions' = (sessions \cup (Keys(kernel') \ Keys(kernel))) \ Drops(w, kernel, Len(w.peers))
       /\ late' = late \cup DevKeys(w)
  /\ writes' = writes + 1
  /\ UNCHANGED <<command, where, dev, runtime, pubkeys, turn, owned, exit>>

CNext ==
  \/ ParseFails \/ Parse \/ SyncGet \/ Collect \/ SyncLoop \/ Set \/ Cleanup \/ OtherWrites

CSpec == CInit /\ [][CNext]_cvars

-----------------------------------------------------------------------------
Succeeded(c) == command = c /\ where = "cleanup" /\ exit = 0

(* The peers the file names: what is not a removal. *)
Named == {p.pub : p \in {q \in Range(dev.peers) : "REMOVE_ME" \notin q.flags}}

Blank == [key |-> 0, port |-> 0, fwmark |-> 0, peers |-> [q \in {} |-> 0],
          owner |-> [a \in DOMAIN kernel.owner |-> NoPeer]]

(* setconf leaves the interface as the file says, whatever it was like and
   whatever another process did before (setconf_main; wg(8), setconf).        *)
SetconfSets == Succeeded("setconf") => kernel = TakeAll(Blank, dev)

(* syncconf ends with the file's peers and no others, except one that another
   process added after sync_conf had read the interface; and no peer of the
   file is missing (the sorted merge of sync_conf).                           *)
SyncLeavesNoStrangers ==
  Succeeded("syncconf") =>
    /\ Keys(kernel) \ Named \subseteq late
    /\ Named \subseteq Keys(kernel)

(* The sessions of the peers that are on the interface when sync_conf reads it
   and in the file are not disrupted: no such peer is removed on the way, not
   even to be added again (wg(8): "has the benefit of not disrupting current
   peer sessions").                                                           *)
SyncKeepsSessions ==
  /\ command = "syncconf" /\ where \in {"cleanup", "done"} /\ runtime.peers # <<>>
  => Range(runtime.peers) \cap Named \subseteq sessions

(* Allowed IPs end up where setconf would have put them, although syncconf
   neither removes the peers nor knows who had them before; an exception are
   those another process hands out meanwhile (WGPEER_REPLACE_ALLOWEDIPS of
   every peer in the file, in the file's order).                              *)
SyncRoutesAsSet ==
  Succeeded("syncconf") /\ writes = 0 =>
    kernel.owner = TakeAll(Blank, dev).owner

(* setconf leaves the interface as the file says, whatever it was like.  syncconf,
   which neither removes the peers nor knows who had an allowed IP before, ends
   with the file's peers and no others and with the allowed IPs where setconf
   would have put them, except for what another process adds or hands out after
   sync_conf has read the interface (setconf_main, sync_conf).             *)
LeavesWhatTheFileSays == SetconfSets /\ SyncLeavesNoStrangers /\ SyncRoutesAsSet

OthersKept ==
  /\ Keys(kernel) \ Keys(kernel)' \subseteq {p.pub : p \in {q \in Range(dev.peers) : "REMOVE_ME" \in q.flags}}
  /\ \A q \in Keys(kernel) \ DevKeys(dev) : kernel.peers[q] = kernel'.peers[q]

(* addconf and set lose no peer but the ones they are told to remove, and leave
   the attributes of those they do not name (config_read_init, config_read_cmd:
   neither sets WGDEVICE_REPLACE_PEERS).                                      *)
AddKeepsOthers ==
  where' = "cleanup" /\ kernel' # kernel /\ command \in {"addconf", "set"} => OthersKept

(* Nobody loses a peer without being told: addconf and set remove only the peers
   they are told to and leave the attributes of those they do not name, and a
   peer that is on the interface when sync_conf reads it and in the file is never
   removed on the way, not even to be added again (config_read_cmd, sync_conf;
   wg(8): "has the benefit of not disrupting current peer sessions").      *)
PeersAreKept == [][AddKeepsOthers /\ SyncKeepsSessions']_cvars

(* sync_conf and setconf_main free the device, the interface they read and the
   array of keys, once each, on every way out.                                *)
CleansUp ==
  /\ where = "done" => owned = {}
  /\ where \in {"set", "cleanup"} => owned = {"device"}
=============================================================================
