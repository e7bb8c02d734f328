----------------------------- MODULE FreeBsdIpc -----------------------------
(***************************************************************************)
(* kernel_get_device and kernel_set_device of ipc-freebsd.h: one ioctl     *)
(* with a packed nvlist, which holds an array of nvlists for the peers,    *)
(* and each of them one for its allowed IPs.  The lists are made and       *)
(* destroyed by hand, with a goto for every failure.                       *)
(*                                                                         *)
(* An nvlist is named by its place: <<>> is the device's, <<i>> the i-th   *)
(* peer's, <<i, j>> that of its j-th allowed IP; and so is a structure of  *)
(* the wgdevice that kernel_get_device builds.                             *)
(***************************************************************************)
EXTENDS Integers, Sequences, FiniteSets, DeviceIo

CONSTANTS
  Requests,   (* the devices kernel_set_device may be given                *)
  MaxChanges  (* bound on the changes others make during a call            *)

VARIABLES
  place,
  size,       (* the size of the packed list, as asked for: its device     *)
  data,       (* the device in wgd_data                                    *)
  peer_i, aip_j,       (* peers, allowed IPs done                                   *)
  dev,        (* the wgdevice that is built                                *)
  peer,       (* the one at hand                                           *)
  live,       (* the nvlists that are not destroyed                        *)
  slots,      (* the places of nvl_peers that are not NULL                 *)
  packed,     (* what was added to the device's list                       *)
  twice,      (* whether an nvlist was destroyed twice                     *)
  owned,      (* the structures of the wgdevice that are allocated         *)
  wgd,        (* whether wgd_data is                                       *)
  changes

local == <<place, size, data, peer_i, aip_j, dev, peer, live, slots, packed, twice, owned, wgd>>
fvars == <<IoVars, local, changes>>


Bare(x) == [attrs |-> x, marks |-> {}, peers |-> <<>>]

(* How many nvlists a device is packed from. *)
Weight(d) == Cardinality({<<p>> : p \in DOMAIN d.peers}
                         \cup UNION {{<<p, a>> : a \in DOMAIN d.peers[p].aips} : p \in DOMAIN d.peers})

FInit ==
  /\ IoInit(Requests)
  /\ place = op /\ size = -1 /\ data = NULL /\ peer_i = 0 /\ aip_j = 0 /\ dev = NULL /\ peer = NULL
  /\ live = {} /\ slots = {} /\ packed = NULL /\ twice = FALSE
  /\ owned = {} /\ wgd = FALSE /\ changes = 0

(* Another process changes the device; only a reader can tell. *)
Other ==
  /\ op = "get" /\ answer = NULL /\ changes < MaxChanges
  /\ Change /\ changes' = changes + 1
  /\ UNCHANGED local

Answer(ret, d) == answer' = [ret |-> ret, dev |-> d] /\ place' = "done"

(***************************************************************************)
(* kernel_get_device                                                       *)
(***************************************************************************)

(* SIOCGWG without a buffer: the size; then malloc. *)
AskSize ==
  /\ place = "get" /\ size = -1
  /\ size' = Weight(kern) /\ wgd' = TRUE
  /\ UNCHANGED <<IoVars, place, data, peer_i, aip_j, dev, peer, live, slots, packed, twice, owned, changes>>

(* SIOCGWG again, with the size of a moment ago: an error if it is too small
   now.  Otherwise the list is unpacked, and the attributes of the interface
   are read.                                                                 *)
Fetch ==
  /\ place = "get" /\ size # -1
  /\ IF Weight(kern) <= size
     THEN /\ held' = kern /\ data' = kern /\ live' = {<<>>}
          /\ dev' = Bare(kern.attrs) /\ peer_i' = 0 /\ place' = "peer"
          /\ owned' = {<<>>} /\ UNCHANGED <<answer, wgd>>
     ELSE Answer("error", NULL) /\ wgd' = FALSE /\ UNCHANGED <<held, data, live, dev, peer_i, owned>>
  /\ UNCHANGED <<op, asked, kern, taken, size, aip_j, peer, slots, packed, twice, changes>>

ReadPeer ==
  /\ place = "peer" /\ peer_i < Len(data.peers)
  /\ peer' = [attrs |-> data.peers[peer_i + 1].attrs, marks |-> {}, aips |-> <<>>]
  /\ aip_j' = 0 /\ owned' = owned \cup {<<peer_i + 1>>} /\ place' = "aip"
  /\ UNCHANGED <<IoVars, size, data, peer_i, dev, live, slots, packed, twice, wgd, changes>>

(* A new allowed IP gets its address and is linked. *)
ReadAip ==
  /\ place = "aip" /\ aip_j < Len(data.peers[peer_i + 1].aips)
  /\ peer' = [peer EXCEPT !.aips = Append(@, data.peers[peer_i + 1].aips[aip_j + 1])]
  /\ aip_j' = aip_j + 1 /\ owned' = owned \cup {<<peer_i + 1, aip_j + 1>>}
  /\ UNCHANGED <<IoVars, place, size, data, peer_i, dev, live, slots, packed, twice, wgd, changes>>

LinkPeer ==
  /\ place = "aip" /\ aip_j = Len(data.peers[peer_i + 1].aips)
  /\ dev' = [dev EXCEPT !.peers = Append(@, peer)]
  /\ peer_i' = peer_i + 1 /\ place' = "peer"
  /\ UNCHANGED <<IoVars, size, data, aip_j, peer, live, slots, packed, twice, owned, wgd, changes>>

GetReturns ==
  /\ place = "peer" /\ peer_i = Len(data.peers)
  /\ Answer("ok", dev) /\ live' = {} /\ wgd' = FALSE
  /\ UNCHANGED <<op, asked, kern, held, taken, size, data, peer_i, aip_j, dev, peer, slots, packed, twice, owned, changes>>

(* An allocation fails, or a value is wrong.  err_allowed_ips and err_peer free
   the allowed IP and the peer at hand, err the data, the list and the device: one
   structure each, none of those that were linked to them.                   *)
GetFails ==
  /\ op = "get" /\ answer = NULL
  /\ Answer("error", NULL) /\ live' = {} /\ wgd' = FALSE
  /\ owned' = owned \ {<<>>, <<peer_i + 1>>}
  /\ UNCHANGED <<op, asked, kern, held, taken, size, data, peer_i, aip_j, dev, peer, slots, packed, twice, changes>>

(***************************************************************************)
(* kernel_set_device                                                       *)
(***************************************************************************)

(* nvlist_create for the device, its attributes, the array for the peers. *)
BeginSet ==
  /\ place = "set"
  /\ live' = {<<>>} /\ packed' = [attrs |-> asked.attrs, marks |-> asked.marks, peers |-> <<>>]
  /\ place' = "make_peer"
  /\ UNCHANGED <<IoVars, size, data, peer_i, aip_j, dev, peer, slots, twice, owned, wgd, changes>>

MakePeer ==
  /\ place = "make_peer" /\ peer_i < Len(asked.peers)
  /\ live' = live \cup {<<peer_i + 1>>} /\ slots' = slots \cup {peer_i + 1}
  /\ peer' = [attrs |-> asked.peers[peer_i + 1].attrs, marks |-> asked.peers[peer_i + 1].marks, aips |-> <<>>]
  /\ aip_j' = 0 /\ place' = "make_aip"
  /\ UNCHANGED <<IoVars, size, data, peer_i, dev, packed, twice, owned, wgd, changes>>

(* nvlist_create for an allowed IP; then its flags are looked at.  EOPNOTSUPP is
   replaced by errno, which is still that of the stat in ipc_set_device.      *)
MakeAip ==
  /\ place = "make_aip" /\ aip_j < Len(asked.peers[peer_i + 1].aips)
  /\ LET a == asked.peers[peer_i + 1].aips[aip_j + 1]
     IN  IF a.flags = {}
         THEN peer' = [peer EXCEPT !.aips = Append(@, a)] /\ aip_j' = aip_j + 1 /\ UNCHANGED place
         ELSE place' = "err_peer" /\ UNCHANGED <<peer, aip_j>>                     (* EOPNOTSUPP *)
  /\ live' = live \cup {<<peer_i + 1, aip_j + 1>>}
  /\ UNCHANGED <<IoVars, size, data, peer_i, dev, slots, packed, twice, owned, wgd, changes>>

(* nvlist_add_nvlist_array copies the lists: those that were made go. *)
ClosePeer ==
  /\ place = "make_aip" /\ aip_j = Len(asked.peers[peer_i + 1].aips)
  /\ live' = live \ {<<peer_i + 1, a>> : a \in 1 .. aip_j}
  /\ packed' = [packed EXCEPT !.peers = Append(@, peer)]
  /\ peer_i' = peer_i + 1 /\ place' = "make_peer"
  /\ UNCHANGED <<IoVars, size, data, aip_j, dev, peer, slots, twice, owned, wgd, changes>>

(* calloc or nvlist_create fails on the way: for a peer, for what it holds, or
   before the first peer.                                                    *)
SetFails ==
  /\ \/ place = "make_peer" /\ peer_i < Len(asked.peers) /\ place' = "err_peer"
     \/ place = "make_aip" /\ aip_j < Len(asked.peers[peer_i + 1].aips) /\ place' = "err_peer"
     \/ place \in {"set", "make_peer"} /\ peer_i = 0 /\ place' = "err"
  /\ UNCHANGED <<IoVars, size, data, peer_i, aip_j, dev, peer, live, slots, packed, twice, owned, wgd, changes>>

(* The lists that err_peer destroys. *)
OfPeer == ({<<peer_i + 1, a>> : a \in 1 .. Len(asked.peers[peer_i + 1].aips)} \cap live)
          \cup {<<p>> : p \in slots \cap {peer_i + 1}}

(* The peer's place in the array still points to the list that was destroyed. *)
ErrPeerKeeps ==
  /\ place = "err_peer"
  /\ live' = live \ OfPeer /\ twice' = (twice \/ ~(OfPeer \subseteq live))
  /\ place' = "err"
  /\ UNCHANGED <<IoVars, size, data, peer_i, aip_j, dev, peer, slots, packed, owned, wgd, changes>>

(* err_peer: the peer's lists go, and its place in the array becomes NULL. *)
ErrPeer ==
  /\ place = "err_peer"
  /\ live' = live \ OfPeer /\ twice' = (twice \/ ~(OfPeer \subseteq live))
  /\ slots' = slots \ {peer_i + 1}
  /\ place' = "err"
  /\ UNCHANGED <<IoVars, size, data, peer_i, aip_j, dev, peer, packed, owned, wgd, changes>>

(* All lists the array points to, and the device's. *)
DestroyAll ==
  LET all == {<<p>> : p \in slots} \cup ({<<>>} \cap live)
  IN  live' = live \ all /\ twice' = (twice \/ ~(all \subseteq live)) /\ slots' = {}

(* err: all that is left of the peers, and the device. *)
Err ==
  /\ place = "err"
  /\ DestroyAll
  /\ Answer("error", NULL)
  /\ UNCHANGED <<op, asked, kern, held, taken, size, data, peer_i, aip_j, dev, peer, packed, owned, wgd, changes>>

(* The peers' lists are added, that is copied, and destroyed; the device's is
   packed, if there is memory, and destroyed; then SIOCSWG, which the kernel may
   refuse.  The packed data is not freed.                                    *)
Submit ==
  /\ place = "make_peer" /\ peer_i = Len(asked.peers)
  /\ DestroyAll
  /\ \/ taken' = packed /\ Answer("ok", NULL) /\ wgd' = TRUE
     \/ Answer("error", NULL) /\ wgd' \in BOOLEAN /\ UNCHANGED taken
  /\ UNCHANGED <<op, asked, kern, held, size, data, peer_i, aip_j, dev, peer, packed, owned, changes>>

Get == AskSize \/ Fetch \/ ReadPeer \/ ReadAip \/ LinkPeer \/ GetReturns \/ GetFails
Set == BeginSet \/ MakePeer \/ MakeAip \/ ClosePeer \/ SetFails \/ ErrPeer \/ Err \/ Submit

FNext == Other \/ Get \/ Set

FSpec == FInit /\ [][FNext]_fvars

-----------------------------------------------------------------------------
(* Reading and setting through nested lists keep the promise of DeviceIo: a
   reader whose device has outgrown the size it asked for fails instead of
   returning part of it, and a request is taken whole or not at all, whichever
   step of it fails (kernel_get_device, kernel_set_device).                  *)
KeepsPromise == [IoNext]_IoVars

(* Whatever step fails, when the call has returned every nvlist it made has been
   destroyed, and none twice (err_peer, err, and the two loops that destroy the
   lists after they were added).                                             *)
ListsDestroyedOnce == ~twice /\ (answer # NULL => live = {})

(* What kernel_get_device fetched is freed on every way out, and after a failure
   the device itself is.  The peers and allowed IPs that were linked to it are
   lost then, and so is what kernel_set_device packs (err_allowed_ips, err_peer,
   err; ipc-freebsd.h:352-355).                                              *)
GivesBack ==
  answer # NULL =>
    /\ wgd => op = "set"
    /\ answer.ret = "error" => <<>> \notin owned
    /\ answer.ret = "ok" /\ op = "get" =>
         owned = {<<>>} \cup {<<p>> : p \in DOMAIN dev.peers}
                \cup UNION {{<<p, a>> : a \in DOMAIN dev.peers[p].aips} : p \in DOMAIN dev.peers}
=============================================================================
