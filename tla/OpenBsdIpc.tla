----------------------------- MODULE OpenBsdIpc -----------------------------
(***************************************************************************)
(* kernel_get_device and kernel_set_device of ipc-openbsd.h: one ioctl     *)
(* with a packed buffer (PackedDevice).  Its size is asked for first, and  *)
(* again as long as the device has grown in the meantime.                  *)
(***************************************************************************)
EXTENDS DeviceIo, PackedDevice

CONSTANTS
  Requests,             (* the devices kernel_set_device may be given       *)
  MaxChanges            (* bound on the changes others make during a call  *)

VARIABLES
  pc,
  size,       (* wgd_size                                                  *)
  room,       (* bytes allocated                                           *)
  buf,        (* the buffer                                                *)
  off,        (* wg_peer, as an offset                                     *)
  n,          (* peers done                                                *)
  dev,        (* the wgdevice that is built                                *)
  far,        (* the farthest byte read or written                         *)
  heap,       (* what is allocated: "interface", the buffer, and "device"  *)
  changes

local == <<pc, size, room, buf, off, n, dev, far, heap>>
vars == <<IoVars, local, changes>>

Init ==
  /\ IoInit(Requests)
  /\ pc = op /\ size = 0 /\ room = 0 /\ buf = Empty /\ off = IfaceLen /\ n = 0
  /\ dev = NULL /\ far = 0 /\ heap = {} /\ changes = 0

(* Another process changes the device; only a reader can tell. *)
Other ==
  /\ op = "get" /\ answer = NULL /\ changes < MaxChanges
  /\ Change /\ changes' = changes + 1
  /\ UNCHANGED local

(* `out': an ioctl or an allocation fails.  The buffer is freed; a device that is
   half built stays.                                                         *)
Fails ==
  /\ answer = NULL /\ pc # "grow"
  /\ answer' = Error /\ pc' = "done" /\ heap' = heap \ {"interface"}
  /\ UNCHANGED <<op, asked, kern, held, taken, size, room, buf, off, n, dev, far, changes>>

(* realloc fails: what is freed then is the NULL it returned. *)
ReallocFails ==
  /\ pc = "grow"
  /\ answer' = Error /\ pc' = "realloc"
  /\ UNCHANGED <<op, asked, kern, held, taken, size, room, buf, off, n, dev, far, heap, changes>>

(***************************************************************************)
(* kernel_get_device                                                       *)
(***************************************************************************)

(* Ends only where the buffer is larger than needed. *)
AskSizeStrict ==
  /\ pc = "get"
  /\ size' = SizeOf(kern)
  /\ IF size >= SizeOf(kern) THEN buf' = Image(kern) /\ held' = kern ELSE UNCHANGED <<buf, held>>
  /\ pc' = IF size > SizeOf(kern) THEN "iface" ELSE "grow"
  /\ UNCHANGED <<op, asked, kern, taken, answer, room, off, n, dev, far, heap, changes>>

(* SIOCGWG: the size that is needed, and the device if it fits into the size
   that was given.                                                           *)
AskSize ==
  /\ pc = "get"
  /\ size' = SizeOf(kern)
  /\ IF size >= SizeOf(kern) THEN buf' = Image(kern) /\ held' = kern ELSE UNCHANGED <<buf, held>>
  /\ pc' = IF size >= SizeOf(kern) THEN "iface" ELSE "grow"
  /\ UNCHANGED <<op, asked, kern, taken, answer, room, off, n, dev, far, heap, changes>>

(* realloc *)
Grow ==
  /\ pc = "grow"
  /\ room' = size /\ heap' = heap \cup {"interface"} /\ pc' = "get"
  /\ UNCHANGED <<IoVars, size, buf, off, n, dev, far, changes>>

ReadIface ==
  /\ pc = "iface"
  /\ dev' = [attrs |-> buf[0].attrs, marks |-> {}, peers |-> <<>>]
  /\ far' = IfaceLen /\ heap' = heap \cup {"device"}
  /\ pc' = "peers"
  /\ UNCHANGED <<IoVars, size, room, buf, off, n, changes>>

(* The endpoint is copied only if it is no larger than a struct sockaddr, and a
   preshared key only counts if it is not zero.                              *)
FitsSockaddr(e) == e # "v6"

PeerAttrs(attrs) ==
  [a \in {x \in DOMAIN attrs : /\ x = "ENDPOINT" => FitsSockaddr(attrs[x])
                               /\ x = "PRESHARED_KEY" => attrs[x] # "zero"} |-> attrs[a]]

ReadPeer ==
  /\ pc = "peers" /\ n < buf[0].count
  /\ dev' = [dev EXCEPT !.peers = Append(@, [attrs |-> PeerAttrs(buf[off].attrs), marks |-> {},
                                             aips |-> AipsAt(buf, off)])]
  /\ off' = PeerEnd(off, buf[off].count)
  /\ far' = off' /\ n' = n + 1
  /\ UNCHANGED <<IoVars, pc, size, room, buf, heap, changes>>

GetReturns ==
  /\ pc = "peers" /\ n = buf[0].count
  /\ answer' = [ret |-> "ok", dev |-> dev] /\ pc' = "done" /\ heap' = heap \ {"interface"}
  /\ UNCHANGED <<op, asked, kern, held, taken, size, room, buf, off, n, dev, far, changes>>

(***************************************************************************)
(* kernel_set_device                                                       *)
(***************************************************************************)

(* The size of everything, calloc, and the attributes of the interface. *)
Measure ==
  /\ pc = "set"
  /\ size' = SizeOf(asked) /\ room' = size'
  /\ buf' = Put(Empty, 0, [attrs |-> asked.attrs, marks |-> asked.marks, count |-> 0])
  /\ far' = IfaceLen /\ heap' = {"interface"} /\ pc' = "fill"
  /\ UNCHANGED <<IoVars, off, n, dev, changes>>

(* An allowed IP to be removed, or added, by itself is not supported. *)
Supported(p) == \A j \in DOMAIN p.aips : p.aips[j].flags = {}

FillPeer ==
  /\ pc = "fill" /\ n < Len(asked.peers)
  /\ LET p == asked.peers[n + 1]
     IN  IF Supported(p)
         THEN /\ buf' = PutPeer(buf, off, p)
              /\ off' = PeerEnd(off, Len(p.aips)) /\ far' = off'
              /\ n' = n + 1
              /\ UNCHANGED <<IoVars, pc, heap>>
         ELSE /\ answer' = Error /\ pc' = "done" /\ heap' = {}      (* EOPNOTSUPP *)
              /\ UNCHANGED <<op, asked, kern, held, taken, buf, off, far, n>>
  /\ UNCHANGED <<size, room, dev, changes>>

(* The count of the peers is left zero. *)
SubmitUncounted ==
  /\ pc = "fill" /\ n = Len(asked.peers)
  /\ taken' = Found(buf)
  /\ answer' = [ret |-> "ok", dev |-> NULL] /\ pc' = "done" /\ heap' = {}
  /\ UNCHANGED <<op, asked, kern, held, size, room, buf, off, n, dev, far, changes>>

(* The peers are counted; SIOCSWG; a failure is Fails. *)
Submit ==
  /\ pc = "fill" /\ n = Len(asked.peers)
  /\ buf' = [buf EXCEPT ![0].count = n]
  /\ taken' = Found(buf')
  /\ answer' = [ret |-> "ok", dev |-> NULL] /\ pc' = "done" /\ heap' = {}
  /\ UNCHANGED <<op, asked, kern, held, size, room, off, n, dev, far, changes>>

Get == AskSize \/ Grow \/ ReadIface \/ ReadPeer \/ GetReturns
Set == Measure \/ FillPeer \/ Submit

Next == Other \/ Fails \/ ReallocFails \/ Get \/ Set

Spec == Init /\ [][Next]_vars /\ WF_vars(Get \/ Set)

-----------------------------------------------------------------------------
(* Reading and setting by walking a packed buffer keep the promise of DeviceIo,
   while others change the device between the ioctls and any step may fail:
   what is returned is the device of one moment, what is set is taken whole or
   not at all, and an unsupported request is refused before the kernel sees any
   of it (kernel_get_device, kernel_set_device).                              *)
KeepsPromise == [IoNext]_IoVars

(* No structure is read or written beyond the buffer, although its size was
   asked for before the device in it was (the loop around SIOCGWG; wgd_size). *)
StaysInBuffer == far <= room

(* A call that has returned has freed its buffer, except where realloc failed and
   the old one was forgotten.  A device that was begun is left: it is the
   caller's, or, after a failure, lost (the label out; calloc of dev, peer and aip
   in kernel_get_device).                                                     *)
GivesBack ==
  answer # NULL =>
    heap = IF pc = "realloc" THEN {x \in {"interface"} : room > 0}
           ELSE {x \in {"device"} : dev # NULL}
=============================================================================
