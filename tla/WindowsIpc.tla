----------------------------- MODULE WindowsIpc -----------------------------
(***************************************************************************)
(* kernel_get_device and kernel_set_device of ipc-windows.h: one control   *)
(* code with a packed buffer (PackedDevice) whose length is a DWORD.       *)
(* DeviceIoControl says how much room is needed when it has too little.    *)
(***************************************************************************)
EXTENDS DeviceIo, PackedDevice

CONSTANTS
  Requests,   (* the devices kernel_set_device may be given                *)
  DwordMax,   (* DWORD_MAX                                                 *)
  MaxChanges  (* bound on the changes others make during a call            *)

VARIABLES
  pc,
  len,        (* buf_len                                                   *)
  room,       (* bytes allocated                                           *)
  buf,        (* the buffer                                                *)
  off,        (* wg_peer, as an offset                                     *)
  n,          (* peers done                                                *)
  dev,        (* the wgdevice that is built                                *)
  far,        (* the farthest byte read or written                         *)
  heap,       (* what is allocated or open: "handle", "buf", "device"      *)
  changes

local == <<pc, len, room, buf, off, n, dev, far, heap>>
vars == <<IoVars, local, changes>>

Init ==
  /\ IoInit(Requests)
  /\ pc = "open" /\ len = 0 /\ room = 0 /\ buf = Empty /\ off = IfaceLen /\ n = 0
  /\ dev = NULL /\ far = 0 /\ heap = {} /\ changes = 0

(* Another process changes the device; only a reader can tell. *)
Other ==
  /\ op = "get" /\ answer = NULL /\ changes < MaxChanges
  /\ Change /\ changes' = changes + 1
  /\ UNCHANGED local

(* kernel_interface_handle *)
Open ==
  /\ pc = "open"
  /\ heap' = {"handle"} /\ pc' = op
  /\ UNCHANGED <<IoVars, len, room, buf, off, n, dev, far, changes>>

(* There is no handle; or, `out', memory is short or WG_IOCTL_SET refused: the
   buffer is freed and the handle closed.  A device that is half built stays. *)
Fails ==
  /\ answer = NULL /\ pc # "get"
  /\ answer' = Error /\ pc' = "done" /\ heap' = heap \ {"handle", "buf"}
  /\ UNCHANGED <<op, asked, kern, held, taken, len, room, buf, off, n, dev, far, changes>>

(* WG_IOCTL_GET is refused, or there is no memory for its answer: the buffer is
   freed, and the call returns at once.                                      *)
GivesUp ==
  /\ pc = "get"
  /\ answer' = Error /\ pc' = "returned" /\ heap' = heap \ {"buf"}
  /\ UNCHANGED <<op, asked, kern, held, taken, len, room, buf, off, n, dev, far, changes>>

(***************************************************************************)
(* kernel_get_device                                                       *)
(***************************************************************************)

(* DeviceIoControl with the buffer there is; if it has too little room, a new one
   of the length that is needed at this moment.                              *)
Control ==
  /\ pc = "get"
  /\ len' = SizeOf(kern)
  /\ IF len >= SizeOf(kern)
     THEN buf' = Image(kern) /\ held' = kern /\ pc' = "iface" /\ UNCHANGED <<room, heap>>
     ELSE room' = len' /\ heap' = heap \cup {"buf"} /\ UNCHANGED <<buf, held, pc>>
  /\ UNCHANGED <<op, asked, kern, taken, answer, off, n, dev, far, changes>>

ReadIface ==
  /\ pc = "iface"
  /\ dev' = [attrs |-> buf[0].attrs, marks |-> {}, peers |-> <<>>]
  /\ far' = IfaceLen /\ heap' = heap \cup {"device"} /\ pc' = "peers"
  /\ UNCHANGED <<IoVars, len, room, buf, off, n, changes>>

ReadPeer ==
  /\ pc = "peers" /\ n < buf[0].count
  /\ dev' = [dev EXCEPT !.peers = Append(@, [attrs |-> buf[off].attrs, marks |-> {}, aips |-> AipsAt(buf, off)])]
  /\ off' = PeerEnd(off, buf[off].count) /\ far' = off' /\ n' = n + 1
  /\ UNCHANGED <<IoVars, pc, len, room, buf, heap, changes>>

GetReturns ==
  /\ pc = "peers" /\ n = buf[0].count
  /\ answer' = [ret |-> "ok", dev |-> dev] /\ pc' = "done" /\ heap' = heap \ {"handle", "buf"}
  /\ UNCHANGED <<op, asked, kern, held, taken, len, room, buf, off, n, dev, far, changes>>

(***************************************************************************)
(* kernel_set_device                                                       *)
(***************************************************************************)

(* A DWORD that wraps around. *)
PlusWraps(s, k) == (s + k) % (DwordMax + 1)

(* buf_len += k; NULL, EOVERFLOW, if it would wrap around. *)
Plus(s, k) == IF s = NULL THEN NULL ELSE IF DwordMax - s < k THEN NULL ELSE s + k

LenOf(d) ==
  FoldLeft(LAMBDA s, p : FoldLeft(LAMBDA t, a : Plus(t, AipLen), Plus(s, PeerLen), p.aips), IfaceLen, d.peers)

(* The attributes of an interface that can be set: there is none for a mark. *)
Settable(attrs) == [a \in DOMAIN attrs \ {"FWMARK"} |-> attrs[a]]

(* The length of everything, calloc, and the attributes of the interface. *)
Measure ==
  /\ pc = "set"
  /\ IF LenOf(asked) = NULL
     THEN answer' = Error /\ pc' = "done" /\ heap' = {} /\ UNCHANGED <<len, room, buf, far>>
     ELSE /\ len' = LenOf(asked) /\ room' = len'
          /\ buf' = Put(Empty, 0, [attrs |-> Settable(asked.attrs), marks |-> asked.marks, count |-> 0])
          /\ far' = IfaceLen /\ heap' = heap \cup {"buf"} /\ pc' = "fill" /\ UNCHANGED answer
  /\ UNCHANGED <<op, asked, kern, held, taken, off, n, dev, changes>>

(* An allowed IP to be removed, or added, by itself is not supported. *)
Supported(p) == \A j \in DOMAIN p.aips : p.aips[j].flags = {}

FillPeer ==
  /\ pc = "fill" /\ n < Len(asked.peers)
  /\ LET p == asked.peers[n + 1]
     IN  IF Supported(p)
         THEN /\ buf' = PutPeer(buf, off, p)
              /\ off' = PeerEnd(off, Len(p.aips)) /\ far' = off'
              /\ n' = n + 1
              /\ UNCHANGED <<answer, pc, heap>>
         ELSE /\ answer' = Error /\ pc' = "done" /\ heap' = {}      (* EOPNOTSUPP *)
              /\ UNCHANGED <<buf, off, far, n>>
  /\ UNCHANGED <<op, asked, kern, held, taken, len, room, dev, changes>>

(* The peers are counted, and the buffer is handed to the driver. *)
Submit ==
  /\ pc = "fill" /\ n = Len(asked.peers)
  /\ buf' = [buf EXCEPT ![0].count = n]
  /\ taken' = Found(buf')
  /\ answer' = [ret |-> "ok", dev |-> NULL] /\ pc' = "done" /\ heap' = {}
  /\ UNCHANGED <<op, asked, kern, held, len, room, off, n, dev, far, changes>>

Get == Open \/ Control \/ ReadIface \/ ReadPeer \/ GetReturns
Set == Measure \/ FillPeer \/ Submit

Next == Other \/ Fails \/ GivesUp \/ Get \/ Set

Spec == Init /\ [][Next]_vars /\ WF_vars(Get \/ Set)

-----------------------------------------------------------------------------
(* Reading and setting keep the promise of DeviceIo while others change the
   device between the calls of DeviceIoControl, for requests without a mark. *)
KeepsPromise == [IoNext]_IoVars

(* No structure is read or written beyond the buffer, although its length was
   learnt before the device in it was read, and is a DWORD that may not wrap
   around (the loop around WG_IOCTL_GET; the checks against DWORD_MAX).       *)
StaysInBuffer == far <= room

(* A call that has returned has freed its buffer and closed its handle, except
   where WG_IOCTL_GET was refused or its answer had no room: that return leaves
   the handle open.  A device that was begun is left: it is the caller's, or,
   after a failure, lost (the label out; ipc-windows.h:235-241; calloc of dev, peer
   and aip in kernel_get_device).                                             *)
GivesBack ==
  answer # NULL =>
    heap = IF pc = "returned" THEN {"handle"} ELSE {x \in {"device"} : dev # NULL}
=============================================================================
