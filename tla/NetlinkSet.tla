----------------------------- MODULE NetlinkSet -----------------------------
(***************************************************************************)
(* wg's configuration of a kernel interface, kernel_set_device of          *)
(* ipc-linux.h: a device with its peers and their allowed IPs is cut into  *)
(* as many generic netlink messages as the socket buffer demands, each     *)
(* acknowledged before the next one is built.                              *)
(*                                                                         *)
(* Sizes are the code's: netlink and generic netlink headers, attribute    *)
(* headers, payloads rounded up to four bytes.  Only the buffer is scaled  *)
(* down, so that a handful of allowed IPs needs several messages.          *)
(*                                                                         *)
(* `peer' and `allowedip' are the loop variables of the code as positions  *)
(* in the lists; 0 is its NULL.  The kernel's side is external: what it    *)
(* makes of a message is modelled from what the code expects of it.        *)
(***************************************************************************)
EXTENDS FiniteSets, KernelDevice

CONSTANTS
  BufLen,     (* mnl_ideal_socket_buffer_size()                            *)
  Devices,    (* the wgdevice structures a call may be given               *)
  Kernels     (* the kernel devices a call may find                        *)

(* A peer: key, flags, whether it carries a preshared key, an endpoint (its
   family, 0 for none), a keepalive; its allowed IPs in order.             *)
PeerOK(p) ==
  /\ p.flags \subseteq {"REMOVE_ME", "REPLACE_ALLOWEDIPS", "HAS_PRESHARED_KEY",
                        "HAS_PERSISTENT_KEEPALIVE_INTERVAL"}
  /\ p.endpoint \in {0, 4, 6}
  /\ p.ips \in Seq([ip : Nat, family : {4, 6}, flags : SUBSET {"REMOVE_ME"}])

MNL_ALIGN(len) == ((len + 3) \div 4) * 4

(* An attribute of len payload bytes takes its header and the rounded payload. *)
Attr(len) == 4 + MNL_ALIGN(len)

(* The netlink and generic netlink headers and the interface name.         *)
HeaderSize == 16 + 4 + Attr(5)

(* The device's own attributes, only in the first message.                 *)
DeviceSize(d) ==
  (IF "HAS_PRIVATE_KEY" \in d.flags THEN Attr(32) ELSE 0)
  + (IF "HAS_LISTEN_PORT" \in d.flags THEN Attr(2) ELSE 0)
  + (IF "HAS_FWMARK" \in d.flags THEN Attr(4) ELSE 0)
  + (IF "REPLACE_PEERS" \in d.flags THEN Attr(4) ELSE 0)

(* What a peer's nest takes before its allowed IPs; a peer continued from the
   previous message repeats only its key and a removal flag.               *)
PeerSize(p, continued) ==
  Attr(0) + Attr(32)
  + (IF ~continued /\ "HAS_PRESHARED_KEY" \in p.flags THEN Attr(32) ELSE 0)
  + (IF continued \/ p.endpoint = 0 THEN 0
     ELSE IF p.endpoint = 4 THEN Attr(16) ELSE Attr(28))
  + (IF ~continued /\ "HAS_PERSISTENT_KEEPALIVE_INTERVAL" \in p.flags THEN Attr(2) ELSE 0)
  + (IF \/ "REMOVE_ME" \in p.flags
        \/ ~continued /\ "REPLACE_ALLOWEDIPS" \in p.flags THEN Attr(4) ELSE 0)

AllowedIpSize(a) ==
  Attr(0) + Attr(2) + (IF a.family = 4 THEN Attr(4) ELSE Attr(16)) + Attr(1)
  + (IF a.flags # {} THEN Attr(4) ELSE 0)

(* Every piece fits into a message of its own.  Real buffers are a page of at
   least 4096 bytes; the smallest sufficient one is what matters here.     *)
PiecesFit(d) ==
  /\ HeaderSize + DeviceSize(d) =< BufLen
  /\ \A p \in Range(d.peers) :
       /\ PeerOK(p)
       /\ HeaderSize + DeviceSize(d) + Attr(0) + PeerSize(p, FALSE) =< BufLen
       /\ \A a \in Range(p.ips) :
            HeaderSize + Attr(0) + PeerSize(p, TRUE) + Attr(0) + AllowedIpSize(a) =< BufLen

(* Peers are in a list. *)
DevicesListed == BufLen \in Nat /\ \A d \in Devices : d.peers \in Seq(Range(d.peers))

VARIABLES
  dev,        (* the device being set                                      *)
  label,         (* the statement kernel_set_device is at                     *)
  peer,       (* its position in the list of peers, 0 before and after it  *)
  allowedip,  (* its position in that peer's allowed IPs, 0 for none       *)
  used,       (* nlmsg_len                                                 *)
  msg,        (* the message under construction, or in flight              *)
  ack,        (* the kernel's answer                                       *)
  ret,        (* the result of the call                                    *)
  kernel,     (* the kernel's device                                       *)
  before,     (* the kernel's device when the call began                   *)
  headed,     (* the peers whose attributes the kernel has taken           *)
  delivered   (* the allowed IPs, as <<peer, position>>, the kernel has taken *)

nvars == <<dev, label, peer, allowedip, used, msg, ack, ret, kernel, before, headed, delivered>>

NPeers == Len(dev.peers)
Ips(i) == dev.peers[i].ips

(* A message: whether it carries the device's attributes, the peers it
   introduces, the peers it continues, the allowed IPs it lists.           *)
EmptyMsg(first) == [device |-> first, heads |-> {}, conts |-> {}, ips |-> {}]

(* A message's peers in the order they were put, up to the n-th of the device. *)
TakeMsg(k, m, n) == TakePeers(IF m.device THEN TakeDevice(k, dev) ELSE k, dev, m, n)

(* The whole device applied at once: what the caller asked for.            *)
TakeWhole(k) == TakeAll(k, dev)

-----------------------------------------------------------------------------
NInit ==
  /\ dev \in Devices /\ PiecesFit(dev)
  /\ kernel \in Kernels
  /\ before = kernel
  /\ label = "open"
  /\ peer = 0 /\ allowedip = 0
  /\ used = 0
  /\ msg = EmptyMsg(FALSE)
  /\ ack = 0
  /\ ret = 0
  /\ headed = {} /\ delivered = {}

Fail(e) == ret' = e /\ label' = "done"

(* mnlg_socket_open: the socket, the buffer and the family, or an error.   *)
Open ==
  /\ label = "open"
  /\ \/ label' = "again" /\ ret' = ret
     \/ Fail(-1)
  /\ UNCHANGED <<dev, peer, allowedip, used, msg, ack, kernel, before, headed, delivered>>

(* again: a new message; the device's attributes go into the first only, the
   nest of the peers is opened if there are any.                           *)
Prepare ==
  /\ label = "again"
  /\ msg' = EmptyMsg(peer = 0)
  /\ used' = HeaderSize + (IF peer = 0 THEN DeviceSize(dev) ELSE 0)
             + (IF NPeers = 0 THEN 0 ELSE Attr(0))
  /\ IF NPeers = 0
     THEN label' = "send" /\ peer' = peer
     ELSE label' = "peer" /\ peer' = (IF peer = 0 THEN 1 ELSE peer)
  /\ UNCHANGED <<dev, allowedip, ack, ret, kernel, before, headed, delivered>>

(* The step of the loop over the peers, and its end.                       *)
NextPeer ==
  /\ allowedip' = 0
  /\ IF peer = NPeers THEN peer' = 0 /\ label' = "send" ELSE peer' = peer + 1 /\ label' = "peer"

(* One peer's nest up to its allowed IPs.  When it does not fit, the nest is
   cancelled and the message goes out (toobig_peers).                      *)
PutPeer ==
  LET p == dev.peers[peer]
      size == PeerSize(p, allowedip # 0)
      put == IF allowedip = 0 THEN [msg EXCEPT !.heads = @ \cup {peer}]
                              ELSE [msg EXCEPT !.conts = @ \cup {peer}]
  IN  /\ label = "peer"
      /\ IF used + size > BufLen
         THEN label' = "send" /\ UNCHANGED <<msg, used, peer, allowedip>>
         ELSE /\ msg' = put
              /\ IF p.ips = <<>>
                 THEN used' = used + size /\ NextPeer
                 ELSE /\ peer' = peer
                      /\ allowedip' = (IF allowedip = 0 THEN 1 ELSE allowedip)
                      /\ IF used + size + Attr(0) > BufLen
                         THEN label' = "send" /\ used' = used + size
                         ELSE label' = "ip" /\ used' = used + size + Attr(0)
      /\ UNCHANGED <<dev, ack, ret, kernel, before, headed, delivered>>

(* Mutant: the allowed IP that did not fit is skipped.                     *)
PutAllowedIpSkips ==
  LET size == AllowedIpSize(Ips(peer)[allowedip])
      last == allowedip = Len(Ips(peer))
      fits == used + size =< BufLen
  IN
  /\ label = "ip"
  /\ msg' = IF fits THEN [msg EXCEPT !.ips = @ \cup {<<peer, allowedip>>}] ELSE msg
  /\ used' = IF fits THEN used + size ELSE used
  /\ IF last THEN NextPeer
     ELSE allowedip' = allowedip + 1 /\ peer' = peer /\ label' = IF fits THEN label ELSE "send"
  /\ UNCHANGED <<dev, ack, ret, kernel, before, headed, delivered>>

(* One allowed IP.  When it does not fit, its nest is cancelled and the
   message goes out with the allowed IPs before it (toobig_allowedips).    *)
PutAllowedIp ==
  LET size == AllowedIpSize(Ips(peer)[allowedip]) IN
  /\ label = "ip"
  /\ IF used + size > BufLen
     THEN label' = "send" /\ UNCHANGED <<msg, used, peer, allowedip>>
     ELSE /\ msg' = [msg EXCEPT !.ips = @ \cup {<<peer, allowedip>>}]
          /\ used' = used + size
          /\ IF allowedip = Len(Ips(peer))
             THEN NextPeer
             ELSE allowedip' = allowedip + 1 /\ UNCHANGED <<peer, label>>
  /\ UNCHANGED <<dev, ack, ret, kernel, before, headed, delivered>>

Send ==
  /\ label = "send"
  /\ \/ label' = "kernel" /\ ret' = ret
     \/ Fail(-1)
  /\ UNCHANGED <<dev, peer, allowedip, used, msg, ack, kernel, before, headed, delivered>>

(* The kernel takes the message, or rejects it after some of its peers.    *)
KernelTakes ==
  /\ label = "kernel"
  /\ label' = "recv"
  /\ \E n \in 0 .. NPeers, e \in {0, -1} :
       /\ e = 0 => n = NPeers
       /\ ack' = e
       /\ kernel' = TakeMsg(kernel, msg, n)
       /\ IF e = 0
          THEN headed' = headed \cup msg.heads /\ delivered' = delivered \cup msg.ips
          ELSE UNCHANGED <<headed, delivered>>
  /\ UNCHANGED <<dev, peer, allowedip, used, msg, ret, before>>

(* mnlg_socket_recv_run: the acknowledgement ends the run; a lost or negative
   one ends the call.  A call that has not reached the end of the peers
   builds its next message from where it stopped.                          *)
Recv ==
  /\ label = "recv"
  /\ \/ ack = 0 /\ label' = (IF peer # 0 THEN "again" ELSE "done") /\ ret' = ret
     \/ Fail(-1)
  /\ UNCHANGED <<dev, peer, allowedip, used, msg, ack, kernel, before, headed, delivered>>

Done == label = "done" /\ UNCHANGED nvars

NNext == Open \/ Prepare \/ PutPeer \/ PutAllowedIp \/ Send \/ KernelTakes \/ Recv \/ Done

NSpec == NInit /\ [][NNext]_nvars

-----------------------------------------------------------------------------
Pairs == UNION {{i} \X (1 .. Len(Ips(i))) : i \in 1 .. NPeers}

(* No message outgrows the buffer it is built in, although the device's own
   attributes and the nest of the peers are put without a check.           *)
MessageFits == used =< BufLen

(* No piece is sent twice and none is left out: a message in flight repeats no
   allowed IP and introduces no peer the kernel already has from this call (a
   second introduction would clear the allowed IPs of the first), it continues
   only peers that were introduced, and a call that succeeds has delivered
   every peer and every allowed IP.                                        *)
EachPieceOnce ==
  /\ label \in {"send", "kernel"} =>
       /\ msg.heads \cap headed = {}
       /\ msg.conts \subseteq headed
       /\ msg.ips \cap delivered = {}
  /\ label = "done" /\ ret = 0 =>
       headed = 1 .. NPeers /\ delivered = Pairs

(* The kernel after the device's attributes, i whole peers and, of the next
   one, its attributes and j allowed IPs.                                  *)
TakePrefix(k, i, j) ==
  IF j < 0 THEN TakeSome(k, dev, i)
  ELSE TakePeer(TakeSome(k, dev, i), dev.peers[i + 1], TRUE, 1 .. j)

(* A call that succeeds has made of the kernel's device what applying the whole
   configuration in one step would have made, however it was cut.          *)
SetEqualsWhole == label = "done" /\ ret = 0 => kernel = TakeWhole(before)

(* A call that fails in the middle leaves a prefix of the configuration: no
   allowed IP of a later peer without the earlier ones, no peer continued
   without its attributes.                                                 *)
AlwaysAPrefix ==
  \/ kernel = before
  \/ \E i \in 0 .. NPeers :
       \/ kernel = TakePrefix(before, i, -1)
       \/ i < NPeers /\ \E j \in 0 .. Len(Ips(i + 1)) : kernel = TakePrefix(before, i, j)

(* However a configuration is cut into messages, the kernel goes through prefixes
   of it, in its order, and a call that succeeds has done what applying it in
   one step would have done: no message repeats a piece, introduces a peer the
   kernel has from this call already, or continues one it has not (the labels
   again, toobig_allowedips and toobig_peers of kernel_set_device).        *)
WholeOrPrefix == SetEqualsWhole /\ AlwaysAPrefix /\ EachPieceOnce
=============================================================================
