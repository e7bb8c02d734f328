---------------------------- MODULE NetlinkDump ----------------------------
(***************************************************************************)
(* wg's reading of a kernel interface, kernel_get_device of ipc-linux.h,   *)
(* over the small netlink library of netlink.h: open a generic netlink     *)
(* socket and ask for the family, ask for a dump of the device, collect    *)
(* the fragments the kernel cuts it into, join the fragments of a peer,    *)
(* and start over when the kernel says that the device changed during the  *)
(* dump.  Other processes rewrite the device at any moment.                *)
(*                                                                         *)
(* The kernel's side of the dump is external, modelled from what the code  *)
(* expects: fragments in order, every message after a change flagged       *)
(* NLM_F_DUMP_INTR, NLMSG_DONE at the end.                                 *)
(***************************************************************************)
EXTENDS Integers, Sequences, SequencesExt, FiniteSets

CONSTANTS
  Contents,   (* the lists of peers the kernel's device may have           *)
  Room,       (* peers and allowed IPs that fit into one dump message      *)
  MaxWrites,  (* how often other processes rewrite the device              *)
  OutOfMemory,(* whether calloc may fail                                   *)
  NULL

VARIABLES
  pc,         (* the statement kernel_get_device is at                     *)
  device,     (* the wgdevice under construction, NULL when freed          *)
  sock,       (* the requests' socket: NULL, or its queue of datagrams     *)
  batch,      (* the messages of the received datagram still to be run     *)
  asked,      (* which request is being answered: "family" or "dump"       *)
  errno, ret,
  kpeers,     (* the kernel's list of peers                                *)
  dump,       (* the kernel's dump in progress: NULL, or its cursor        *)
  writes,     (* rewrites so far                                           *)
  seen        (* the contents the kernel's device had during this call     *)

vars == <<pc, device, sock, batch, asked, errno, ret, kpeers, dump, writes, seen>>

Peer(pub, psk, ips) == [pub |-> pub, psk |-> psk, ips |-> ips]

(***************************************************************************)
(* The kernel (external).                                                  *)
(***************************************************************************)
(* The fragments from allowed IP j of peer i on (j = 0: the peer is not begun)
   that fit into room, and where the next message goes on.                 *)
RECURSIVE Fill(_, _, _, _)
Fill(ps, i, j, room) ==
  IF i > Len(ps) \/ room = 0 THEN [frags |-> <<>>, i |-> i, j |-> j]
  ELSE LET p == ps[i]
           from == IF j = 0 THEN 1 ELSE j
           upto == from + room - 2
           frag == Peer(p.pub, IF j = 0 THEN p.psk ELSE 0,
                        SubSeq(p.ips, from, IF upto < Len(p.ips) THEN upto ELSE Len(p.ips)))
           rest == Fill(ps, i + 1, 0, room - 1 - Len(frag.ips))
       IN  IF upto < Len(p.ips)
           THEN [frags |-> <<frag>>, i |-> i, j |-> upto + 1]
           ELSE [rest EXCEPT !.frags = <<frag>> \o @]

Msg(type, intr, frags, error) == [type |-> type, intr |-> intr, frags |-> frags, error |-> error]

(* The kernel answers the request for the family with its id and an
   acknowledgement, or with an error.                                      *)
KernelFamily ==
  /\ pc = "recv" /\ asked = "family" /\ sock = <<>>
  /\ \E e \in {"OK", "ENOENT"} :
       sock' = IF e = "OK"
               THEN <<<<Msg("data", FALSE, <<>>, e)>>, <<Msg("error", FALSE, <<>>, e)>>>>
               ELSE <<<<Msg("error", FALSE, <<>>, e)>>>>
  /\ UNCHANGED <<pc, device, batch, asked, errno, ret, kpeers, dump, writes, seen>>

(* The next message of the dump; with the last fragments, or alone after
   them, comes NLMSG_DONE.                                                 *)
KernelDump ==
  /\ pc = "recv" /\ asked = "dump" /\ sock = <<>> /\ dump # NULL
  /\ LET f == Fill(kpeers, dump.i, dump.j, Room)
         more == ~dump.begun \/ dump.i =< Len(kpeers)
         intr == dump.begun /\ dump.gen # writes
         data == Msg("data", intr, f.frags, "OK")
         done == Msg("done", intr, <<>>, "OK")
     IN  \/ ~more /\ sock' = <<<<done>>>> /\ dump' = NULL
         \/ more /\ f.i > Len(kpeers) /\ sock' = <<<<data, done>>>> /\ dump' = NULL
         \/ /\ more
            /\ sock' = <<<<data>>>>
            /\ dump' = [i |-> f.i, j |-> f.j, gen |-> IF dump.begun THEN dump.gen ELSE writes,
                        begun |-> TRUE]
  /\ UNCHANGED <<pc, device, batch, asked, errno, ret, kpeers, writes, seen>>

(* Another process reconfigures the device.                                *)
Rewrite ==
  /\ writes < MaxWrites /\ pc # "done"
  /\ kpeers' \in Contents \ {kpeers}
  /\ writes' = writes + 1
  /\ seen' = seen \cup {kpeers'}
  /\ UNCHANGED <<pc, device, sock, batch, asked, errno, ret, dump>>

-----------------------------------------------------------------------------
Init ==
  /\ kpeers \in Contents
  /\ seen = {kpeers}
  /\ pc = "check"
  /\ device = NULL /\ sock = NULL /\ dump = NULL
  /\ batch = <<>> /\ asked = "family"
  /\ errno = "OK" /\ ret = "OK"
  /\ writes = 0

(* A call returns; the device belongs to the caller when it is OK.         *)
Return(e) == pc' = "done" /\ ret' = e

(* A name that is too long for the netlink library's buffer is refused.    *)
CheckName ==
  /\ pc = "check"
  /\ \/ pc' = "alloc" /\ ret' = ret
     \/ Return("ENAMETOOLONG")
  /\ UNCHANGED <<device, sock, batch, asked, errno, kpeers, dump, writes, seen>>

(* try_again: ret is reset and a new device is allocated.                  *)
Alloc ==
  /\ pc = "alloc"
  /\ \/ device' = [peers |-> <<>>] /\ ret' = "OK" /\ pc' = "open"
     \/ OutOfMemory /\ Return("ENOMEM") /\ device' = NULL
  /\ UNCHANGED <<sock, batch, asked, errno, kpeers, dump, writes, seen>>

(* mnlg_socket_open: buffer, socket and bind, then the request for the id of
   the family.  A failure unwinds what was opened.                         *)
OpenSocket ==
  /\ pc = "open"
  /\ \/ sock' = <<>> /\ asked' = "family" /\ pc' = "recv" /\ errno' = "OK"
        /\ UNCHANGED <<device, ret>>
     \/ sock' = NULL /\ device' = NULL /\ Return("EMFILE") /\ UNCHANGED <<asked, errno>>
  /\ UNCHANGED <<batch, kpeers, dump, writes, seen>>

(* mnl_socket_recvfrom: one datagram, or an error.                         *)
RecvFrom ==
  /\ pc = "recv" /\ sock # <<>>
  /\ \/ batch' = Head(sock) /\ sock' = Tail(sock) /\ pc' = "run" /\ errno' = errno
     \/ errno' = "ENOBUFS" /\ pc' = "failed" /\ UNCHANGED <<batch, sock>>
  /\ UNCHANGED <<device, asked, ret, kpeers, dump, writes, seen>>

(* parse_allowedips in a fragment: with memory short it stops at an allowed IP
   and answers MNL_CB_ERROR; parse_peers tests only for MNL_CB_STOP, so the
   fragment counts as parsed with the allowed IPs it got.                  *)
Parsed(frag) ==
  {frag} \cup (IF OutOfMemory
               THEN {[frag EXCEPT !.ips = SubSeq(@, 1, n)] : n \in 0 .. Len(frag.ips) - 1}
               ELSE {})

(* parse_device, parse_peers and parse_peer of a message's fragments: what is
   appended to the device.                                                 *)
ParsedPeers(frags) ==
  {s \in [1 .. Len(frags) -> UNION {Parsed(f) : f \in Range(frags)}] :
     \A k \in DOMAIN s : s[k] \in Parsed(frags[k])}

(* NLMSG_ERROR and NLMSG_DONE, by mnlg_cb_error and mnlg_cb_stop: the run ends,
   well if the error they carry is 0.                                      *)
CbControl(m) ==
  /\ m.type # "data"
  /\ batch' = <<>>
  /\ device' = device
  /\ errno' = IF m.error = "OK" THEN errno ELSE m.error
  /\ pc' = IF m.error = "OK" THEN "answered" ELSE "failed"

(* A data message, by get_family_id_cb or read_device_cb; a peer for which no
   memory is left is an error.                                             *)
CbData(m) ==
  /\ m.type = "data"
  /\ \/ /\ batch' = Tail(batch)
        /\ pc' = IF batch' = <<>> THEN "recv" ELSE "run"
        /\ errno' = errno
        /\ \E got \in ParsedPeers(m.frags) :
             device' = IF asked = "family" THEN device ELSE [device EXCEPT !.peers = @ \o got]
     \/ /\ OutOfMemory /\ asked = "dump" /\ m.frags # <<>>
        /\ errno' = "ENOMEM" /\ pc' = "failed" /\ UNCHANGED <<batch, device>>

(* Mutant: the flag of an interrupted dump is not looked at.               *)
CbRunIgnoresInterrupt ==
  LET m == Head(batch) IN
  /\ pc = "run" /\ batch # <<>>
  /\ CbData(m) \/ CbControl(m)
  /\ UNCHANGED <<sock, asked, ret, kpeers, dump, writes, seen>>

(* __mnl_cb_run for one message: an interrupted dump is an error, any other
   message goes to its callback.                                           *)
CbRun ==
  LET m == Head(batch) IN
  /\ pc = "run" /\ batch # <<>>
  /\ \/ m.intr /\ errno' = "EINTR" /\ pc' = "failed" /\ UNCHANGED <<batch, device>>
     \/ ~m.intr /\ CbData(m)
     \/ ~m.intr /\ CbControl(m)
  /\ UNCHANGED <<sock, asked, ret, kpeers, dump, writes, seen>>

(* The family is known: the dump is requested on the same socket.  The kernel
   begins it at the first receive.                                         *)
SendDump ==
  /\ pc = "answered" /\ asked = "family"
  /\ \/ asked' = "dump" /\ pc' = "recv" /\ errno' = "OK"
        /\ dump' = [i |-> 1, j |-> 0, gen |-> 0, begun |-> FALSE]
     \/ asked' = "dump" /\ pc' = "failed" /\ errno' = "ENOBUFS" /\ dump' = dump
  /\ UNCHANGED <<device, sock, batch, ret, kpeers, writes, seen>>

(* The family's request failed: mnlg_socket_open closes its socket and returns
   NULL, an unknown family as EPROTONOSUPPORT; the device is freed.        *)
OpenFails ==
  /\ pc = "failed" /\ asked = "family"
  /\ sock' = NULL /\ device' = NULL
  /\ errno' = IF errno = "ENOENT" THEN "EPROTONOSUPPORT" ELSE errno
  /\ Return(errno')
  /\ UNCHANGED <<batch, asked, kpeers, dump, writes, seen>>

(* coalesce_peers: neighbours with the same key become one peer.  `last' is
   the last_allowedip pointer, 0 for NULL; appending through NULL to a list
   that is not empty is a crash.                                           *)
Crash == Peer(NULL, 0, <<>>)

RECURSIVE Coalesce(_, _, _)
Coalesce(ps, i, last) ==
  IF i >= Len(ps) THEN ps
  ELSE LET p == ps[i]
           q == ps[i + 1]
           joined == [p EXCEPT !.ips = @ \o q.ips]
       IN  IF p.pub # q.pub THEN Coalesce(ps, i + 1, Len(q.ips))
           ELSE IF p.ips # <<>> /\ last = 0 THEN <<Crash>>
           ELSE Coalesce(SubSeq(ps, 1, i - 1) \o <<joined>> \o SubSeq(ps, i + 2, Len(ps)),
                         i, Len(q.ips))

CoalescePeers(d) ==
  [d EXCEPT !.peers = IF d.peers = <<>> THEN @ ELSE Coalesce(@, 1, Len(Head(@).ips))]

(* The dump is complete: the fragments are joined.                         *)
Finish ==
  /\ pc = "answered" /\ asked = "dump"
  /\ device' = CoalescePeers(device)
  /\ pc' = "out"
  /\ UNCHANGED <<sock, batch, asked, errno, ret, kpeers, dump, writes, seen>>

(* The request or the dump failed.                                         *)
GetFails ==
  /\ pc = "failed" /\ asked = "dump"
  /\ ret' = errno /\ pc' = "out" /\ batch' = <<>>
  /\ UNCHANGED <<device, sock, asked, errno, kpeers, dump, writes, seen>>

(* out: the socket is closed; on an error the device is freed, and an
   interrupted dump is tried again from the start.                         *)
Out ==
  /\ pc = "out"
  /\ sock' = NULL /\ dump' = NULL
  /\ device' = IF ret = "OK" THEN device ELSE NULL
  /\ pc' = IF ret = "EINTR" THEN "alloc" ELSE "done"
  /\ UNCHANGED <<batch, asked, errno, ret, kpeers, writes, seen>>

Finished == pc = "done" /\ UNCHANGED vars

Client == CheckName \/ Alloc \/ OpenSocket \/ RecvFrom \/ CbRun \/ SendDump \/ OpenFails \/ Finish \/ GetFails \/ Out

(* The call: the caller's thread, and the kernel that answers it.          *)
Call == Client \/ KernelFamily \/ KernelDump

Next == Call \/ Rewrite \/ Finished

(* The caller's thread runs, and the kernel answers what it was asked; nothing
   obliges another process to write or to stop writing.                    *)
Spec == Init /\ [][Next]_vars /\ WF_vars(Call)

-----------------------------------------------------------------------------
(* What wg reads is what the interface had at one moment of the call: a device
   that is rewritten while its fragments arrive is never returned as a mixture,
   and fragments of one peer become one peer again.                        *)
ResultIsASnapshot == pc = "done" /\ ret = "OK" => device.peers \in seen

(* Joining fragments never appends through a null last_allowedip, and the
   device exists whenever a message is parsed into it.                     *)
NoNullDereference ==
  /\ pc \in {"open", "recv", "run", "answered"} => device # NULL
  /\ device # NULL => \A i \in DOMAIN device.peers : device.peers[i] # Crash

(* On every way out the socket is closed, and a failed call leaves no device
   behind for the caller to free.                                          *)
NothingLeaks == pc = "done" => sock = NULL /\ (ret # "OK" => device = NULL)
=============================================================================
