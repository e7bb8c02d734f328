---------------------------- MODULE EmbeddableWg ----------------------------
(***************************************************************************)
(* The embeddable library, wireguard.c: one call of wg_add_device,         *)
(* wg_del_device, wg_list_device_names, wg_set_device or wg_get_device,    *)
(* from opening its netlink socket to its return, while other processes    *)
(* add, delete and rewrite interfaces.                                     *)
(*                                                                         *)
(* A request is handled by the kernel within sendto, the rest of a dump    *)
(* within recvmsg; both are external.  A message of wg_set_device has room *)
(* for Room peers and allowed IPs, of wg_get_device's dump for one peer    *)
(* and Room allowed IPs.                                                   *)
(***************************************************************************)
EXTENDS Integers, Sequences, SequencesExt, FiniteSets

CONSTANTS
  Names,      (* the names of interfaces                                   *)
  Contents,   (* the peers an interface may have: sequences of [pub, ips]  *)
  Configs,    (* what wg_set_device may be given: [replace, peers], whose peers
                 also have [replace, remove]                               *)
  Ops,        (* the calls to be looked at                                 *)
  Room,
  MaxWrites,  (* how often other processes change something                *)
  OutOfMemory,(* whether calloc and realloc may fail                       *)
  NULL

VARIABLES
  op, name, config,         (* the call and its arguments                  *)
  pc, ret, errno,
  sock,       (* the socket's queue of datagrams; NULL when it is closed    *)
  batch,      (* the messages of a datagram that are still to be run        *)
  asked,      (* the request being answered: "family" or "command"          *)
  peer, allowedip,          (* wg_set_device's position, 0 for NULL         *)
  device,     (* wg_get_device's result under construction                  *)
  list,       (* wg_list_device_names' result                               *)
  ifaces,     (* the kernel's interfaces: name -> peers                     *)
  dump,       (* the kernel's dump in progress                              *)
  writes,     (* changes by other processes                                 *)
  seen        (* the states of the interfaces during the call               *)

clientVars == <<op, name, config, peer, allowedip, device, list>>
vars == <<clientVars, pc, ret, errno, sock, batch, asked, ifaces, dump, writes, seen>>

Generic == op \in {"set", "get"}

(***************************************************************************)
(* The kernel (external).                                                  *)
(***************************************************************************)
Msg(type, intr, error, body) == [type |-> type, intr |-> intr, error |-> error, body |-> body]
Ack(e) == <<Msg("error", FALSE, e, NULL)>>

(* One peer of a WG_CMD_SET_DEVICE message: it is removed, its allowed IPs are
   replaced or added to, or it is a new one.                               *)
TakePeer(ps, p) ==
  IF p.remove THEN SelectSeq(ps, LAMBDA q : q.pub # p.pub)
  ELSE IF \E i \in DOMAIN ps : ps[i].pub = p.pub
  THEN [i \in DOMAIN ps |->
          IF ps[i].pub = p.pub
          THEN [ps[i] EXCEPT !.ips = (IF p.replace THEN <<>> ELSE @) \o p.ips] ELSE ps[i]]
  ELSE Append(ps, [pub |-> p.pub, ips |-> p.ips])

(* A peer in as many parts as its allowed IPs need.                        *)
Fragments(p) ==
  IF p.ips = <<>> THEN <<p>>
  ELSE [k \in 1 .. (Len(p.ips) + Room - 1) \div Room |->
          [p EXCEPT !.ips = SubSeq(@, (k - 1) * Room + 1, IF k * Room < Len(@) THEN k * Room ELSE Len(@))]]

(* What a dump consists of, from what the interfaces are now.              *)
DumpMsgs ==
  IF op = "list" THEN SetToSortSeq(DOMAIN ifaces, LAMBDA a, b : a < b)
  ELSE IF name \in DOMAIN ifaces THEN FlattenSeq([i \in DOMAIN ifaces[name] |-> Fragments(ifaces[name][i])])
  ELSE <<>>

DumpMsg(pos, intr) ==
  <<IF pos =< Len(DumpMsgs) THEN Msg("data", intr, "OK", DumpMsgs[pos]) ELSE Msg("done", intr, "OK", NULL)>>

(* Whether what is being dumped has changed since the dump began.          *)
Changed ==
  IF op = "list" THEN \E i \in dump.since .. Len(seen) : DOMAIN seen[i] # DOMAIN seen[dump.since]
  ELSE \E i \in dump.since .. Len(seen) :
         name \notin DOMAIN seen[i] \/ seen[i][name] # seen[dump.since][name]

(* Another process adds, deletes or rewrites an interface.                 *)
OtherProcess ==
  /\ writes < MaxWrites /\ pc \notin {"done", "crashed"}
  /\ \/ \E n \in Names \ DOMAIN ifaces, c \in Contents :
          ifaces' = [m \in DOMAIN ifaces \cup {n} |-> IF m = n THEN c ELSE ifaces[m]]
     \/ \E n \in DOMAIN ifaces : ifaces' = [m \in DOMAIN ifaces \ {n} |-> ifaces[m]]
     \/ \E n \in DOMAIN ifaces, c \in Contents : c # ifaces[n] /\ ifaces' = [ifaces EXCEPT ![n] = c]
  /\ writes' = writes + 1
  /\ seen' = Append(seen, ifaces')
  /\ UNCHANGED <<clientVars, pc, ret, errno, sock, batch, asked, dump>>

-----------------------------------------------------------------------------
Init ==
  /\ op \in Ops /\ name \in Names
  /\ config \in IF op = "set" THEN Configs ELSE {NULL}
  /\ ifaces \in UNION {[S -> Contents] : S \in SUBSET Names}
  /\ seen = <<ifaces>>
  /\ pc = "start" /\ ret = "OK" /\ errno = "OK"
  /\ sock = NULL /\ batch = <<>> /\ asked = "family"
  /\ peer = 0 /\ allowedip = 0
  /\ device = NULL /\ list = <<>>
  /\ dump = NULL /\ writes = 0

kernelVars == <<ifaces, writes, seen>>

(* Out of a call through its cleanup label.                                *)
Cleanup(e) == ret' = e /\ pc' = "cleanup"

(* try_again of wg_get_device allocates the device; every call then opens its
   socket: mnl_socket_open and mnl_socket_bind, for the generic netlink calls
   in mnlg_socket_open.                                                    *)
Start ==
  /\ pc = "start"
  /\ device' = IF op = "get" THEN [peers |-> <<>>] ELSE NULL
  /\ \/ sock' = <<>> /\ pc' = "send" /\ ret' = ret /\ errno' = errno
     \/ \E e \in {"EMFILE", "ENOMEM"} : sock' = NULL /\ Cleanup(e) /\ errno' = e
  /\ asked' = IF Generic THEN "family" ELSE "command"
  /\ UNCHANGED <<op, name, config, peer, allowedip, list, batch, dump, kernelVars>>

(* get_family_id: the id of the family and an acknowledgement, or an error. *)
SendFamily ==
  /\ pc = "send" /\ asked = "family"
  /\ \/ sock' = <<<<Msg("data", FALSE, "OK", NULL)>>, Ack("OK")>>
     \/ sock' = <<Ack("ENOENT")>>
  /\ pc' = "recv"
  /\ UNCHANGED <<clientVars, ret, errno, batch, asked, dump, kernelVars>>

(* add_del_iface: RTM_NEWLINK with NLM_F_CREATE and NLM_F_EXCL, or
   RTM_DELLINK, and its acknowledgement.                                   *)
SendAddDel ==
  /\ pc = "send" /\ op \in {"add", "del"}
  /\ LET there == name \in DOMAIN ifaces IN
       /\ ifaces' = IF op = "add"
                    THEN IF there THEN ifaces
                         ELSE [m \in DOMAIN ifaces \cup {name} |-> IF m = name THEN <<>> ELSE ifaces[m]]
                    ELSE [m \in DOMAIN ifaces \ {name} |-> ifaces[m]]
       /\ sock' = <<Ack(IF op = "add" /\ there THEN "EEXIST"
                        ELSE IF op = "del" /\ ~there THEN "ENODEV" ELSE "OK")>>
  /\ seen' = Append(seen, ifaces')
  /\ pc' = "recv"
  /\ UNCHANGED <<clientVars, ret, errno, batch, asked, dump, writes>>

(* wg_get_device and fetch_device_names request a dump; its first message is
   made at once.                                                           *)
SendDump ==
  /\ pc = "send" /\ op \in {"get", "list"} /\ asked = "command"
  /\ \/ /\ op = "get" => name \in DOMAIN ifaces
        /\ sock' = <<DumpMsg(1, FALSE)>>
        /\ dump' = IF DumpMsgs = <<>> THEN NULL ELSE [pos |-> 2, since |-> Len(seen)]
     \/ op = "get" /\ name \notin DOMAIN ifaces /\ dump' = NULL /\ sock' = <<Ack("ENODEV")>>
  /\ pc' = "recv"
  /\ UNCHANGED <<clientVars, ret, errno, batch, asked, kernelVars>>

(* How far a message of wg_set_device gets from a position: peers and allowed
   IPs are put while there is room, a peer that was begun is continued with
   its key, WGPEER_F_REMOVE_ME and the remaining allowed IPs, but without
   WGPEER_F_REPLACE_ALLOWEDIPS.                                            *)
RECURSIVE FillFrom(_, _, _)
FillFrom(i, j, room) ==
  LET p == config.peers[i]
      from == IF j = 0 THEN 1 ELSE j
      n == IF Len(p.ips) - from + 1 < room - 1 THEN Len(p.ips) - from + 1 ELSE room - 1
      part == [p EXCEPT !.ips = SubSeq(@, from, from + n - 1), !.replace = @ /\ j = 0]
  IN  IF i > Len(config.peers) THEN [put |-> <<>>, peer |-> 0, allowedip |-> 0]
      ELSE IF room = 0 THEN [put |-> <<>>, peer |-> i, allowedip |-> j]
      ELSE IF from + n =< Len(p.ips)
           THEN [put |-> <<part>>, peer |-> i, allowedip |-> from + n]
           ELSE LET rest == FillFrom(i + 1, 0, room - 1 - n) IN [rest EXCEPT !.put = <<part>> \o @]

(* The next message from wg_set_device's position.                         *)
NextMessage(i, j, room) == FillFrom(i, j, room)

(* again: of wg_set_device.  The flag that replaces the peers goes only into
   the first message.                                                      *)
SendSet ==
  /\ pc = "send" /\ op = "set" /\ asked = "command"
  /\ LET f == NextMessage(IF peer = 0 THEN 1 ELSE peer, allowedip, Room)
         old == IF peer = 0 /\ config.replace THEN <<>> ELSE ifaces[name]
     IN  /\ peer' = f.peer /\ allowedip' = f.allowedip
         /\ IF name \in DOMAIN ifaces
            THEN /\ ifaces' = [ifaces EXCEPT ![name] = FoldLeft(TakePeer, old, f.put)]
                 /\ sock' = <<Ack("OK")>>
            ELSE /\ ifaces' = ifaces
                 /\ sock' = <<Ack("ENODEV")>>
  /\ seen' = Append(seen, ifaces')
  /\ pc' = "recv"
  /\ UNCHANGED <<op, name, config, device, list, ret, errno, batch, asked, dump, writes>>

SendFails ==
  /\ pc = "send"
  /\ errno' = "ENOBUFS" /\ pc' = "failed"
  /\ UNCHANGED <<clientVars, ret, sock, batch, asked, dump, kernelVars>>

(* mnl_socket_recvfrom: a queued datagram, the next one of a dump, or an error. *)
RecvFrom ==
  /\ pc = "recv"
  /\ \/ sock # <<>> /\ batch' = Head(sock) /\ sock' = Tail(sock) /\ pc' = "run"
        /\ UNCHANGED <<dump, errno>>
     \/ /\ sock = <<>> /\ dump # NULL
        /\ batch' = DumpMsg(dump.pos, Changed)
        /\ dump' = IF dump.pos > Len(DumpMsgs) THEN NULL ELSE [dump EXCEPT !.pos = @ + 1]
        /\ pc' = "run" /\ UNCHANGED <<sock, errno>>
     \/ (sock # <<>> \/ dump # NULL) /\ errno' = "ENOBUFS" /\ pc' = "failed"
        /\ UNCHANGED <<batch, sock, dump>>
  /\ UNCHANGED <<clientVars, ret, asked, kernelVars>>

(* parse_allowedips of a part: with memory short it stops at an allowed IP, and
   parse_peers does not notice.                                            *)
ParsedPeer(part) ==
  {part} \cup (IF OutOfMemory
               THEN {[part EXCEPT !.ips = SubSeq(@, 1, n)] : n \in 0 .. Len(part.ips) - 1}
               ELSE {})

(* read_device_cb: parse_device and parse_peers append to the device.      *)
CbDevice(m) ==
  /\ op = "get" /\ asked = "command"
  /\ \E p \in ParsedPeer(m.body) : device' = [device EXCEPT !.peers = Append(@, p)]
  /\ list' = list

(* read_devices_cb: string_list_add appends the name.                      *)
CbDevices(m) ==
  /\ op = "list"
  /\ list' = Append(list, m.body)
  /\ device' = device

(* get_family_id_cb.                                                       *)
CbFamily == asked = "family" /\ UNCHANGED <<device, list>>

(* NLMSG_ERROR and NLMSG_DONE, by mnl_cb_error, mnlg_cb_error, mnl_cb_stop and
   mnlg_cb_stop.                                                           *)
CbControl(m) ==
  /\ m.type # "data"
  /\ errno' = IF m.error = "OK" THEN errno ELSE m.error
  /\ pc' = IF m.error = "OK" THEN "stopped" ELSE "failed"
  /\ UNCHANGED <<device, list>>

CbData(m) ==
  /\ m.type = "data"
  /\ \/ /\ CbDevice(m) \/ CbDevices(m) \/ CbFamily
        /\ errno' = errno
        /\ pc' = IF batch' = <<>> THEN "recv" ELSE "run"
     \/ /\ OutOfMemory /\ asked = "command"
        /\ errno' = "ENOMEM" /\ pc' = "failed" /\ UNCHANGED <<device, list>>

(* __mnl_cb_run: an interrupted dump is an error, any other message goes to its
   callback.                                                               *)
CbRun ==
  LET m == Head(batch) IN
  /\ pc = "run"
  /\ batch' = Tail(batch)
  /\ \/ m.intr /\ errno' = "EINTR" /\ pc' = "failed" /\ UNCHANGED <<device, list>>
     \/ ~m.intr /\ CbData(m)
     \/ ~m.intr /\ CbControl(m)
  /\ UNCHANGED <<op, name, config, peer, allowedip, ret, sock, asked, dump, kernelVars>>

(* coalesce_peers: neighbours with the same key are one peer.              *)
coalesce_peers(ps) ==
  FoldLeft(LAMBDA acc, q :
             IF acc # <<>> /\ Last(acc).pub = q.pub
             THEN [acc EXCEPT ![Len(acc)].ips = @ \o q.ips] ELSE Append(acc, q),
           <<>>, ps)

(* Whether coalesce_peers reaches an allowed IP through NULL: a part without any
   was joined to a peer that has some, whose last_allowedip became the part's,
   and a further part is to be appended.                                   *)
JoinsThroughNull(ps) ==
  \E i \in DOMAIN ps : \E k \in i + 1 .. Len(ps) - 1 :
    /\ \A m \in i .. k + 1 : ps[m].pub = ps[i].pub
    /\ ps[i].ips # <<>> /\ ps[k].ips = <<>>

(* A run that ended well: the family is known, wg_set_device has more to send,
   wg_get_device joins the fragments, which may be the end of the process; every
   other call is done.                                                     *)
Stopped ==
  /\ pc = "stopped"
  /\ IF asked = "family"
     THEN asked' = "command" /\ pc' = "send" /\ device' = device
     ELSE /\ asked' = asked
          /\ pc' = IF op = "set" /\ peer # 0 THEN "send"
                   ELSE IF op = "get" /\ JoinsThroughNull(device.peers) THEN "crashed" ELSE "cleanup"
          /\ device' = IF op = "get" THEN [peers |-> coalesce_peers(device.peers)] ELSE device
  /\ UNCHANGED <<op, name, config, peer, allowedip, list, ret, errno, sock, batch, dump, kernelVars>>

(* A request or a run that failed.  fetch_device_names makes do with what an
   interrupted dump gave it.                                               *)
Failed ==
  /\ pc = "failed"
  /\ batch' = <<>>
  /\ Cleanup(IF asked = "family" /\ errno = "ENOENT" THEN "EPROTONOSUPPORT"
             ELSE IF op = "list" /\ errno = "EINTR" THEN "OK" ELSE errno)
  /\ UNCHANGED <<clientVars, errno, sock, asked, dump, kernelVars>>

(* cleanup and out: the socket is closed; a failed wg_get_device frees its
   device, a failed wg_list_device_names its list.  An interrupted one starts over, with ret as it is: unlike
   kernel_get_device it is not reset at try_again.                         *)
Return ==
  /\ pc = "cleanup"
  /\ sock' = NULL /\ dump' = NULL
  /\ device' = IF ret = "OK" THEN device ELSE NULL
  /\ pc' = IF op = "get" /\ asked = "command" /\ ret = "EINTR" THEN "start" ELSE "done"
  /\ list' = IF ret = "OK" THEN list ELSE <<>>
  /\ UNCHANGED <<op, name, config, peer, allowedip, ret, errno, batch, asked, kernelVars>>

Done == pc \in {"done", "crashed"} /\ UNCHANGED vars

Client == Start \/ SendFamily \/ SendAddDel \/ SendDump \/ SendSet \/ SendFails \/ RecvFrom
          \/ CbRun \/ Stopped \/ Failed \/ Return

Next == Client \/ OtherProcess \/ Done

(* The calling thread runs on; nothing obliges another process to do anything. *)
Spec == Init /\ [][Next]_vars /\ WF_vars(Client)

-----------------------------------------------------------------------------
Returned == pc = "done" /\ ret = "OK"

(* wg_get_device's result is what the interface had at one moment of the call,
   each peer once.                                                         *)
GetIsASnapshot ==
  Returned /\ op = "get" =>
    \E i \in DOMAIN seen : name \in DOMAIN seen[i] /\ device.peers = seen[i][name]

(* A list, complete or cut short by a change, names only interfaces that existed
   during the call, each of them once; one that nothing changed meanwhile is
   complete.                                                               *)
ListIsHonest ==
  Returned /\ op = "list" =>
    /\ \A k \in DOMAIN list : \E i \in DOMAIN seen : list[k] \in DOMAIN seen[i]
    /\ IsInjective(list)
    /\ writes = 0 => ToSet(list) = DOMAIN ifaces

(* Changes by other processes never make listing the interfaces fail: only the
   socket does.                                                            *)
ListSurvivesChanges ==
  pc = "done" /\ op = "list" => ret \in {"OK", "EMFILE", "ENOMEM", "ENOBUFS"}

(* A wg_set_device that succeeds undisturbed has set the whole configuration,
   in however many messages.                                               *)
SetIsWhole ==
  Returned /\ op = "set" /\ writes = 0 =>
    /\ name \in DOMAIN ifaces
    /\ ifaces[name] = FoldLeft(TakePeer, IF config.replace THEN <<>> ELSE Head(seen)[name], config.peers)

(* wg_add_device succeeds only for an interface that it made itself, one that was
   not there the moment before; wg_del_device only for one that was there. *)
AddIsExclusive ==
  Returned /\ op \in {"add", "del"} =>
    \E i \in 1 .. Len(seen) - 1 :
      (name \in DOMAIN seen[i]) = (op = "del") /\ (name \in DOMAIN seen[i + 1]) = (op = "add")

(* Every way out closes the socket, and one that failed leaves neither a device
   nor a list; a call that starts over does so with nothing left open.     *)
NothingLeaks ==
  /\ pc \in {"start", "done"} => sock = NULL
  /\ pc = "done" /\ ret # "OK" => device = NULL /\ list = <<>>
=============================================================================
