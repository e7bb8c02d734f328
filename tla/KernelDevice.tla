---------------------------- MODULE KernelDevice ----------------------------
(***************************************************************************)
(* What the kernel makes of a wgdevice structure it is sent (external):    *)
(* modelled from the flags that ipc-linux.h sends and from what its        *)
(* callers expect of them.                                                 *)
(*                                                                         *)
(* A kernel device has its own attributes; peers maps a public key to the  *)
(* peer's attributes; owner maps an allowed IP to the one peer that has it.*)
(***************************************************************************)
EXTENDS Integers, Sequences, Functions

CONSTANT NoPeer   (* the owner of an allowed IP that no peer has *)

(* A device with other peers and other owners of the allowed IPs. *)
With(k, peers, owner) ==
  [key |-> k.key, port |-> k.port, fwmark |-> k.fwmark, peers |-> peers, owner |-> owner]

(* The owners when a peer has lost all its allowed IPs. *)
Disowned(owner, pub) == [x \in DOMAIN owner |-> IF owner[x] = pub THEN NoPeer ELSE owner[x]]

RemovePeer(k, pub) ==
  With(k, [q \in DOMAIN k.peers \ {pub} |-> k.peers[q]], Disowned(k.owner, pub))

TakeAllowedIp(k, pub, a) ==
  IF "REMOVE_ME" \in a.flags
  THEN [k EXCEPT !.owner[a.ip] = IF @ = pub THEN NoPeer ELSE @]
  ELSE [k EXCEPT !.owner[a.ip] = pub]

(* The owners after the allowed IPs of a peer at some positions of its list,
   taken in order: the last one for an address decides.                    *)
TakeAllowedIps(owner, pub, ips, at) ==
  [x \in DOMAIN owner |->
     LET about == {j \in at : ips[j].ip = x}
         added == {j \in about : "REMOVE_ME" \notin ips[j].flags}
     IN  IF \E j \in added : \A i \in about : i =< j THEN pub
         ELSE IF added # {} \/ (about # {} /\ owner[x] = pub) THEN NoPeer
         ELSE owner[x]]

(* One peer nest, with the allowed IPs at some positions: attrs are present when
   it is introduced, absent when it is continued; the peer is created if it is
   not there.                                                              *)
TakePeer(k, p, full, at) ==
  LET old == IF p.pub \in DOMAIN k.peers THEN k.peers[p.pub]
             ELSE [psk |-> 0, endpoint |-> 0, keepalive |-> 0]
      new == [psk |-> IF full /\ "HAS_PRESHARED_KEY" \in p.flags THEN p.psk ELSE old.psk,
              endpoint |-> IF full /\ p.endpoint # 0 THEN p.endpoint ELSE old.endpoint,
              keepalive |-> IF full /\ "HAS_PERSISTENT_KEEPALIVE_INTERVAL" \in p.flags
                            THEN p.keepalive ELSE old.keepalive]
      cleared == IF full /\ "REPLACE_ALLOWEDIPS" \in p.flags THEN Disowned(k.owner, p.pub)
                 ELSE k.owner
  IN  IF "REMOVE_ME" \in p.flags THEN RemovePeer(k, p.pub)
      ELSE With(k, [q \in DOMAIN k.peers \cup {p.pub} |-> IF q = p.pub THEN new ELSE k.peers[q]],
                TakeAllowedIps(cleared, p.pub, p.ips, at))

TakeDevice(k, d) ==
  LET cleared == IF "REPLACE_PEERS" \in d.flags
                 THEN With(k, [q \in {} |-> 0], [a \in DOMAIN k.owner |-> NoPeer])
                 ELSE k
  IN  [cleared EXCEPT !.key = IF "HAS_PRIVATE_KEY" \in d.flags THEN d.key ELSE @,
                      !.port = IF "HAS_LISTEN_PORT" \in d.flags THEN d.port ELSE @,
                      !.fwmark = IF "HAS_FWMARK" \in d.flags THEN d.fwmark ELSE @]

(* The peers a message puts, up to the n-th of the device: m.heads are introduced,
   m.conts continued, m.ips are the <<peer, position>> of the allowed IPs. *)
TakePeers(k, d, m, n) ==
  LET taken[i \in Nat] ==
        IF i = 0 THEN k
        ELSE IF i \in m.heads \cup m.conts
             THEN TakePeer(taken[i - 1], d.peers[i], i \in m.heads,
                           {j \in DOMAIN d.peers[i].ips : <<i, j>> \in m.ips})
             ELSE taken[i - 1]
  IN  taken[n]

(* The whole structure at once, and its first n peers only. *)
Whole(d) == [heads |-> DOMAIN d.peers, conts |-> {},
             ips |-> UNION {{i} \X DOMAIN d.peers[i].ips : i \in DOMAIN d.peers}]

TakeSome(k, d, n) == TakePeers(TakeDevice(k, d), d, Whole(d), n)

TakeAll(k, d) == TakeSome(k, d, Len(d.peers))
=============================================================================
