----------------------------- MODULE IpcProofs -----------------------------
(***************************************************************************)
(* kernel_set_device cuts a configuration into messages without losing,    *)
(* repeating or misplacing a piece, no message outgrows its buffer, and    *)
(* the kernel ends with what the configuration in one message would have   *)
(* made of it: for devices with any number of peers and allowed IPs and    *)
(* for buffers of any size that holds each piece.  And whatever adapters   *)
(* come and go on Windows, the one that is opened has the name asked for.  *)
(***************************************************************************)
EXTENDS NetlinkSet, WindowsInterfaces, KernelDeviceProofs


(* The peers whose attributes, and the allowed IPs that, come before a position
   of the loops; all of them once the loops are done (peer 0).               *)
HeadsAt(p, a) == IF p = 0 THEN 1 .. NPeers ELSE IF a = 0 THEN 1 .. p - 1 ELSE 1 .. p
IpsAt(p, a) == {q \in Pairs : p = 0 \/ q[1] < p \/ (q[1] = p /\ q[2] < a)}

HeadsTo == HeadsAt(peer, allowedip)
IpsTo == IpsAt(peer, allowedip)

DevOK == dev \in Devices /\ PiecesFit(dev)

CursorAt(c, p, a) ==
  /\ p \in 0 .. NPeers
  /\ p = 0 => a = 0
  /\ p # 0 => a \in 0 .. Len(Ips(p))
  /\ c \in {"peer", "ip"} => p # 0
  /\ c = "ip" => a # 0

CursorOK == CursorAt(label, peer, allowedip)

(* The message and what the kernel has taken: together they are what the cursor
   has passed, and they have nothing in common.                              *)
Building ==
  /\ headed \cup msg.heads = HeadsTo /\ headed \cap msg.heads = {} /\ msg.conts \subseteq headed
  /\ delivered \cup msg.ips = IpsTo /\ delivered \cap msg.ips = {}

(* The kernel has taken all that the cursor has passed. *)
Taken == headed = HeadsTo /\ delivered = IpsTo

IsMsg(m) == m = [device |-> m.device, heads |-> m.heads, conts |-> m.conts, ips |-> m.ips]

SetInv ==
  /\ DevOK /\ CursorOK /\ IsMsg(msg)
  /\ used \in Nat /\ used =< BufLen
  /\ label # "done" => ret = 0
  /\ label = "open" => peer = 0
  /\ label \in {"open", "again"} /\ peer = 0 => headed = {} /\ delivered = {}
  /\ label = "again" /\ peer # 0 => Taken
  /\ label \in {"peer", "ip", "send", "kernel"} => Building
  /\ label = "peer" /\ allowedip # 0 => msg.heads = {} /\ msg.ips = {}
  /\ label = "recv" /\ ack = 0 => Taken
  /\ label = "done" /\ ret = 0 => peer = 0 /\ Taken

(* Sizes are numbers of bytes, and lengths of lists are numbers. *)
LEMMA Sizes ==
  /\ Attr(0) = 4 /\ HeaderSize \in Nat
  /\ \A d : DeviceSize(d) \in Nat
  /\ \A p, c : PeerSize(p, c) \in Nat
  /\ \A a : AllowedIpSize(a) \in Nat
<1>1. \A n \in Nat : Attr(n) \in Nat
  BY DEF Attr, MNL_ALIGN
<1>2. Attr(0) = 4
  BY DEF Attr, MNL_ALIGN
<1>3. Attr(0) \in Nat /\ Attr(1) \in Nat /\ Attr(2) \in Nat /\ Attr(4) \in Nat /\ Attr(5) \in Nat
      /\ Attr(16) \in Nat /\ Attr(28) \in Nat /\ Attr(32) \in Nat
  BY <1>1
<1>4. HeaderSize \in Nat
  BY <1>3 DEF HeaderSize
<1>5. \A d : DeviceSize(d) \in Nat
  BY <1>3 DEF DeviceSize
<1>6. \A p, c : PeerSize(p, c) \in Nat
  BY <1>3 DEF PeerSize
<1>7. \A a : AllowedIpSize(a) \in Nat
  BY <1>3 DEF AllowedIpSize
<1> QED  BY <1>2, <1>4, <1>5, <1>6, <1>7

\* A device that is set is a list of peers with lists of allowed IPs.
LEMMA Lists ==
  ASSUME DevicesListed, DevOK
  PROVE  /\ BufLen \in Nat /\ NPeers \in Nat
         /\ HeaderSize + DeviceSize(dev) =< BufLen
         /\ NPeers # 0 => HeaderSize + DeviceSize(dev) + Attr(0) =< BufLen
         /\ \A n \in 1 .. NPeers :
              /\ Len(Ips(n)) \in Nat
              /\ Ips(n) = dev.peers[n].ips
              /\ Ips(n) = <<>> <=> Len(Ips(n)) = 0
<1>1. PICK S : dev.peers \in Seq(S)
  BY DEF DevicesListed, DevOK
<1>2. BufLen \in Nat /\ NPeers \in Nat /\ DOMAIN dev.peers = 1 .. NPeers
  BY <1>1 DEF DevicesListed, NPeers
<1>3. \A n \in 1 .. NPeers : dev.peers[n] \in Range(dev.peers)
  BY <1>2, Zenon DEF Range
<1>4. \A n \in 1 .. NPeers :
        /\ PeerOK(dev.peers[n])
        /\ HeaderSize + DeviceSize(dev) + Attr(0) + PeerSize(dev.peers[n], FALSE) =< BufLen
  BY <1>3 DEF DevOK, PiecesFit
<1>5. ASSUME NPeers # 0 PROVE HeaderSize + DeviceSize(dev) + Attr(0) =< BufLen
  <2>1. HeaderSize + DeviceSize(dev) + Attr(0) + PeerSize(dev.peers[1], FALSE) =< BufLen
    <3>1. 1 \in 1 .. NPeers  BY <1>2, <1>5
    <3> QED  BY <1>4, <3>1, Zenon
  <2>2. \A x, s \in Nat : x + s =< BufLen => x =< BufLen
    BY <1>2
  <2>3. \A x, y \in Nat : x + y \in Nat
    OBVIOUS
  <2>4. HeaderSize \in Nat /\ DeviceSize(dev) \in Nat /\ Attr(0) \in Nat /\ PeerSize(dev.peers[1], FALSE) \in Nat
    <3>1. 4 \in Nat  OBVIOUS
    <3> QED  BY <3>1, Sizes, Zenon
  <2>5. HeaderSize + DeviceSize(dev) + Attr(0) \in Nat
    BY <2>3, <2>4, Zenon
  <2> QED  BY <2>1, <2>2, <2>4, <2>5, Zenon
<1>6. ASSUME NEW n \in 1 .. NPeers
      PROVE  Len(Ips(n)) \in Nat /\ Ips(n) = dev.peers[n].ips /\ (Ips(n) = <<>> <=> Len(Ips(n)) = 0)
  <2>1. Ips(n) = dev.peers[n].ips
    BY DEF Ips
  <2>2. PICK T : Ips(n) \in Seq(T)
    BY <1>4, <2>1 DEF PeerOK
  <2> QED  BY <2>1, <2>2
<1> QED  BY <1>2, <1>5, <1>6 DEF DevOK, PiecesFit

\* The pairs of a peer and one of its allowed IPs.
LEMMA InPairs ==
  \A q : q \in Pairs <=> \E n \in 1 .. NPeers : \E k \in 1 .. Len(Ips(n)) : q = <<n, k>>
BY DEF Pairs

(* The steps of the two loops, and what they pass. *)
LEMMA Passes ==
  ASSUME DevicesListed, DevOK, NEW p \in 1 .. NPeers
  PROVE  /\ HeadsAt(0, 0) = HeadsAt(NPeers + 1, 0) /\ IpsAt(0, 0) = IpsAt(NPeers + 1, 0)
         /\ HeadsAt(1, 0) = {} /\ IpsAt(1, 0) = {}
         /\ p \notin HeadsAt(p, 0)
         /\ IpsAt(p, 1) = IpsAt(p, 0)
         /\ \A a \in Nat : a # 0 => /\ HeadsAt(p, a) = HeadsAt(p, 0) \cup {p}
                                    /\ HeadsAt(p + 1, 0) = HeadsAt(p, a) /\ p \in HeadsAt(p, a)
         /\ Ips(p) = <<>> => /\ HeadsAt(p + 1, 0) = HeadsAt(p, 0) \cup {p}
                             /\ IpsAt(p + 1, 0) = IpsAt(p, 0)
         /\ \A a \in 1 .. Len(Ips(p)) :
              /\ <<p, a>> \notin IpsAt(p, a)
              /\ IpsAt(p, a + 1) = IpsAt(p, a) \cup {<<p, a>>}
         /\ IpsAt(p + 1, 0) = IpsAt(p, Len(Ips(p)) + 1)
<1>l. NPeers \in Nat /\ \A n \in 1 .. NPeers : Len(Ips(n)) \in Nat /\ (Ips(n) = <<>> <=> Len(Ips(n)) = 0)
  BY Lists
<1>1. HeadsAt(0, 0) = HeadsAt(NPeers + 1, 0) /\ HeadsAt(1, 0) = {} /\ p \notin HeadsAt(p, 0)
      /\ HeadsAt(p + 1, 0) = HeadsAt(p, 0) \cup {p}
      /\ \A a \in Nat : a # 0 => HeadsAt(p, a) = HeadsAt(p, 0) \cup {p} /\ HeadsAt(p + 1, 0) = HeadsAt(p, a)
                                 /\ p \in HeadsAt(p, a)
  BY <1>l DEF HeadsAt
<1>p. \A q \in Pairs : /\ q[1] \in Nat /\ q[1] >= 1 /\ q[1] <= NPeers /\ q = <<q[1], q[2]>>
                       /\ q[2] \in Nat /\ q[2] >= 1 /\ q[2] <= Len(Ips(q[1]))
  BY <1>l, InPairs
<1>2. IpsAt(0, 0) = IpsAt(NPeers + 1, 0) /\ IpsAt(1, 0) = {}
  BY <1>l, <1>p DEF IpsAt
<1>3. IpsAt(p, 1) = IpsAt(p, 0)
  BY <1>l, <1>p DEF IpsAt
<1>4. IpsAt(p + 1, 0) = IpsAt(p, Len(Ips(p)) + 1)
  BY <1>l, <1>p DEF IpsAt
<1>5. Ips(p) = <<>> => IpsAt(p + 1, 0) = IpsAt(p, 0)
  BY <1>l, <1>3, <1>4
<1>6. ASSUME NEW a \in 1 .. Len(Ips(p))
      PROVE  <<p, a>> \notin IpsAt(p, a) /\ IpsAt(p, a + 1) = IpsAt(p, a) \cup {<<p, a>>}
  <2>1. <<p, a>> \in Pairs
    BY InPairs
  <2>2. a \in Nat /\ p \in Nat /\ p # 0
    BY <1>l
  <2>3. <<p, a>> \notin IpsAt(p, a) /\ <<p, a>> \in IpsAt(p, a + 1)
    BY <2>1, <2>2 DEF IpsAt
  <2>4. ASSUME NEW q \in Pairs PROVE q \in IpsAt(p, a + 1) <=> q \in IpsAt(p, a) \/ q = <<p, a>>
    BY <1>p, <2>2, <2>3 DEF IpsAt
  <2> QED  BY <2>1, <2>3, <2>4, Zenon DEF IpsAt
<1> QED  BY <1>1, <1>2, <1>3, <1>4, <1>5, <1>6

\* The invariant holds at the start.
LEMMA SetInit == ASSUME DevicesListed, NInit PROVE SetInv
<1>1. DevOK
  BY DEF NInit, DevOK
<1>2. CursorOK
  BY <1>1, Lists DEF NInit, CursorOK, CursorAt
<1>3. IsMsg(msg)
  BY DEF NInit, EmptyMsg, IsMsg
<1>4. BufLen \in Nat
  BY DEF DevicesListed
<1>5. label = "open" /\ peer = 0 /\ used = 0 /\ ret = 0 /\ headed = {} /\ delivered = {}
  BY DEF NInit
<1> QED  BY <1>1, <1>2, <1>3, <1>4, <1>5 DEF SetInv

(* The device of a call stays the same. *)
LEMMA SameDev ==
  ASSUME dev' = dev
  PROVE  /\ DevOK' <=> DevOK
         /\ CursorOK' <=> CursorAt(label', peer', allowedip')
         /\ HeadsTo' = HeadsAt(peer', allowedip') /\ IpsTo' = IpsAt(peer', allowedip')
BY DEF DevOK, CursorOK, CursorAt, HeadsTo, IpsTo, HeadsAt, IpsAt, Pairs, NPeers, Ips, PiecesFit

(* A step that moves no cursor and does not touch the message. *)
LEMMA SameCursor ==
  ASSUME DevicesListed, SetInv, UNCHANGED <<dev, peer, allowedip, used, msg>>, label' \notin {"peer", "ip"}
  PROVE  /\ DevOK' /\ CursorOK' /\ IsMsg(msg)' /\ (used \in Nat)' /\ (used =< BufLen)'
         /\ HeadsTo' = HeadsTo /\ IpsTo' = IpsTo
         /\ UNCHANGED <<headed, delivered>> => (Building' <=> Building) /\ (Taken' <=> Taken)
<1>1. HeadsTo' = HeadsTo /\ IpsTo' = IpsTo
  BY SameDev DEF HeadsTo, IpsTo
<1>2. CursorOK'
  BY SameDev DEF SetInv, CursorOK, CursorAt
<1>3. UNCHANGED <<headed, delivered>> => (Building' <=> Building) /\ (Taken' <=> Taken)
  BY <1>1 DEF Building, Taken
<1> QED  BY <1>1, <1>2, <1>3, SameDev DEF SetInv, IsMsg

\* A message is begun: the first one with the device, the others with its name.
LEMMA PrepareKeeps == ASSUME DevicesListed, SetInv, Prepare PROVE SetInv'
<1>s. /\ label = "again" /\ dev' = dev /\ allowedip' = allowedip /\ ret' = ret
      /\ headed' = headed /\ delivered' = delivered /\ msg' = EmptyMsg(peer = 0)
  BY DEF Prepare
<1>m. msg'.heads = {} /\ msg'.conts = {} /\ msg'.ips = {} /\ IsMsg(msg)'
  BY <1>s DEF EmptyMsg, IsMsg
<1>l. /\ DevOK /\ CursorOK /\ BufLen \in Nat /\ NPeers \in Nat /\ ret = 0
      /\ HeaderSize \in Nat /\ DeviceSize(dev) \in Nat /\ Attr(0) = 4
      /\ HeaderSize + DeviceSize(dev) =< BufLen
      /\ NPeers # 0 => HeaderSize + DeviceSize(dev) + Attr(0) =< BufLen
  BY <1>s, Lists, Sizes DEF SetInv
<1>u. used' \in Nat /\ used' =< BufLen
  BY <1>l DEF Prepare
<1>1. CASE NPeers = 0
  <2>1. label' = "send" /\ peer' = peer /\ peer = 0 /\ allowedip = 0 /\ headed = {} /\ delivered = {}
    BY <1>1, <1>l, <1>s DEF Prepare, CursorOK, CursorAt, SetInv
  <2>2. HeadsAt(0, 0) = {} /\ IpsAt(0, 0) = {}
    BY <1>1, InPairs DEF HeadsAt, IpsAt
  <2>3. Building'
    BY <1>m, <1>s, <2>1, <2>2, SameDev DEF Building
  <2>4. CursorOK'
    BY <1>l, <1>s, <2>1, SameDev DEF CursorAt
  <2> QED  BY <1>l, <1>m, <1>s, <1>u, <2>1, <2>3, <2>4, SameDev DEF SetInv
<1>2. CASE NPeers # 0
  <2>1. label' = "peer" /\ peer' = (IF peer = 0 THEN 1 ELSE peer)
    BY <1>2 DEF Prepare
  <2>2. headed = HeadsAt(peer', allowedip') /\ delivered = IpsAt(peer', allowedip')
    <3>1. CASE peer = 0
      <4>1. peer' = 1 /\ allowedip' = 0 /\ headed = {} /\ delivered = {}
        BY <1>l, <1>s, <2>1, <3>1 DEF SetInv, CursorOK, CursorAt
      <4>2. 1 \in 1 .. NPeers
        BY <1>2, <1>l
      <4> QED  BY <1>l, <4>1, <4>2, Passes
    <3>2. CASE peer # 0
      BY <1>s, <2>1, <3>2 DEF SetInv, Taken, HeadsTo, IpsTo
    <3> QED  BY <3>1, <3>2
  <2>3. Building'
    BY <1>m, <1>s, <2>2, SameDev DEF Building
  <2>4. CursorOK'
    <3>1. CursorAt(label', peer', allowedip')
      BY <1>2, <1>l, <1>s, <2>1, Lists DEF CursorOK, CursorAt
    <3> QED  BY <1>s, <3>1, SameDev
  <2> QED  BY <1>l, <1>m, <1>s, <1>u, <2>1, <2>3, <2>4, SameDev DEF SetInv
<1> QED  BY <1>1, <1>2

(* The end of a peer. *)
LEMMA NextPeerMoves ==
  ASSUME DevicesListed, DevOK, peer \in 1 .. NPeers, NextPeer
  PROVE  /\ label' \in {"send", "peer"} /\ CursorAt(label', peer', allowedip')
         /\ HeadsAt(peer', allowedip') = HeadsAt(peer + 1, 0)
         /\ IpsAt(peer', allowedip') = IpsAt(peer + 1, 0)
         /\ allowedip' = 0
<1>l. NPeers \in Nat /\ \A n \in 1 .. NPeers : Len(Ips(n)) \in Nat
  BY Lists
<1>1. CASE peer = NPeers
  BY <1>1, <1>l, Passes DEF NextPeer, CursorAt
<1>2. CASE peer # NPeers
  <2>1. peer + 1 \in 1 .. NPeers /\ peer' = peer + 1 /\ label' = "peer" /\ allowedip' = 0
    BY <1>2, <1>l DEF NextPeer
  <2>2. CursorAt(label', peer', allowedip')
    BY <1>l, <2>1 DEF CursorAt
  <2> QED  BY <2>1, <2>2
<1> QED  BY <1>1, <1>2

\* The loop over peers puts the head of a peer or sends the message.
LEMMA PutPeerKeeps == ASSUME DevicesListed, SetInv, PutPeer PROVE SetInv'
<1> DEFINE size == PeerSize(dev.peers[peer], allowedip # 0)
<1>s. /\ label = "peer" /\ dev' = dev /\ ret' = ret /\ headed' = headed /\ delivered' = delivered
  BY DEF PutPeer
<1>l. /\ DevOK /\ BufLen \in Nat /\ NPeers \in Nat /\ ret = 0 /\ size \in Nat /\ Attr(0) = 4
      /\ peer \in 1 .. NPeers /\ used \in Nat /\ used =< BufLen /\ Building
      /\ allowedip \in 0 .. Len(Ips(peer)) /\ Len(Ips(peer)) \in Nat
      /\ Ips(peer) = dev.peers[peer].ips /\ (Ips(peer) = <<>> <=> Len(Ips(peer)) = 0)
  <2>1. DevOK /\ CursorOK /\ ret = 0 /\ used \in Nat /\ used =< BufLen /\ Building
    BY <1>s DEF SetInv
  <2>2. BufLen \in Nat /\ NPeers \in Nat
    BY <2>1, Lists
  <2>3. peer \in 1 .. NPeers /\ allowedip \in 0 .. Len(Ips(peer))
    BY <1>s, <2>1, <2>2 DEF CursorOK, CursorAt
  <2> QED  BY <2>1, <2>2, <2>3, Lists, Sizes
<1>1. CASE used + size > BufLen
  <2>1. label' = "send" /\ UNCHANGED <<msg, used, peer, allowedip>>
    BY <1>1 DEF PutPeer
  <2> QED  BY <1>l, <1>s, <2>1, SameCursor DEF SetInv
<1>2. CASE ~(used + size > BufLen)
  <2>m. /\ msg' = IF allowedip = 0 THEN [msg EXCEPT !.heads = @ \cup {peer}]
                                  ELSE [msg EXCEPT !.conts = @ \cup {peer}]
        /\ IsMsg(msg)
    BY <1>2 DEF PutPeer, SetInv
  <2>n. /\ msg'.heads = (IF allowedip = 0 THEN msg.heads \cup {peer} ELSE msg.heads)
        /\ msg'.conts = (IF allowedip = 0 THEN msg.conts ELSE msg.conts \cup {peer})
        /\ msg'.ips = msg.ips /\ IsMsg(msg)'
    BY <2>m DEF IsMsg
  (* The message with this peer in it, as far as the cursor is after it. *)
  <2>b. ASSUME NEW a \in Nat, a # 0
        PROVE  /\ headed \cup msg'.heads = HeadsAt(peer, a) /\ headed \cap msg'.heads = {}
               /\ msg'.conts \subseteq headed
               /\ msg'.ips = msg.ips
    <3>1. CASE allowedip = 0
      BY <1>l, <2>b, <2>n, <3>1, Passes DEF Building, HeadsTo
    <3>2. CASE allowedip # 0
      <4>1. msg.heads = {} /\ headed = HeadsAt(peer, allowedip)
        BY <1>l, <1>s, <3>2 DEF SetInv, Building, HeadsTo
      <4>2. allowedip \in Nat
        BY <1>l
      <4>3. HeadsAt(peer, a) = HeadsAt(peer, allowedip) /\ peer \in HeadsAt(peer, allowedip)
        BY <1>l, <2>b, <3>2, <4>2, Passes
      <4> QED  BY <1>l, <2>n, <3>2, <4>1, <4>3 DEF Building
    <3> QED  BY <3>1, <3>2
  <2>1. CASE dev.peers[peer].ips = <<>>
    <3>1. used' = used + size /\ NextPeer
      BY <1>2, <2>1 DEF PutPeer
    <3>2. /\ allowedip = 0 /\ HeadsAt(peer + 1, 0) = HeadsAt(peer, 1) /\ IpsAt(peer + 1, 0) = IpsAt(peer, 0)
      BY <1>l, <2>1, Passes
    <3>3. /\ label' \in {"send", "peer"} /\ CursorAt(label', peer', allowedip') /\ allowedip' = 0
          /\ HeadsAt(peer', allowedip') = HeadsAt(peer, 1) /\ IpsAt(peer', allowedip') = IpsAt(peer, allowedip)
      BY <1>l, <3>1, <3>2, NextPeerMoves
    <3>4. Building'
      BY <1>l, <1>s, <2>b, <3>3, SameDev DEF Building, IpsTo
    <3>5. used' \in Nat /\ used' =< BufLen
      BY <1>2, <1>l, <3>1
    <3> QED  BY <1>l, <1>s, <2>n, <3>3, <3>4, <3>5, SameDev DEF SetInv
  <2>2. CASE dev.peers[peer].ips # <<>>
    <3>1. /\ peer' = peer /\ allowedip' = (IF allowedip = 0 THEN 1 ELSE allowedip)
          /\ \/ label' = "send" /\ used' = used + size
             \/ used + size + Attr(0) =< BufLen /\ label' = "ip" /\ used' = used + size + Attr(0)
      BY <1>2, <1>l, <2>2 DEF PutPeer
    <3>2. used' \in Nat /\ used' =< BufLen /\ label' \in {"send", "ip"}
      BY <1>2, <1>l, <3>1
    <3>3. allowedip' \in 1 .. Len(Ips(peer)) /\ allowedip' \in Nat /\ allowedip' # 0
      BY <1>l, <2>2, <3>1
    <3>4. CursorAt(label', peer', allowedip')
      BY <1>l, <3>1, <3>3 DEF CursorAt
    <3>5. IpsAt(peer', allowedip') = IpsAt(peer, allowedip)
      BY <1>l, <3>1, Passes
    <3>6. Building'
      BY <1>l, <1>s, <2>b, <3>1, <3>3, <3>5, SameDev DEF Building, IpsTo
    <3> QED  BY <1>l, <1>s, <2>n, <3>2, <3>4, <3>6, SameDev DEF SetInv
  <2> QED  BY <2>1, <2>2
<1> QED  BY <1>1, <1>2

\* The loop over allowed IPs puts one or sends the message.
LEMMA PutAllowedIpKeeps == ASSUME DevicesListed, SetInv, PutAllowedIp PROVE SetInv'
<1> DEFINE size == AllowedIpSize(Ips(peer)[allowedip])
<1>s. /\ label = "ip" /\ dev' = dev /\ ret' = ret /\ headed' = headed /\ delivered' = delivered
  BY DEF PutAllowedIp
<1>l. /\ DevOK /\ BufLen \in Nat /\ NPeers \in Nat /\ ret = 0 /\ size \in Nat
      /\ peer \in 1 .. NPeers /\ used \in Nat /\ used =< BufLen /\ Building
      /\ allowedip \in 1 .. Len(Ips(peer)) /\ allowedip \in Nat /\ allowedip # 0 /\ Len(Ips(peer)) \in Nat
  <2>1. DevOK /\ CursorOK /\ ret = 0 /\ used \in Nat /\ used =< BufLen /\ Building
    BY <1>s DEF SetInv
  <2>2. BufLen \in Nat /\ NPeers \in Nat
    BY <2>1, Lists
  <2>3. peer \in 1 .. NPeers /\ allowedip \in 1 .. Len(Ips(peer))
    BY <1>s, <2>1, <2>2, Lists DEF CursorOK, CursorAt
  <2> QED  BY <2>1, <2>2, <2>3, Lists, Sizes
<1>1. CASE used + size > BufLen
  <2>1. label' = "send" /\ UNCHANGED <<msg, used, peer, allowedip>>
    BY <1>1 DEF PutAllowedIp
  <2> QED  BY <1>l, <1>s, <2>1, SameCursor DEF SetInv
<1>2. CASE ~(used + size > BufLen)
  <2>m. msg' = [msg EXCEPT !.ips = @ \cup {<<peer, allowedip>>}] /\ used' = used + size /\ IsMsg(msg)
    BY <1>2 DEF PutAllowedIp, SetInv
  <2>n. /\ msg'.heads = msg.heads /\ msg'.conts = msg.conts /\ msg'.ips = msg.ips \cup {<<peer, allowedip>>}
        /\ IsMsg(msg)'
    BY <2>m DEF IsMsg
  <2>u. used' \in Nat /\ used' =< BufLen
    BY <1>2, <1>l, <2>m
  <2>b. /\ delivered \cup msg'.ips = IpsAt(peer, allowedip + 1) /\ delivered \cap msg'.ips = {}
        /\ headed \cup msg'.heads = HeadsAt(peer, allowedip)
    <3>1. /\ <<peer, allowedip>> \notin IpsAt(peer, allowedip)
          /\ IpsAt(peer, allowedip + 1) = IpsAt(peer, allowedip) \cup {<<peer, allowedip>>}
      BY <1>l, Passes
    <3>2. /\ delivered \cup msg.ips = IpsAt(peer, allowedip) /\ delivered \cap msg.ips = {}
          /\ headed \cup msg.heads = HeadsAt(peer, allowedip)
      BY <1>l DEF Building, IpsTo, HeadsTo
    <3> QED  BY <2>n, <3>1, <3>2, Zenon
  <2>1. CASE allowedip = Len(Ips(peer))
    <3>1. NextPeer
      BY <1>2, <2>1 DEF PutAllowedIp
    <3>2. HeadsAt(peer + 1, 0) = HeadsAt(peer, allowedip) /\ IpsAt(peer + 1, 0) = IpsAt(peer, allowedip + 1)
      BY <1>l, <2>1, Passes
    <3>3. /\ label' \in {"send", "peer"} /\ CursorAt(label', peer', allowedip') /\ allowedip' = 0
          /\ HeadsAt(peer', allowedip') = HeadsAt(peer, allowedip)
          /\ IpsAt(peer', allowedip') = IpsAt(peer, allowedip + 1)
      BY <1>l, <3>1, <3>2, NextPeerMoves
    <3>4. Building'
      BY <1>l, <1>s, <2>b, <2>n, <3>3, SameDev DEF Building
    <3> QED  BY <1>l, <1>s, <2>n, <2>u, <3>3, <3>4, SameDev DEF SetInv
  <2>2. CASE allowedip # Len(Ips(peer))
    <3>1. allowedip' = allowedip + 1 /\ peer' = peer /\ label' = label
      BY <1>2, <2>2 DEF PutAllowedIp
    <3>2. allowedip' \in 1 .. Len(Ips(peer)) /\ allowedip' \in Nat /\ allowedip' # 0
      BY <1>l, <2>2, <3>1
    <3>3. CursorAt(label', peer', allowedip')
      BY <1>l, <3>1, <3>2 DEF CursorAt
    <3>4. HeadsAt(peer, allowedip') = HeadsAt(peer, allowedip)
      BY <1>l, <3>2, Passes
    <3>5. Building'
      BY <1>l, <1>s, <2>b, <2>n, <3>1, <3>4, SameDev DEF Building
    <3> QED  BY <1>l, <1>s, <2>n, <2>u, <3>1, <3>3, <3>5, SameDev DEF SetInv
  <2> QED  BY <2>1, <2>2
<1> QED  BY <1>1, <1>2

\* Every step preserves the invariant.
LEMMA SetNext == ASSUME DevicesListed, SetInv, [NNext]_nvars PROVE SetInv'
<1>1. CASE Open
  BY <1>1, SameCursor DEF Open, Fail, SetInv
<1>2. CASE Send
  BY <1>2, SameCursor DEF Send, Fail, SetInv
<1>3. CASE KernelTakes
  <2>1. /\ label = "kernel" /\ label' = "recv" /\ UNCHANGED <<dev, peer, allowedip, used, msg, ret>>
        /\ ack' = 0 => headed' = headed \cup msg.heads /\ delivered' = delivered \cup msg.ips
    BY <1>3 DEF KernelTakes
  <2>2. ack' = 0 => Taken'
    BY <2>1, SameCursor DEF SetInv, Building, Taken
  <2> QED  BY <2>1, <2>2, SameCursor DEF SetInv
<1>4. CASE Recv
  <2>1. /\ label = "recv" /\ UNCHANGED <<dev, peer, allowedip, used, msg, headed, delivered>>
        /\ \/ ack = 0 /\ label' = (IF peer # 0 THEN "again" ELSE "done") /\ ret' = ret
           \/ ret' = -1 /\ label' = "done"
    BY <1>4 DEF Recv, Fail
  <2>2. ack = 0 => Taken'
    BY <2>1, SameCursor DEF SetInv
  <2> QED  BY <2>1, <2>2, SameCursor DEF SetInv
<1>5. CASE Done \/ UNCHANGED nvars
  <2>1. UNCHANGED nvars
    BY <1>5 DEF Done
  <2>2. UNCHANGED <<dev, label, peer, allowedip, used, msg, ack, ret, headed, delivered>>
    BY <2>1 DEF nvars
  <2>3. DevOK' /\ CursorOK' /\ (Building' <=> Building) /\ (Taken' <=> Taken) /\ IsMsg(msg)'
    BY <2>2, SameDev DEF SetInv, CursorOK, Building, Taken, HeadsTo, IpsTo, IsMsg
  <2> QED  BY <2>2, <2>3 DEF SetInv
<1> QED  BY <1>1, <1>2, <1>3, <1>4, <1>5, PrepareKeeps, PutPeerKeeps, PutAllowedIpKeeps DEF NNext

(* The inductive invariant of kernel_set_device: at every statement, what is in the
   message and what the kernel has taken are together the pieces before the
   cursor of the loops, and no piece is in both.                             *)
THEOREM SetInvariant == ASSUME DevicesListed PROVE NSpec => []SetInv
<1>1. NInit => SetInv
  BY SetInit
<1>2. SetInv /\ [NNext]_nvars => SetInv'
  BY SetNext
<1> QED  BY <1>1, <1>2, PTL DEF NSpec

(* However many peers and allowed IPs there are and wherever the buffer ends, no
   message of kernel_set_device repeats a piece that was delivered, introduces a
   peer again, or continues one that was not introduced; and a call that succeeds
   has delivered every peer and every allowed IP.                            *)
THEOREM PiecesDeliveredOnce == ASSUME DevicesListed PROVE NSpec => []EachPieceOnce
<1>1. SetInv => EachPieceOnce
  <2> SUFFICES ASSUME SetInv PROVE EachPieceOnce
    OBVIOUS
  <2>1. ASSUME label \in {"send", "kernel"}
        PROVE  msg.heads \cap headed = {} /\ msg.conts \subseteq headed /\ msg.ips \cap delivered = {}
    BY <2>1 DEF SetInv, Building
  <2>2. ASSUME label = "done", ret = 0 PROVE headed = 1 .. NPeers /\ delivered = Pairs
    <3>1. peer = 0 /\ headed = HeadsAt(peer, allowedip) /\ delivered = IpsAt(peer, allowedip)
      BY <2>2 DEF SetInv, Taken, HeadsTo, IpsTo
    <3> QED  BY <3>1 DEF HeadsAt, IpsAt
  <2> QED  BY <2>1, <2>2 DEF EachPieceOnce
<1> QED  BY <1>1, SetInvariant, PTL

(* No message of kernel_set_device outgrows its buffer, although the device's own
   attributes and the nest of the peers are put into it without a check.     *)
THEOREM MessagesFit == ASSUME DevicesListed PROVE NSpec => []MessageFits
<1>1. SetInv => MessageFits
  BY DEF SetInv, MessageFits
<1> QED  BY <1>1, SetInvariant, PTL

(***************************************************************************)
(* What the kernel makes of the messages.                                  *)
(***************************************************************************)
\* A peer's allowed IPs are in a list.
LEMMA ListsOfIps ==
  ASSUME DevicesListed, DevOK, NEW n \in 1 .. NPeers
  PROVE  DOMAIN dev.peers[n].ips = 1 .. Len(Ips(n)) /\ DOMAIN dev.peers[n].ips \subseteq Nat
<1>1. PICK S : dev.peers \in Seq(S)
  BY DEF DevicesListed, DevOK
<1>2. DOMAIN dev.peers = 1 .. NPeers
  BY <1>1 DEF NPeers
<1>3. PeerOK(dev.peers[n])
  BY <1>2 DEF DevOK, PiecesFit, Range
<1>4. PICK T : dev.peers[n].ips \in Seq(T)
  BY <1>3 DEF PeerOK
<1> QED  BY <1>4 DEF Ips

-----------------------------------------------------------------------------
(* Pieces as one message, and the kernel after the device's attributes and those of
   the pieces that belong to the first n peers.                              *)
Pieces(h, q) == [heads |-> h, conts |-> {}, ips |-> q]
KernelAt(h, q, n) == TakePeers(TakeDevice(before, dev), dev, Pieces(h, q), n)

OnList(p, a) == /\ p \in 0 .. NPeers
                /\ p = 0 => a = 0
                /\ p # 0 => a \in 0 .. Len(Ips(p))

(* What the kernel has taken ends at some place of the lists. *)
TakenTo == \E p, a : OnList(p, a) /\ headed = HeadsAt(p, a) /\ delivered = IpsAt(p, a)

(* The kernel has all the pieces before some place, or those of the first peers. *)
SomePieces ==
  \/ kernel = before
  \/ \E p, a : OnList(p, a) /\ \E n \in 0 .. NPeers : kernel = KernelAt(HeadsAt(p, a), IpsAt(p, a), n)

AsTaken == kernel = KernelAt(headed, delivered, NPeers)

(* The message goes on where the kernel is: it is the first one, or it continues at
   most the last peer that was introduced; it lists allowed IPs of its peers only. *)
GoesOn ==
  /\ IF msg.device THEN kernel = before /\ headed = {} /\ delivered = {} ELSE AsTaken
  /\ msg.conts \subseteq {i \in headed : i + 1 \notin headed}
  /\ \A x \in msg.ips : x[1] \in msg.heads \cup msg.conts

KernelInv ==
  /\ TakenTo /\ SomePieces
  /\ label = "open" \/ (label = "again" /\ peer = 0) => kernel = before
  /\ (label = "again" /\ peer # 0) \/ (label = "recv" /\ ack = 0) \/ (label = "done" /\ ret = 0) => AsTaken
  /\ label \in {"peer", "ip", "send", "kernel"} => GoesOn
  /\ label = "ip" => peer \in msg.heads \cup msg.conts

(* How many peers are introduced before a place of the lists. *)
Count(p, a) == IF p = 0 THEN NPeers ELSE IF a = 0 THEN p - 1 ELSE p

\* The peers and allowed IPs before a place.
LEMMA Places ==
  ASSUME DevicesListed, DevOK, NEW p, NEW a, OnList(p, a)
  PROVE  /\ Count(p, a) \in Nat /\ Count(p, a) =< NPeers /\ HeadsAt(p, a) = 1 .. Count(p, a)
         /\ \A i, j : <<i, j>> \in IpsAt(p, a) => i =< Count(p, a)
         /\ \A i \in 1 .. NPeers, j \in Nat :
              <<i, j>> \in Pairs => (<<i, j>> \in IpsAt(p, a) <=> p = 0 \/ i < p \/ (i = p /\ j < a))
<1>1. NPeers \in Nat /\ \A i \in 1 .. NPeers : Len(Ips(i)) \in Nat
  BY Lists
<1>2. Count(p, a) \in Nat /\ Count(p, a) =< NPeers /\ HeadsAt(p, a) = 1 .. Count(p, a)
  BY <1>1 DEF OnList, Count, HeadsAt
<1>3. \A i, j : <<i, j>> \in IpsAt(p, a) <=> <<i, j>> \in Pairs /\ (p = 0 \/ i < p \/ (i = p /\ j < a))
  BY DEF IpsAt
<1>4. ASSUME NEW i, NEW j, <<i, j>> \in IpsAt(p, a) PROVE i =< Count(p, a)
  <2>1. i \in 1 .. NPeers /\ j \in Nat /\ j >= 1
    BY <1>1, <1>3, <1>4, InPairs
  <2>2. p = 0 \/ i < p \/ (i = p /\ j < a)
    BY <1>3, <1>4
  <2> QED  BY <1>1, <2>1, <2>2 DEF OnList, Count
<1> QED  BY <1>2, <1>3, <1>4

(* What a message that goes on makes of the kernel, when its first n peers are taken:
   nothing, or what all the pieces so far make of it in one step; and this when all
   of its peers are taken.                                                   *)
LEMMA MessageTaken ==
  ASSUME DevicesListed, SetInv, KernelInv, label = "kernel", NEW n \in 0 .. NPeers
  PROVE  \/ TakeMsg(kernel, msg, n) = KernelAt(HeadsTo, IpsTo, n)
         \/ n # NPeers /\ TakeMsg(kernel, msg, n) = kernel
<1> DEFINE C == Pieces(HeadsTo, IpsTo)
<1>1. /\ DevOK /\ NPeers \in Nat /\ GoesOn /\ TakenTo
      /\ headed \cup msg.heads = HeadsTo /\ headed \cap msg.heads = {}
      /\ delivered \cup msg.ips = IpsTo /\ delivered \cap msg.ips = {}
  BY Lists DEF SetInv, KernelInv, Building
<1>2. C.heads = HeadsTo /\ C.conts = {} /\ C.ips = IpsTo
  BY DEF Pieces
<1>3. CASE msg.device
  <2>1. kernel = before /\ headed = {} /\ delivered = {} /\ msg.conts = {}
    BY <1>1, <1>3 DEF GoesOn
  <2>2. Alike(msg, C, n)
    BY <1>1, <1>2, <2>1 DEF Alike
  <2>3. TakeMsg(kernel, msg, n) = TakePeers(TakeDevice(before, dev), dev, msg, n)
    BY <1>3, <2>1 DEF TakeMsg
  <2>4. n \in Nat
    BY <1>1
  <2> HIDE DEF C
  <2>5. TakePeers(TakeDevice(before, dev), dev, msg, n) = TakePeers(TakeDevice(before, dev), dev, C, n)
    BY <2>2, <2>4, AlikeTakeAlike
  <2> QED  BY <2>3, <2>5 DEF C, KernelAt
<1>4. CASE ~msg.device
  <2>1. /\ kernel = KernelAt(headed, delivered, NPeers)
        /\ TakeMsg(kernel, msg, n) = TakePeers(kernel, dev, msg, n)
    BY <1>1, <1>4 DEF GoesOn, TakeMsg, AsTaken
  <2>2. PICK p, a : OnList(p, a) /\ headed = HeadsAt(p, a) /\ delivered = IpsAt(p, a)
    BY <1>1 DEF TakenTo
  <2> DEFINE A == Pieces(headed, delivered)
             c == Count(p, a)
  <2>3. A.heads = headed /\ A.conts = {} /\ A.ips = delivered
    BY DEF Pieces
  <2>4. /\ c \in Nat /\ c =< NPeers /\ headed = 1 .. c
        /\ \A i, j : <<i, j>> \in delivered => i =< c
    BY <1>1, <2>2, Places
  <2>5. msg.conts \subseteq {c} \cap 1 .. c
    <3> HIDE DEF c
    <3> QED  BY <1>1, <2>4 DEF GoesOn
  <2>6. \A i \in 1 .. NPeers : \A j : <<i, j>> \in msg.ips => i \in msg.heads \cup msg.conts
    BY <1>1 DEF GoesOn
  <2>7. c # 0 => DOMAIN dev.peers[c].ips \subseteq Nat
    <3> SUFFICES ASSUME c # 0 PROVE DOMAIN dev.peers[c].ips \subseteq Nat
      OBVIOUS
    <3>1. c \in 1 .. NPeers
      BY <1>1, <2>4
    <3> QED  BY <1>1, <3>1, ListsOfIps
  <2>8. ASSUME NEW i \in Nat, NEW j \in Nat, <<c, i>> \in delivered, <<c, j>> \in msg.ips PROVE i < j
    <3>1. <<c, i>> \in Pairs /\ <<c, j>> \in Pairs
      BY <1>1, <2>2, <2>8 DEF IpsTo, IpsAt
    <3>2. c \in 1 .. NPeers
      BY <3>1, InPairs
    <3>3. <<c, j>> \notin delivered
      BY <1>1, <2>8
    <3>4. ~(p = 0 \/ c < p \/ (c = p /\ j < a)) /\ (p = 0 \/ c < p \/ (c = p /\ i < a))
      BY <1>1, <2>2, <2>8, <3>1, <3>2, <3>3, Places
    <3>5. p # 0 => a \in Nat
      BY <1>1, <2>2, Lists DEF OnList
    <3> HIDE DEF c
    <3> QED  BY <3>4, <3>5
  <2> HIDE DEF A, C, c
  <2>9. TakePeers(TakePeers(TakeDevice(before, dev), dev, A, NPeers), dev, msg, n)
        = IF n < c THEN TakePeers(TakeDevice(before, dev), dev, A, NPeers)
          ELSE TakePeers(TakeDevice(before, dev), dev, C, n)
    <3>1. Resumes(dev, A, msg, C, c, NPeers)
      BY <1>1, <1>2, <2>3, <2>4, <2>5, <2>6, <2>7, <2>8, Zenon DEF Resumes
    <3> QED  BY <3>1, OneAfterTheOther
  <2>10. kernel = TakePeers(TakeDevice(before, dev), dev, A, NPeers)
    BY <2>1 DEF A, KernelAt
  <2>11. TakePeers(TakeDevice(before, dev), dev, C, n) = KernelAt(HeadsTo, IpsTo, n)
    BY DEF C, KernelAt
  <2>12. TakeMsg(kernel, msg, n) = TakePeers(TakePeers(TakeDevice(before, dev), dev, A, NPeers), dev, msg, n)
    BY <2>1, <2>10, Zenon
  <2>13. n < c => n # NPeers
    BY <1>1, <2>4
  <2> QED  BY <2>9, <2>10, <2>11, <2>12, <2>13, Zenon
<1> QED  BY <1>3, <1>4
\* Where nothing is sent, what the kernel has stays the same.
LEMMA KernelUnmoved ==
  ASSUME UNCHANGED <<dev, before, kernel, headed, delivered>>
  PROVE  (TakenTo' <=> TakenTo) /\ (SomePieces' <=> SomePieces) /\ (AsTaken' <=> AsTaken)
<1>1. \A p, a : /\ (OnList(p, a) <=> OnList(p, a)')
                /\ HeadsAt(p, a) = HeadsAt(p, a)' /\ IpsAt(p, a) = IpsAt(p, a)'
  BY DEF OnList, HeadsAt, IpsAt, Pairs, NPeers, Ips
<1>2. \A h, q, n : KernelAt(h, q, n) = KernelAt(h, q, n)'
  BY DEF KernelAt
<1>3. NPeers' = NPeers
  BY DEF NPeers
<1>4. TakenTo' <=> TakenTo
  BY <1>1, Zenon DEF TakenTo
<1>5. AsTaken' <=> AsTaken
  BY <1>3, Zenon DEF AsTaken, KernelAt
<1>6. SomePieces' <=> SomePieces
  BY <1>1, <1>2, <1>3, Zenon DEF SomePieces
<1> QED  BY <1>4, <1>5, <1>6

\* At the start nothing is taken.
LEMMA KernelInit == ASSUME DevicesListed, NInit PROVE KernelInv
<1>1. /\ DevOK /\ label = "open" /\ kernel = before /\ headed = {} /\ delivered = {}
  BY DEF NInit, DevOK
<1>2. NPeers \in Nat /\ \A i \in 1 .. NPeers : Len(Ips(i)) \in Nat
  BY <1>1, Lists
<1>3. TakenTo
  <2>1. CASE NPeers = 0
    <3>1. HeadsAt(0, 0) = {} /\ IpsAt(0, 0) = {} /\ OnList(0, 0)
      BY <2>1, InPairs DEF HeadsAt, IpsAt, OnList
    <3> QED  BY <1>1, <3>1 DEF TakenTo
  <2>2. CASE NPeers # 0
    <3>1. 1 \in 1 .. NPeers /\ OnList(1, 0)
      BY <1>2, <2>2 DEF OnList
    <3>2. HeadsAt(1, 0) = {} /\ IpsAt(1, 0) = {}
      BY <1>1, <3>1, Passes
    <3> QED  BY <1>1, <3>1, <3>2 DEF TakenTo
  <2> QED  BY <2>1, <2>2
<1> QED  BY <1>1, <1>3 DEF KernelInv, SomePieces

\* The first message begins with the device, a later one where the kernel is.
LEMMA PrepareGoesOn == ASSUME SetInv, KernelInv, Prepare PROVE KernelInv'
<1>1. /\ label = "again" /\ label' \in {"peer", "send"} /\ msg' = EmptyMsg(peer = 0)
      /\ UNCHANGED <<dev, before, kernel, headed, delivered>>
  BY DEF Prepare
<1>2. msg'.device = (peer = 0) /\ msg'.heads = {} /\ msg'.conts = {} /\ msg'.ips = {}
  BY <1>1 DEF EmptyMsg
<1>3. CASE peer = 0
  <2>1. kernel' = before' /\ headed' = {} /\ delivered' = {} /\ msg'.device
    BY <1>1, <1>2, <1>3 DEF SetInv, KernelInv
  <2>2. GoesOn'
    BY <1>2, <2>1 DEF GoesOn
  <2> QED  BY <1>1, <2>2, KernelUnmoved DEF KernelInv
<1>4. CASE peer # 0
  <2>1. AsTaken' /\ ~msg'.device
    BY <1>1, <1>2, <1>4, KernelUnmoved DEF KernelInv
  <2>2. GoesOn'
    BY <1>2, <2>1 DEF GoesOn
  <2> QED  BY <1>1, <2>2, KernelUnmoved DEF KernelInv
<1> QED  BY <1>3, <1>4

\* A peer is introduced, or the last one is continued.
LEMMA PutPeerGoesOn == ASSUME DevicesListed, SetInv, KernelInv, PutPeer PROVE KernelInv'
<1>1. /\ label = "peer" /\ UNCHANGED <<dev, before, kernel, headed, delivered, ret>>
      /\ \/ label' = "send" /\ msg' = msg
         \/ /\ msg' = IF allowedip = 0 THEN [msg EXCEPT !.heads = @ \cup {peer}]
                                      ELSE [msg EXCEPT !.conts = @ \cup {peer}]
            /\ label' \in {"peer", "ip", "send"}
            /\ label' = "ip" => peer' = peer
  BY DEF PutPeer, NextPeer
<1>2. GoesOn /\ IsMsg(msg)
  BY <1>1 DEF KernelInv, SetInv
<1>3. CASE label' = "send" /\ msg' = msg
  <2>1. GoesOn'
    BY <1>1, <1>2, <1>3, KernelUnmoved DEF GoesOn
  <2> QED  BY <1>1, <1>3, <2>1, KernelUnmoved DEF KernelInv
<1>4. CASE /\ msg' = IF allowedip = 0 THEN [msg EXCEPT !.heads = @ \cup {peer}]
                                      ELSE [msg EXCEPT !.conts = @ \cup {peer}]
           /\ label' \in {"peer", "ip", "send"}
           /\ label' = "ip" => peer' = peer
  <2>1. /\ msg'.heads = (IF allowedip = 0 THEN msg.heads \cup {peer} ELSE msg.heads)
        /\ msg'.conts = (IF allowedip = 0 THEN msg.conts ELSE msg.conts \cup {peer})
        /\ msg'.ips = msg.ips /\ msg'.device = msg.device
    BY <1>2, <1>4 DEF IsMsg
  <2>2. ASSUME allowedip # 0 PROVE peer \in headed /\ peer + 1 \notin headed
    <3>1. msg.heads = {} /\ headed \cup msg.heads = HeadsAt(peer, allowedip) /\ peer \in 0 .. NPeers /\ peer # 0
      BY <1>1, <2>2 DEF SetInv, Building, HeadsTo, CursorOK, CursorAt
    <3>2. headed = 1 .. peer /\ peer \in Nat
      BY <2>2, <3>1, Lists DEF HeadsAt, SetInv
    <3> QED  BY <3>1, <3>2
  <2>3. msg'.conts \subseteq {i \in headed : i + 1 \notin headed}
    BY <1>2, <2>1, <2>2 DEF GoesOn
  <2>4. \A x \in msg'.ips : x[1] \in msg'.heads \cup msg'.conts
    BY <1>2, <2>1 DEF GoesOn
  <2>5. IF msg'.device THEN kernel' = before' /\ headed' = {} /\ delivered' = {} ELSE AsTaken'
    BY <1>1, <1>2, <2>1, KernelUnmoved DEF GoesOn
  <2>6. GoesOn'
    BY <1>1, <2>3, <2>4, <2>5 DEF GoesOn
  <2>7. peer \in msg'.heads \cup msg'.conts
    BY <2>1
  <2> QED  BY <1>1, <1>4, <2>6, <2>7, KernelUnmoved DEF KernelInv
<1> QED  BY <1>1, <1>3, <1>4

\* An allowed IP is put under the peer that is in the message.
LEMMA PutAllowedIpGoesOn == ASSUME SetInv, KernelInv, PutAllowedIp PROVE KernelInv'
<1>1. /\ label = "ip" /\ UNCHANGED <<dev, before, kernel, headed, delivered, ret>>
      /\ \/ label' = "send" /\ msg' = msg
         \/ /\ msg' = [msg EXCEPT !.ips = @ \cup {<<peer, allowedip>>}]
            /\ label' \in {"peer", "ip", "send"}
            /\ label' = "ip" => peer' = peer
  BY DEF PutAllowedIp, NextPeer
<1>2. GoesOn /\ IsMsg(msg) /\ peer \in msg.heads \cup msg.conts
  BY <1>1 DEF KernelInv, SetInv
<1>3. CASE label' = "send" /\ msg' = msg
  <2>1. GoesOn'
    BY <1>1, <1>2, <1>3, KernelUnmoved DEF GoesOn
  <2> QED  BY <1>1, <1>3, <2>1, KernelUnmoved DEF KernelInv
<1>4. CASE /\ msg' = [msg EXCEPT !.ips = @ \cup {<<peer, allowedip>>}]
           /\ label' \in {"peer", "ip", "send"}
           /\ label' = "ip" => peer' = peer
  <2>1. /\ msg'.heads = msg.heads /\ msg'.conts = msg.conts /\ msg'.device = msg.device
        /\ msg'.ips = msg.ips \cup {<<peer, allowedip>>}
    BY <1>2, <1>4 DEF IsMsg
  <2>2. \A x \in msg'.ips : x[1] \in msg'.heads \cup msg'.conts
    BY <1>2, <2>1 DEF GoesOn
  <2>3. IF msg'.device THEN kernel' = before' /\ headed' = {} /\ delivered' = {} ELSE AsTaken'
    BY <1>1, <1>2, <2>1, KernelUnmoved DEF GoesOn
  <2>4. GoesOn'
    BY <1>1, <1>2, <2>1, <2>2, <2>3 DEF GoesOn
  <2> QED  BY <1>1, <1>2, <1>4, <2>1, <2>4, KernelUnmoved DEF KernelInv
<1> QED  BY <1>1, <1>3, <1>4

\* The kernel takes the message, or some of its first peers.
LEMMA KernelTakesPieces == ASSUME DevicesListed, SetInv, KernelInv, KernelTakes PROVE KernelInv'
<1>1. PICK n \in 0 .. NPeers, e \in {0, -1} :
        /\ e = 0 => n = NPeers
        /\ ack' = e /\ kernel' = TakeMsg(kernel, msg, n)
        /\ IF e = 0 THEN headed' = headed \cup msg.heads /\ delivered' = delivered \cup msg.ips
           ELSE UNCHANGED <<headed, delivered>>
  BY DEF KernelTakes
<1>2. label = "kernel" /\ label' = "recv" /\ UNCHANGED <<dev, peer, allowedip, before>>
  BY DEF KernelTakes
<1>3. /\ OnList(peer, allowedip) /\ TakenTo /\ SomePieces
      /\ headed \cup msg.heads = HeadsTo /\ delivered \cup msg.ips = IpsTo
  BY <1>2 DEF SetInv, KernelInv, CursorOK, CursorAt, OnList, Building
<1>4. \A p, a : /\ (OnList(p, a) <=> OnList(p, a)')
                /\ HeadsAt(p, a) = HeadsAt(p, a)' /\ IpsAt(p, a) = IpsAt(p, a)'
  BY <1>2 DEF OnList, HeadsAt, IpsAt, Pairs, NPeers, Ips
<1>5. NPeers' = NPeers /\ \A h, q, m : KernelAt(h, q, m) = KernelAt(h, q, m)'
  BY <1>2 DEF NPeers, KernelAt
<1>6. \/ kernel' = KernelAt(HeadsTo, IpsTo, n)
      \/ n # NPeers /\ kernel' = kernel
  BY <1>1, <1>2, MessageTaken
<1>7. SomePieces'
  <2>1. CASE kernel' = KernelAt(HeadsAt(peer, allowedip), IpsAt(peer, allowedip), n)
    BY <1>1, <1>3, <1>4, <1>5, <2>1, Zenon DEF SomePieces
  <2>2. CASE kernel' = kernel
    BY <1>2, <1>3, <1>4, <1>5, <2>2, Zenon DEF SomePieces
  <2> QED  BY <1>6, <2>1, <2>2 DEF HeadsTo, IpsTo
<1>8. TakenTo'
  <2>1. CASE e = 0
    <3>1. headed' = HeadsAt(peer, allowedip) /\ delivered' = IpsAt(peer, allowedip)
      BY <1>1, <1>3, <2>1 DEF HeadsTo, IpsTo
    <3> QED  BY <1>3, <1>4, <3>1, Zenon DEF TakenTo
  <2>2. CASE e # 0
    <3>1. headed' = headed /\ delivered' = delivered
      BY <1>1, <2>2
    <3> QED  BY <1>3, <1>4, <3>1, Zenon DEF TakenTo
  <2> QED  BY <2>1, <2>2
<1>9. ASSUME ack' = 0 PROVE AsTaken'
  <2>1. n = NPeers /\ headed' = HeadsTo /\ delivered' = IpsTo
    BY <1>1, <1>3, <1>9
  <2>2. kernel' = KernelAt(HeadsTo, IpsTo, NPeers)
    BY <1>6, <2>1
  <2> QED  BY <1>2, <1>5, <2>1, <2>2, Zenon DEF AsTaken, KernelAt
<1> QED  BY <1>2, <1>7, <1>8, <1>9 DEF KernelInv

\* Every step preserves both invariants.
LEMMA KernelNext == ASSUME DevicesListed, SetInv, KernelInv, [NNext]_nvars PROVE KernelInv'
<1>1. CASE Open
  <2>1. /\ label = "open" /\ peer' = peer /\ UNCHANGED <<dev, before, kernel, headed, delivered>>
        /\ label' = "again" \/ (label' = "done" /\ ret' = -1)
    BY <1>1 DEF Open, Fail
  <2>2. peer = 0 /\ kernel' = before'
    BY <2>1 DEF SetInv, KernelInv
  <2> QED  BY <2>1, <2>2, KernelUnmoved DEF KernelInv
<1>2. CASE Send
  <2>1. /\ label = "send" /\ UNCHANGED <<dev, before, kernel, headed, delivered, msg>>
        /\ label' = "kernel" \/ (label' = "done" /\ ret' = -1)
    BY <1>2 DEF Send, Fail
  <2>2. GoesOn'
    BY <2>1, KernelUnmoved DEF KernelInv, GoesOn
  <2> QED  BY <2>1, <2>2, KernelUnmoved DEF KernelInv
<1>3. CASE Recv
  <2>1. /\ label = "recv" /\ UNCHANGED <<dev, before, kernel, headed, delivered, peer>>
        /\ \/ ack = 0 /\ label' = (IF peer # 0 THEN "again" ELSE "done")
           \/ ret' = -1 /\ label' = "done"
    BY <1>3 DEF Recv, Fail
  <2> QED  BY <2>1, KernelUnmoved DEF KernelInv
<1>4. CASE Done \/ UNCHANGED nvars
  <2>1. UNCHANGED <<dev, before, kernel, headed, delivered, label, peer, ack, ret, msg>>
    BY <1>4 DEF Done, nvars
  <2>2. GoesOn' <=> GoesOn
    BY <2>1, KernelUnmoved DEF GoesOn
  <2> QED  BY <2>1, <2>2, KernelUnmoved DEF KernelInv
<1> QED  BY <1>1, <1>2, <1>3, <1>4, PrepareGoesOn, PutPeerGoesOn, PutAllowedIpGoesOn, KernelTakesPieces DEF NNext

\* The whole device as pieces.
LEMMA WholePieces ==
  ASSUME DevicesListed, DevOK
  PROVE  /\ Whole(dev).heads = 1 .. NPeers /\ Whole(dev).conts = {}
         /\ \A i, j : <<i, j>> \in Whole(dev).ips <=> <<i, j>> \in Pairs
<1>1. PICK S : dev.peers \in Seq(S)
  BY DEF DevicesListed, DevOK
<1>2. DOMAIN dev.peers = 1 .. NPeers
  BY <1>1 DEF NPeers
<1>3. \A i, j : <<i, j>> \in Whole(dev).ips <=> i \in 1 .. NPeers /\ j \in DOMAIN dev.peers[i].ips
  BY <1>2 DEF Whole
<1>4. \A i, j : <<i, j>> \in Pairs <=> i \in 1 .. NPeers /\ j \in 1 .. Len(Ips(i))
  BY InPairs
<1>5. \A i \in 1 .. NPeers : DOMAIN dev.peers[i].ips = 1 .. Len(Ips(i))
  BY ListsOfIps
<1>6. Whole(dev).heads = 1 .. NPeers /\ Whole(dev).conts = {}
  BY <1>2 DEF Whole
<1> QED  BY <1>3, <1>4, <1>5, <1>6, Zenon

\* The pieces of whole peers are a prefix of the device.
LEMMA WholePeers ==
  ASSUME DevicesListed, DevOK, NEW p, NEW a, OnList(p, a), NEW n \in Nat, n =< Count(p, a),
         a # 0 => n # p
  PROVE  KernelAt(HeadsAt(p, a), IpsAt(p, a), n) = TakeSome(before, dev, n)
<1>1. NPeers \in Nat /\ Count(p, a) \in Nat /\ Count(p, a) =< NPeers /\ HeadsAt(p, a) = 1 .. Count(p, a)
      /\ \A i \in 1 .. NPeers : Len(Ips(i)) \in Nat
  BY Lists, Places
<1> DEFINE m == Pieces(HeadsAt(p, a), IpsAt(p, a))
<1>2. m.heads = 1 .. Count(p, a) /\ m.conts = {} /\ m.ips = IpsAt(p, a)
  BY <1>1 DEF Pieces
<1> HIDE DEF m
<1>3. ASSUME NEW i \in 1 .. n
      PROVE  /\ i \in 1 .. Count(p, a) /\ i \in 1 .. NPeers
             /\ \A j : <<i, j>> \in IpsAt(p, a) <=> <<i, j>> \in Pairs
  <2>1. i \in 1 .. Count(p, a) /\ i \in 1 .. NPeers
    BY <1>1
  <2>2. p = 0 \/ i < p
    BY <1>1, <2>1 DEF OnList, Count
  <2> QED  BY <2>1, <2>2 DEF IpsAt
<1>4. Alike(m, Whole(dev), n)
  BY <1>2, <1>3, WholePieces, Zenon DEF Alike
<1>5. TakePeers(TakeDevice(before, dev), dev, m, n) = TakePeers(TakeDevice(before, dev), dev, Whole(dev), n)
  BY <1>4, AlikeTakeAlike
<1> QED  BY <1>5 DEF m, KernelAt, TakeSome

\* Whatever pieces the kernel has are a prefix of the device.
LEMMA PiecesArePrefix ==
  ASSUME DevicesListed, DevOK, NEW p, NEW a, OnList(p, a), NEW n \in 0 .. NPeers
  PROVE  \E i \in 0 .. NPeers :
           \/ KernelAt(HeadsAt(p, a), IpsAt(p, a), n) = TakePrefix(before, i, -1)
           \/ i < NPeers /\ \E j \in 0 .. Len(Ips(i + 1)) :
                KernelAt(HeadsAt(p, a), IpsAt(p, a), n) = TakePrefix(before, i, j)
<1> DEFINE c == Count(p, a)
           m == Pieces(HeadsAt(p, a), IpsAt(p, a))
           K(i) == KernelAt(HeadsAt(p, a), IpsAt(p, a), i)
           l == IF n < c THEN n ELSE c
<1>1. NPeers \in Nat /\ c \in Nat /\ c =< NPeers /\ \A i \in 1 .. NPeers : Len(Ips(i)) \in Nat
  BY Lists, Places
<1>2. m.heads = 1 .. c /\ m.conts = {} /\ m.ips = IpsAt(p, a)
  BY Places DEF Pieces
<1>3. K(n) = K(l) /\ l \in Nat /\ l =< c
  <2>1. l \in Nat /\ n \in Nat /\ l =< n /\ l =< c
    BY <1>1
  <2>2. \A i \in l + 1 .. n : i \notin m.heads \cup m.conts
    <3> HIDE DEF m
    <3> QED  BY <1>1, <1>2
  <2> HIDE DEF l, m
  <2>3. TakePeers(TakeDevice(before, dev), dev, m, n) = TakePeers(TakeDevice(before, dev), dev, m, l)
    BY <2>1, <2>2, Skipped
  <2> QED  BY <2>1, <2>3 DEF m, KernelAt
<1>4. CASE a # 0 => l # p
  <2>1. K(l) = TakeSome(before, dev, l)
    <3> HIDE DEF l
    <3> QED  BY <1>3, <1>4, WholePeers
  <2>2. TakePrefix(before, l, -1) = TakeSome(before, dev, l)
    BY DEF TakePrefix
  <2>3. l \in 0 .. NPeers
    BY <1>1
  <2> HIDE DEF K, l
  <2> QED  BY <1>3, <2>1, <2>2, <2>3 DEF K
<1>5. CASE a # 0 /\ l = p
  <2>1. p \in 1 .. NPeers /\ a \in 1 .. Len(Ips(p)) /\ c = p
    BY <1>1, <1>5 DEF OnList, Count
  <2>2. p - 1 \in Nat /\ p - 1 \in 0 .. NPeers /\ (p - 1) + 1 = p /\ p - 1 < NPeers /\ a - 1 \in 0 .. Len(Ips(p))
        /\ p - 1 =< Count(p, a) /\ p - 1 # p /\ ~(a - 1 < 0)
    BY <1>1, <2>1
  <2>3. K(p - 1) = TakeSome(before, dev, p - 1)
    BY <2>2, WholePeers
  <2>4. K(p) = Step(dev, m, K(p - 1), p)
    <3>1. TakePeers(TakeDevice(before, dev), dev, m, (p - 1) + 1)
          = Step(dev, m, TakePeers(TakeDevice(before, dev), dev, m, p - 1), (p - 1) + 1)
      <4> HIDE DEF m
      <4> QED  BY <2>2, OneMore
    <3> QED  BY <2>2, <3>1, Zenon DEF KernelAt
  <2>5. {j \in DOMAIN dev.peers[p].ips : <<p, j>> \in m.ips} = 1 .. a - 1
    <3>1. DOMAIN dev.peers[p].ips = 1 .. Len(Ips(p)) /\ Len(Ips(p)) \in Nat
      BY <1>1, <2>1, ListsOfIps
    <3>2. \A j \in 1 .. Len(Ips(p)) : <<p, j>> \in IpsAt(p, a) <=> j < a
      BY <1>1, <2>1, InPairs DEF IpsAt
    <3> HIDE DEF m
    <3> QED  BY <1>2, <2>1, <3>1, <3>2
  <2>6. K(p) = Introduced(TakeSome(before, dev, p - 1), dev.peers[p], 1 .. a - 1)
    <3>1. (p \in m.heads) = TRUE
      <4> HIDE DEF m
      <4> QED  BY <1>2, <2>1
    <3> HIDE DEF m, K
    <3> QED  BY <2>3, <2>4, <2>5, <3>1, Zenon DEF Step, Introduced
  <2>7. TakePrefix(before, p - 1, a - 1) = Introduced(TakeSome(before, dev, p - 1), dev.peers[p], 1 .. a - 1)
    BY <2>2, Zenon DEF TakePrefix, Introduced
  <2> HIDE DEF K, l
  <2>8. K(n) = TakePrefix(before, p - 1, a - 1)
    BY <1>3, <1>5, <2>6, <2>7
  <2>9. a - 1 \in 0 .. Len(Ips((p - 1) + 1))
    BY <2>2
  <2> QED  BY <2>2, <2>8, <2>9, Zenon DEF K
<1> QED  BY <1>4, <1>5

(* The inductive invariant of the kernel's side: whenever a message is begun, the
   kernel is what all the pieces it acknowledged would make of it in one message.  *)
THEOREM KernelInvariant == ASSUME DevicesListed PROVE NSpec => [](SetInv /\ KernelInv)
<1>1. NInit => SetInv /\ KernelInv
  BY SetInit, KernelInit
<1>2. SetInv /\ KernelInv /\ [NNext]_nvars => (SetInv /\ KernelInv)'
  BY SetNext, KernelNext
<1> QED  BY <1>1, <1>2, PTL DEF NSpec

(* However kernel_set_device cuts a configuration, and in the middle of a peer's
   allowed IPs too, a call that succeeds has made of the kernel's device what the
   whole configuration in one message would have made of it.                 *)
THEOREM CutEqualsWhole == ASSUME DevicesListed PROVE NSpec => []SetEqualsWhole
<1>1. SetInv /\ KernelInv => SetEqualsWhole
  <2> SUFFICES ASSUME SetInv, KernelInv, label = "done", ret = 0 PROVE kernel = TakeWhole(before)
    BY DEF SetEqualsWhole
  <2>1. /\ DevOK /\ NPeers \in Nat /\ kernel = KernelAt(headed, delivered, NPeers)
        /\ headed = HeadsAt(0, 0) /\ delivered = IpsAt(0, 0)
    BY Lists DEF SetInv, KernelInv, AsTaken, Taken, HeadsTo, IpsTo, CursorOK, CursorAt
  <2>2. OnList(0, 0) /\ NPeers =< Count(0, 0)
    BY <2>1 DEF OnList, Count
  <2>3. KernelAt(HeadsAt(0, 0), IpsAt(0, 0), NPeers) = TakeSome(before, dev, NPeers)
    BY <2>1, <2>2, WholePeers
  <2> QED  BY <2>1, <2>3 DEF TakeWhole, TakeAll, NPeers
<1> QED  BY <1>1, KernelInvariant, PTL

(* Wherever a call fails, before a message, in the kernel after some of a message's
   peers, or on a lost answer, the kernel is left with a prefix of the configuration. *)
THEOREM FailureLeavesAPrefix == ASSUME DevicesListed PROVE NSpec => []AlwaysAPrefix
<1>1. SetInv /\ KernelInv => AlwaysAPrefix
  <2> SUFFICES ASSUME SetInv, KernelInv, kernel # before PROVE AlwaysAPrefix
    BY Zenon DEF AlwaysAPrefix
  <2>1. DevOK /\ SomePieces
    BY Zenon DEF SetInv, KernelInv
  <2>2. PICK p, a : OnList(p, a) /\ \E n \in 0 .. NPeers : kernel = KernelAt(HeadsAt(p, a), IpsAt(p, a), n)
    BY <2>1, Zenon DEF SomePieces
  <2>3. PICK n \in 0 .. NPeers : kernel = KernelAt(HeadsAt(p, a), IpsAt(p, a), n)
    BY <2>2, Zenon
  <2>4. \E i \in 0 .. NPeers :
          \/ KernelAt(HeadsAt(p, a), IpsAt(p, a), n) = TakePrefix(before, i, -1)
          \/ i < NPeers /\ \E j \in 0 .. Len(Ips(i + 1)) :
               KernelAt(HeadsAt(p, a), IpsAt(p, a), n) = TakePrefix(before, i, j)
    BY <2>1, <2>2, PiecesArePrefix
  <2> QED  BY <2>3, <2>4, Zenon DEF AlwaysAPrefix
<1> QED  BY <1>1, KernelInvariant, PTL

(* Whatever the device, the kernel, the size of the buffer and the step that fails:
   the kernel's device goes through prefixes of the configuration in its order, no
   piece is sent twice, and kernel_set_device returns success only when the kernel
   has what the whole configuration would have made of it.                   *)
THEOREM CutIsWholeOrPrefix == ASSUME DevicesListed PROVE NSpec => []WholeOrPrefix
<1>1. SetEqualsWhole /\ AlwaysAPrefix /\ EachPieceOnce => WholeOrPrefix
  BY DEF WholeOrPrefix
<1> QED  BY <1>1, CutEqualsWhole, FailureLeavesAPrefix, PiecesDeliveredOnce, PTL

(***************************************************************************)
(* The adapters of Windows                                                 *)
(***************************************************************************)
(* Every id of the cache is that of an instance with the name it is kept under. *)
CacheIsTrue == \A n \in DOMAIN cache : cache[n] \in Instances /\ NameOf[cache[n]] = n

(* The walk of kernel_interface_handle: an adapter that stays and has the name is
   still to come, or is the one that was found.                              *)
WalkMeets ==
  \A x \in stayed : NameOf[x] = iface => IF handle = NULL THEN x \in todo ELSE x = handle

AdaptersInv ==
  /\ present \subseteq Instances /\ stayed \subseteq present /\ todo \subseteq Instances
  /\ \A x, y \in present : NameOf[x] = NameOf[y] => x = y
  /\ pc = "open" => handle = NULL
  /\ ~missed =>
       /\ CacheIsTrue
       /\ pc \in {"look", "opened"} /\ handle # NULL => handle \in Instances /\ NameOf[handle] = iface
       /\ pc = "look" => WalkMeets
  /\ FindsWhatStays

\* The invariant of the cached adapters holds at the start.
LEMMA AdaptersInit == Init => AdaptersInv
BY DEF Init, AdaptersInv, CacheIsTrue, FindsWhatStays

\* Every step on the adapters preserves it.
LEMMA AdaptersNext ==
  ASSUME InstancesApart, AdaptersInv, [Next]_vars
  PROVE  AdaptersInv'
<1> USE DEF AdaptersInv, FindsWhatStays, WalkMeets, CacheIsTrue
<1>1. CASE UNCHANGED vars
  BY <1>1 DEF vars
<1>2. CASE Moves
  BY <1>2 DEF Moves
<1>3. CASE GetClassDevs
  BY <1>3 DEF GetClassDevs
<1>4. CASE ListAdapter
  BY <1>4 DEF ListAdapter, WithEntry, Entry
<1>5. CASE ListEnds
  BY <1>5 DEF ListEnds
<1>6. CASE NextName
  BY <1>6 DEF NextName
<1>7. CASE OpenCached
  BY <1>7 DEF OpenCached, InterfacesOf, InstancesApart
<1>8. CASE LookAgain
  BY <1>8 DEF LookAgain
<1>9. CASE LookAt
  <2>1. /\ pc = "look" /\ handle = NULL /\ pc' = pc
        /\ UNCHANGED <<present, stayed, cache, cached, iface>>
    BY <1>9 DEF LookAt
  <2>2. PICK x \in todo :
          /\ todo' = todo \ {x}
          /\ \/ x \in present /\ NameOf[x] = iface /\ handle' = x /\ missed' = missed
             \/ missed' = TRUE /\ handle' = handle
             \/ (x \notin present \/ NameOf[x] # iface) /\ handle' = handle /\ missed' = missed
    BY <1>9 DEF LookAt
  <2>3. x \in Instances /\ x # NULL
    BY <2>2 DEF InstancesApart
  <2>4. ~missed' => (handle' # NULL => handle' \in Instances /\ NameOf[handle'] = iface)
    BY <2>1, <2>2, <2>3, Zenon
  <2>5. ~missed' => \A y \in stayed : NameOf[y] = iface => IF handle' = NULL THEN y \in todo' ELSE y = handle'
    <3> SUFFICES ASSUME ~missed', NEW y \in stayed, NameOf[y] = iface
                 PROVE  IF handle' = NULL THEN y \in todo' ELSE y = handle'
      OBVIOUS
    <3>1. y \in todo /\ y \in present /\ (x \in present /\ NameOf[x] = iface => x = y)
      BY <2>1, <2>2
    <3> QED  BY <2>1, <2>2, <2>3, <3>1
  <2>6. ~missed' => CacheIsTrue'
    BY <2>1, <2>2
  <2> QED  BY <2>1, <2>2, <2>4, <2>5, <2>6
<1>10. CASE LookEnds
  <2>1. /\ pc = "look" /\ (todo = {} \/ handle # NULL) /\ pc' = "opened"
        /\ UNCHANGED <<present, stayed, todo, cache, cached, iface>>
    BY <1>10 DEF LookEnds
  <2>2. CASE handle' = (IF handle \in present THEN handle ELSE NULL) /\ missed' = missed
    <3>1. ASSUME ~missed, handle' = NULL PROVE \A x \in stayed : NameOf[x] # iface
      BY <2>1, <2>2, <3>1
    <3>2. ASSUME ~missed, handle' # NULL PROVE handle' \in Instances /\ NameOf[handle'] = iface
      BY <2>1, <2>2, <3>2
    <3> QED  BY <2>1, <2>2, <3>1, <3>2
  <2>3. CASE missed' = TRUE
    BY <2>1, <2>3
  <2> QED  BY <1>10, <2>2, <2>3 DEF LookEnds
<1>11. CASE Used
  BY <1>11 DEF Used
<1> QED  BY <1>1, <1>2, <1>3, <1>4, <1>5, <1>6, <1>7, <1>8, <1>9, <1>10, <1>11 DEF Next

(* Whatever adapters come and go, and how often, after they were listed: if all
   instance ids could be read, kernel_interface_handle opens an adapter with the
   name that was asked for or none, and one that is there all the time it opens. *)
THEOREM AdapterIsFound ==
  ASSUME InstancesApart PROVE Spec => []FindsTheAdapter
<1>1. AdaptersInv => FindsTheAdapter
  BY DEF AdaptersInv, FindsTheAdapter, OpensWhatIsKnown,
         OpensTheInterface, InstancesApart
<1>2. AdaptersInv /\ [Next]_vars => AdaptersInv'
  BY AdaptersNext
<1> QED  BY <1>1, <1>2, AdaptersInit, PTL DEF Spec
=============================================================================
