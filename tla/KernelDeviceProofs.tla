------------------------- MODULE KernelDeviceProofs -------------------------
(***************************************************************************)
(* How a device is taken peer by peer, whatever its lists: the recursion   *)
(* of TakePeers unfolds, a peer continued in a second message is as good   *)
(* as one sent whole, and two messages are as good as one.  The proofs     *)
(* about what sends devices, NetlinkSet and SetConf, rest on these lemmas. *)
(*                                                                         *)
(* Induction is by the least number for which something fails.             *)
(***************************************************************************)
EXTENDS KernelDevice, WellFoundedInduction, TLAPS

\* A set of numbers that is not empty has a least one.
LEMMA Least ==
  ASSUME NEW T, T \subseteq Nat, T # {}
  PROVE  \E n \in T : \A m \in T : n =< m
<1>1. PICK n \in T : \A m \in T : ~(<<m, n>> \in OpToRel(<, Nat))
  BY NatLessThanWellFounded, WFMin
<1>2. \A m \in T : m < n => <<m, n>> \in OpToRel(<, Nat)
  BY Zenon DEF OpToRel
<1>3. \A m \in T : ~(m < n)
  BY <1>1, <1>2, Zenon
<1> QED  BY <1>3

(* What the i-th peer of a device makes of the kernel when a message is taken. *)
Step(d, m, k, i) ==
  IF i \in m.heads \cup m.conts
  THEN TakePeer(k, d.peers[i], i \in m.heads, {j \in DOMAIN d.peers[i].ips : <<i, j>> \in m.ips})
  ELSE k

(* The kernels that taking the first n peers goes through, and all of them. *)
Steps(d, m, k, g, n) ==
  /\ g[0] = k
  /\ \A i \in 1 .. n : g[i] = Step(d, m, g[i - 1], i)

AllSteps(d, m, k, f) == f = [i \in Nat |-> IF i = 0 THEN k ELSE Step(d, m, f[i - 1], i)]

\* The recursion goes through the same kernels however far it goes.
LEMMA StepsAgree ==
  ASSUME NEW d, NEW m, NEW k, NEW g, NEW h, NEW n \in Nat,
         Steps(d, m, k, g, n), Steps(d, m, k, h, n)
  PROVE  g[n] = h[n]
<1> DEFINE T == {i \in 0 .. n : g[i] # h[i]}
<1> SUFFICES ASSUME T # {} PROVE FALSE
  OBVIOUS
<1>1. T \subseteq Nat
  OBVIOUS
<1>2. PICK i \in T : \A j \in T : i =< j
  <2> HIDE DEF T
  <2> QED  BY <1>1, Least
<1>3. i \in 0 .. n /\ g[i] # h[i]
  OBVIOUS
<1>4. i # 0
  BY <1>3 DEF Steps
<1>5. i - 1 \in 0 .. n /\ i \in 1 .. n /\ i - 1 < i
  BY <1>3, <1>4
<1>6. g[i - 1] = h[i - 1]
  <2>1. i - 1 \notin T
    <3> HIDE DEF T
    <3> QED  BY <1>2, <1>5
  <2> QED  BY <2>1, <1>5
<1>7. g[i] = Step(d, m, g[i - 1], i) /\ h[i] = Step(d, m, h[i - 1], i)
  BY <1>5, Zenon DEF Steps
<1> QED  BY <1>3, <1>6, <1>7, Zenon

\* The recursion reaches every peer.
LEMMA StepsReach ==
  ASSUME NEW d, NEW m, NEW k, NEW n \in Nat
  PROVE  \E g : Steps(d, m, k, g, n)
<1> DEFINE T == {i \in Nat : ~ \E g : Steps(d, m, k, g, i)}
<1> SUFFICES ASSUME T # {} PROVE FALSE
  OBVIOUS
<1>1. T \subseteq Nat
  OBVIOUS
<1>2. PICK i \in T : \A j \in T : i =< j
  <2> HIDE DEF T
  <2> QED  BY <1>1, Least
<1>3. i \in Nat /\ ~ \E g : Steps(d, m, k, g, i)
  BY Zenon
<1>4. i # 0
  <2>1. Steps(d, m, k, [j \in {0} |-> k], 0)
    BY DEF Steps
  <2> QED  BY <1>3, <2>1
<1>5. i - 1 \in Nat /\ ~(i =< i - 1)
  BY <1>3, <1>4
<1>6. i - 1 \notin T
  <2> HIDE DEF T
  <2> QED  BY <1>2, <1>5
<1>7. PICK g : Steps(d, m, k, g, i - 1)
  BY <1>5, <1>6
<1> DEFINE h == [j \in 0 .. i |-> IF j = i THEN Step(d, m, g[i - 1], i) ELSE g[j]]
<1>8. h[0] = k
  BY <1>3, <1>4, <1>7 DEF Steps
<1>9. h[i] = Step(d, m, g[i - 1], i) /\ \A j \in 0 .. i - 1 : h[j] = g[j]
  BY <1>3
<1> HIDE DEF h
<1>10. ASSUME NEW j \in 1 .. i PROVE h[j] = Step(d, m, h[j - 1], j)
  <2>1. j - 1 \in 0 .. i - 1 /\ (j # i => j \in 1 .. i - 1 /\ j \in 0 .. i - 1)
    BY <1>3
  <2>2. CASE j = i
    BY <1>9, <2>1, <2>2
  <2>3. CASE j # i
    <3>1. g[j] = Step(d, m, g[j - 1], j)
      BY <1>7, <2>1, <2>3, Zenon DEF Steps
    <3> QED  BY <1>9, <2>1, <2>3, <3>1
  <2> QED  BY <2>2, <2>3
<1> QED  BY <1>3, <1>8, <1>10 DEF Steps

\* TakePeers takes one peer after the other.
LEMMA TakePeersSteps ==
  ASSUME NEW k, NEW d, NEW m
  PROVE  /\ TakePeers(k, d, m, 0) = k
         /\ \A n \in Nat : n # 0 => TakePeers(k, d, m, n) = Step(d, m, TakePeers(k, d, m, n - 1), n)
<1> DEFINE G(n) == CHOOSE g : Steps(d, m, k, g, n)
           F == [n \in Nat |-> G(n)[n]]
<1>1. ASSUME NEW n \in Nat PROVE Steps(d, m, k, G(n), n)
  BY StepsReach
<1>2. F[0] = k
  <2>1. Steps(d, m, k, G(0), 0)
    BY <1>1
  <2> HIDE DEF G
  <2> QED  BY <2>1 DEF Steps
<1>3. ASSUME NEW n \in Nat, n # 0 PROVE F[n] = Step(d, m, F[n - 1], n)
  <2>1. n - 1 \in Nat /\ n \in 1 .. n
    BY <1>3
  <2>2. Steps(d, m, k, G(n), n) /\ Steps(d, m, k, G(n - 1), n - 1)
    BY <1>1, <2>1
  <2>3. F[n] = G(n)[n] /\ F[n - 1] = G(n - 1)[n - 1]
    BY <2>1
  <2> HIDE DEF F, G
  <2>4. Steps(d, m, k, G(n), n - 1)
    <3>1. \A i \in 1 .. n - 1 : i \in 1 .. n
      BY <1>3
    <3> QED  BY <2>2, <3>1, Zenon DEF Steps
  <2>5. G(n - 1)[n - 1] = G(n)[n - 1]
    BY <2>1, <2>2, <2>4, StepsAgree
  <2>6. G(n)[n] = Step(d, m, G(n)[n - 1], n)
    BY <2>1, <2>2, Zenon DEF Steps
  <2> QED  BY <2>3, <2>5, <2>6
<1>4. AllSteps(d, m, k, F)
  <2>1. F = [n \in Nat |-> F[n]]
    OBVIOUS
  <2> HIDE DEF F
  <2> QED  BY <1>2, <1>3, <2>1 DEF AllSteps
<1> DEFINE f == CHOOSE f : AllSteps(d, m, k, f)
<1>5. AllSteps(d, m, k, f)
  <2> HIDE DEF F
  <2> QED  BY <1>4
<1>6. \A n : TakePeers(k, d, m, n) = f[n]
  BY Zenon DEF TakePeers, AllSteps, Step
<1> HIDE DEF f, F
<1>7. f[0] = k /\ \A n \in Nat : n # 0 => f[n] = Step(d, m, f[n - 1], n)
  BY <1>5 DEF AllSteps
<1>8. \A n \in Nat : n # 0 => n - 1 \in Nat
  OBVIOUS
<1> QED  BY <1>6, <1>7, Zenon

(* Positions that all come before others. *)
Before(S, T) == S \subseteq Nat /\ T \subseteq Nat /\ \A s \in S, t \in T : s < t

\* Taking allowed IPs of a peer in two goes is taking them in one.
LEMMA AllowedIpsInTwo ==
  ASSUME NEW owner, NEW pub, NEW ips, NEW S, NEW T, Before(S, T)
  PROVE  TakeAllowedIps(TakeAllowedIps(owner, pub, ips, S), pub, ips, T)
         = TakeAllowedIps(owner, pub, ips, S \cup T)
<1> DEFINE about(A, x) == {j \in A : ips[j].ip = x}
           added(A, x) == {j \in about(A, x) : "REMOVE_ME" \notin ips[j].flags}
           lastAdds(A, x) == \E j \in added(A, x) : \A i \in about(A, x) : i =< j
           owns(A, o, x) == IF lastAdds(A, x) THEN pub
                            ELSE IF added(A, x) # {} \/ (about(A, x) # {} /\ o = pub) THEN NoPeer ELSE o
<1>1. ASSUME NEW A, NEW o PROVE TakeAllowedIps(o, pub, ips, A) = [x \in DOMAIN o |-> owns(A, o[x], x)]
  BY Zenon DEF TakeAllowedIps
<1>2. ASSUME NEW x, NEW o PROVE owns(T, owns(S, o, x), x) = owns(S \cup T, o, x)
  <2>1. about(S \cup T, x) = about(S, x) \cup about(T, x) /\ added(S \cup T, x) = added(S, x) \cup added(T, x)
    OBVIOUS
  <2>2. about(T, x) = {} => lastAdds(S \cup T, x) = lastAdds(S, x)
    BY <2>1, Zenon
  <2>3. ASSUME about(T, x) # {} PROVE lastAdds(S \cup T, x) = lastAdds(T, x)
    <3>1. ASSUME NEW j \in added(S \cup T, x), \A i \in about(S \cup T, x) : i =< j PROVE lastAdds(T, x)
      <4>1. PICK t \in about(T, x) : t =< j
        BY <2>1, <2>3, <3>1
      <4>2. j \notin S
        <5>1. t \in T
          BY Zenon
        <5>2. j \in S => j < t /\ j \in Nat /\ t \in Nat
          BY <5>1, Zenon DEF Before
        <5> QED  BY <4>1, <5>2
      <4>3. j \in added(T, x)
        BY <4>2
      <4> QED  BY <2>1, <3>1, <4>3, Zenon
    <3>2. ASSUME NEW j \in added(T, x), \A i \in about(T, x) : i =< j PROVE lastAdds(S \cup T, x)
      <4>1. ASSUME NEW i \in about(S, x) PROVE i =< j
        <5>1. i \in S /\ j \in T
          BY Zenon
        <5>2. i < j /\ i \in Nat /\ j \in Nat
          BY <5>1, Zenon DEF Before
        <5> QED  BY <5>2
      <4> QED  BY <2>1, <3>2, <4>1, Zenon
    <3> QED  BY <3>1, <3>2, Zenon
  <2>4. about(T, x) = {} => added(T, x) = {} /\ ~lastAdds(T, x)
    OBVIOUS
  <2>5. \A A : lastAdds(A, x) => added(A, x) # {}
    OBVIOUS
  <2>6. \A A : added(A, x) # {} => about(A, x) # {}
    OBVIOUS
  <2> HIDE DEF about, added, lastAdds
  <2>7. CASE about(T, x) = {}
    BY <2>1, <2>2, <2>4, <2>7
  <2>8. CASE about(T, x) # {}
    BY <2>1, <2>3, <2>5, <2>6, <2>8
  <2> QED  BY <2>7, <2>8
<1>5. TakeAllowedIps(owner, pub, ips, S \cup T) = [x \in DOMAIN owner |-> owns(S \cup T, owner[x], x)]
  BY Zenon DEF TakeAllowedIps
<1> HIDE DEF owns
<1> DEFINE o1 == TakeAllowedIps(owner, pub, ips, S)
<1>3. DOMAIN o1 = DOMAIN owner /\ \A x \in DOMAIN owner : o1[x] = owns(S, owner[x], x)
  BY <1>1
<1>4. TakeAllowedIps(o1, pub, ips, T) = [x \in DOMAIN o1 |-> owns(T, o1[x], x)]
  BY <1>1
<1> HIDE DEF o1
<1>6. \A x \in DOMAIN owner : owns(T, o1[x], x) = owns(S \cup T, owner[x], x)
  BY <1>2, <1>3
<1>7. TakeAllowedIps(o1, pub, ips, T) = TakeAllowedIps(owner, pub, ips, S \cup T)
  BY <1>3, <1>4, <1>5, <1>6
<1> QED  BY <1>7 DEF o1

Introduced(k, p, at) == TakePeer(k, p, TRUE, at)
Continued(k, p, at) == TakePeer(k, p, FALSE, at)

(* A peer that is introduced with some of its allowed IPs and continued with the ones
   after them is as if it had been introduced with all of them.              *)
LEMMA PeerInTwo ==
  ASSUME NEW k, NEW p, NEW S, NEW T, NEW U, Before(S, T), U = S \cup T
  PROVE  Continued(Introduced(k, p, S), p, T) = Introduced(k, p, U)
<1>1. CASE "REMOVE_ME" \in p.flags
  <2>1. \A l, A, b : TakePeer(l, p, b, A) = RemovePeer(l, p.pub)
    BY <1>1 DEF TakePeer
  <2>2. RemovePeer(RemovePeer(k, p.pub), p.pub) = RemovePeer(k, p.pub)
    BY DEF RemovePeer, With, Disowned
  <2>3. Introduced(k, p, S) = RemovePeer(k, p.pub) /\ Introduced(k, p, U) = RemovePeer(k, p.pub)
        /\ Continued(RemovePeer(k, p.pub), p, T) = RemovePeer(RemovePeer(k, p.pub), p.pub)
    BY <2>1 DEF Introduced, Continued
  <2> QED  BY <2>2, <2>3
<1>2. CASE "REMOVE_ME" \notin p.flags
  <2> DEFINE old(l) == IF p.pub \in DOMAIN l.peers THEN l.peers[p.pub]
                       ELSE [psk |-> 0, endpoint |-> 0, keepalive |-> 0]
             new(l, full) == [psk |-> IF full /\ "HAS_PRESHARED_KEY" \in p.flags THEN p.psk ELSE old(l).psk,
                endpoint |-> IF full /\ p.endpoint # 0 THEN p.endpoint ELSE old(l).endpoint,
                keepalive |-> IF full /\ "HAS_PERSISTENT_KEEPALIVE_INTERVAL" \in p.flags
                              THEN p.keepalive ELSE old(l).keepalive]
             cleared(l, full) == IF full /\ "REPLACE_ALLOWEDIPS" \in p.flags
                                 THEN Disowned(l.owner, p.pub) ELSE l.owner
             peers(l, full) == [q \in DOMAIN l.peers \cup {p.pub} |->
                                  IF q = p.pub THEN new(l, full) ELSE l.peers[q]]
             l1 == TakePeer(k, p, TRUE, S)
  <2>1. ASSUME NEW l, NEW full, NEW A
        PROVE  TakePeer(l, p, full, A)
               = With(l, peers(l, full), TakeAllowedIps(cleared(l, full), p.pub, p.ips, A))
    BY <1>2, Zenon DEF TakePeer
  <2>2. l1 = With(k, peers(k, TRUE), TakeAllowedIps(cleared(k, TRUE), p.pub, p.ips, S))
    BY <2>1
  <2>3. /\ l1.peers = peers(k, TRUE)
        /\ l1.owner = TakeAllowedIps(cleared(k, TRUE), p.pub, p.ips, S)
        /\ \A P, O : With(l1, P, O) = With(k, P, O)
    <3> HIDE DEF l1, peers, cleared
    <3> QED  BY <2>2 DEF With
  <2>4. p.pub \in DOMAIN l1.peers /\ l1.peers[p.pub] = new(k, TRUE)
        /\ DOMAIN l1.peers = DOMAIN k.peers \cup {p.pub}
        /\ \A q \in DOMAIN l1.peers : q # p.pub => l1.peers[q] = k.peers[q]
    <3> HIDE DEF l1, new
    <3> QED  BY <2>3
  <2>5. new(l1, FALSE) = new(k, TRUE)
    <3>1. old(l1) = new(k, TRUE)
      <4> HIDE DEF l1, new
      <4> QED  BY <2>4
    <3> HIDE DEF old, l1
    <3> QED  BY <3>1
  <2>6. peers(l1, FALSE) = peers(k, TRUE)
    <3> HIDE DEF new, l1
    <3> QED  BY <2>4, <2>5
  <2>7. cleared(l1, FALSE) = l1.owner
    OBVIOUS
  <2> HIDE DEF l1, peers, cleared
  <2>8. TakePeer(l1, p, FALSE, T) = With(k, peers(k, TRUE), TakeAllowedIps(l1.owner, p.pub, p.ips, T))
    <3>1. TakePeer(l1, p, FALSE, T)
          = With(l1, peers(l1, FALSE), TakeAllowedIps(cleared(l1, FALSE), p.pub, p.ips, T))
      BY <2>1
    <3> QED  BY <2>3, <2>6, <2>7, <3>1, Zenon
  <2>9. TakeAllowedIps(l1.owner, p.pub, p.ips, T)
        = TakeAllowedIps(cleared(k, TRUE), p.pub, p.ips, S \cup T)
    <3>1. ASSUME NEW o, NEW b, NEW i
          PROVE  TakeAllowedIps(TakeAllowedIps(o, b, i, S), b, i, T) = TakeAllowedIps(o, b, i, S \cup T)
      BY AllowedIpsInTwo
    <3> QED  BY <2>3, <3>1, Zenon
  <2>10. TakePeer(k, p, TRUE, S \cup T)
         = With(k, peers(k, TRUE), TakeAllowedIps(cleared(k, TRUE), p.pub, p.ips, S \cup T))
    BY <2>1
  <2> QED  BY <2>8, <2>9, <2>10 DEF l1, Introduced, Continued
<1> QED  BY <1>1, <1>2

LEMMA OneMore ==
  ASSUME NEW k, NEW d, NEW m, NEW n \in Nat
  PROVE  TakePeers(k, d, m, n + 1) = Step(d, m, TakePeers(k, d, m, n), n + 1)
<1>1. n + 1 \in Nat /\ n + 1 # 0 /\ (n + 1) - 1 = n
  OBVIOUS
<1>2. \A i \in Nat : i # 0 => TakePeers(k, d, m, i) = Step(d, m, TakePeers(k, d, m, i - 1), i)
  BY TakePeersSteps
<1>3. TakePeers(k, d, m, n + 1) = Step(d, m, TakePeers(k, d, m, (n + 1) - 1), n + 1)
  BY <1>1, <1>2, Zenon
<1> QED  BY <1>1, <1>3, Zenon

\* What holds from a on, one number after the other.
LEMMA Induct ==
  ASSUME NEW T, NEW a \in Nat, a \in T, \A n \in Nat : n >= a /\ n \in T => n + 1 \in T
  PROVE  \A n \in Nat : n >= a => n \in T
<1> DEFINE U == {n \in Nat : n >= a /\ n \notin T}
<1> SUFFICES ASSUME U # {} PROVE FALSE
  OBVIOUS
<1>1. U \subseteq Nat
  OBVIOUS
<1>2. PICK i \in U : \A j \in U : i =< j
  <2> HIDE DEF U
  <2> QED  BY <1>1, Least
<1>3. i \in Nat /\ i >= a /\ i \notin T /\ i # a
  OBVIOUS
<1>4. i - 1 \in Nat /\ i - 1 >= a /\ ~(i =< i - 1) /\ (i - 1) + 1 = i
  BY <1>3
<1>5. i - 1 \notin U
  <2> HIDE DEF U
  <2> QED  BY <1>2, <1>4
<1>6. i - 1 \in T
  BY <1>4, <1>5
<1> QED  BY <1>3, <1>4, <1>6

\* Peers that a message does not put change nothing.
LEMMA Skipped ==
  ASSUME NEW k, NEW d, NEW m, NEW a \in Nat, NEW b \in Nat, a =< b,
         \A i \in a + 1 .. b : i \notin m.heads \cup m.conts
  PROVE  TakePeers(k, d, m, b) = TakePeers(k, d, m, a)
<1> DEFINE P(n) == TakePeers(k, d, m, n)
           T == {n \in Nat : n =< b => P(n) = P(a)}
<1>1. a \in T
  OBVIOUS
<1>2. ASSUME NEW n \in Nat, n >= a, n \in T PROVE n + 1 \in T
  <2> SUFFICES ASSUME n + 1 =< b PROVE P(n + 1) = P(a)
    OBVIOUS
  <2>1. n + 1 \in a + 1 .. b /\ n =< b
    BY <1>2
  <2>2. P(n) = P(a)
    BY <1>2, <2>1
  <2>3. P(n + 1) = Step(d, m, P(n), n + 1)
    BY OneMore
  <2>4. P(n + 1) = P(n)
    BY <2>1, <2>3, Zenon DEF Step
  <2> QED  BY <2>1, <2>2, <2>4
<1>3. b \in T
  <2> HIDE DEF T
  <2> QED  BY <1>1, <1>2, Induct
<1> QED  BY <1>3

(* Two messages that put the same of a device's first n peers. *)
Alike(m, l, n) ==
  \A i \in 1 .. n : /\ i \in m.heads <=> i \in l.heads
                    /\ i \in m.conts <=> i \in l.conts
                    /\ \A j : <<i, j>> \in m.ips <=> <<i, j>> \in l.ips

\* They make the same of the kernel.
LEMMA AlikeTakeAlike ==
  ASSUME NEW k, NEW d, NEW m, NEW l, NEW n \in Nat, Alike(m, l, n)
  PROVE  TakePeers(k, d, m, n) = TakePeers(k, d, l, n)
<1> DEFINE P(i) == TakePeers(k, d, m, i)
           Q(i) == TakePeers(k, d, l, i)
           T == {i \in Nat : i =< n => P(i) = Q(i)}
<1>1. 0 \in T
  BY TakePeersSteps
<1>2. ASSUME NEW i \in Nat, i >= 0, i \in T PROVE i + 1 \in T
  <2> SUFFICES ASSUME i + 1 =< n PROVE P(i + 1) = Q(i + 1)
    OBVIOUS
  <2>1. i + 1 \in 1 .. n /\ i =< n
    OBVIOUS
  <2>2. P(i) = Q(i)
    BY <1>2, <2>1
  <2>3. P(i + 1) = Step(d, m, P(i), i + 1) /\ Q(i + 1) = Step(d, l, Q(i), i + 1)
    BY OneMore
  <2>4. ASSUME NEW x PROVE Step(d, m, x, i + 1) = Step(d, l, x, i + 1)
    <3>0. (i + 1 \in m.heads <=> i + 1 \in l.heads) /\ (i + 1 \in m.conts <=> i + 1 \in l.conts)
      BY <2>1, Zenon DEF Alike
    <3>1. (i + 1 \in m.heads) = (i + 1 \in l.heads) /\ (i + 1 \in m.conts) = (i + 1 \in l.conts)
      BY <3>0
    <3>2. \A S : {j \in S : <<i + 1, j>> \in m.ips} = {j \in S : <<i + 1, j>> \in l.ips}
      BY <2>1, Zenon DEF Alike
    <3>3. (i + 1 \in m.heads \cup m.conts) = (i + 1 \in l.heads \cup l.conts)
      BY <3>0
    <3> QED  BY <3>1, <3>2, <3>3, Zenon DEF Step
  <2> QED  BY <2>1, <2>2, <2>3, <2>4, Zenon
<1>3. n \in T
  <2> HIDE DEF T
  <2> QED  BY <1>1, <1>2, Induct
<1> QED  BY <1>3

(* A message A introduces the first a of N peers; a message B after it may continue
   peer a with later allowed IPs and introduce later peers; C is both in one. *)
Resumes(d, A, B, C, a, N) ==
  /\ a \in Nat /\ N \in Nat /\ a =< N
  /\ A.heads = 1 .. a /\ A.conts = {} /\ B.heads \cap A.heads = {} /\ B.conts \subseteq {a} \cap 1 .. a
  /\ \A i \in 1 .. N : \A j : <<i, j>> \in A.ips => i =< a
  /\ \A i \in 1 .. N : \A j : <<i, j>> \in B.ips => i \in B.heads \cup B.conts
  /\ a # 0 => DOMAIN d.peers[a].ips \subseteq Nat
  /\ \A i, j \in Nat : <<a, i>> \in A.ips /\ <<a, j>> \in B.ips => i < j
  /\ C.heads = A.heads \cup B.heads /\ C.conts = {} /\ C.ips = A.ips \cup B.ips

(* Of a kernel that has taken A, the first peers of B make nothing, and from peer a on
   it is as if A and B had been one message.                                 *)
LEMMA OneAfterTheOther ==
  ASSUME NEW k, NEW d, NEW A, NEW B, NEW C, NEW a, NEW N, Resumes(d, A, B, C, a, N),
         NEW n \in 0 .. N
  PROVE  TakePeers(TakePeers(k, d, A, N), d, B, n)
         = IF n < a THEN TakePeers(k, d, A, N) ELSE TakePeers(k, d, C, n)
<1> DEFINE PA(i) == TakePeers(k, d, A, i)
           PC(i) == TakePeers(k, d, C, i)
           PB(i) == TakePeers(PA(N), d, B, i)
<1> USE DEF Resumes
<1>1. PA(N) = PA(a)
  <2>1. \A i \in a + 1 .. N : i \notin A.heads \cup A.conts
    OBVIOUS
  <2> HIDE DEF PA
  <2> QED  BY <2>1, Skipped DEF PA
<1>2. ASSUME NEW i \in Nat, i < a PROVE PB(i) = PA(N)
  <2>1. \A j \in 0 + 1 .. i : j \notin B.heads \cup B.conts
    BY <1>2
  <2>2. PB(i) = PB(0)
    BY <2>1, Skipped
  <2> QED  BY <2>2, TakePeersSteps
<1>3. PB(a) = PC(a)
  <2>1. CASE a = 0
    BY <1>1, <2>1, TakePeersSteps
  <2>2. CASE a # 0
    <3>1. a - 1 \in Nat /\ a - 1 < a /\ (a - 1) + 1 = a /\ a \in 1 .. a /\ a \in 1 .. N
      BY <2>2
    <3>2. PB(a - 1) = PA(a)
      BY <1>1, <1>2, <3>1
    <3>3. PA(a - 1) = PC(a - 1)
      <4>1. Alike(A, C, a - 1)
        BY <3>1 DEF Alike
      <4> QED  BY <3>1, <4>1, AlikeTakeAlike
    <3>4. PA(a) = Step(d, A, PA(a - 1), a) /\ PC(a) = Step(d, C, PC(a - 1), a) /\ PB(a) = Step(d, B, PB(a - 1), a)
      <4>1. \A l, m : TakePeers(l, d, m, (a - 1) + 1) = Step(d, m, TakePeers(l, d, m, a - 1), (a - 1) + 1)
        BY <3>1, OneMore
      <4> QED  BY <3>1, <4>1, Zenon
    <3> DEFINE at(m) == {j \in DOMAIN d.peers[a].ips : <<a, j>> \in m.ips}
    <3>5. /\ PA(a) = Introduced(PA(a - 1), d.peers[a], at(A))
          /\ PC(a) = Introduced(PC(a - 1), d.peers[a], at(C))
      <4>1. (a \in A.heads) = TRUE /\ (a \in C.heads) = TRUE
        BY <3>1
      <4> HIDE DEF PA, PC
      <4> QED  BY <3>4, <4>1, Zenon DEF Step, Introduced
    <3>6. at(C) = at(A) \cup at(B)
      OBVIOUS
    <3>7. CASE a \in B.conts
      <4>1. (a \in B.heads) = FALSE
        BY <3>1
      <4>2. PB(a) = Continued(PA(a), d.peers[a], at(B))
        <5> HIDE DEF PA, PB
        <5> QED  BY <3>2, <3>4, <3>7, <4>1, Zenon DEF Step, Continued
      <4>3. Before(at(A), at(B))
        BY <2>2 DEF Before
      <4> HIDE DEF PA, PB, PC, at
      <4>4. Continued(Introduced(PA(a - 1), d.peers[a], at(A)), d.peers[a], at(B))
            = Introduced(PA(a - 1), d.peers[a], at(C))
        <5>1. PICK l, p, S, U, V : l = PA(a - 1) /\ p = d.peers[a] /\ S = at(A) /\ U = at(B) /\ V = at(C)
          BY Zenon
        <5>2. Before(S, U) /\ V = S \cup U
          BY <3>6, <4>3, <5>1, Zenon
        <5>3. Continued(Introduced(l, p, S), p, U) = Introduced(l, p, V)
          BY <5>2, PeerInTwo
        <5> QED  BY <5>1, <5>3, Zenon
      <4> QED  BY <3>3, <3>5, <4>2, <4>4, Zenon
    <3>8. CASE a \notin B.conts
      <4>1. a \notin B.heads \cup B.conts
        BY <3>1, <3>8
      <4>2. at(B) = {}
        BY <3>1, <4>1
      <4>3. PB(a) = PA(a)
        <5> HIDE DEF PA, PB
        <5> QED  BY <3>2, <3>4, <4>1, Zenon DEF Step
      <4>4. at(C) = at(A)
        BY <3>6, <4>2
      <4> HIDE DEF PA, PB, PC, at
      <4> QED  BY <3>3, <3>5, <4>3, <4>4, Zenon
    <3> QED  BY <3>7, <3>8
  <2> QED  BY <2>1, <2>2
<1> DEFINE T == {i \in Nat : i =< N => PB(i) = PC(i)}
<1>4. a \in T
  BY <1>3
<1>5. ASSUME NEW i \in Nat, i >= a, i \in T PROVE i + 1 \in T
  <2> SUFFICES ASSUME i + 1 =< N PROVE PB(i + 1) = PC(i + 1)
    OBVIOUS
  <2>1. i + 1 \in 1 .. N /\ i + 1 > a /\ i =< N /\ i + 1 \notin 1 .. a /\ i + 1 \notin {a}
    BY <1>5
  <2>2. PB(i) = PC(i)
    BY <1>5, <2>1
  <2>3. PB(i + 1) = Step(d, B, PB(i), i + 1) /\ PC(i + 1) = Step(d, C, PC(i), i + 1)
    BY OneMore
  <2>4. (i + 1 \in B.heads) = (i + 1 \in C.heads) /\ (i + 1 \in B.heads \cup B.conts) = (i + 1 \in C.heads \cup C.conts)
    BY <2>1
  <2>5. \A S : {j \in S : <<i + 1, j>> \in B.ips} = {j \in S : <<i + 1, j>> \in C.ips}
    <3>1. \A j : <<i + 1, j>> \in A.ips => FALSE
      BY <2>1
    <3> QED  BY <3>1
  <2>6. ASSUME NEW x PROVE Step(d, B, x, i + 1) = Step(d, C, x, i + 1)
    BY <2>4, <2>5, Zenon DEF Step
  <2> HIDE DEF PB, PC
  <2> QED  BY <2>2, <2>3, <2>6, Zenon
<1>6. \A i \in Nat : i >= a => i \in T
  <2> HIDE DEF T
  <2> QED  BY <1>4, <1>5, Induct
<1>7. CASE n < a
  BY <1>2, <1>7
<1>8. CASE ~(n < a)
  <2>1. n \in Nat /\ n >= a /\ n =< N
    BY <1>8
  <2>2. PB(n) = PC(n)
    BY <1>6, <2>1
  <2> QED  BY <1>8, <2>2
<1> QED  BY <1>7, <1>8

(***************************************************************************)
(* What taking a device leaves of the peers and of the owners              *)
(***************************************************************************)
(* A device with its five attributes. *)
Formed(k) == k = With(k, k.peers, k.owner)

\* A whole structure is taken as its device first, then each peer with all its allowed IPs.
LEMMA TakeSomeSteps ==
  ASSUME NEW k, NEW d, NEW N \in Nat, DOMAIN d.peers = 1 .. N
  PROVE  /\ TakeSome(k, d, 0) = TakeDevice(k, d)
         /\ \A n \in 1 .. N :
              TakeSome(k, d, n) = Introduced(TakeSome(k, d, n - 1), d.peers[n], DOMAIN d.peers[n].ips)
<1>0. PICK k0, m : k0 = TakeDevice(k, d) /\ m = Whole(d)
  OBVIOUS
<1> DEFINE U == UNION {{a} \X DOMAIN d.peers[a].ips : a \in DOMAIN d.peers}
<1>1. m.heads = 1 .. N /\ m.conts = {} /\ m.ips = U
  BY <1>0 DEF Whole
<1>2. ASSUME NEW n \in 1 .. N PROVE {j \in DOMAIN d.peers[n].ips : <<n, j>> \in m.ips} = DOMAIN d.peers[n].ips
  <2>1. ASSUME NEW j \in DOMAIN d.peers[n].ips PROVE <<n, j>> \in U
    OBVIOUS
  <2> HIDE DEF U
  <2> QED  BY <1>1, <2>1
<1> HIDE DEF U
<1>3. \A n \in Nat : TakeSome(k, d, n) = TakePeers(k0, d, m, n)
  BY <1>0 DEF TakeSome
<1>4. TakeSome(k, d, 0) = k0
  BY <1>3, TakePeersSteps
<1>5. ASSUME NEW n \in 1 .. N
      PROVE  TakeSome(k, d, n) = Introduced(TakeSome(k, d, n - 1), d.peers[n], DOMAIN d.peers[n].ips)
  <2>1. n \in Nat /\ n # 0 /\ n - 1 \in Nat
    OBVIOUS
  <2>2. TakePeers(k0, d, m, n) = Step(d, m, TakePeers(k0, d, m, n - 1), n)
    <3>1. TakePeers(k0, d, m, (n - 1) + 1) = Step(d, m, TakePeers(k0, d, m, n - 1), (n - 1) + 1)
      BY <2>1, OneMore
    <3>2. (n - 1) + 1 = n
      OBVIOUS
    <3> QED  BY <3>1, <3>2
  <2>3. n \in m.heads /\ n \in m.heads \cup m.conts /\ (n \in m.heads) = TRUE
    BY <1>1
  <2>4. ASSUME NEW l PROVE Step(d, m, l, n) = Introduced(l, d.peers[n], DOMAIN d.peers[n].ips)
    BY <1>2, <2>3, Zenon DEF Step, Introduced
  <2> QED  BY <1>3, <2>1, <2>2, <2>4, Zenon
<1> QED  BY <1>0, <1>4, <1>5

\* The attributes of a device change, its peers only if all are replaced.
LEMMA DeviceTaken ==
  ASSUME NEW k, NEW d, Formed(k)
  PROVE  /\ Formed(TakeDevice(k, d))
         /\ "REPLACE_PEERS" \notin d.flags =>
              TakeDevice(k, d).peers = k.peers /\ TakeDevice(k, d).owner = k.owner
         /\ "REPLACE_PEERS" \in d.flags =>
              /\ DOMAIN TakeDevice(k, d).peers = {}
              /\ TakeDevice(k, d).owner = [a \in DOMAIN k.owner |-> NoPeer]
         /\ DOMAIN TakeDevice(k, d).owner = DOMAIN k.owner
<1> DEFINE c == IF "REPLACE_PEERS" \in d.flags
                THEN With(k, [q \in {} |-> 0], [a \in DOMAIN k.owner |-> NoPeer]) ELSE k
           t == [c EXCEPT !.key = IF "HAS_PRIVATE_KEY" \in d.flags THEN d.key ELSE @,
                          !.port = IF "HAS_LISTEN_PORT" \in d.flags THEN d.port ELSE @,
                          !.fwmark = IF "HAS_FWMARK" \in d.flags THEN d.fwmark ELSE @]
<1>1. TakeDevice(k, d) = t
  BY Zenon DEF TakeDevice
<1>2. /\ Formed(c)
      /\ "REPLACE_PEERS" \notin d.flags => c.peers = k.peers /\ c.owner = k.owner
      /\ "REPLACE_PEERS" \in d.flags => c.peers = [q \in {} |-> 0] /\ c.owner = [a \in DOMAIN k.owner |-> NoPeer]
  BY DEF Formed, With
<1> HIDE DEF c
<1>3. Formed(t) /\ t.peers = c.peers /\ t.owner = c.owner
  <2>1. c = [key |-> c.key, port |-> c.port, fwmark |-> c.fwmark, peers |-> c.peers, owner |-> c.owner]
    BY <1>2 DEF Formed, With
  <2>3. PICK A, B, C : t = [c EXCEPT !.key = A, !.port = B, !.fwmark = C]
    BY Zenon
  <2>2. t = [key |-> A, port |-> B, fwmark |-> C, peers |-> c.peers, owner |-> c.owner]
    <3> HIDE DEF t
    <3> QED  BY <2>1, <2>3
  <2> HIDE DEF t
  <2> QED  BY <2>2 DEF Formed, With
<1> HIDE DEF t
<1> QED  BY <1>1, <1>2, <1>3

\* Taking a peer leaves the other peers alone.
LEMMA PeerTaken ==
  ASSUME NEW k, NEW p, NEW at
  PROVE  /\ Formed(Introduced(k, p, at))
         /\ "REMOVE_ME" \in p.flags => DOMAIN Introduced(k, p, at).peers = DOMAIN k.peers \ {p.pub}
         /\ "REMOVE_ME" \notin p.flags => DOMAIN Introduced(k, p, at).peers = DOMAIN k.peers \cup {p.pub}
         /\ \A q \in DOMAIN k.peers : q # p.pub => Introduced(k, p, at).peers[q] = k.peers[q]
<1>1. PICK P, O :
        /\ Introduced(k, p, at) = With(k, P, O)
        /\ "REMOVE_ME" \in p.flags => DOMAIN P = DOMAIN k.peers \ {p.pub}
        /\ "REMOVE_ME" \notin p.flags => DOMAIN P = DOMAIN k.peers \cup {p.pub}
        /\ \A q \in DOMAIN k.peers : q # p.pub => P[q] = k.peers[q]
  <2>1. CASE "REMOVE_ME" \in p.flags
    <3> DEFINE P == [q \in DOMAIN k.peers \ {p.pub} |-> k.peers[q]]
    <3>1. Introduced(k, p, at) = With(k, P, Disowned(k.owner, p.pub))
      BY <2>1 DEF Introduced, TakePeer, RemovePeer
    <3>2. DOMAIN P = DOMAIN k.peers \ {p.pub} /\ \A q \in DOMAIN k.peers : q # p.pub => P[q] = k.peers[q]
      OBVIOUS
    <3> QED  BY <2>1, <3>1, <3>2
  <2>2. CASE "REMOVE_ME" \notin p.flags
    <3>1. PICK new, O : Introduced(k, p, at)
            = With(k, [q \in DOMAIN k.peers \cup {p.pub} |-> IF q = p.pub THEN new ELSE k.peers[q]], O)
      BY <2>2, Zenon DEF Introduced, TakePeer
    <3> DEFINE P == [q \in DOMAIN k.peers \cup {p.pub} |-> IF q = p.pub THEN new ELSE k.peers[q]]
    <3>2. DOMAIN P = DOMAIN k.peers \cup {p.pub} /\ \A q \in DOMAIN k.peers : q # p.pub => P[q] = k.peers[q]
      OBVIOUS
    <3> QED  BY <2>2, <3>1, <3>2
  <2> QED  BY <2>1, <2>2
<1>2. Introduced(k, p, at).peers = P /\ Formed(Introduced(k, p, at))
  BY <1>1 DEF With, Formed
<1> QED  BY <1>1, <1>2

\* A device stays a device on the way through a structure.
LEMMA FormedTaken ==
  ASSUME NEW k, NEW d, NEW N \in Nat, DOMAIN d.peers = 1 .. N, Formed(k)
  PROVE  \A n \in 0 .. N : Formed(TakeSome(k, d, n))
<1>1. Formed(TakeSome(k, d, 0))
  <2>1. TakeSome(k, d, 0) = TakeDevice(k, d)
    BY TakeSomeSteps
  <2>2. Formed(TakeDevice(k, d))
    BY DeviceTaken
  <2> QED  BY <2>1, <2>2
<1>2. ASSUME NEW n \in 1 .. N PROVE Formed(TakeSome(k, d, n))
  <2>1. TakeSome(k, d, n) = Introduced(TakeSome(k, d, n - 1), d.peers[n], DOMAIN d.peers[n].ips)
    BY TakeSomeSteps
  <2>2. ASSUME NEW l, NEW p, NEW at PROVE Formed(Introduced(l, p, at))
    BY PeerTaken
  <2> QED  BY <2>1, <2>2
<1>3. \A n \in 0 .. N : n = 0 \/ n \in 1 .. N
  OBVIOUS
<1> QED  BY <1>1, <1>2, <1>3

(* The keys that the first n peers of a structure remove and name. *)
RemovedBy(d, n) == {d.peers[a].pub : a \in {a \in 1 .. n : "REMOVE_ME" \in d.peers[a].flags}}
NamedBy(d, n) == {d.peers[a].pub : a \in {a \in 1 .. n : "REMOVE_ME" \notin d.peers[a].flags}}

\* One more peer is one more that is removed or named.
LEMMA OneMoreKey ==
  ASSUME NEW d, NEW n \in Nat, n # 0
  PROVE  /\ "REMOVE_ME" \in d.peers[n].flags =>
              RemovedBy(d, n) = RemovedBy(d, n - 1) \cup {d.peers[n].pub} /\ NamedBy(d, n) = NamedBy(d, n - 1)
         /\ "REMOVE_ME" \notin d.peers[n].flags =>
              NamedBy(d, n) = NamedBy(d, n - 1) \cup {d.peers[n].pub} /\ RemovedBy(d, n) = RemovedBy(d, n - 1)
<1>1. \A a : a \in 1 .. n <=> (a \in 1 .. n - 1 \/ a = n)
  OBVIOUS
<1>2. ASSUME NEW q PROVE (q \in RemovedBy(d, n)) <=> (q \in RemovedBy(d, n - 1) \/ ("REMOVE_ME" \in d.peers[n].flags /\ q = d.peers[n].pub))
  BY <1>1, Zenon DEF RemovedBy
<1>3. ASSUME NEW q PROVE (q \in NamedBy(d, n)) <=> (q \in NamedBy(d, n - 1) \/ ("REMOVE_ME" \notin d.peers[n].flags /\ q = d.peers[n].pub))
  BY <1>1, Zenon DEF NamedBy
<1> QED  BY <1>2, <1>3

(* The keys of the peers after n peers of a structure that start from some keys. *)
KeysAfter(start, d, n) == (start \ RemovedBy(d, n)) \cup NamedBy(d, n)

\* Where no key is both removed and named, these are the keys a device has then.
LEMMA KeysTaken ==
  ASSUME NEW k, NEW d, NEW N \in Nat, DOMAIN d.peers = 1 .. N,
         RemovedBy(d, N) \cap NamedBy(d, N) = {}
  PROVE  \A n \in 0 .. N :
           DOMAIN TakeSome(k, d, n).peers = KeysAfter(DOMAIN TakeDevice(k, d).peers, d, n)
<1> DEFINE K(n) == DOMAIN TakeSome(k, d, n).peers
           start == DOMAIN TakeDevice(k, d).peers
           T == {n \in Nat : n =< N => K(n) = KeysAfter(start, d, n)}
<1>1. 0 \in T
  <2>1. TakeSome(k, d, 0) = TakeDevice(k, d)
    BY TakeSomeSteps
  <2>2. RemovedBy(d, 0) = {} /\ NamedBy(d, 0) = {}
    BY DEF RemovedBy, NamedBy
  <2> QED  BY <2>1, <2>2 DEF KeysAfter
<1>2. ASSUME NEW n \in Nat, n >= 0, n \in T PROVE n + 1 \in T
  <2> SUFFICES ASSUME n + 1 =< N PROVE K(n + 1) = KeysAfter(start, d, n + 1)
    OBVIOUS
  <2>1. n + 1 \in 1 .. N /\ n + 1 \in Nat /\ n + 1 # 0 /\ (n + 1) - 1 = n /\ n =< N
    OBVIOUS
  <2>2. K(n) = KeysAfter(start, d, n)
    BY <1>2, <2>1
  <2> DEFINE p == d.peers[n + 1]
             before == TakeSome(k, d, n)
  <2>3. TakeSome(k, d, n + 1) = Introduced(before, p, DOMAIN p.ips)
    <3>1. TakeSome(k, d, n + 1) = Introduced(TakeSome(k, d, (n + 1) - 1), d.peers[n + 1], DOMAIN d.peers[n + 1].ips)
      <4>1. \A a \in 1 .. N :
              TakeSome(k, d, a) = Introduced(TakeSome(k, d, a - 1), d.peers[a], DOMAIN d.peers[a].ips)
        BY TakeSomeSteps
      <4> QED  BY <2>1, <4>1, Zenon
    <3> QED  BY <2>1, <3>1, Zenon
  <2>4. /\ "REMOVE_ME" \in p.flags => K(n + 1) = K(n) \ {p.pub}
        /\ "REMOVE_ME" \notin p.flags => K(n + 1) = K(n) \cup {p.pub}
    <3>1. PICK l, q, at : l = before /\ q = p /\ at = DOMAIN p.ips
      OBVIOUS
    <3>2. /\ "REMOVE_ME" \in q.flags => DOMAIN Introduced(l, q, at).peers = DOMAIN l.peers \ {q.pub}
          /\ "REMOVE_ME" \notin q.flags => DOMAIN Introduced(l, q, at).peers = DOMAIN l.peers \cup {q.pub}
      BY PeerTaken
    <3> QED  BY <2>3, <3>1, <3>2, Zenon
  <2>5. /\ "REMOVE_ME" \in p.flags =>
              RemovedBy(d, n + 1) = RemovedBy(d, n) \cup {p.pub} /\ NamedBy(d, n + 1) = NamedBy(d, n)
        /\ "REMOVE_ME" \notin p.flags =>
              NamedBy(d, n + 1) = NamedBy(d, n) \cup {p.pub} /\ RemovedBy(d, n + 1) = RemovedBy(d, n)
    <3>1. \A a \in Nat : a # 0 =>
            /\ "REMOVE_ME" \in d.peers[a].flags =>
                 RemovedBy(d, a) = RemovedBy(d, a - 1) \cup {d.peers[a].pub} /\ NamedBy(d, a) = NamedBy(d, a - 1)
            /\ "REMOVE_ME" \notin d.peers[a].flags =>
                 NamedBy(d, a) = NamedBy(d, a - 1) \cup {d.peers[a].pub} /\ RemovedBy(d, a) = RemovedBy(d, a - 1)
      BY OneMoreKey
    <3> QED  BY <2>1, <3>1
  <2>6. "REMOVE_ME" \in p.flags => p.pub \notin NamedBy(d, n)
    <3>1. \A a : (a \in 1 .. n => a \in 1 .. N) /\ n + 1 \in 1 .. N
      BY <2>1
    <3> QED  BY <3>1, Zenon DEF RemovedBy, NamedBy
  <2> HIDE DEF K, start, p, before, T
  <2>7. CASE "REMOVE_ME" \in p.flags
    BY <2>2, <2>4, <2>5, <2>6, <2>7 DEF KeysAfter
  <2>8. CASE "REMOVE_ME" \notin p.flags
    BY <2>2, <2>4, <2>5, <2>8 DEF KeysAfter
  <2> QED  BY <2>7, <2>8
<1>3. \A n \in Nat : n >= 0 => n \in T
  <2> HIDE DEF T
  <2> QED  BY <1>1, <1>2, Induct
<1> QED  BY <1>3

\* Only the peers that were there or that a structure names are there.
LEMMA KeysBounded ==
  ASSUME NEW k, NEW d, NEW N \in Nat, DOMAIN d.peers = 1 .. N
  PROVE  \A n \in 0 .. N :
           DOMAIN TakeSome(k, d, n).peers \subseteq DOMAIN TakeDevice(k, d).peers \cup NamedBy(d, N)
<1> DEFINE K(n) == DOMAIN TakeSome(k, d, n).peers
           U == DOMAIN TakeDevice(k, d).peers \cup NamedBy(d, N)
           T == {n \in Nat : n =< N => K(n) \subseteq U}
<1>1. 0 \in T
  <2>1. TakeSome(k, d, 0) = TakeDevice(k, d)
    BY TakeSomeSteps
  <2> QED  BY <2>1
<1>2. ASSUME NEW n \in Nat, n >= 0, n \in T PROVE n + 1 \in T
  <2> SUFFICES ASSUME n + 1 =< N PROVE K(n + 1) \subseteq U
    OBVIOUS
  <2>1. n + 1 \in 1 .. N /\ (n + 1) - 1 = n /\ n =< N
    OBVIOUS
  <2>2. K(n) \subseteq U
    BY <1>2, <2>1
  <2>3. PICK l, p, at : l = TakeSome(k, d, n) /\ p = d.peers[n + 1] /\ at = DOMAIN p.ips
    OBVIOUS
  <2>4. TakeSome(k, d, n + 1) = Introduced(l, p, at)
    <3>1. \A a \in 1 .. N :
            TakeSome(k, d, a) = Introduced(TakeSome(k, d, a - 1), d.peers[a], DOMAIN d.peers[a].ips)
      BY TakeSomeSteps
    <3> QED  BY <2>1, <2>3, <3>1, Zenon
  <2>5. /\ "REMOVE_ME" \in p.flags => DOMAIN Introduced(l, p, at).peers = DOMAIN l.peers \ {p.pub}
        /\ "REMOVE_ME" \notin p.flags => DOMAIN Introduced(l, p, at).peers = DOMAIN l.peers \cup {p.pub}
    BY PeerTaken
  <2>6. "REMOVE_ME" \notin p.flags => p.pub \in U
    BY <2>1, <2>3, Zenon DEF NamedBy
  <2> HIDE DEF U
  <2> QED  BY <2>2, <2>3, <2>4, <2>5, <2>6
<1>3. \A n \in Nat : n >= 0 => n \in T
  <2> HIDE DEF T
  <2> QED  BY <1>1, <1>2, Induct
<1> QED  BY <1>3

\* A peer that a structure does not remove stays, one it does not mention as it is.
LEMMA PeersKept ==
  ASSUME NEW k, NEW d, NEW N \in Nat, DOMAIN d.peers = 1 .. N
  PROVE  \A n \in 0 .. N : \A q \in DOMAIN TakeDevice(k, d).peers :
           /\ q \notin RemovedBy(d, N) => q \in DOMAIN TakeSome(k, d, n).peers
           /\ q \notin RemovedBy(d, N) \cup NamedBy(d, N) =>
                TakeSome(k, d, n).peers[q] = TakeDevice(k, d).peers[q]
<1> DEFINE S(n) == TakeSome(k, d, n)
           start == TakeDevice(k, d)
           Kept(n) == \A q \in DOMAIN start.peers :
                        /\ q \notin RemovedBy(d, N) => q \in DOMAIN S(n).peers
                        /\ q \notin RemovedBy(d, N) \cup NamedBy(d, N) => S(n).peers[q] = start.peers[q]
           T == {n \in Nat : n =< N => Kept(n)}
<1>1. 0 \in T
  <2>1. S(0) = start
    BY TakeSomeSteps
  <2> HIDE DEF S
  <2> QED  BY <2>1
<1>2. ASSUME NEW n \in Nat, n >= 0, n \in T PROVE n + 1 \in T
  <2> SUFFICES ASSUME n + 1 =< N PROVE Kept(n + 1)
    OBVIOUS
  <2>1. n + 1 \in 1 .. N /\ (n + 1) - 1 = n /\ n =< N
    OBVIOUS
  <2>2. Kept(n)
    BY <1>2, <2>1
  <2> DEFINE p == d.peers[n + 1]
  <2>3. S(n + 1) = Introduced(S(n), p, DOMAIN p.ips)
    <3>1. TakeSome(k, d, n + 1) = Introduced(TakeSome(k, d, (n + 1) - 1), d.peers[n + 1], DOMAIN d.peers[n + 1].ips)
      <4>1. \A a \in 1 .. N :
              TakeSome(k, d, a) = Introduced(TakeSome(k, d, a - 1), d.peers[a], DOMAIN d.peers[a].ips)
        BY TakeSomeSteps
      <4> QED  BY <2>1, <4>1, Zenon
    <3> QED  BY <2>1, <3>1, Zenon
  <2>4. p.pub \in RemovedBy(d, N) \cup NamedBy(d, N) /\ ("REMOVE_ME" \in p.flags => p.pub \in RemovedBy(d, N))
    BY <2>1, Zenon DEF RemovedBy, NamedBy
  <2> HIDE DEF S, start, p
  <2>5. /\ "REMOVE_ME" \in p.flags => DOMAIN S(n + 1).peers = DOMAIN S(n).peers \ {p.pub}
        /\ "REMOVE_ME" \notin p.flags => DOMAIN S(n + 1).peers = DOMAIN S(n).peers \cup {p.pub}
        /\ \A q \in DOMAIN S(n).peers : q # p.pub => S(n + 1).peers[q] = S(n).peers[q]
    <3>1. ASSUME NEW l, NEW r, NEW at
          PROVE  /\ "REMOVE_ME" \in r.flags => DOMAIN Introduced(l, r, at).peers = DOMAIN l.peers \ {r.pub}
                 /\ "REMOVE_ME" \notin r.flags => DOMAIN Introduced(l, r, at).peers = DOMAIN l.peers \cup {r.pub}
                 /\ \A q \in DOMAIN l.peers : q # r.pub => Introduced(l, r, at).peers[q] = l.peers[q]
      BY PeerTaken
    <3>2. PICK l, at : l = S(n) /\ at = DOMAIN p.ips
      OBVIOUS
    <3>3. S(n + 1) = Introduced(l, p, at)
      BY <2>3, <3>2
    <3> QED  BY <3>1, <3>2, <3>3
  <2> QED  BY <2>2, <2>4, <2>5
<1>3. \A n \in Nat : n >= 0 => n \in T
  <2> HIDE DEF T
  <2> QED  BY <1>1, <1>2, Induct
<1> QED  BY <1>3

(* Owners that differ only where the second ones have none and the first ones have one of L. *)
Routed(first, second, L) ==
  /\ DOMAIN first = DOMAIN second
  /\ \A x \in DOMAIN first : first[x] = second[x] \/ (second[x] = NoPeer /\ first[x] \in L)

(* Whose allowed IP an address is after a peer that is removed or whose allowed IPs are replaced. *)
OwnerAfter(p, at, x, who) ==
  LET about == {j \in at : p.ips[j].ip = x}
      added == {j \in about : "REMOVE_ME" \notin p.ips[j].flags}
      left == IF who = p.pub THEN NoPeer ELSE who
  IN  IF "REMOVE_ME" \in p.flags THEN left
      ELSE IF \E j \in added : \A h \in about : h =< j THEN p.pub
      ELSE IF added # {} \/ (about # {} /\ left = p.pub) THEN NoPeer
      ELSE left

Replaced(p) == "REMOVE_ME" \in p.flags \/ "REPLACE_ALLOWEDIPS" \in p.flags

\* Each address is decided by itself.
LEMMA OwnersTaken ==
  ASSUME NEW k, NEW p, NEW at, Replaced(p)
  PROVE  Introduced(k, p, at).owner = [x \in DOMAIN k.owner |-> OwnerAfter(p, at, x, k.owner[x])]
<1> DEFINE left == Disowned(k.owner, p.pub)
<1>1. DOMAIN left = DOMAIN k.owner
      /\ \A x \in DOMAIN k.owner : left[x] = IF k.owner[x] = p.pub THEN NoPeer ELSE k.owner[x]
  BY DEF Disowned
<1>2. CASE "REMOVE_ME" \in p.flags
  <2>1. PICK P : Introduced(k, p, at) = With(k, P, left)
    BY <1>2 DEF Introduced, TakePeer, RemovePeer
  <2>2. Introduced(k, p, at).owner = left
    <3> HIDE DEF left
    <3> QED  BY <2>1 DEF With
  <2> QED  BY <1>2, <2>2 DEF OwnerAfter, Disowned
<1>3. CASE "REMOVE_ME" \notin p.flags
  <2>1. "REPLACE_ALLOWEDIPS" \in p.flags
    BY <1>3 DEF Replaced
  <2>2. PICK P : Introduced(k, p, at) = With(k, P, TakeAllowedIps(left, p.pub, p.ips, at))
    BY <1>3, <2>1 DEF Introduced, TakePeer
  <2>3. Introduced(k, p, at).owner = TakeAllowedIps(left, p.pub, p.ips, at)
    <3> HIDE DEF left
    <3> QED  BY <2>2 DEF With
  <2> HIDE DEF left
  <2> DEFINE about(x) == {j \in at : p.ips[j].ip = x}
             added(x) == {j \in about(x) : "REMOVE_ME" \notin p.ips[j].flags}
             owner(x, l) == IF \E j \in added(x) : \A h \in about(x) : h =< j THEN p.pub
                            ELSE IF added(x) # {} \/ (about(x) # {} /\ l = p.pub) THEN NoPeer
                            ELSE l
  <2>4. TakeAllowedIps(left, p.pub, p.ips, at) = [x \in DOMAIN left |-> owner(x, left[x])]
    BY Zenon DEF TakeAllowedIps
  <2>5. ASSUME NEW x \in DOMAIN k.owner PROVE OwnerAfter(p, at, x, k.owner[x]) = owner(x, left[x])
    <3>1. OwnerAfter(p, at, x, k.owner[x]) = owner(x, IF k.owner[x] = p.pub THEN NoPeer ELSE k.owner[x])
      BY <1>3, Zenon DEF OwnerAfter
    <3> HIDE DEF owner
    <3> QED  BY <1>1, <3>1
  <2> HIDE DEF owner
  <2> QED  BY <1>1, <2>3, <2>4, <2>5
<1> QED  BY <1>2, <1>3

\* A peer whose allowed IPs are replaced settles the addresses it has.
LEMMA PeerRoutes ==
  ASSUME NEW k1, NEW k2, NEW p, NEW at, NEW L1, NEW L2, Replaced(p),
         Routed(k1.owner, k2.owner, L1), L1 \subseteq L2 \cup {p.pub}
  PROVE  Routed(Introduced(k1, p, at).owner, Introduced(k2, p, at).owner, L2)
<1> DEFINE W(x, who) == OwnerAfter(p, at, x, who)
<1>1. /\ Introduced(k1, p, at).owner = [x \in DOMAIN k1.owner |-> W(x, k1.owner[x])]
      /\ Introduced(k2, p, at).owner = [x \in DOMAIN k2.owner |-> W(x, k2.owner[x])]
  BY OwnersTaken
<1>2. ASSUME NEW x, NEW a, NEW b, a = b \/ (b = NoPeer /\ a \in L1)
      PROVE  W(x, a) = W(x, b) \/ (W(x, b) = NoPeer /\ W(x, a) \in L2)
  <2> DEFINE about == {j \in at : p.ips[j].ip = x}
             added == {j \in about : "REMOVE_ME" \notin p.ips[j].flags}
             last == \E j \in added : \A h \in about : h =< j
             left(who) == IF who = p.pub THEN NoPeer ELSE who
  <2>1. ASSUME NEW who
        PROVE  W(x, who) = IF "REMOVE_ME" \in p.flags THEN left(who)
                           ELSE IF last THEN p.pub
                           ELSE IF added # {} \/ (about # {} /\ left(who) = p.pub) THEN NoPeer
                           ELSE left(who)
    BY Zenon DEF OwnerAfter
  <2>2. left(a) = left(b) \/ (left(b) = NoPeer /\ left(a) \in L2 /\ left(a) # p.pub)
    BY <1>2
  <2>3. CASE left(a) = left(b)
    <3> HIDE DEF left, last, added, about, W
    <3> QED  BY <2>1, <2>3, Zenon
  <2>4. CASE left(b) = NoPeer /\ left(a) \in L2 /\ left(a) # p.pub
    <3>1. W(x, a) = IF "REMOVE_ME" \in p.flags THEN left(a)
                    ELSE IF last THEN p.pub ELSE IF added # {} THEN NoPeer ELSE left(a)
      <4> HIDE DEF left, last, added, about, W
      <4> QED  BY <2>1, <2>4
    <3>2. W(x, b) = IF "REMOVE_ME" \in p.flags THEN NoPeer
                    ELSE IF last THEN p.pub ELSE NoPeer
      <4> HIDE DEF left, last, added, about, W
      <4> QED  BY <2>1, <2>4
    <3> HIDE DEF left, last, added, about, W
    <3> QED  BY <3>1, <3>2, <2>4
  <2> QED  BY <2>2, <2>3, <2>4
<1> HIDE DEF W
<1> QED  BY <1>1, <1>2 DEF Routed

\* Where every peer is removed or has its allowed IPs replaced, who had the addresses before
\* makes no difference in the end, if these are among the peers of the structure.
LEMMA RoutesTaken ==
  ASSUME NEW k1, NEW k2, NEW d, NEW N \in Nat, DOMAIN d.peers = 1 .. N,
         \A n \in 1 .. N : Replaced(d.peers[n]),
         Routed(TakeDevice(k1, d).owner, TakeDevice(k2, d).owner, {d.peers[n].pub : n \in 1 .. N})
  PROVE  Routed(TakeSome(k1, d, N).owner, TakeSome(k2, d, N).owner, {})
<1> DEFINE L(n) == {d.peers[a].pub : a \in n + 1 .. N}
           T == {n \in Nat : n =< N => Routed(TakeSome(k1, d, n).owner, TakeSome(k2, d, n).owner, L(n))}
<1>1. 0 \in T
  <2>1. TakeSome(k1, d, 0) = TakeDevice(k1, d) /\ TakeSome(k2, d, 0) = TakeDevice(k2, d)
    BY TakeSomeSteps
  <2>2. L(0) = {d.peers[n].pub : n \in 1 .. N}
    OBVIOUS
  <2> HIDE DEF L
  <2> QED  BY <2>1, <2>2
<1>2. ASSUME NEW n \in Nat, n >= 0, n \in T PROVE n + 1 \in T
  <2> SUFFICES ASSUME n + 1 =< N
               PROVE  Routed(TakeSome(k1, d, n + 1).owner, TakeSome(k2, d, n + 1).owner, L(n + 1))
    OBVIOUS
  <2>1. n + 1 \in 1 .. N /\ (n + 1) - 1 = n /\ n =< N
    OBVIOUS
  <2>2. PICK p, at, l1, l2, L1, L2 :
          /\ p = d.peers[n + 1] /\ at = DOMAIN p.ips
          /\ l1 = TakeSome(k1, d, n) /\ l2 = TakeSome(k2, d, n) /\ L1 = L(n) /\ L2 = L(n + 1)
    OBVIOUS
  <2>3. TakeSome(k1, d, n + 1) = Introduced(l1, p, at) /\ TakeSome(k2, d, n + 1) = Introduced(l2, p, at)
    <3>1. ASSUME NEW k
          PROVE  \A a \in 1 .. N :
                   TakeSome(k, d, a) = Introduced(TakeSome(k, d, a - 1), d.peers[a], DOMAIN d.peers[a].ips)
      BY TakeSomeSteps
    <3> QED  BY <2>1, <2>2, <3>1, Zenon
  <2>4. Routed(l1.owner, l2.owner, L1) /\ Replaced(p)
    BY <1>2, <2>1, <2>2
  <2>5. L1 \subseteq L2 \cup {p.pub}
    <3>1. \A a \in n + 1 .. N : a = n + 1 \/ a \in (n + 1) + 1 .. N
      OBVIOUS
    <3> QED  BY <2>2, <3>1
  <2>6. Routed(Introduced(l1, p, at).owner, Introduced(l2, p, at).owner, L2)
    BY <2>4, <2>5, PeerRoutes
  <2> HIDE DEF L, T
  <2> QED  BY <2>2, <2>3, <2>6
<1>3. \A n \in Nat : n >= 0 => n \in T
  <2> HIDE DEF T
  <2> QED  BY <1>1, <1>2, Induct
<1>4. L(N) = {}
  OBVIOUS
<1>5. Routed(TakeSome(k1, d, N).owner, TakeSome(k2, d, N).owner, L(N))
  <2>1. N \in T
    <3> HIDE DEF T
    <3> QED  BY <1>3
  <2> HIDE DEF L
  <2> QED  BY <2>1
<1> QED  BY <1>4, <1>5

\* A structure that sets everything makes the same of every device.
LEMMA DeviceReplaced ==
  ASSUME NEW k1, NEW k2, NEW d, DOMAIN k1.owner = DOMAIN k2.owner,
         {"REPLACE_PEERS", "HAS_PRIVATE_KEY", "HAS_LISTEN_PORT", "HAS_FWMARK"} \subseteq d.flags
  PROVE  TakeDevice(k1, d) = TakeDevice(k2, d)
<1> DEFINE c(k) == With(k, [q \in {} |-> 0], [a \in DOMAIN k.owner |-> NoPeer])
<1>1. ASSUME NEW k PROVE TakeDevice(k, d) = [c(k) EXCEPT !.key = d.key, !.port = d.port, !.fwmark = d.fwmark]
  BY DEF TakeDevice
<1>2. ASSUME NEW k
      PROVE  TakeDevice(k, d) = [key |-> d.key, port |-> d.port, fwmark |-> d.fwmark,
                                 peers |-> [q \in {} |-> 0], owner |-> [a \in DOMAIN k.owner |-> NoPeer]]
  <2>1. c(k) = [key |-> k.key, port |-> k.port, fwmark |-> k.fwmark, peers |-> c(k).peers, owner |-> c(k).owner]
    BY DEF With
  <2>2. c(k).peers = [q \in {} |-> 0] /\ c(k).owner = [a \in DOMAIN k.owner |-> NoPeer]
    BY DEF With
  <2> HIDE DEF c
  <2>3. TakeDevice(k, d) = [key |-> d.key, port |-> d.port, fwmark |-> d.fwmark,
                            peers |-> c(k).peers, owner |-> c(k).owner]
    <3>1. PICK e : e = c(k)
      OBVIOUS
    <3>2. e = [key |-> e.key, port |-> e.port, fwmark |-> e.fwmark, peers |-> e.peers, owner |-> e.owner]
      <4>1. c(k).key = k.key /\ c(k).port = k.port /\ c(k).fwmark = k.fwmark
        BY DEF With, c
      <4> QED  BY <2>1, <3>1, <4>1, Zenon
    <3>3. TakeDevice(k, d) = [e EXCEPT !.key = d.key, !.port = d.port, !.fwmark = d.fwmark]
      BY <1>1, <3>1, Zenon
    <3>4. TakeDevice(k, d) = [key |-> d.key, port |-> d.port, fwmark |-> d.fwmark,
                              peers |-> e.peers, owner |-> e.owner]
      BY <3>2, <3>3
    <3> QED  BY <3>1, <3>4
  <2> QED  BY <2>2, <2>3
<1> HIDE DEF c
<1> QED  BY <1>2

\* The addresses stay the same, whoever has them.
LEMMA AddressesStay ==
  ASSUME NEW k, NEW d, NEW N \in Nat, DOMAIN d.peers = 1 .. N, Formed(k)
  PROVE  \A n \in 0 .. N : DOMAIN TakeSome(k, d, n).owner = DOMAIN k.owner
<1> DEFINE T == {n \in Nat : n =< N => DOMAIN TakeSome(k, d, n).owner = DOMAIN k.owner}
<1>1. 0 \in T
  <2>1. TakeSome(k, d, 0) = TakeDevice(k, d)
    BY TakeSomeSteps
  <2>2. DOMAIN TakeDevice(k, d).owner = DOMAIN k.owner
    BY DeviceTaken
  <2> QED  BY <2>1, <2>2
<1>2. ASSUME NEW l, NEW p, NEW at PROVE DOMAIN Introduced(l, p, at).owner = DOMAIN l.owner
  <2>1. PICK P, O : Introduced(l, p, at) = With(l, P, O) /\ DOMAIN O = DOMAIN l.owner
    <3>1. DOMAIN Disowned(l.owner, p.pub) = DOMAIN l.owner
      BY DEF Disowned
    <3>2. ASSUME NEW o PROVE DOMAIN TakeAllowedIps(o, p.pub, p.ips, at) = DOMAIN o
      BY DEF TakeAllowedIps
    <3>3. CASE "REMOVE_ME" \in p.flags
      <4>1. PICK P : Introduced(l, p, at) = With(l, P, Disowned(l.owner, p.pub))
        BY <3>3 DEF Introduced, TakePeer, RemovePeer
      <4> QED  BY <3>1, <4>1
    <3>4. CASE "REMOVE_ME" \notin p.flags
      <4>1. PICK P, o : /\ Introduced(l, p, at) = With(l, P, TakeAllowedIps(o, p.pub, p.ips, at))
                        /\ o = IF "REPLACE_ALLOWEDIPS" \in p.flags THEN Disowned(l.owner, p.pub) ELSE l.owner
        BY <3>4 DEF Introduced, TakePeer
      <4> QED  BY <3>1, <3>2, <4>1
    <3> QED  BY <3>3, <3>4
  <2> QED  BY <2>1 DEF With
<1>3. ASSUME NEW n \in Nat, n >= 0, n \in T PROVE n + 1 \in T
  <2> SUFFICES ASSUME n + 1 =< N PROVE DOMAIN TakeSome(k, d, n + 1).owner = DOMAIN k.owner
    OBVIOUS
  <2>1. n + 1 \in 1 .. N /\ (n + 1) - 1 = n /\ n =< N
    OBVIOUS
  <2>2. \A a \in 1 .. N :
          TakeSome(k, d, a) = Introduced(TakeSome(k, d, a - 1), d.peers[a], DOMAIN d.peers[a].ips)
    BY TakeSomeSteps
  <2>3. TakeSome(k, d, n + 1) = Introduced(TakeSome(k, d, n), d.peers[n + 1], DOMAIN d.peers[n + 1].ips)
    BY <2>1, <2>2, Zenon
  <2> QED  BY <1>2, <1>3, <2>1, <2>3
<1>4. \A n \in Nat : n >= 0 => n \in T
  <2> HIDE DEF T
  <2> QED  BY <1>1, <1>3, Induct
<1> QED  BY <1>4

(* Owners of addresses, and nothing else. *)
Mapping(o) == o = [x \in DOMAIN o |-> o[x]]

\* Who has the addresses is a function, as it was at the start.
LEMMA OwnersStay ==
  ASSUME NEW k, NEW d, NEW N \in Nat, DOMAIN d.peers = 1 .. N, Formed(k),
         \A n \in 1 .. N : Replaced(d.peers[n]),
         Mapping(k.owner)
  PROVE  Mapping(TakeSome(k, d, N).owner)
<1>1. CASE N = 0
  <2>1. TakeSome(k, d, 0) = TakeDevice(k, d)
    BY TakeSomeSteps
  <2>2. \/ TakeDevice(k, d).owner = k.owner
        \/ TakeDevice(k, d).owner = [a \in DOMAIN k.owner |-> NoPeer]
    BY DeviceTaken
  <2>3. Mapping(TakeDevice(k, d).owner)
    BY <2>2 DEF Mapping
  <2> QED  BY <1>1, <2>1, <2>3
<1>2. CASE N # 0
  <2>1. N \in 1 .. N
    BY <1>2
  <2>2. PICK l, p, at : TakeSome(k, d, N) = Introduced(l, p, at) /\ p = d.peers[N]
    <3>1. \A a \in 1 .. N :
            TakeSome(k, d, a) = Introduced(TakeSome(k, d, a - 1), d.peers[a], DOMAIN d.peers[a].ips)
      BY TakeSomeSteps
    <3> QED  BY <2>1, <3>1, Zenon
  <2>3. Introduced(l, p, at).owner = [x \in DOMAIN l.owner |-> OwnerAfter(p, at, x, l.owner[x])]
    BY <2>1, <2>2, OwnersTaken
  <2> QED  BY <2>2, <2>3 DEF Mapping
<1> QED  BY <1>1, <1>2
=============================================================================
