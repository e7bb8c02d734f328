--------------------------- MODULE SetConfProofs ---------------------------
(***************************************************************************)
(* Proofs about setconf, addconf, syncconf and set of wg, for every file,  *)
(* every interface and every number of peers: what is left on the          *)
(* interface, which peers are kept, and what is freed.                     *)
(***************************************************************************)
EXTENDS SetConf, KernelDeviceProofs

\* A rearrangement of an array takes every position once.
LEMMA Rearranged ==
  ASSUME NEW s, NEW p \in Orders(s)
  PROVE  /\ p \in [DOMAIN s -> DOMAIN s]
         /\ \A a \in DOMAIN s : \E b \in DOMAIN s : p[b] = a
         /\ \A a, b \in DOMAIN s : p[a] = p[b] => a = b
<1>1. p \in Bijection(DOMAIN s, DOMAIN s)
  BY Zenon DEF Orders
<1> QED  BY <1>1, Zenon DEF Bijection, Injection, Surjection, IsInjective

\* A list of the peers of an interface has each of them once.
LEMMA RuntimeListed ==
  ASSUME NEW S, NEW s \in Lists(S)
  PROVE  s \in Seq(S) /\ Range(s) = S /\ \A a, b \in DOMAIN s : s[a] = s[b] => a = b
<1>1. s \in Seq(S)
  BY Zenon DEF Lists
<1>2. \A x \in S : \E a \in DOMAIN s : s[a] = x
  BY Zenon DEF Lists, Bijection, Surjection
<1>3. \A a, b \in DOMAIN s : s[a] = s[b] => a = b
  BY Zenon DEF Lists, Bijection, Injection, IsInjective
<1> QED  BY <1>1, <1>2, <1>3 DEF Range

\* One list after the other.
LEMMA Joined ==
  ASSUME NEW V, NEW s \in Seq(V), NEW t \in Seq(V)
  PROVE  /\ s \o t \in Seq(V) /\ Len(s \o t) = Len(s) + Len(t)
         /\ \A n \in 1 .. Len(s) + Len(t) : (s \o t)[n] = IF n <= Len(s) THEN s[n] ELSE t[n - Len(s)]
OBVIOUS

(* What the loop of sync_conf finds in the first n entries. *)
Strangers(n) == {pubkeys[m].pub : m \in {m \in 1 .. n : Stranger(m)}}

(* The keys of all peers of a structure. *)
KeysOf(d) == {d.peers[n].pub : n \in DOMAIN d.peers}

\* The array holds the keys of the file and those of the interface, and says which are which.
LEMMA EntriesHold ==
  ASSUME NEW F \in Nat, NEW R \in Nat, DOMAIN dev.peers = 1 .. F, DOMAIN runtime.peers = 1 .. R
  PROVE  /\ DOMAIN Entries = 1 .. F + R /\ Len(Entries) = F + R
         /\ \A n \in 1 .. F : Entries[n] = [pub |-> dev.peers[n].pub, from_file |-> TRUE]
         /\ \A n \in 1 .. R : Entries[F + n] = [pub |-> runtime.peers[n], from_file |-> FALSE]
<1> DEFINE A == [n \in DOMAIN dev.peers |-> [pub |-> dev.peers[n].pub, from_file |-> TRUE]]
           B == [n \in DOMAIN runtime.peers |-> [pub |-> runtime.peers[n], from_file |-> FALSE]]
           V == {A[n] : n \in 1 .. F} \cup {B[n] : n \in 1 .. R}
<1>1. A \in Seq(V) /\ Len(A) = F /\ B \in Seq(V) /\ Len(B) = R
  <2>1. A \in [1 .. F -> V] /\ B \in [1 .. R -> V]
    OBVIOUS
  <2> HIDE DEF A, B, V
  <2> QED  BY <2>1
<1>2. \A n \in 1 .. F : A[n] = [pub |-> dev.peers[n].pub, from_file |-> TRUE]
  OBVIOUS
<1>3. \A n \in 1 .. R : B[n] = [pub |-> runtime.peers[n], from_file |-> FALSE]
  OBVIOUS
<1>4. Entries = A \o B
  BY DEF Entries
<1> HIDE DEF A, B, V
<1>5. /\ Entries \in Seq(V) /\ Len(Entries) = F + R
      /\ \A n \in 1 .. F : Entries[n] = A[n]
      /\ \A n \in 1 .. R : Entries[F + n] = B[n]
  <2>1. /\ A \o B \in Seq(V) /\ Len(A \o B) = Len(A) + Len(B)
        /\ \A n \in 1 .. Len(A) + Len(B) :
             (A \o B)[n] = IF n <= Len(A) THEN A[n] ELSE B[n - Len(A)]
    BY <1>1, Joined
  <2>2. \A n \in 1 .. F + R : Entries[n] = IF n <= F THEN A[n] ELSE B[n - F]
    BY <1>1, <1>4, <2>1
  <2>3. \A n \in 1 .. F : n \in 1 .. F + R /\ n <= F
    OBVIOUS
  <2>4. \A n \in 1 .. R : F + n \in 1 .. F + R /\ ~(F + n <= F) /\ (F + n) - F = n
    OBVIOUS
  <2> QED  BY <1>1, <1>4, <2>1, <2>2, <2>3, <2>4
<1> QED  BY <1>2, <1>3, <1>5

\* The sorted merge of sync_conf: the interface's entry of a key that the file has is followed by
\* the file's entry, as no key is on the interface twice.
LEMMA MergeFinds ==
  ASSUME NEW F \in Nat, NEW R \in Nat, dev.peers \in [1 .. F -> PeerTexts],
         runtime.peers \in [1 .. R -> Nat],
         \A a, b \in 1 .. R : runtime.peers[a] = runtime.peers[b] => a = b,
         NEW order \in Orders(Entries),
         pubkeys' = [n \in DOMAIN Entries |-> Entries[order[n]]],
         Sorted(pubkeys'), runtime' = runtime, dev' = dev
  PROVE  /\ DOMAIN pubkeys' = 1 .. F + R /\ Len(pubkeys') = F + R
         /\ \A n \in 1 .. F + R : pubkeys'[n].pub \in Nat
         /\ Strangers(F + R)' = Range(runtime.peers) \ KeysOf(dev)
<1>1. /\ DOMAIN Entries = 1 .. F + R
      /\ \A n \in 1 .. F : Entries[n] = [pub |-> dev.peers[n].pub, from_file |-> TRUE]
      /\ \A n \in 1 .. R : Entries[F + n] = [pub |-> runtime.peers[n], from_file |-> FALSE]
  BY EntriesHold
<1>2. /\ order \in [1 .. F + R -> 1 .. F + R]
      /\ \A a \in 1 .. F + R : \E b \in 1 .. F + R : order[b] = a
      /\ \A a, b \in 1 .. F + R : order[a] = order[b] => a = b
  <2>1. /\ order \in [DOMAIN Entries -> DOMAIN Entries]
        /\ \A a \in DOMAIN Entries : \E b \in DOMAIN Entries : order[b] = a
        /\ \A a, b \in DOMAIN Entries : order[a] = order[b] => a = b
    BY Rearranged, Zenon
  <2> QED  BY <1>1, <2>1, Zenon
<1>3. PICK t, N : t = pubkeys' /\ N = F + R
  OBVIOUS
<1>4. /\ N \in Nat /\ DOMAIN t = 1 .. N
      /\ \A n \in 1 .. N : t[n] = Entries[order[n]]
  BY <1>1, <1>3
<1>5. Len(t) = N
  <2>1. PICK X : t \in [1 .. N -> X]
    <3>1. t \in [1 .. N -> {Entries[order[n]] : n \in 1 .. N}]
      BY <1>1, <1>3
    <3> QED  BY <3>1
  <2>2. t \in Seq(X)
    BY <1>4, <2>1
  <2> QED  BY <1>4, <2>2
<1> DEFINE q == [n \in 1 .. N |-> IF order[n] <= F THEN dev.peers[order[n]].pub
                                  ELSE runtime.peers[order[n] - F]]
<1>6. ASSUME NEW n \in 1 .. N
      PROVE  t[n].pub = q[n] /\ (t[n].from_file <=> order[n] <= F)
  <2>1. order[n] \in 1 .. F + R
    BY <1>2, <1>3
  <2>2. CASE order[n] <= F
    <3>1. order[n] \in 1 .. F
      BY <2>1, <2>2
    <3>2. t[n] = [pub |-> dev.peers[order[n]].pub, from_file |-> TRUE]
      BY <1>1, <1>4, <3>1
    <3>3. q[n] = dev.peers[order[n]].pub
      BY <2>2
    <3>4. t[n].pub = dev.peers[order[n]].pub /\ t[n].from_file = TRUE
      <4> HIDE DEF q
      <4> QED  BY <3>2
    <3> QED  BY <2>2, <3>3, <3>4, Zenon
  <2>3. CASE ~(order[n] <= F)
    <3>1. order[n] - F \in 1 .. R /\ F + (order[n] - F) = order[n]
      BY <2>1, <2>3
    <3>2. t[n] = [pub |-> runtime.peers[order[n] - F], from_file |-> FALSE]
      BY <1>1, <1>4, <3>1
    <3>3. q[n] = runtime.peers[order[n] - F]
      BY <2>3
    <3>4. t[n].pub = runtime.peers[order[n] - F] /\ t[n].from_file = FALSE
      <4> HIDE DEF q
      <4> QED  BY <3>2
    <3> QED  BY <2>3, <3>3, <3>4, Zenon
  <2> QED  BY <2>2, <2>3
<1>7. ASSUME NEW n \in 1 .. N
      PROVE  q[n] \in Nat /\ t[n].pub = q[n] /\ (t[n].from_file <=> order[n] <= F)
  <2>1. t[n].pub = q[n] /\ (t[n].from_file <=> order[n] <= F)
    BY <1>6, Zenon
  <2>2. order[n] \in 1 .. F + R
    BY <1>2, <1>3
  <2>3. CASE order[n] <= F
    <3>1. order[n] \in 1 .. F /\ q[n] = dev.peers[order[n]].pub
      BY <2>2, <2>3
    <3> QED  BY <2>1, <3>1 DEF PeerTexts
  <2>4. CASE ~(order[n] <= F)
    <3>1. order[n] - F \in 1 .. R /\ q[n] = runtime.peers[order[n] - F]
      BY <2>2, <2>4
    <3> QED  BY <2>1, <3>1
  <2> QED  BY <2>3, <2>4
<1>8. ASSUME NEW a \in 1 .. N, NEW b \in 1 .. N, a < b
      PROVE  q[a] < q[b] \/ (q[a] = q[b] /\ (order[a] <= F => order[b] <= F))
  <2>1. ~pubkey_cmp(t[b], t[a])
    BY <1>3, <1>4, <1>8 DEF Sorted
  <2>2. ~(q[b] < q[a]) /\ ~(q[b] = q[a] /\ ~(order[b] <= F) /\ order[a] <= F)
    <3> HIDE DEF q
    <3> QED  BY <1>7, <2>1, Zenon DEF pubkey_cmp
  <2>3. q[a] \in Nat /\ q[b] \in Nat
    BY <1>7
  <2> HIDE DEF q
  <2> QED  BY <2>2, <2>3
<1> DEFINE Str(n) == /\ ~(order[n] <= F)
                     /\ n < N => ~(order[n + 1] <= F) \/ q[n] # q[n + 1]
<1>9. ASSUME NEW n \in 1 .. N, ~(order[n] <= F), NEW m \in 1 .. N, order[m] <= F, q[m] = q[n]
      PROVE  ~Str(n)
  <2>0. q[n] \in Nat /\ q[m] \in Nat
    BY <1>7
  <2> HIDE DEF q
  <2>1. n < m
    <3>1. n # m
      BY <1>9
    <3>2. ~(m < n)
      BY <1>8, <1>9, <2>0
    <3> QED  BY <3>1, <3>2
  <2>2. n + 1 \in 1 .. N /\ n < N /\ n < n + 1 /\ (n + 1 = m \/ n + 1 < m)
    BY <1>4, <2>1
  <2>3. q[n + 1] = q[n]
    <3>1. q[n + 1] \in Nat
      BY <1>7, <2>2
    <3>2. q[n] < q[n + 1] \/ q[n] = q[n + 1]
      BY <1>8, <2>2
    <3>3. n + 1 = m \/ q[n + 1] < q[m] \/ q[n + 1] = q[m]
      BY <1>8, <2>2
    <3> QED  BY <1>9, <2>0, <3>1, <3>2, <3>3
  <2>4. order[n + 1] <= F
    <3> SUFFICES ASSUME ~(order[n + 1] <= F) PROVE FALSE
      OBVIOUS
    <3>1. order[n] \in 1 .. F + R /\ order[n + 1] \in 1 .. F + R
      BY <1>2, <1>3, <2>2
    <3>2. order[n] - F \in 1 .. R /\ order[n + 1] - F \in 1 .. R
      BY <1>9, <3>1
    <3>3. q[n] = runtime.peers[order[n] - F] /\ q[n + 1] = runtime.peers[order[n + 1] - F]
      BY <1>9, <2>2 DEF q
    <3>4. order[n] - F = order[n + 1] - F
      BY <2>3, <3>2, <3>3
    <3>5. order[n] = order[n + 1]
      BY <3>1, <3>4
    <3>6. n = n + 1
      BY <1>2, <1>3, <2>2, <3>5
    <3> QED  BY <3>6
  <2> QED  BY <2>2, <2>3, <2>4
<1>10. ASSUME NEW n \in 1 .. N, Str(n)
       PROVE  q[n] \in Range(runtime.peers) \ KeysOf(dev)
  <2>1. q[n] \in Range(runtime.peers)
    <3>1. order[n] \in 1 .. F + R /\ ~(order[n] <= F)
      BY <1>2, <1>3, <1>10
    <3>2. order[n] - F \in 1 .. R /\ q[n] = runtime.peers[order[n] - F]
      BY <3>1
    <3> HIDE DEF q
    <3> QED  BY <3>2 DEF Range
  <2>2. ASSUME NEW c \in 1 .. F, dev.peers[c].pub = q[n] PROVE FALSE
    <3>1. c \in 1 .. F + R /\ c <= F
      OBVIOUS
    <3>2. PICK m \in 1 .. N : order[m] = c
      BY <1>2, <1>3, <3>1
    <3>3. order[m] <= F /\ q[m] = q[n]
      BY <2>2, <3>1, <3>2
    <3> HIDE DEF q
    <3> QED  BY <1>9, <1>10, <3>3
  <2> HIDE DEF q
  <2> QED  BY <2>1, <2>2 DEF KeysOf
<1>11. ASSUME NEW c \in Range(runtime.peers), c \notin KeysOf(dev)
       PROVE  \E n \in 1 .. N : Str(n) /\ q[n] = c
  <2>1. PICK r \in 1 .. R : runtime.peers[r] = c
    BY DEF Range
  <2>2. F + r \in 1 .. F + R /\ ~(F + r <= F) /\ (F + r) - F = r
    OBVIOUS
  <2>3. PICK n \in 1 .. N : order[n] = F + r
    BY <1>2, <1>3, <2>2
  <2>4. ~(order[n] <= F) /\ q[n] = c
    BY <2>1, <2>2, <2>3
  <2>5. ASSUME n < N, order[n + 1] <= F PROVE q[n] # q[n + 1]
    <3>1. n + 1 \in 1 .. N
      BY <1>4, <2>5
    <3>2. order[n + 1] \in 1 .. F
      BY <1>2, <1>3, <2>5, <3>1
    <3>3. q[n + 1] = dev.peers[order[n + 1]].pub
      BY <2>5, <3>1
    <3> HIDE DEF q
    <3> QED  BY <1>11, <2>4, <3>2, <3>3 DEF KeysOf
  <2> HIDE DEF q
  <2> QED  BY <2>4, <2>5
<1> HIDE DEF q
<1>12. ASSUME NEW n \in 1 .. N PROVE Stranger(n)' <=> Str(n)
  <2>1. n < N => n + 1 \in 1 .. N
    BY <1>4
  <2> QED  BY <1>3, <1>5, <1>7, <2>1, Zenon DEF Stranger
<1> HIDE DEF Str
<1>13. {t[n].pub : n \in {n \in 1 .. N : Str(n)}} = Range(runtime.peers) \ KeysOf(dev)
  BY <1>7, <1>10, <1>11
<1>14. {n \in 1 .. F + R : Stranger(n)'} = {n \in 1 .. N : Str(n)}
  BY <1>3, <1>4, <1>12
<1>15. Strangers(F + R)' = {pubkeys'[n].pub : n \in {n \in 1 .. F + R : Stranger(n)'}}
  BY Zenon DEF Strangers
<1>16. {pubkeys'[n].pub : n \in {n \in 1 .. F + R : Stranger(n)'}}
       = {t[n].pub : n \in {n \in 1 .. N : Str(n)}}
  BY <1>3, <1>14, Zenon
<1>17. Strangers(F + R)' = Range(runtime.peers) \ KeysOf(dev)
  BY <1>13, <1>15, <1>16, Zenon
<1>18. \A n \in 1 .. F + R : pubkeys'[n].pub \in Nat
  BY <1>3, <1>7
<1> QED  BY <1>3, <1>4, <1>5, <1>17, <1>18

(* The keys that the device removes. *)
Removals == RemovedBy(dev, Len(dev.peers))

\* The peers that the properties call named are the ones a device is sent with.
LEMMA NamedIsNamedBy ==
  ASSUME dev.peers \in Seq(PeerTexts)
  PROVE  Named = NamedBy(dev, Len(dev.peers)) /\ DOMAIN dev.peers = 1 .. Len(dev.peers)
<1>1. DOMAIN dev.peers = 1 .. Len(dev.peers)
  OBVIOUS
<1> QED  BY <1>1, Zenon DEF Named, NamedBy, Range

\* Every peer is removed or named.
LEMMA RemovedOrNamed ==
  ASSUME NEW d, d.peers \in Seq(PeerTexts)
  PROVE  KeysOf(d) = RemovedBy(d, Len(d.peers)) \cup NamedBy(d, Len(d.peers))
<1>1. DOMAIN d.peers = 1 .. Len(d.peers)
  OBVIOUS
<1>2. ASSUME NEW q PROVE q \in KeysOf(d) <=> q \in RemovedBy(d, Len(d.peers)) \/ q \in NamedBy(d, Len(d.peers))
  BY <1>1, Zenon DEF KeysOf, RemovedBy, NamedBy
<1> QED  BY <1>2

\* A text that removes nobody by name names all its peers.
LEMMA NobodyRemoved ==
  ASSUME NEW d, d.peers \in Seq(PeerTexts), \A n \in DOMAIN d.peers : "REMOVE_ME" \notin d.peers[n].flags
  PROVE  RemovedBy(d, Len(d.peers)) = {} /\ KeysOf(d) = NamedBy(d, Len(d.peers))
<1>1. DOMAIN d.peers = 1 .. Len(d.peers)
  OBVIOUS
<1>2. RemovedBy(d, Len(d.peers)) = {}
  BY <1>1 DEF RemovedBy
<1> QED  BY <1>2, RemovedOrNamed

\* A removal put first removes one more key and changes nothing else.
LEMMA RemovalFirst ==
  ASSUME dev \in DeviceTexts, NEW pub \in Nat,
         dev' = [dev EXCEPT !.peers = <<Removal(pub)>> \o @]
  PROVE  /\ dev' \in DeviceTexts /\ dev'.flags = dev.flags
         /\ Removals' = Removals \cup {pub}
         /\ Named' = Named
         /\ (\A n \in DOMAIN dev.peers : Replaced(dev.peers[n])) =>
              (\A n \in DOMAIN dev.peers : Replaced(dev.peers[n]))'
<1> DEFINE r == Removal(pub)
           s == <<r>> \o dev.peers
           N == Len(dev.peers)
<1>1. r \in PeerTexts /\ "REMOVE_ME" \in r.flags /\ r.pub = pub
  <2>1. <<>> \in Seq([ip : Nat, family : {4, 6}, flags : SUBSET Flags])
    OBVIOUS
  <2>2. {"REMOVE_ME"} \in SUBSET Flags /\ 0 \in Nat
    BY DEF Flags
  <2> QED  BY <2>1, <2>2 DEF Removal, PeerTexts
<1>2. dev.peers \in Seq(PeerTexts) /\ N \in Nat /\ DOMAIN dev.peers = 1 .. N
  BY DEF DeviceTexts
<1> HIDE DEF r
<1>3. <<r>> \in Seq(PeerTexts) /\ Len(<<r>>) = 1 /\ <<r>>[1] = r
  BY <1>1
<1>4. /\ s \in Seq(PeerTexts) /\ Len(s) = N + 1 /\ DOMAIN s = 1 .. N + 1
      /\ s[1] = r /\ \A n \in 1 .. N : s[n + 1] = dev.peers[n]
  <2>1. /\ s \in Seq(PeerTexts) /\ Len(s) = Len(<<r>>) + Len(dev.peers)
        /\ \A n \in 1 .. Len(<<r>>) + Len(dev.peers) :
             s[n] = IF n <= Len(<<r>>) THEN <<r>>[n] ELSE dev.peers[n - Len(<<r>>)]
    BY <1>2, <1>3, Joined
  <2>2. \A n \in 1 .. N : n + 1 \in 1 .. 1 + N /\ ~(n + 1 <= 1) /\ (n + 1) - 1 = n
    BY <1>2
  <2>3. 1 \in 1 .. 1 + N /\ 1 <= 1
    BY <1>2
  <2>4. \A n \in 1 .. 1 + N : s[n] = IF n <= 1 THEN <<r>>[n] ELSE dev.peers[n - 1]
    BY <1>3, <2>1
  <2> HIDE DEF s
  <2> QED  BY <1>2, <1>3, <2>1, <2>2, <2>3, <2>4
<1>5. dev' \in DeviceTexts /\ dev'.flags = dev.flags /\ dev'.peers = s
  <2>1. dev' = [dev EXCEPT !.peers = s]
    BY DEF r
  <2> HIDE DEF s
  <2> QED  BY <1>4, <2>1 DEF DeviceTexts
<1> HIDE DEF s
<1>6. \A n : n \in 1 .. N + 1 <=> (n = 1 \/ \E m \in 1 .. N : n = m + 1)
  <2>1. ASSUME NEW n \in 1 .. N + 1, n # 1 PROVE \E m \in 1 .. N : n = m + 1
    <3>1. n - 1 \in 1 .. N /\ n = (n - 1) + 1
      BY <1>2, <2>1
    <3> QED  BY <3>1
  <2>2. 1 \in 1 .. N + 1 /\ \A m \in 1 .. N : m + 1 \in 1 .. N + 1
    BY <1>2
  <2> QED  BY <2>1, <2>2
<1>7. Removals' = RemovedBy(dev', N + 1) /\ Named' = NamedBy(dev', N + 1)
  <2>1. Len(dev'.peers) = N + 1 /\ DOMAIN dev'.peers = 1 .. N + 1
    BY <1>4, <1>5
  <2>2. Removals' = RemovedBy(dev', N + 1)
    BY <2>1 DEF Removals, RemovedBy
  <2>3. Named' = NamedBy(dev', N + 1)
    BY <2>1, Zenon DEF Named, NamedBy, Range
  <2> QED  BY <2>2, <2>3
<1>8. Removals = RemovedBy(dev, N) /\ Named = NamedBy(dev, N)
  BY <1>2, NamedIsNamedBy DEF Removals
<1>a. ASSUME NEW d, NEW M, NEW q
      PROVE  /\ q \in RemovedBy(d, M) <=> \E n \in 1 .. M : "REMOVE_ME" \in d.peers[n].flags /\ q = d.peers[n].pub
             /\ q \in NamedBy(d, M) <=> \E n \in 1 .. M : "REMOVE_ME" \notin d.peers[n].flags /\ q = d.peers[n].pub
  BY Zenon DEF RemovedBy, NamedBy
<1>b. PICK e : e = dev' /\ e.peers = s
  BY <1>5
<1>9. ASSUME NEW q PROVE q \in RemovedBy(e, N + 1) <=> (q \in RemovedBy(dev, N) \/ q = pub)
  <2>1. q \in RemovedBy(e, N + 1) <=> \E n \in 1 .. N + 1 : "REMOVE_ME" \in s[n].flags /\ q = s[n].pub
    <3>1. q \in RemovedBy(e, N + 1) <=> \E n \in 1 .. N + 1 : "REMOVE_ME" \in e.peers[n].flags /\ q = e.peers[n].pub
      BY Zenon DEF RemovedBy
    <3> QED  BY <1>b, <3>1, Zenon
  <2>2. q \in RemovedBy(dev, N) <=> \E n \in 1 .. N : "REMOVE_ME" \in dev.peers[n].flags /\ q = dev.peers[n].pub
    BY <1>a
  <2>3. ASSUME NEW n \in 1 .. N + 1, "REMOVE_ME" \in s[n].flags, q = s[n].pub PROVE (q \in RemovedBy(dev, N) \/ q = pub)
    <3>1. CASE n = 1
      BY <1>1, <1>4, <2>3, <3>1
    <3>2. ASSUME NEW m \in 1 .. N, n = m + 1 PROVE q \in RemovedBy(dev, N)
      BY <1>4, <2>2, <2>3, <3>2
    <3> QED  BY <1>6, <3>1, <3>2
  <2>4. ASSUME NEW m \in 1 .. N, "REMOVE_ME" \in dev.peers[m].flags, q = dev.peers[m].pub
        PROVE  q \in RemovedBy(e, N + 1)
    BY <1>4, <1>6, <2>1, <2>4
  <2>5. q = pub => q \in RemovedBy(e, N + 1)
    BY <1>1, <1>4, <1>6, <2>1
  <2> QED  BY <2>1, <2>2, <2>3, <2>4, <2>5
<1>10. ASSUME NEW q PROVE q \in NamedBy(e, N + 1) <=> q \in NamedBy(dev, N)
  <2>1. q \in NamedBy(e, N + 1) <=> \E n \in 1 .. N + 1 : "REMOVE_ME" \notin s[n].flags /\ q = s[n].pub
    <3>1. q \in NamedBy(e, N + 1) <=> \E n \in 1 .. N + 1 : "REMOVE_ME" \notin e.peers[n].flags /\ q = e.peers[n].pub
      BY Zenon DEF NamedBy
    <3> QED  BY <1>b, <3>1, Zenon
  <2>2. q \in NamedBy(dev, N) <=> \E n \in 1 .. N : "REMOVE_ME" \notin dev.peers[n].flags /\ q = dev.peers[n].pub
    BY <1>a
  <2>3. ASSUME NEW n \in 1 .. N + 1, "REMOVE_ME" \notin s[n].flags, q = s[n].pub PROVE q \in NamedBy(dev, N)
    <3>1. CASE n = 1
      BY <1>1, <1>4, <2>3, <3>1
    <3>2. ASSUME NEW m \in 1 .. N, n = m + 1 PROVE q \in NamedBy(dev, N)
      BY <1>4, <2>2, <2>3, <3>2
    <3> QED  BY <1>6, <3>1, <3>2
  <2>4. ASSUME NEW m \in 1 .. N, "REMOVE_ME" \notin dev.peers[m].flags, q = dev.peers[m].pub
        PROVE  q \in NamedBy(e, N + 1)
    BY <1>4, <1>6, <2>1, <2>4
  <2> QED  BY <2>1, <2>2, <2>3, <2>4
<1>11. ASSUME \A n \in DOMAIN dev.peers : Replaced(dev.peers[n])
       PROVE  (\A n \in DOMAIN dev.peers : Replaced(dev.peers[n]))'
  <2>1. DOMAIN dev'.peers = 1 .. N + 1
    BY <1>4, <1>5
  <2>2. Replaced(r)
    BY <1>1 DEF Replaced
  <2>3. \A n \in 1 .. N + 1 : Replaced(s[n])
    BY <1>2, <1>4, <1>6, <1>11, <2>2
  <2> QED  BY <1>5, <2>1, <2>3
<1> QED  BY <1>5, <1>7, <1>8, <1>9, <1>10, <1>11, <1>b

\* A file that is sent whole leaves the interface as it would leave a blank one, with its peers only.
LEMMA ReplacesAll ==
  ASSUME TextsParsed, Formed(kernel), dev \in Files, dev' = dev,
         kernel' = TakeSome(kernel, dev, Len(dev.peers))
  PROVE  (kernel = TakeAll(Blank, dev))' /\ Keys(kernel') = Named
<1>1. PICK N : N = Len(dev.peers)
  OBVIOUS
<1>2. /\ dev \in DeviceTexts /\ dev.peers \in Seq(PeerTexts) /\ N \in Nat /\ DOMAIN dev.peers = 1 .. N
      /\ {"REPLACE_PEERS", "HAS_PRIVATE_KEY", "HAS_LISTEN_PORT", "HAS_FWMARK"} \subseteq dev.flags
      /\ \A n \in DOMAIN dev.peers : "REMOVE_ME" \notin dev.peers[n].flags
  BY <1>1 DEF TextsParsed, DeviceTexts
<1>3. DOMAIN TakeSome(kernel, dev, N).owner = DOMAIN kernel.owner
  <2>1. \A n \in 0 .. N : DOMAIN TakeSome(kernel, dev, n).owner = DOMAIN kernel.owner
    BY <1>2, AddressesStay
  <2> QED  BY <1>2, <2>1
<1>4. PICK b : b = Blank'
  OBVIOUS
<1>5. DOMAIN b.owner = DOMAIN kernel.owner
  BY <1>1, <1>3, <1>4 DEF Blank
<1>6. TakeDevice(kernel, dev) = TakeDevice(b, dev)
  BY <1>2, <1>5, DeviceReplaced
<1>7. TakeSome(kernel, dev, N) = TakeSome(b, dev, N)
  BY <1>6 DEF TakeSome
<1>8. (kernel = TakeAll(Blank, dev))'
  BY <1>1, <1>4, <1>7 DEF TakeAll
<1>9. DOMAIN TakeDevice(kernel, dev).peers = {}
  BY <1>2, DeviceTaken
<1>10. RemovedBy(dev, N) = {} /\ Named = NamedBy(dev, N)
  BY <1>1, <1>2, NobodyRemoved, NamedIsNamedBy
<1>11. DOMAIN TakeSome(kernel, dev, N).peers = KeysAfter(DOMAIN TakeDevice(kernel, dev).peers, dev, N)
  <2>1. RemovedBy(dev, N) \cap NamedBy(dev, N) = {}
    BY <1>10
  <2>2. \A n \in 0 .. N :
          DOMAIN TakeSome(kernel, dev, n).peers = KeysAfter(DOMAIN TakeDevice(kernel, dev).peers, dev, n)
    BY <1>2, <2>1, KeysTaken
  <2> QED  BY <1>2, <2>2
<1>12. Keys(kernel') = Named
  BY <1>1, <1>9, <1>10, <1>11 DEF Keys, KeysAfter
<1> QED  BY <1>8, <1>12

\* A structure that replaces no peers removes and adds the ones it says.
LEMMA ChangesPeers ==
  ASSUME NEW d \in DeviceTexts, "REPLACE_PEERS" \notin d.flags, Formed(kernel),
         RemovedBy(d, Len(d.peers)) \cap NamedBy(d, Len(d.peers)) = {}
  PROVE  \A n \in 0 .. Len(d.peers) :
           Keys(TakeSome(kernel, d, n)) = (Keys(kernel) \ RemovedBy(d, n)) \cup NamedBy(d, n)
<1>1. PICK N : N = Len(d.peers)
  OBVIOUS
<1>2. N \in Nat /\ DOMAIN d.peers = 1 .. N
  BY <1>1 DEF DeviceTexts
<1>3. DOMAIN TakeDevice(kernel, d).peers = Keys(kernel)
  <2>1. TakeDevice(kernel, d).peers = kernel.peers
    BY DeviceTaken
  <2> QED  BY <2>1 DEF Keys
<1>4. \A n \in 0 .. N :
        DOMAIN TakeSome(kernel, d, n).peers = KeysAfter(DOMAIN TakeDevice(kernel, d).peers, d, n)
  BY <1>1, <1>2, KeysTaken
<1> QED  BY <1>1, <1>3, <1>4 DEF Keys, KeysAfter

\* syncconf leaves the addresses where a blank interface would have them, if it found the peers
\* that have them: it removes or names each of them.
LEMMA SyncsRoutes ==
  ASSUME KernelsFormed, kernel \in Kernels, dev \in DeviceTexts, "REPLACE_PEERS" \notin dev.flags,
         \A n \in DOMAIN dev.peers : Replaced(dev.peers[n]),
         Keys(kernel) \subseteq Removals \cup Named,
         dev' = dev, kernel' = TakeSome(kernel, dev, Len(dev.peers))
  PROVE  (kernel.owner = TakeAll(Blank, dev).owner)'
<1>1. PICK N, b : N = Len(dev.peers) /\ b = Blank'
  OBVIOUS
<1>2. dev.peers \in Seq(PeerTexts) /\ N \in Nat /\ DOMAIN dev.peers = 1 .. N
  BY <1>1 DEF DeviceTexts
<1>3. Formed(kernel) /\ Mapping(kernel.owner)
      /\ \A x \in DOMAIN kernel.owner : kernel.owner[x] \in Keys(kernel) \cup {NoPeer}
  BY DEF KernelsFormed, Formed, Mapping
<1>4. DOMAIN TakeSome(kernel, dev, N).owner = DOMAIN kernel.owner
  <2>1. \A n \in 0 .. N : DOMAIN TakeSome(kernel, dev, n).owner = DOMAIN kernel.owner
    BY <1>2, <1>3, AddressesStay
  <2> QED  BY <1>2, <2>1
<1>5. Formed(b) /\ b.owner = [a \in DOMAIN kernel.owner |-> NoPeer] /\ Mapping(b.owner)
  BY <1>1, <1>4 DEF Blank, Formed, With, Mapping
<1>6. TakeDevice(kernel, dev).owner = kernel.owner /\ TakeDevice(b, dev).owner = b.owner
  BY <1>3, <1>5, DeviceTaken
<1>7. Keys(kernel) \subseteq {dev.peers[n].pub : n \in 1 .. N}
  <2>1. Removals = RemovedBy(dev, N) /\ Named = NamedBy(dev, N)
    BY <1>1, <1>2, NamedIsNamedBy DEF Removals
  <2>2. RemovedBy(dev, N) \cup NamedBy(dev, N) \subseteq {dev.peers[n].pub : n \in 1 .. N}
    BY DEF RemovedBy, NamedBy
  <2> QED  BY <2>1, <2>2
<1>8. PICK L : L = {dev.peers[n].pub : n \in 1 .. N}
  OBVIOUS
<1>9. Routed(kernel.owner, b.owner, L)
  BY <1>3, <1>5, <1>7, <1>8 DEF Routed
<1>10. Routed(TakeDevice(kernel, dev).owner, TakeDevice(b, dev).owner, {dev.peers[n].pub : n \in 1 .. N})
  BY <1>6, <1>8, <1>9, Zenon
<1>11. \A n \in 1 .. N : Replaced(dev.peers[n])
  BY <1>2
<1>12. Routed(TakeSome(kernel, dev, N).owner, TakeSome(b, dev, N).owner, {})
  BY <1>2, <1>10, <1>11, RoutesTaken
<1>13. Mapping(TakeSome(kernel, dev, N).owner) /\ Mapping(TakeSome(b, dev, N).owner)
  BY <1>2, <1>3, <1>5, <1>11, OwnersStay
<1>14. TakeSome(kernel, dev, N).owner = TakeSome(b, dev, N).owner
  BY <1>12, <1>13 DEF Routed, Mapping
<1> QED  BY <1>1, <1>14 DEF TakeAll

(* What syncconf knows after it has read the interface: the peers it saw are still there, others
   came from another process; no key is there twice.                        *)
SyncRead ==
  /\ runtime.peers \in Seq(Nat)
  /\ \A a, b \in DOMAIN runtime.peers : runtime.peers[a] = runtime.peers[b] => a = b
  /\ Range(runtime.peers) \subseteq Keys(kernel)
  /\ Keys(kernel) \subseteq Range(runtime.peers) \cup late
  /\ "REPLACE_PEERS" \notin dev.flags

(* The device of syncconf as the file says, or with the removals. *)
Unsynced == dev \in Files /\ runtime.peers = <<>>
Synced == SyncRead /\ Removals = Range(runtime.peers) \ Named

(* What is allocated, by the place in the code. *)
Owned ==
  CASE where \in {"parse", "done"} -> {}
    [] where \in {"get", "set", "cleanup"} -> {"device"}
    [] where = "collect" -> {"device", "runtime"}
    [] where = "loop" -> {"device", "runtime", "pubkeys"}

(* The shape of the state. *)
SetShape ==
  /\ command \in {"setconf", "syncconf", "addconf", "set"}
  /\ where \in {"parse", "get", "collect", "loop", "set", "cleanup", "done"}
  /\ dev \in DeviceTexts /\ writes \in Nat
  /\ Formed(kernel) /\ Keys(kernel) \subseteq Nat
  /\ owned = Owned

(* What is sent, by command and place. *)
SetDev ==
  /\ command \in {"addconf", "set"} => "REPLACE_PEERS" \notin dev.flags
  /\ command \in {"setconf", "syncconf"} => \A n \in DOMAIN dev.peers : Replaced(dev.peers[n])
  /\ command = "setconf" => dev \in Files
  /\ where \in {"get", "collect", "loop"} => command = "syncconf"
  /\ command = "syncconf" /\ where \in {"parse", "get"} => Unsynced
  /\ where = "collect" => SyncRead /\ Removals = {}
  /\ where = "loop" =>
       /\ SyncRead
       /\ Len(pubkeys) \in Nat /\ turn \in 1 .. Len(pubkeys) + 1
       /\ \A n \in 1 .. Len(pubkeys) : pubkeys[n].pub \in Nat
       /\ Strangers(Len(pubkeys)) = Range(runtime.peers) \ Named
       /\ Removals = Strangers(turn - 1)
  /\ command = "syncconf" /\ where = "set" => Unsynced \/ Synced
  /\ command # "syncconf" => runtime.peers = <<>>

(* The interface before the command has sent anything. *)
SetBefore ==
  where \notin {"cleanup", "done"} =>
    /\ exit = 1 /\ sessions = Keys(kernel)
    /\ writes = 0 => kernel \in Kernels /\ late = {}

SetInv == SetShape /\ SetDev /\ SetBefore /\ LeavesWhatTheFileSays /\ SyncKeepsSessions

\* The invariant of the commands holds at the start.
LEMMA SetInit ==
  ASSUME TextsParsed, KernelsFormed, CInit
  PROVE  SetInv
<1>1. /\ dev \in DeviceTexts
      /\ command \in {"addconf", "set"} => "REPLACE_PEERS" \notin dev.flags
      /\ command \in {"setconf", "syncconf"} => dev \in Files
  BY DEF CInit, TextsParsed
<1>2. ASSUME dev \in Files PROVE \A n \in DOMAIN dev.peers : Replaced(dev.peers[n])
  BY <1>2 DEF TextsParsed, Replaced
<1>3. SetShape
  BY <1>1 DEF CInit, SetShape, KernelsFormed, Formed, Owned
<1>4. SetDev
  BY <1>1, <1>2 DEF CInit, SetDev, Unsynced
<1>5. SetBefore
  BY DEF CInit, SetBefore
<1>6. LeavesWhatTheFileSays /\ SyncKeepsSessions
  BY DEF CInit, LeavesWhatTheFileSays, SetconfSets, SyncLeavesNoStrangers, SyncRoutesAsSet, Succeeded,
         SyncKeepsSessions
<1> QED  BY <1>3, <1>4, <1>5, <1>6 DEF SetInv

(* Nothing is promised of a command that has not succeeded. *)
Unpromised == where # "cleanup" \/ exit = 1
LEMMA NothingPromised ==
  Unpromised => LeavesWhatTheFileSays
BY DEF Unpromised, LeavesWhatTheFileSays, SetconfSets, SyncLeavesNoStrangers, SyncRoutesAsSet, Succeeded

(* What the device says stays the same. *)
LEMMA DevStays ==
  ASSUME dev' = dev
  PROVE  Named' = Named /\ Removals' = Removals
BY DEF Named, Removals, Range, RemovedBy

\* Reading the interface.
LEMMA GetStep ==
  ASSUME TextsParsed, SetInv, SyncGet
  PROVE  SetInv'
<1> USE DEF SyncGet
<1>1. /\ SetShape /\ SetDev /\ SetBefore
      /\ where = "get" /\ command = "syncconf" /\ Unsynced /\ owned = {"device"}
      /\ sessions = Keys(kernel) /\ exit = 1
  BY DEF SetInv, SetShape, SetDev, SetBefore, Owned
<1>2. command' = command /\ exit' = exit /\ kernel' = kernel /\ sessions' = sessions /\ writes' = writes
  OBVIOUS
<1>3. LeavesWhatTheFileSays'
  <2>1. Unpromised'
    BY <1>1, <1>2 DEF Unpromised
  <2> QED  BY <2>1, NothingPromised, PTL
<1>4. CASE where' = "set" /\ UNCHANGED <<dev, runtime, owned, late>>
  <2>1. SetShape' /\ SetBefore'
    BY <1>1, <1>2, <1>4 DEF SetShape, SetBefore, Owned
  <2>2. SetDev'
    BY <1>1, <1>2, <1>4 DEF SetDev, Unsynced
  <2>3. SyncKeepsSessions'
    BY <1>4 DEF SyncKeepsSessions
  <2> QED  BY <1>3, <2>1, <2>2, <2>3 DEF SetInv
<1>5. CASE where' = "cleanup" /\ UNCHANGED <<dev, runtime, owned, late>>
  <2>1. SetShape' /\ SetBefore'
    BY <1>1, <1>2, <1>5 DEF SetShape, SetBefore, Owned
  <2>2. SetDev'
    BY <1>1, <1>2, <1>5 DEF SetDev, Unsynced
  <2>3. SyncKeepsSessions'
    BY <1>1, <1>5 DEF SyncKeepsSessions, Unsynced
  <2> QED  BY <1>3, <2>1, <2>2, <2>3 DEF SetInv
<1>6. CASE /\ \E peers \in Lists(Keys(kernel)) : runtime' = [peers |-> peers]
           /\ late' = {}
           /\ Keys(kernel) = {} /\ where' = "set" /\ UNCHANGED <<dev, owned>>
  <2>1. SetShape' /\ SetBefore'
    BY <1>1, <1>2, <1>6 DEF SetShape, SetBefore, Owned
  <2>2. runtime'.peers = <<>>
    <3>1. PICK S, s : S = Keys(kernel) /\ s = runtime'.peers
      OBVIOUS
    <3>2. s \in Lists(S)
      BY <1>6, <3>1
    <3>3. s \in Seq(S)
      BY <3>2, RuntimeListed
    <3> QED  BY <1>6, <3>1, <3>3
  <2>3. SetDev'
    BY <1>1, <1>2, <1>6, <2>2 DEF SetDev, Unsynced
  <2>4. SyncKeepsSessions'
    BY <1>6 DEF SyncKeepsSessions
  <2> QED  BY <1>3, <2>1, <2>3, <2>4 DEF SetInv
<1>7. CASE /\ \E peers \in Lists(Keys(kernel)) : runtime' = [peers |-> peers]
           /\ late' = {}
           /\ where' = "collect" /\ owned' = owned \cup {"runtime"}
           /\ dev' = [dev EXCEPT !.flags = @ \ {"REPLACE_PEERS"}]
  <2>1. dev' \in DeviceTexts /\ dev'.peers = dev.peers /\ "REPLACE_PEERS" \notin dev'.flags
    BY <1>1, <1>7 DEF SetShape, DeviceTexts
  <2>2. SetShape' /\ SetBefore'
    BY <1>1, <1>2, <1>7, <2>1 DEF SetShape, SetBefore, Owned
  <2>3. PICK S, s : S = Keys(kernel) /\ s = runtime'.peers
    OBVIOUS
  <2>4. s \in Seq(S) /\ Range(s) = S /\ \A a, b \in DOMAIN s : s[a] = s[b] => a = b
    <3>1. s \in Lists(S)
      BY <1>7, <2>3
    <3> QED  BY <3>1, RuntimeListed
  <2>5. s \in Seq(Nat)
    BY <1>1, <2>3, <2>4 DEF SetShape
  <2>6. SyncRead'
    BY <1>2, <2>1, <2>3, <2>4, <2>5 DEF SyncRead, Keys
  <2>7. Removals' = {}
    <3>1. \A n \in 1 .. Len(dev.peers) : "REMOVE_ME" \notin dev'.peers[n].flags
      BY <1>1, <2>1 DEF TextsParsed, Unsynced, DeviceTexts
    <3> QED  BY <2>1, <3>1 DEF Removals, RemovedBy
  <2>8. SetDev'
    BY <1>1, <1>2, <1>7, <2>1, <2>6, <2>7 DEF SetDev
  <2>9. SyncKeepsSessions'
    BY <1>7 DEF SyncKeepsSessions
  <2> QED  BY <1>3, <2>2, <2>8, <2>9 DEF SetInv
<1> QED  BY <1>4, <1>5, <1>6, <1>7

\* Sorting the keys of the file and of the interface.
LEMMA CollectStep ==
  ASSUME SetInv, Collect
  PROVE  SetInv'
<1> USE DEF Collect
<1>1. /\ SetShape /\ SetDev /\ SetBefore
      /\ where = "collect" /\ command = "syncconf" /\ SyncRead /\ Removals = {}
      /\ owned = {"device", "runtime"} /\ sessions = Keys(kernel) /\ exit = 1
  BY DEF SetInv, SetShape, SetDev, SetBefore, Owned
<1>2. /\ command' = command /\ dev' = dev /\ runtime' = runtime /\ exit' = exit /\ kernel' = kernel
      /\ sessions' = sessions /\ late' = late /\ writes' = writes
  OBVIOUS
<1>3. LeavesWhatTheFileSays'
  <2>1. Unpromised'
    BY <1>1, <1>2 DEF Unpromised
  <2> QED  BY <2>1, NothingPromised, PTL
<1>4. Named' = Named /\ Removals' = Removals /\ SyncRead'
  BY <1>1, <1>2, DevStays DEF SyncRead, Keys
<1>5. CASE where' = "cleanup" /\ owned' = owned \ {"runtime"}
  <2>1. SetShape' /\ SetBefore'
    BY <1>1, <1>2, <1>5 DEF SetShape, SetBefore, Owned
  <2>2. SetDev'
    BY <1>1, <1>2, <1>5 DEF SetDev
  <2>3. SyncKeepsSessions'
    BY <1>1, <1>2, <1>4 DEF SyncKeepsSessions, SyncRead
  <2> QED  BY <1>3, <2>1, <2>2, <2>3 DEF SetInv
<1>6. CASE /\ \E order \in Orders(Entries) :
                /\ pubkeys' = [n \in DOMAIN Entries |-> Entries[order[n]]]
                /\ Sorted(pubkeys')
           /\ turn' = 1 /\ where' = "loop" /\ owned' = owned \cup {"pubkeys"}
  <2>1. SetShape' /\ SetBefore'
    BY <1>1, <1>2, <1>6 DEF SetShape, SetBefore, Owned
  <2>2. PICK order \in Orders(Entries) :
          /\ pubkeys' = [n \in DOMAIN Entries |-> Entries[order[n]]]
          /\ Sorted(pubkeys')
    BY <1>6, Zenon
  <2>3. PICK F, R : F = Len(dev.peers) /\ R = Len(runtime.peers)
    OBVIOUS
  <2>4. F \in Nat /\ R \in Nat /\ dev.peers \in [1 .. F -> PeerTexts] /\ runtime.peers \in [1 .. R -> Nat]
    BY <1>1, <2>3 DEF SetShape, DeviceTexts, SyncRead
  <2>5. \A a, b \in 1 .. R : runtime.peers[a] = runtime.peers[b] => a = b
    BY <1>1, <2>4 DEF SyncRead
  <2>6. /\ Len(pubkeys') = F + R
        /\ \A n \in 1 .. F + R : pubkeys'[n].pub \in Nat
        /\ Strangers(F + R)' = Range(runtime.peers) \ KeysOf(dev)
    BY <1>2, <2>2, <2>4, <2>5, MergeFinds
  <2>7. KeysOf(dev) = Named
    <3>1. KeysOf(dev) = RemovedBy(dev, Len(dev.peers)) \cup NamedBy(dev, Len(dev.peers))
      BY <1>1, RemovedOrNamed DEF SetShape, DeviceTexts
    <3>2. Named = NamedBy(dev, Len(dev.peers))
      BY <1>1, NamedIsNamedBy DEF SetShape, DeviceTexts
    <3> QED  BY <1>1, <3>1, <3>2 DEF Removals
  <2>8. Strangers(Len(pubkeys))' = Range(runtime.peers) \ Named
    <3>1. PICK S : S = Strangers(F + R)'
      OBVIOUS
    <3>2. Strangers(Len(pubkeys))' = S
      BY <2>6, <3>1 DEF Strangers
    <3> QED  BY <2>6, <2>7, <3>1, <3>2
  <2>9. Strangers(turn - 1)' = {}
    BY <1>6 DEF Strangers
  <2>10. F + R \in Nat /\ 1 \in 1 .. F + R + 1
    BY <2>4
  <2>11. SetDev'
    BY <1>1, <1>2, <1>4, <1>6, <2>6, <2>8, <2>9, <2>10 DEF SetDev
  <2>12. SyncKeepsSessions'
    BY <1>6 DEF SyncKeepsSessions
  <2> QED  BY <1>3, <2>1, <2>11, <2>12 DEF SetInv
<1> QED  BY <1>5, <1>6

\* One turn of the loop over the keys.
LEMMA LoopStep ==
  ASSUME SetInv, SyncLoop
  PROVE  SetInv'
<1> USE DEF SyncLoop
<1>1. /\ SetShape /\ SetDev /\ SetBefore
      /\ where = "loop" /\ command = "syncconf" /\ SyncRead
      /\ Len(pubkeys) \in Nat /\ turn \in 1 .. Len(pubkeys) + 1
      /\ \A n \in 1 .. Len(pubkeys) : pubkeys[n].pub \in Nat
      /\ Strangers(Len(pubkeys)) = Range(runtime.peers) \ Named
      /\ Removals = Strangers(turn - 1)
      /\ owned = {"device", "runtime", "pubkeys"} /\ sessions = Keys(kernel) /\ exit = 1
  BY DEF SetInv, SetShape, SetDev, SetBefore, Owned
<1>2. /\ command' = command /\ runtime' = runtime /\ pubkeys' = pubkeys /\ exit' = exit /\ kernel' = kernel
      /\ sessions' = sessions /\ late' = late /\ writes' = writes
  OBVIOUS
<1>3. LeavesWhatTheFileSays'
  <2>1. Unpromised'
    BY <1>1, <1>2 DEF Unpromised
  <2> QED  BY <2>1, NothingPromised, PTL
<1>4. CASE /\ turn > Len(pubkeys)
           /\ where' = "set" /\ owned' = owned \ {"runtime", "pubkeys"} /\ UNCHANGED <<dev, turn>>
  <2>1. SetShape' /\ SetBefore'
    BY <1>1, <1>2, <1>4 DEF SetShape, SetBefore, Owned
  <2>2. Named' = Named /\ Removals' = Removals /\ SyncRead'
    BY <1>1, <1>2, <1>4, DevStays DEF SyncRead, Keys
  <2>3. turn - 1 = Len(pubkeys)
    BY <1>1, <1>4
  <2>4. Synced'
    BY <1>1, <1>2, <2>2, <2>3 DEF Synced
  <2>5. SetDev'
    BY <1>1, <1>2, <1>4, <2>4 DEF SetDev
  <2>6. SyncKeepsSessions'
    BY <1>4 DEF SyncKeepsSessions
  <2> QED  BY <1>3, <2>1, <2>5, <2>6 DEF SetInv
<1>5. CASE where' = "cleanup" /\ owned' = owned \ {"runtime", "pubkeys"} /\ UNCHANGED <<dev, turn>>
  <2>1. SetShape' /\ SetBefore'
    BY <1>1, <1>2, <1>5 DEF SetShape, SetBefore, Owned
  <2>2. Named' = Named
    BY <1>5, DevStays
  <2>3. SetDev'
    BY <1>1, <1>2, <1>5 DEF SetDev
  <2>4. SyncKeepsSessions'
    BY <1>1, <1>2, <2>2 DEF SyncKeepsSessions, SyncRead
  <2> QED  BY <1>3, <2>1, <2>3, <2>4 DEF SetInv
<1>6. CASE /\ ~(turn > Len(pubkeys))
           /\ dev' = IF Stranger(turn) THEN [dev EXCEPT !.peers = <<Removal(pubkeys[turn].pub)>> \o @] ELSE dev
           /\ turn' = turn + 1 /\ UNCHANGED <<where, owned>>
  <2>1. /\ turn \in 1 .. Len(pubkeys) /\ (turn + 1) - 1 = turn /\ turn + 1 \in 1 .. Len(pubkeys) + 1
        /\ \A m : m \in 1 .. turn <=> m \in 1 .. turn - 1 \/ m = turn
    BY <1>1, <1>6
  <2>2. PICK pub : pub = pubkeys[turn].pub
    OBVIOUS
  <2>3. Strangers(turn) = Strangers(turn - 1) \cup (IF Stranger(turn) THEN {pub} ELSE {})
    <3>1. ASSUME NEW q PROVE q \in Strangers(turn) <=> (q \in Strangers(turn - 1) \/ (Stranger(turn) /\ q = pub))
      BY <2>1, <2>2, Zenon DEF Strangers
    <3> QED  BY <3>1
  <2>4. /\ Removals' = Strangers(turn) /\ Named' = Named /\ dev' \in DeviceTexts /\ dev'.flags = dev.flags
        /\ (\A n \in DOMAIN dev.peers : Replaced(dev.peers[n]))'
    <3>1. dev \in DeviceTexts /\ \A n \in DOMAIN dev.peers : Replaced(dev.peers[n])
      BY <1>1 DEF SetShape, SetDev
    <3>2. CASE Stranger(turn)
      <4>1. pub \in Nat /\ dev' = [dev EXCEPT !.peers = <<Removal(pub)>> \o @]
        BY <1>1, <1>6, <2>1, <2>2, <3>2
      <4>2. /\ dev' \in DeviceTexts /\ dev'.flags = dev.flags
            /\ Removals' = Removals \cup {pub} /\ Named' = Named
            /\ (\A n \in DOMAIN dev.peers : Replaced(dev.peers[n]))'
        BY <3>1, <4>1, RemovalFirst
      <4> QED  BY <1>1, <2>3, <3>2, <4>2
    <3>3. CASE ~Stranger(turn)
      <4>1. dev' = dev
        BY <1>6, <3>3
      <4>2. Named' = Named /\ Removals' = Removals
        BY <4>1, DevStays
      <4> QED  BY <1>1, <2>3, <3>1, <3>3, <4>1, <4>2
    <3> QED  BY <3>2, <3>3
  <2>5. SetShape' /\ SetBefore'
    BY <1>1, <1>2, <1>6, <2>4 DEF SetShape, SetBefore, Owned
  <2>6. SyncRead'
    BY <1>1, <1>2, <2>4 DEF SyncRead, Keys
  <2>7. Strangers(turn - 1)' = Strangers(turn)
    <3>1. turn' - 1 = turn
      BY <1>6, <2>1
    <3>2. \A n : Stranger(n)' = Stranger(n)
      BY <1>2 DEF Stranger
    <3> QED  BY <1>2, <3>1, <3>2, Zenon DEF Strangers
  <2>8. Strangers(Len(pubkeys))' = Strangers(Len(pubkeys))
    BY <1>2 DEF Strangers, Stranger
  <2>9. SetDev'
    BY <1>1, <1>2, <1>6, <2>1, <2>4, <2>6, <2>7, <2>8 DEF SetDev
  <2>10. SyncKeepsSessions'
    BY <1>1, <1>6 DEF SyncKeepsSessions
  <2> QED  BY <1>3, <2>5, <2>9, <2>10 DEF SetInv
<1> QED  BY <1>4, <1>5, <1>6

\* The keys a text names are numbers.
LEMMA NamedBounded ==
  ASSUME NEW d, d.peers \in Seq(PeerTexts)
  PROVE  NamedBy(d, Len(d.peers)) \subseteq Nat
<1>1. \A n \in 1 .. Len(d.peers) : d.peers[n] \in PeerTexts
  OBVIOUS
<1>2. \A p \in PeerTexts : p.pub \in Nat
  BY DEF PeerTexts
<1> QED  BY <1>1, <1>2 DEF NamedBy

(* Sending the device: n of its peers, with success only if these are all. *)
Sends(n, ok) ==
  /\ ok \in BOOLEAN /\ n \in 0 .. Len(dev.peers) /\ (ok => n = Len(dev.peers))
  /\ kernel' = TakeSome(kernel, dev, n)
  /\ sessions' = sessions \ Drops(dev, kernel, n)
  /\ exit' = IF ok THEN 0 ELSE 1

\* The keys the kernel drops on its way are among the removals, unless all peers are replaced.
LEMMA DropsRemovals ==
  ASSUME NEW d, d.peers \in Seq(PeerTexts), NEW n \in 0 .. Len(d.peers), NEW k,
         "REPLACE_PEERS" \notin d.flags
  PROVE  Drops(d, k, n) = RemovedBy(d, n) /\ RemovedBy(d, n) \subseteq RemovedBy(d, Len(d.peers))
<1>1. \A m \in 1 .. n : m \in 1 .. Len(d.peers)
  OBVIOUS
<1>2. Drops(d, k, n) = RemovedBy(d, n)
  BY DEF Drops, RemovedBy
<1> QED  BY <1>1, <1>2, Zenon DEF RemovedBy

\* ipc_set_device.
LEMMA SetStep ==
  ASSUME TextsParsed, KernelsFormed, SetInv, Set
  PROVE  SetInv'
<1>1. /\ SetShape /\ SetDev /\ SetBefore /\ where = "set" /\ owned = {"device"}
      /\ sessions = Keys(kernel) /\ (writes = 0 => kernel \in Kernels /\ late = {})
      /\ dev \in DeviceTexts /\ dev.peers \in Seq(PeerTexts) /\ Len(dev.peers) \in Nat
      /\ DOMAIN dev.peers = 1 .. Len(dev.peers) /\ Formed(kernel)
  BY DEF Set, SetInv, SetShape, SetBefore, Owned, DeviceTexts
<1>2. PICK n, ok : Sends(n, ok)
  BY DEF Set, Sends
<1>3. /\ where' = "cleanup" /\ command' = command /\ dev' = dev /\ runtime' = runtime /\ owned' = owned
      /\ late' = late /\ writes' = writes
  BY DEF Set
<1>4. Named' = Named /\ Removals' = Removals
  BY <1>3, DevStays
<1>5. Named = NamedBy(dev, Len(dev.peers)) /\ Removals = RemovedBy(dev, Len(dev.peers))
  BY <1>1, NamedIsNamedBy DEF Removals
<1>6. Formed(kernel')
  <2>1. \A m \in 0 .. Len(dev.peers) : Formed(TakeSome(kernel, dev, m))
    BY <1>1, FormedTaken
  <2> QED  BY <1>2, <2>1 DEF Sends
<1>7. Keys(kernel') \subseteq Keys(kernel) \cup Named
  <2>1. PICK N : N = Len(dev.peers)
    OBVIOUS
  <2>2. \A m \in 0 .. N : DOMAIN TakeSome(kernel, dev, m).peers \subseteq DOMAIN TakeDevice(kernel, dev).peers \cup NamedBy(dev, N)
    BY <1>1, <2>1, KeysBounded
  <2>3. DOMAIN TakeDevice(kernel, dev).peers \subseteq Keys(kernel)
    BY <1>1, DeviceTaken DEF Keys
  <2> QED  BY <1>2, <1>5, <2>1, <2>2, <2>3 DEF Sends, Keys
<1>8. Named \subseteq Nat
  BY <1>1, <1>5, NamedBounded
<1>9. Keys(kernel') \subseteq Nat
  BY <1>1, <1>7, <1>8 DEF SetShape
<1>10. SetShape'
  BY <1>1, <1>3, <1>6, <1>9 DEF SetShape, Owned
<1>11. SetDev'
  BY <1>1, <1>3 DEF SetDev
<1>12. SetBefore'
  BY <1>3 DEF SetBefore
<1>13. ASSUME command = "setconf", ok PROVE kernel' = TakeAll(Blank, dev)'
  <2>1. dev \in Files /\ kernel' = TakeSome(kernel, dev, Len(dev.peers))
    BY <1>1, <1>2, <1>13 DEF SetDev, Sends
  <2> QED  BY <1>1, <1>3, <2>1, ReplacesAll
<1>14. ASSUME command = "syncconf", ok
       PROVE  /\ Keys(kernel') \ Named \subseteq late
              /\ Named \subseteq Keys(kernel')
              /\ writes = 0 => kernel'.owner = TakeAll(Blank, dev).owner'
  <2>1. kernel' = TakeSome(kernel, dev, Len(dev.peers)) /\ (Unsynced \/ Synced)
    BY <1>1, <1>2, <1>14 DEF SetDev, Sends
  <2>2. CASE Unsynced
    <3>1. (kernel = TakeAll(Blank, dev))' /\ Keys(kernel') = Named
      BY <1>1, <1>3, <2>1, <2>2, ReplacesAll DEF Unsynced
    <3> QED  BY <3>1
  <2>3. CASE Synced
    <3>1. /\ "REPLACE_PEERS" \notin dev.flags
          /\ Removals = Range(runtime.peers) \ Named
          /\ Keys(kernel) \subseteq Range(runtime.peers) \cup late
      BY <2>3 DEF Synced, SyncRead
    <3>2. RemovedBy(dev, Len(dev.peers)) \cap NamedBy(dev, Len(dev.peers)) = {}
      BY <1>5, <3>1
    <3>3. \A m \in 0 .. Len(dev.peers) :
            Keys(TakeSome(kernel, dev, m)) = (Keys(kernel) \ RemovedBy(dev, m)) \cup NamedBy(dev, m)
      BY <1>1, <3>1, <3>2, ChangesPeers
    <3>4. Keys(kernel') = (Keys(kernel) \ Removals) \cup Named
      BY <1>1, <1>5, <2>1, <3>3
    <3>5. ASSUME writes = 0 PROVE (kernel.owner = TakeAll(Blank, dev).owner)'
      <4>1. kernel \in Kernels /\ Keys(kernel) \subseteq Removals \cup Named
        BY <1>1, <3>1, <3>5
      <4>2. \A m \in DOMAIN dev.peers : Replaced(dev.peers[m])
        BY <1>1, <1>14 DEF SetDev
      <4> QED  BY <1>1, <1>3, <2>1, <3>1, <4>1, <4>2, SyncsRoutes
    <3> QED  BY <3>1, <3>4, <3>5
  <2> QED  BY <2>1, <2>2, <2>3
<1>15. LeavesWhatTheFileSays'
  <2>1. exit' = 0 => ok
    BY <1>2 DEF Sends
  <2>2. SetconfSets'
    BY <1>3, <1>13, <2>1 DEF SetconfSets, Succeeded
  <2>3. SyncLeavesNoStrangers'
    BY <1>3, <1>4, <1>14, <2>1 DEF SyncLeavesNoStrangers, Succeeded, Keys
  <2>4. SyncRoutesAsSet'
    BY <1>3, <1>14, <2>1 DEF SyncRoutesAsSet, Succeeded
  <2> QED  BY <2>2, <2>3, <2>4 DEF LeavesWhatTheFileSays
<1>16. SyncKeepsSessions'
  <2> SUFFICES ASSUME command = "syncconf", runtime.peers # <<>>
               PROVE  Range(runtime.peers) \cap Named \subseteq sessions'
    BY <1>3, <1>4 DEF SyncKeepsSessions
  <2>1. Synced
    BY <1>1 DEF SetDev, Unsynced
  <2>2. /\ "REPLACE_PEERS" \notin dev.flags
        /\ Removals = Range(runtime.peers) \ Named
        /\ Range(runtime.peers) \subseteq Keys(kernel)
    BY <2>1 DEF Synced, SyncRead
  <2>3. n \in 0 .. Len(dev.peers) /\ sessions' = sessions \ Drops(dev, kernel, n)
    BY <1>2 DEF Sends
  <2>4. Drops(dev, kernel, n) \subseteq Removals
    BY <1>1, <1>5, <2>2, <2>3, DropsRemovals
  <2> QED  BY <1>1, <2>2, <2>3, <2>4
<1> QED  BY <1>10, <1>11, <1>12, <1>15, <1>16 DEF SetInv

\* Another process writes.
LEMMA WriteStep ==
  ASSUME TextsParsed, SetInv, OtherWrites
  PROVE  SetInv'
<1>1. /\ SetShape /\ SetDev /\ SetBefore /\ where \notin {"cleanup", "done"}
      /\ sessions = Keys(kernel) /\ exit = 1 /\ writes \in Nat /\ Formed(kernel)
  BY DEF OtherWrites, SetInv, SetShape, SetBefore
<1>2. /\ command' = command /\ where' = where /\ dev' = dev /\ runtime' = runtime /\ pubkeys' = pubkeys
      /\ turn' = turn /\ owned' = owned /\ exit' = exit /\ writes' = writes + 1
  BY DEF OtherWrites
<1>3. PICK w \in Writes :
        /\ kernel' = TakeAll(kernel, w)
        /\ sessions' = (sessions \cup (Keys(kernel') \ Keys(kernel))) \ Drops(w, kernel, Len(w.peers))
        /\ late' = late \cup DevKeys(w)
  BY DEF OtherWrites
<1>4. /\ w \in DeviceTexts /\ w.peers \in Seq(PeerTexts) /\ Len(w.peers) \in Nat
      /\ DOMAIN w.peers = 1 .. Len(w.peers) /\ "REPLACE_PEERS" \notin w.flags
      /\ \A n \in DOMAIN w.peers : "REMOVE_ME" \notin w.peers[n].flags
  BY DEF TextsParsed, DeviceTexts
<1>5. RemovedBy(w, Len(w.peers)) = {} /\ KeysOf(w) = NamedBy(w, Len(w.peers))
  BY <1>4, NobodyRemoved
<1>6. DevKeys(w) = KeysOf(w)
  BY <1>4, Zenon DEF DevKeys, KeysOf, Range
<1>7. kernel' = TakeSome(kernel, w, Len(w.peers))
  BY <1>3 DEF TakeAll
<1>8. Keys(kernel') = Keys(kernel) \cup DevKeys(w)
  <2>1. \A n \in 0 .. Len(w.peers) :
          Keys(TakeSome(kernel, w, n)) = (Keys(kernel) \ RemovedBy(w, n)) \cup NamedBy(w, n)
    BY <1>1, <1>4, <1>5, ChangesPeers
  <2>2. Keys(kernel') = (Keys(kernel) \ RemovedBy(w, Len(w.peers))) \cup NamedBy(w, Len(w.peers))
    BY <1>4, <1>7, <2>1
  <2> QED  BY <1>5, <1>6, <2>2
<1>9. Drops(w, kernel, Len(w.peers)) = {}
  BY <1>4, <1>5, DropsRemovals
<1>10. sessions' = Keys(kernel')
  BY <1>1, <1>3, <1>8, <1>9
<1>11. Formed(kernel')
  <2>1. \A n \in 0 .. Len(w.peers) : Formed(TakeSome(kernel, w, n))
    BY <1>1, <1>4, FormedTaken
  <2> QED  BY <1>4, <1>7, <2>1
<1>12. Keys(kernel') \subseteq Nat
  <2>1. DevKeys(w) \subseteq Nat
    BY <1>4, <1>5, <1>6, NamedBounded
  <2> QED  BY <1>1, <1>8, <2>1 DEF SetShape
<1>13. SetShape'
  BY <1>1, <1>2, <1>11, <1>12 DEF SetShape, Owned
<1>14. Named' = Named /\ Removals' = Removals
  BY <1>2, DevStays
<1>15. SyncRead => SyncRead'
  <2> SUFFICES ASSUME SyncRead PROVE SyncRead'
    OBVIOUS
  <2>1. Range(runtime.peers) \subseteq Keys(kernel') /\ Keys(kernel') \subseteq Range(runtime.peers) \cup late'
    BY <1>3, <1>8 DEF SyncRead
  <2> QED  BY <1>2, <2>1 DEF SyncRead, Keys
<1>16. \A n : Strangers(n)' = Strangers(n)
  BY <1>2 DEF Strangers, Stranger
<1>17. SetDev'
  <2>1. Strangers(Len(pubkeys))' = Strangers(Len(pubkeys)) /\ Strangers(turn - 1)' = Strangers(turn - 1)
    BY <1>2, <1>16 DEF Strangers, Stranger
  <2>2. (Unsynced => Unsynced') /\ (Synced => Synced')
    BY <1>2, <1>14, <1>15 DEF Unsynced, Synced
  <2> QED  BY <1>1, <1>2, <1>14, <1>15, <2>1, <2>2 DEF SetDev
<1>18. SetBefore'
  BY <1>1, <1>2, <1>10 DEF SetBefore, Keys
<1>19. LeavesWhatTheFileSays'
  <2>1. Unpromised'
    BY <1>1, <1>2 DEF Unpromised
  <2> QED  BY <2>1, NothingPromised, PTL
<1>20. SyncKeepsSessions'
  BY <1>1, <1>2 DEF SyncKeepsSessions
<1> QED  BY <1>13, <1>17, <1>18, <1>19, <1>20 DEF SetInv

\* Every step of the commands preserves the invariant.
LEMMA SetNext ==
  ASSUME TextsParsed, KernelsFormed, SetInv, [CNext]_cvars
  PROVE  SetInv'
<1>0. SetShape /\ SetDev /\ SetBefore /\ LeavesWhatTheFileSays /\ SyncKeepsSessions
  BY DEF SetInv
<1>1. CASE UNCHANGED cvars
  <2>1. /\ command' = command /\ where' = where /\ dev' = dev /\ runtime' = runtime /\ pubkeys' = pubkeys
        /\ turn' = turn /\ owned' = owned /\ exit' = exit /\ kernel' = kernel /\ sessions' = sessions
        /\ late' = late /\ writes' = writes
    BY <1>1 DEF cvars
  <2>2. SetShape'
    BY <1>0, <2>1 DEF SetShape, Owned
  <2>3. Named' = Named /\ Removals' = Removals
    BY <2>1, DevStays
  <2>4. Strangers(Len(pubkeys))' = Strangers(Len(pubkeys)) /\ Strangers(turn - 1)' = Strangers(turn - 1)
    BY <2>1 DEF Strangers, Stranger
  <2>5. SetDev'
    BY <1>0, <2>1, <2>3, <2>4 DEF SetDev, Unsynced, Synced, SyncRead
  <2>6. SetBefore' /\ SyncKeepsSessions'
    BY <1>0, <2>1, <2>3 DEF SetBefore, SyncKeepsSessions
  <2>7. Blank' = Blank
    BY <2>1 DEF Blank
  <2>8. LeavesWhatTheFileSays'
    BY <1>0, <2>1, <2>3, <2>7 DEF LeavesWhatTheFileSays, SetconfSets, SyncLeavesNoStrangers,
       SyncRoutesAsSet, Succeeded
  <2> QED  BY <2>2, <2>5, <2>6, <2>8 DEF SetInv
<1>2. CASE ParseFails
  <2>1. Unsynced \/ command # "syncconf"
    BY <1>0, <1>2 DEF ParseFails, SetDev
  <2>2. runtime.peers = <<>>
    BY <1>0, <2>1 DEF SetDev, Unsynced
  <2>3. LeavesWhatTheFileSays'
    <3>1. Unpromised'
      BY <1>2 DEF ParseFails, Unpromised
    <3> QED  BY <3>1, NothingPromised, PTL
  <2>4. SetShape' /\ SetBefore'
    BY <1>0, <1>2 DEF ParseFails, SetShape, SetBefore, Owned
  <2>5. SetDev'
    BY <1>0, <1>2 DEF ParseFails, SetDev
  <2>6. SyncKeepsSessions'
    BY <1>2, <2>2 DEF ParseFails, SyncKeepsSessions
  <2> QED  BY <2>3, <2>4, <2>5, <2>6 DEF SetInv
<1>3. CASE Parse
  <2>1. LeavesWhatTheFileSays'
    <3>1. Unpromised'
      BY <1>3 DEF Parse, Unpromised
    <3> QED  BY <3>1, NothingPromised, PTL
  <2>2. SetShape' /\ SetBefore'
    BY <1>0, <1>3 DEF Parse, SetShape, SetBefore, Owned
  <2>3. SetDev'
    BY <1>0, <1>3 DEF Parse, SetDev, Unsynced
  <2>4. SyncKeepsSessions'
    BY <1>3 DEF Parse, SyncKeepsSessions
  <2> QED  BY <2>1, <2>2, <2>3, <2>4 DEF SetInv
<1>4. CASE Cleanup
  <2>1. LeavesWhatTheFileSays'
    <3>1. Unpromised'
      BY <1>4 DEF Cleanup, Unpromised
    <3> QED  BY <3>1, NothingPromised, PTL
  <2>2. SetShape' /\ SetBefore'
    BY <1>0, <1>4 DEF Cleanup, SetShape, SetBefore, Owned
  <2>3. SetDev'
    BY <1>0, <1>4 DEF Cleanup, SetDev
  <2>4. SyncKeepsSessions'
    <3>1. Named' = Named
      BY <1>4, DevStays DEF Cleanup
    <3> QED  BY <1>0, <1>4, <3>1 DEF Cleanup, SyncKeepsSessions
  <2> QED  BY <2>1, <2>2, <2>3, <2>4 DEF SetInv
<1> QED  BY <1>1, <1>2, <1>3, <1>4, GetStep, CollectStep, LoopStep, SetStep, WriteStep DEF CNext

\* addconf and set leave the peers they do not name: the step that sends the device.
LEMMA AddStep ==
  ASSUME SetInv, [CNext]_cvars
  PROVE  AddKeepsOthers
<1> SUFFICES ASSUME where' = "cleanup", kernel' # kernel, command \in {"addconf", "set"}
             PROVE  OthersKept
  BY DEF AddKeepsOthers
<1>1. Set
  BY DEF CNext, cvars, ParseFails, Parse, SyncGet, Collect, SyncLoop, Cleanup, OtherWrites
<1>2. /\ dev \in DeviceTexts /\ dev.peers \in Seq(PeerTexts) /\ Len(dev.peers) \in Nat
      /\ DOMAIN dev.peers = 1 .. Len(dev.peers) /\ Formed(kernel) /\ "REPLACE_PEERS" \notin dev.flags
  BY DEF SetInv, SetShape, SetDev, DeviceTexts
<1>3. PICK n \in 0 .. Len(dev.peers) : kernel' = TakeSome(kernel, dev, n)
  BY <1>1 DEF Set
<1>4. TakeDevice(kernel, dev).peers = kernel.peers
  BY <1>2, DeviceTaken
<1>5. \A m \in 0 .. Len(dev.peers) : \A q \in DOMAIN TakeDevice(kernel, dev).peers :
        /\ q \notin RemovedBy(dev, Len(dev.peers)) => q \in DOMAIN TakeSome(kernel, dev, m).peers
        /\ q \notin RemovedBy(dev, Len(dev.peers)) \cup NamedBy(dev, Len(dev.peers)) =>
             TakeSome(kernel, dev, m).peers[q] = TakeDevice(kernel, dev).peers[q]
  <2>1. PICK N : N = Len(dev.peers)
    OBVIOUS
  <2>2. N \in Nat /\ DOMAIN dev.peers = 1 .. N
    BY <1>2, <2>1, Zenon
  <2>3. \A m \in 0 .. N : \A q \in DOMAIN TakeDevice(kernel, dev).peers :
          /\ q \notin RemovedBy(dev, N) => q \in DOMAIN TakeSome(kernel, dev, m).peers
          /\ q \notin RemovedBy(dev, N) \cup NamedBy(dev, N) =>
               TakeSome(kernel, dev, m).peers[q] = TakeDevice(kernel, dev).peers[q]
    BY <2>2, PeersKept
  <2> QED  BY <2>1, <2>3, Zenon
<1>6. {p.pub : p \in {q \in Range(dev.peers) : "REMOVE_ME" \in q.flags}} = RemovedBy(dev, Len(dev.peers))
  BY <1>2, Zenon DEF RemovedBy, Range
<1>7. DevKeys(dev) = RemovedBy(dev, Len(dev.peers)) \cup NamedBy(dev, Len(dev.peers))
  <2>1. DevKeys(dev) = KeysOf(dev)
    BY <1>2, Zenon DEF DevKeys, KeysOf, Range
  <2> QED  BY <1>2, <2>1, RemovedOrNamed
<1> QED  BY <1>3, <1>4, <1>5, <1>6, <1>7 DEF OthersKept, Keys

\* The commands keep to the invariant.
LEMMA SetAlways ==
  ASSUME TextsParsed, KernelsFormed
  PROVE  CSpec => []SetInv
<1>1. CInit => SetInv
  BY SetInit
<1>2. SetInv /\ [CNext]_cvars => SetInv'
  BY SetNext
<1> QED  BY <1>1, <1>2, PTL DEF CSpec

\* setconf and syncconf leave on the interface what the file says, whatever was there, for any file
\* and any interface.
THEOREM FileIsLeft ==
  ASSUME TextsParsed, KernelsFormed
  PROVE  CSpec => []LeavesWhatTheFileSays
<1>1. SetInv => LeavesWhatTheFileSays
  BY DEF SetInv
<1> QED  BY <1>1, SetAlways, PTL

\* No command loses a peer without being told to, and syncconf interrupts no session of a peer
\* that stays.
THEOREM NobodyIsLost ==
  ASSUME TextsParsed, KernelsFormed
  PROVE  CSpec => PeersAreKept
<1>1. SetInv /\ SetInv' /\ [CNext]_cvars => [AddKeepsOthers /\ SyncKeepsSessions']_cvars
  BY AddStep DEF SetInv
<1> QED  BY <1>1, SetAlways, PTL DEF PeersAreKept, CSpec

\* Whatever fails, setconf, addconf, syncconf and set free what they have allocated.
THEOREM CommandsCleanUp ==
  ASSUME TextsParsed, KernelsFormed
  PROVE  CSpec => []CleansUp
<1>1. SetInv => CleansUp
  BY DEF SetInv, SetShape, Owned, CleansUp
<1> QED  BY <1>1, SetAlways, PTL
=============================================================================
