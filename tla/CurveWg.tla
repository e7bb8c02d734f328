------------------------------- MODULE CurveWg -------------------------------
(***************************************************************************)
(* wg_generate_public_key of the embeddable library (wireguard.c): field   *)
(* elements are Limbs signed limbs of Width bits, of which only multmod    *)
(* and pack carry; the prime is P = 2^(Limbs * Width - 1) - K, where the   *)
(* code has 16 limbs of 16 bits and 2^255 - 19.  A key is its number.      *)
(***************************************************************************)
EXTENDS Montgomery, SequencesExt

CONSTANTS
  Limbs, Width, K,
  SkipBits,       (* the zero bits of P - 2: {2, 4} for 2^255 - 19         *)
  PrivateKeys

VARIABLES pc, private_key, z, i, a, b, c, d, e, public_key

vars == <<pc, private_key, z, i, a, b, c, d, e, public_key>>

B == 2^Width
Indices == 0 .. Limbs - 1
UpTo(n) == [k \in 1 .. n |-> k - 1]

(* A constant of up to two limbs.                                          *)
Const(n) == [k \in Indices |-> IF k = 0 THEN n % B ELSE IF k = 1 THEN n \div B ELSE 0]

RECURSIVE NumberFrom(_, _)
NumberFrom(f, k) == IF k = Limbs THEN 0 ELSE f[k] + B * NumberFrom(f, k + 1)
Number(f) == NumberFrom(f, 0)

Residue(f) == Number(f) % P

-----------------------------------------------------------------------------
(* carry: each limb keeps Width bits and passes the rest on, the last one
   to the first with the factor 2 * K of 2^(Limbs * Width).                *)
carry(o) ==
  FoldLeft(LAMBDA t, k :
             [t EXCEPT ![(k + 1) % Limbs] = @ + (IF k = Limbs - 1 THEN 2 * K ELSE 1) * (t[k] \div B),
                       ![k] = @ % B],
           o, UpTo(Limbs))

(* cswap of a pair: the mask is all ones or zero.                          *)
cswap(p, q, bit) == IF bit = 1 THEN <<q, p>> ELSE <<p, q>>

(* One round of pack: t - P with the borrow in bit Width of each limb, kept
   unless the last limb borrows.                                           *)
Trim(t) ==
  LET prime == [k \in Indices |-> IF k = 0 THEN B - K ELSE IF k = Limbs - 1 THEN B \div 2 - 1 ELSE B - 1]
      low == [t EXCEPT ![0] = @ - prime[0]]
      m == FoldLeft(LAMBDA s, k : [s EXCEPT ![k] = @ - prime[k] - ((s[k - 1] \div B) % 2),
                                            ![k - 1] = @ % B],
                    low, Tail(UpTo(Limbs)))
  IN  cswap(t, m, 1 - ((m[Limbs - 1] \div B) % 2))[1]

(* pack: three carries, two rounds, and the bytes of each limb.            *)
pack(n) == LET t == Trim(Trim(carry(carry(carry(n))))) IN [k \in Indices |-> t[k] % B]

add(f, g) == [k \in Indices |-> f[k] + g[k]]
subtract(f, g) == [k \in Indices |-> f[k] - g[k]]

(* The product's limb k, of the 2 * Limbs - 1.                             *)
Column(f, g, k) ==
  FoldLeft(LAMBDA s, m : IF k - m \in Indices THEN s + f[m] * g[k - m] ELSE s, 0, UpTo(Limbs))

multmod(f, g) ==
  carry(carry([k \in Indices |->
    Column(f, g, k) + (IF k < Limbs - 1 THEN 2 * K * Column(f, g, k + Limbs) ELSE 0)]))

clamp_key(s) == clamp_secret(s)

-----------------------------------------------------------------------------
Init ==
  /\ BaseOnCurve /\ pc = "start"
  /\ private_key \in PrivateKeys
  /\ z = 0 /\ i = 0
  /\ a = Const(1) /\ b = Const(BaseX) /\ c = Const(0) /\ d = Const(1) /\ e = Const(0)
  /\ public_key = Const(0)

Start ==
  /\ pc = "start"
  /\ z' = clamp_key(private_key)
  /\ i' = ScalarBits - 2
  /\ pc' = "ladder"
  /\ UNCHANGED <<private_key, a, b, c, d, e, public_key>>

(* The arithmetic of one round, between the two swaps.                     *)
Round(x1, x2, z1, z2) ==
  LET e1 == add(x1, z1)
      a1 == subtract(x1, z1)
      c1 == add(x2, z2)
      b1 == subtract(x2, z2)
      d2 == multmod(e1, e1)
      f2 == multmod(a1, a1)
      a2 == multmod(c1, a1)
      c2 == multmod(b1, e1)
      e3 == add(a2, c2)
      a3 == subtract(a2, c2)
      b3 == multmod(a3, a3)
      c3 == subtract(d2, f2)
      a4 == add(multmod(c3, Const(A24)), d2)
  IN  [a |-> multmod(d2, f2), b |-> multmod(e3, e3), c |-> multmod(c3, a4), d |-> multmod(b3, Const(BaseX))]

Ladder ==
  /\ pc = "ladder" /\ i >= 0
  /\ LET r == Bit(z, i)
         x == cswap(a, b, r)
         w == cswap(c, d, r)
         n == Round(x[1], x[2], w[1], w[2])
         xn == cswap(n.a, n.b, r)
         wn == cswap(n.c, n.d, r)
     IN  a' = xn[1] /\ b' = xn[2] /\ c' = wn[1] /\ d' = wn[2]
  /\ i' = i - 1
  /\ UNCHANGED <<pc, private_key, z, e, public_key>>

(* invert: e becomes the power P - 2 of c, by squarings from the second
   highest bit of P - 2 on.                                                *)
InvertStart ==
  /\ pc = "ladder" /\ i < 0
  /\ e' = c
  /\ i' = Limbs * Width - 3
  /\ pc' = "invert"
  /\ UNCHANGED <<private_key, z, a, b, c, d, public_key>>

invert ==
  /\ pc = "invert" /\ i >= 0
  /\ e' = LET s == multmod(e, e) IN IF i \in SkipBits THEN s ELSE multmod(s, c)
  /\ i' = i - 1
  /\ UNCHANGED <<pc, private_key, z, a, b, c, d, public_key>>

Finish ==
  /\ pc = "invert" /\ i < 0
  /\ public_key' = pack(multmod(a, e))
  /\ pc' = "done"
  /\ UNCHANGED <<private_key, z, i, a, b, c, d, e>>

Done == pc = "done" /\ UNCHANGED vars

Next == Start \/ Ladder \/ InvertStart \/ invert \/ Finish \/ Done

Spec == Init /\ [][Next]_vars

-----------------------------------------------------------------------------
(* Before round i, a/c and b/d are the multiples r and r + 1 of the base
   point, r being the bits of the clamped key that have been used.         *)
LadderInvariant ==
  pc = "ladder" =>
    LET r == z \div 2^(i + 1)
    IN  IsMultiple(Residue(a), Residue(c), r) /\ IsMultiple(Residue(b), Residue(d), r + 1)

(* The public key is the x coordinate of the clamped key's multiple, written
   in its one reduced form.                                                *)
PublicKeyCorrect ==
  pc = "done" =>
    /\ \A k \in Indices : public_key[k] \in 0 .. B - 1
    /\ Number(public_key) = PublicOf(z)

(* The limbs that enter a round leave the range of Width bits by a few multiples of the
   folding factor at most, however long the ladder is: this keeps the sums of
   products within the accumulators.                                       *)
LimbsSmall ==
  \A f \in {a, b, c, d, e}, k \in Indices : f[k] > -4 * K /\ f[k] < B + 4 * K
=============================================================================
