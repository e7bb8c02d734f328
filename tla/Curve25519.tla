----------------------------- MODULE Curve25519 -----------------------------
(***************************************************************************)
(* curve25519_generate_public of wg, by either of the implementations that *)
(* curve25519.c chooses from when it is compiled: curve25519-hacl64.h,     *)
(* which walks the scalar byte by byte and swaps before and after each     *)
(* step, and curve25519-fiat32.h, which walks it bit by bit and leaves the *)
(* second swap to the next step.                                           *)
(*                                                                         *)
(* Field elements are numbers modulo the small prime of Montgomery; the    *)
(* limbs they are made of are the subject of FieldHacl64 and FieldFiat32.  *)
(* The addition chains for the inverse only make sense for 2^255 - 19      *)
(* itself: they are run symbolically, on the binary digits of the exponent *)
(* of their argument, and the small field's inverse takes their place.     *)
(***************************************************************************)
EXTENDS Montgomery, SequencesExt

CONSTANT Secrets

VARIABLES impl, pc, secret, e, pos, swap, p2, p3, exponent, public

vars == <<impl, pc, secret, e, pos, swap, p2, p3, exponent, public>>

Add(x, y) == (x + y) % P
Sub(x, y) == (x - y) % P
Mul(x, y) == (x * y) % P
Sq(x) == Mul(x, x)

point_swap_conditional(p, q, iswap) == IF iswap = 1 THEN <<q, p>> ELSE <<p, q>>
fe_cswap(f, g, b) == IF b = 1 THEN <<g, f>> ELSE <<f, g>>

-----------------------------------------------------------------------------
(* An addition chain is a program: sq squares a register n times into another
   one, mul multiplies two.                                                *)
sq(dst, src, n) == [op |-> "sq", dst |-> dst, x |-> src, y |-> src, n |-> n]
mul(dst, x, y) == [op |-> "mul", dst |-> dst, x |-> x, y |-> y, n |-> 0]

crecip ==
  << sq("a", "z", 1), sq("t", "a", 2), mul("b", "t", "z"), mul("a", "b", "a"), sq("t", "a", 1),
     mul("b", "t", "b"), sq("t", "b", 5), mul("b", "t", "b"), sq("t", "b", 10), mul("c", "t", "b"),
     sq("t", "c", 20), mul("t", "t", "c"), sq("t", "t", 10), mul("b", "t", "b"), sq("t", "b", 50),
     mul("c", "t", "b"), sq("t", "c", 100), mul("t", "t", "c"), sq("t", "t", 50), mul("t", "t", "b"),
     sq("t", "t", 5), mul("out", "t", "a") >>

fe_loose_invert ==
  << sq("t0", "z", 1), sq("t1", "t0", 2), mul("t1", "z", "t1"), mul("t0", "t0", "t1"), sq("t2", "t0", 1),
     mul("t1", "t1", "t2"), sq("t2", "t1", 5), mul("t1", "t2", "t1"), sq("t2", "t1", 10), mul("t2", "t2", "t1"),
     sq("t3", "t2", 20), mul("t2", "t3", "t2"), sq("t2", "t2", 10), mul("t1", "t2", "t1"), sq("t2", "t1", 50),
     mul("t2", "t2", "t1"), sq("t3", "t2", 100), mul("t2", "t3", "t2"), sq("t2", "t2", 50), mul("t1", "t2", "t1"),
     sq("t1", "t1", 5), mul("out", "t1", "t0") >>

(* The power of z in each register, as the set of its binary digits: a squaring
   shifts them, and a product of powers without a common digit joins them. *)
Execute(program) ==
  FoldLeft(LAMBDA r, in :
             [r EXCEPT ![in.dst] =
                IF in.op = "sq" THEN {bit + in.n : bit \in r[in.x]}
                ELSE IF r[in.x] \cap r[in.y] = {} THEN r[in.x] \cup r[in.y] ELSE {}],
           [r \in {in.dst : in \in ToSet(program)} \cup {"z"} |-> IF r = "z" THEN {0} ELSE {}],
           program)

-----------------------------------------------------------------------------
(* addanddouble_fmonty: twice p, and p plus pq, whose difference is qx.    *)
addanddouble_fmonty(p, pq, qx) ==
  LET x == Add(p.x, p.z)
      z == Sub(p.x, p.z)
      xxprime == Mul(Add(pq.x, pq.z), z)
      zzprime == Mul(x, Sub(pq.x, pq.z))
      xx == Sq(x)
      zz == Sub(xx, Sq(z))
      zzz == Add(Mul(zz, A24), xx)
  IN  << [x |-> Mul(xx, Sq(z)), z |-> Mul(zzz, zz)],
         [x |-> Sq(Add(xxprime, zzprime)), z |-> Mul(Sq(Sub(xxprime, zzprime)), qx)] >>

(* The arithmetic of a step of curve25519-fiat32.h.                        *)
FiatStep(p, q, x1) ==
  LET tmp0l == Sub(q.x, q.z)
      tmp1l == Sub(p.x, p.z)
      x2l == Add(p.x, p.z)
      z3 == Mul(tmp0l, x2l)
      z2 == Mul(Add(q.x, q.z), tmp1l)
      tmp0 == Sq(tmp1l)
      tmp1 == Sq(x2l)
      dif == Sub(tmp1, tmp0)
  IN  << [x |-> Mul(tmp1, tmp0), z |-> Mul(dif, Add(tmp0, Mul(dif, A24 + 1)))],
         [x |-> Sq(Add(z3, z2)), z |-> Mul(x1, Sq(Sub(z3, z2)))] >>

-----------------------------------------------------------------------------
Init ==
  /\ BaseOnCurve /\ impl \in {"hacl64", "fiat32"} /\ pc = "start" /\ secret \in Secrets
  /\ e = 0 /\ pos = 0 /\ swap = 0
  /\ p2 = [x |-> 1, z |-> 0] /\ p3 = [x |-> BaseX, z |-> 1]
  /\ exponent = {} /\ public = 0

(* curve25519_generic clamps its copy of the secret; hacl64 starts at the highest
   bit of the last byte, fiat32 below it.                                  *)
Start ==
  /\ pc = "start"
  /\ e' = clamp_secret(secret)
  /\ pos' = IF impl = "hacl64" THEN ScalarBits - 1 ELSE ScalarBits - 2
  /\ pc' = "ladder"
  /\ UNCHANGED <<impl, secret, swap, p2, p3, exponent, public>>

(* The highest bit of byt after the shifts of the loops: one before the second
   of each two steps, two after both.                                      *)
TopBit(byt, step) == (((byt * 2^(2 * (step \div 2))) % 256) * 2^(step % 2) % 256) \div 128

(* One ladder_smallloop_cmult_small_loop_step, the step of byte n1[pos / 8];
   odd steps go from the second pair of buffers back to the first.         *)
HaclLadder ==
  /\ impl = "hacl64" /\ pc = "ladder" /\ pos >= 0
  /\ LET bit == TopBit((e \div 256^(pos \div 8)) % 256, 7 - (pos % 8))
         p == point_swap_conditional(p2, p3, bit)
         r == addanddouble_fmonty(p[1], p[2], BaseX)
         n == point_swap_conditional(r[1], r[2], bit)
     IN  p2' = n[1] /\ p3' = n[2]
  /\ pos' = pos - 1
  /\ UNCHANGED <<impl, pc, secret, e, swap, exponent, public>>

(* Mutant: the pending swap is forgotten.                                  *)
FiatLadderForgets ==
  /\ impl = "fiat32" /\ pc = "ladder" /\ pos >= 0
  /\ LET b == Bit(e, pos)
         p == fe_cswap(p2, p3, b)
         n == FiatStep(p[1], p[2], BaseX)
     IN  p2' = n[1] /\ p3' = n[2] /\ swap' = b
  /\ pos' = pos - 1
  /\ UNCHANGED <<impl, pc, secret, e, exponent, public>>

(* One round of the loop: the pending swap and this bit's are made together. *)
FiatLadder ==
  /\ impl = "fiat32" /\ pc = "ladder" /\ pos >= 0
  /\ LET b == Bit(e, pos)
         p == fe_cswap(p2, p3, (swap + b) % 2)
         n == FiatStep(p[1], p[2], BaseX)
     IN  p2' = n[1] /\ p3' = n[2] /\ swap' = b
  /\ pos' = pos - 1
  /\ UNCHANGED <<impl, pc, secret, e, exponent, public>>

(* format_scalar_of_point.                                                 *)
HaclFinish ==
  /\ impl = "hacl64" /\ pc = "ladder" /\ pos < 0
  /\ exponent' = Execute(crecip)["out"]
  /\ public' = Mul(p2.x, ModInverse(p2.z))
  /\ pc' = "done"
  /\ UNCHANGED <<impl, secret, e, pos, swap, p2, p3>>

(* The last swap, the inverse and the product.                             *)
FiatFinish ==
  /\ impl = "fiat32" /\ pc = "ladder" /\ pos < 0
  /\ exponent' = Execute(fe_loose_invert)["out"]
  /\ LET p == fe_cswap(p2, p3, swap) IN public' = Mul(p[1].x, ModInverse(p[1].z))
  /\ pc' = "done"
  /\ UNCHANGED <<impl, secret, e, pos, swap, p2, p3>>

Done == pc = "done" /\ UNCHANGED vars

Next == Start \/ HaclLadder \/ FiatLadder \/ HaclFinish \/ FiatFinish \/ Done

Spec == Init /\ [][Next]_vars

-----------------------------------------------------------------------------
(* The loop invariant that a comment of curve25519-fiat32.h states, for both
   ladders: with r the bits of the scalar above pos, the two points, in the
   order the pending swap says, are the multiples r and r + 1.             *)
LadderInvariant ==
  pc = "ladder" =>
    LET r == e \div 2^(pos + 1)
        p == fe_cswap(p2, p3, swap)
    IN  IsMultiple(p[1].x, p[1].z, r) /\ IsMultiple(p[2].x, p[2].z, r + 1)

(* The public key is the x coordinate of the clamped secret's multiple of the
   base point: whichever implementation was compiled in, a key is the same. *)
PublicKeyCorrect ==
  pc = "done" =>
    public = PublicOf(16384 + 8 * ((secret \div 8) % 2048))

(* The chain raises to 2^255 - 21 exactly, the inverse by Fermat's theorem.  *)
ChainIsInverse == pc = "done" => exponent = (0 .. 254) \ {2, 4}
=============================================================================
