----------------------------- MODULE Montgomery -----------------------------
(***************************************************************************)
(* The reference against which the three implementations of Curve25519 are *)
(* checked: the points of y^2 = x^3 + A x^2 + x over the integers modulo a *)
(* small prime, with the affine group law, and the multiples of a base     *)
(* point.  The implementations are written for 2^255 - 19; their limbs,    *)
(* carries and ladders are checked here over a prime of the same form that *)
(* TLC's integers hold.                                                    *)
(***************************************************************************)
EXTENDS Integers, Sequences, FiniteSets

CONSTANTS
  P,        (* the prime                                                   *)
  A24,      (* (A - 2) / 4; 121665 for Curve25519                          *)
  BaseX,    (* the x coordinate of the base point: 9                       *)
  BaseY     (* a y coordinate of it                                        *)

CoefA == 4 * A24 + 2

RECURSIVE Pow(_, _)
Pow(x, n) ==
  IF n = 0 THEN 1
  ELSE LET h == Pow(x, n \div 2)
           s == (h * h) % P
       IN  IF n % 2 = 0 THEN s ELSE (s * x) % P

ModInverse(x) == Pow(x % P, P - 2)

Curve(x) == (((x * x) % P) * ((x + CoefA) % P) + x) % P

Infinity == [x |-> -1, y |-> -1]
Base == [x |-> BaseX, y |-> BaseY]
BaseOnCurve == (BaseY * BaseY) % P = Curve(BaseX)

Plus(p, q) ==
  LET third(l) ==
        LET x == (((l * l) % P) - CoefA - p.x - q.x) % P
        IN  [x |-> x, y |-> (l * ((p.x - x) % P) - p.y) % P]
  IN  IF p = Infinity THEN q
      ELSE IF q = Infinity THEN p
      ELSE IF p.x # q.x THEN third((((q.y - p.y) % P) * ModInverse(q.x - p.x)) % P)
      ELSE IF (p.y + q.y) % P = 0 THEN Infinity
      ELSE third((((3 * ((p.x * p.x) % P) + 2 * CoefA * p.x + 1) % P) * ModInverse(2 * p.y)) % P)

RECURSIVE Times(_)
Times(n) ==
  IF n = 0 THEN Infinity
  ELSE LET h == Times(n \div 2)
           d == Plus(h, h)
       IN  IF n % 2 = 0 THEN d ELSE Plus(d, Base)

(* The fraction x/z stands for n times the base point.                     *)
IsMultiple(x, z, n) ==
  LET q == Times(n)
  IN  IF q = Infinity THEN z % P = 0 /\ x % P # 0
      ELSE z % P # 0 /\ (x - q.x * (z % P)) % P = 0

(* What a public key must be: the point at infinity is written as zero.    *)
PublicOf(n) == LET q == Times(n) IN IF q = Infinity THEN 0 ELSE q.x

(* Scalars have two bytes; clamping clears the lowest three bits and the
   highest, and sets the one below it.                                     *)
ScalarBits == 16
clamp_secret(s) == (((s % 16384) + 16384) \div 8) * 8
Bit(s, i) == (s \div 2^i) % 2
=============================================================================
