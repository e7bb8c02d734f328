----------------------------- MODULE FieldFiat32 -----------------------------
(***************************************************************************)
(* The field arithmetic of curve25519-fiat32.h.  An element has Limbs      *)
(* limbs, those with an even index one bit longer than the others, and     *)
(* stands for a number modulo P = 2^(sum of the widths) - K; the code has  *)
(* ten limbs of 26 and 25 bits and 2^255 - 19.  Each behaviour applies one *)
(* operation to one choice of elements, tight ones (fe) or loose ones      *)
(* (fe_loose) as the code's types say.  The conversions from and to bytes  *)
(* are run on named bits, with the code's own widths.                      *)
(***************************************************************************)
EXTENDS Integers, Sequences, SequencesExt

CONSTANTS
  Limbs,          (* an even number                                        *)
  Width,          (* the bits of the shorter limbs                         *)
  K,
  Factor,         (* 121666                                                *)
  Tight, Loose    (* the elements of each type an operation is applied to  *)

VARIABLES op, f, g, result

vars == <<op, f, g, result>>

Indices == 0 .. Limbs - 1
UpTo(n) == [k \in 1 .. n |-> k - 1]
None == [k \in Indices |-> -1]

Bits(k) == IF k % 2 = 0 THEN Width + 1 ELSE Width
B(k) == 2^Bits(k)
TotalBits == (Limbs \div 2) * (2 * Width + 1)
P == 2^TotalBits - K

RECURSIVE NumberFrom(_, _)
NumberFrom(x, k) == IF k = Limbs THEN 0 ELSE x[k] + B(k) * NumberFrom(x, k + 1)
Number(x) == NumberFrom(x, 0)

(* The prime's limbs.                                                      *)
PrimeLimb(k) == IF k = 0 THEN B(0) - K ELSE B(k) - 1

-----------------------------------------------------------------------------
(* Words whose bits are named instead of being 0 or 1: a word is a set of pairs
   <<position, name>>, a bit that is absent is zero.  Shifts, masks and
   disjunctions of a fixed program are so run at full size, for all inputs. *)

(* The little-endian word of n bits that starts at byte b.                 *)
LoadLE(b, n) == {<<i, 8 * b + i>> : i \in 0 .. n - 1}

ShrBits(w, n) == {<<e[1] - n, e[2]>> : e \in {x \in w : x[1] >= n}}
LowBits(w, n) == {e \in w : e[1] < n}
ShlBits(w, n, width) == LowBits({<<e[1] + n, e[2]>> : e \in w}, width)

(* The n bits of the number from position p on, as a limb.                 *)
LimbBits(p, n) == {<<i, p + i>> : i \in 0 .. n - 1}

-----------------------------------------------------------------------------
fe_add(x, y) == [k \in Indices |-> x[k] + y[k]]

(* fe_sub adds twice the prime, limb by limb.                              *)
fe_sub(x, y) == [k \in Indices |-> (2 * PrimeLimb(k) + x[k]) - y[k]]

(* The product's column k: two odd limbs meet half a bit above it, twice.  *)
Column(x, y, k) ==
  FoldLeft(LAMBDA s, i :
             IF k - i \in Indices
             THEN s + (IF i % 2 = 1 /\ (k - i) % 2 = 1 THEN 2 ELSE 1) * x[i] * y[k - i]
             ELSE s,
           0, UpTo(Limbs))

(* Column k with the one that lies TotalBits higher folded in.             *)
Folded(col, k) == col[k] + (IF k < Limbs - 1 THEN K * col[k + Limbs] ELSE 0)

(* The carries of a product: through all limbs, K times from the last to the
   first, and from there to the third.                                     *)
Carry(t) ==
  LET pass == FoldLeft(LAMBDA s, k : [s EXCEPT ![k] = (t[k] + s[Limbs]) % B(k),
                                               ![Limbs] = (t[k] + s[Limbs]) \div B(k)],
                       [k \in 0 .. Limbs |-> 0], UpTo(Limbs))
      x0 == pass[0] + K * pass[Limbs]
      x1 == x0 \div B(0) + pass[1]
  IN  [k \in Indices |-> CASE k = 0 -> x0 % B(0)
                           [] k = 1 -> x1 % B(1)
                           [] k = 2 -> x1 \div B(1) + pass[2]
                           [] OTHER -> pass[k]]

fe_mul(x, y) == Carry([k \in Indices |-> Folded([n \in 0 .. 2 * Limbs - 2 |-> Column(x, y, n)], k)])

(* The column of a square: each pair of limbs once, doubled when they differ. *)
SquareColumn(x, k) ==
  FoldLeft(LAMBDA s, i :
             LET j == k - i
             IN  IF j \in Indices /\ i =< j
                 THEN s + (IF i = j THEN 1 ELSE 2) * (IF i % 2 = 1 /\ j % 2 = 1 THEN 2 ELSE 1) * x[i] * x[j]
                 ELSE s,
           0, UpTo(Limbs))

fe_sq(x) == Carry([k \in Indices |-> Folded([n \in 0 .. 2 * Limbs - 2 |-> SquareColumn(x, n)], k)])

fe_mul121666(x) == fe_mul(x, [k \in Indices |-> IF k = 0 THEN Factor ELSE 0])

-----------------------------------------------------------------------------
(* subborrow_u26 and subborrow_u25 along the limbs; the borrow is the sign.  *)
Subtracted(x) ==
  FoldLeft(LAMBDA s, k :
             LET d == x[k] - PrimeLimb(k) - s[Limbs]
             IN  [s EXCEPT ![k] = d % B(k), ![Limbs] = IF d < 0 THEN 1 ELSE 0],
           [k \in 0 .. Limbs |-> 0], UpTo(Limbs))

(* addcarryx_u26 and addcarryx_u25 along the limbs, with the prime under a mask. *)
AddedBack(x, mask) ==
  FoldLeft(LAMBDA s, k :
             LET a == x[k] + mask * PrimeLimb(k) + s[Limbs]
             IN  [s EXCEPT ![k] = a % B(k), ![Limbs] = (a \div B(k)) % 2],
           [k \in 0 .. Limbs |-> 0], UpTo(Limbs))

(* fe_freeze: the prime is subtracted, and added again after a borrow.     *)
fe_freeze(x) ==
  LET s == Subtracted(x)
      r == AddedBack(s, s[Limbs])
  IN  [k \in Indices |-> r[k]]

-----------------------------------------------------------------------------
(* fe_frombytes_impl, limb k of ten, from eight words of 32 bits.          *)
fe_frombytes(k) ==
  LET a(i) == LoadLE(4 * i, 32)
      Join(i, r, n, l) == ShrBits(a(i), r) \cup ShlBits(LowBits(a(i + 1), n), l, 32)
  IN  CASE k = 0 -> LowBits(a(0), 26)
        [] k = 1 -> Join(0, 26, 19, 6)
        [] k = 2 -> Join(1, 19, 13, 13)
        [] k = 3 -> Join(2, 13, 6, 19)
        [] k = 4 -> ShrBits(a(3), 6)
        [] k = 5 -> LowBits(a(4), 25)
        [] k = 6 -> Join(4, 25, 19, 7)
        [] k = 7 -> Join(5, 19, 12, 13)
        [] k = 8 -> Join(6, 12, 6, 20)
        [] k = 9 -> LowBits(ShrBits(a(7), 6), 25)

Offset(k) == 25 * k + (k + 1) \div 2
H(k) == LimbBits(Offset(k), IF k % 2 = 0 THEN 26 ELSE 25)

(* fe_tobytes: for each byte, the limb it starts in and the right shift there,
   and the left shift of the next limb for the bytes that hold two.        *)
ByteOf == << <<0, 0>>, <<0, 8>>, <<0, 16>>, <<0, 24, 2>>, <<1, 6>>, <<1, 14>>, <<1, 22, 3>>, <<2, 5>>,
             <<2, 13>>, <<2, 21, 5>>, <<3, 3>>, <<3, 11>>, <<3, 19, 6>>, <<4, 2>>, <<4, 10>>, <<4, 18>>,
             <<5, 0>>, <<5, 8>>, <<5, 16>>, <<5, 24, 1>>, <<6, 7>>, <<6, 15>>, <<6, 23, 3>>, <<7, 5>>,
             <<7, 13>>, <<7, 21, 4>>, <<8, 4>>, <<8, 12>>, <<8, 20, 6>>, <<9, 2>>, <<9, 10>>, <<9, 18>> >>

fe_tobytes(n) ==
  LET e == ByteOf[n + 1]
  IN  LowBits(ShrBits(H(e[1]), e[2]) \cup (IF Len(e) = 3 THEN ShlBits(H(e[1] + 1), e[3], 32) ELSE {}), 8)

-----------------------------------------------------------------------------
Init ==
  /\ result = None
  /\ \/ op \in {"add", "sub"} /\ f \in Tight /\ g \in Tight
     \/ op = "mul" /\ f \in Loose /\ g \in Loose
     \/ op \in {"sq", "mul121666"} /\ f \in Loose /\ g = None
     \/ op = "freeze" /\ f \in Tight /\ g = None

Add == op = "add" /\ result' = fe_add(f, g)
Subtract == op = "sub" /\ result' = fe_sub(f, g)
Multiply == op = "mul" /\ result' = fe_mul(f, g)
Square == op = "sq" /\ result' = fe_sq(f)
Scale == op = "mul121666" /\ result' = fe_mul121666(f)
Freeze == op = "freeze" /\ result' = fe_freeze(f)

Next ==
  \/ result = None /\ (Add \/ Subtract \/ Multiply \/ Square \/ Scale \/ Freeze) /\ UNCHANGED <<op, f, g>>
  \/ result # None /\ UNCHANGED vars

Spec == Init /\ [][Next]_vars

-----------------------------------------------------------------------------
(* The number each operation is meant to have, modulo the prime.           *)
Meant ==
  LET x == Number(f) % P
      y == Number(g) % P
  IN  CASE op = "add" -> x + y
        [] op = "sub" -> x - y
        [] op = "mul" -> x * y
        [] op = "sq" -> x * x
        [] op = "mul121666" -> x * Factor
        [] op = "freeze" -> x

(* Whatever is doubled, folded and carried, each operation's result is congruent
   to what it is meant to be.                                              *)
Congruent == result # None => Number(result) % P = Meant % P

(* The bounds that the file's types state: a tight limb is at most 1.125, a loose
   one 3.375 times its power of two.                                       *)
IsLoose(x) == \A k \in Indices : x[k] >= 0 /\ 1000 * x[k] =< 3375 * B(k)

(* Addition and subtraction of tight elements give loose ones: no limb of the
   unsigned difference is below zero.                                      *)
SumsAreLoose == op \in {"add", "sub"} /\ result # None => IsLoose(result)

(* fe_freeze gives the one form below the prime, of every tight element.   *)
FreezeCanonical ==
  op = "freeze" /\ result # None => Number(result) < P /\ \A k \in Indices : result[k] < B(k)

(* The limbs cut out of 32 bytes are those of the number without its highest bit,
   and fe_tobytes puts every one of those bits back where it was.          *)
BytesRoundTrip ==
  op = "freeze" =>
    /\ \A k \in 0 .. 9 : fe_frombytes(k) = H(k)
    /\ \A n \in 0 .. 31 : fe_tobytes(n) = LimbBits(8 * n, IF n = 31 THEN 7 ELSE 8)
=============================================================================
